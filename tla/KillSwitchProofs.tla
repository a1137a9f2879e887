-------------------------- MODULE KillSwitchProofs --------------------------
(***************************************************************************)
(* Theorems about KillSwitch for any packages, versions, labels and number *)
(* of users.  The inductive invariant says of each process q that has made *)
(* its list where every name it owns (Owns: untouched by others, one       *)
(* target) stands between its plan and the firewall.                       *)
(***************************************************************************)
EXTENDS KillSwitch, TLAPS

(* Before its list a process has planned nothing; only Apply adds rules.   *)
Shape(q) ==
    /\ pc[q] \in {"idle", "resolve"} => targets[q] = {} /\ cmd[q] \in Commands
    /\ ~HasListed(q) => toAdd[q] = {} /\ toRemove[q] = {}
    /\ cmd[q] = "remove" => targets[q] = {} /\ pc[q] # "resolve"
    /\ pc[q] = "task" => toRemove[q] = {}
    /\ toAdd[q] \subseteq targets[q]

(* A target is still to be added, or has its rule and no removal coming. *)
TargetsPlaced(q) ==
    \A t \in targets[q] : Owns(q, t.name) =>
        \/ t \in toAdd[q]
        \/ t \in rules /\ t.name \notin NamesOf(toRemove[q])

(* A rule under a name without a target waits for its removal. *)
OrphansPending(q) ==
    pc[q] = "rules" =>
        NamesOf(rules) \subseteq
            NamesOf(targets[q]) \cup touched[q] \cup NamesOf(toRemove[q])

(* A rule in the way of one to add waits for its removal. *)
StalePending(q) ==
    pc[q] = "rules" => \A t \in toAdd[q] :
        Owns(q, t.name) /\ t.name \in NamesOf(rules)
            => t.name \in NamesOf(toRemove[q])

(* A removal that would take a target's rule does so only among duplicates. *)
RemovalsStale(q) ==
    \A c \in toRemove[q], t \in targets[q] :
        c.name = t.name /\ Owns(q, t.name) /\ t \in rules
            => Named(t.name, rules) # {t}

(* Of the targets of a label one is still to be added, or has its rule and  *)
(* no removal of that name coming.                                         *)
LabelPlaced(q) ==
    pc[q] = "rules" => \A t \in targets[q] : t.name \notin touched[q] =>
        \/ t.name \in NamesOf(toAdd[q])
        \/ t.name \in NamesOf(rules \cap targets[q]) /\ t.name \notin NamesOf(toRemove[q])

PlanInv(q) ==
    /\ Shape(q)
    /\ LabelPlaced(q)
    /\ TargetsPlaced(q)
    /\ OrphansPending(q)
    /\ StalePending(q)
    /\ RemovalsStale(q)

IInv == TypeOK /\ \A q \in Proc : PlanInv(q)

-----------------------------------------------------------------------------
(* What a plan contains comes from the targets and the listed rules, and   *)
(* has the type of rules.                                                  *)
LEMMA PlanType ==
    ASSUME NEW T \in SUBSET Rule, NEW E \in SUBSET Rule, NEW f
    PROVE  /\ ComputePlan(T, E, f).add \subseteq T
           /\ ComputePlan(T, E, f).remove \subseteq T \cup E
           /\ ComputePlan(T, E, f).add \in SUBSET Rule
           /\ ComputePlan(T, E, f).remove \in SUBSET Rule
BY DEF ComputePlan

LEMMA ResolvedType == ASSUME TypeOK PROVE Resolved \in SUBSET Rule
BY DEF TypeOK, Resolved, Rule, Names, LastByName

(* The two lemmas below carry every action that only ends a process, or    *)
(* that changes rules of one name only.                                    *)
LEMMA TouchType ==
    ASSUME TypeOK, NEW p \in Proc, NEW n \in Names, Touch(p, n)
    PROVE  touched' \in [Proc -> SUBSET Names]
BY DEF Touch, TypeOK

LEMMA EndType ==
    ASSUME TypeOK, NEW p \in Proc, End(p)
    PROVE  /\ pc' \in [Proc -> {"idle", "resolve", "list", "rules", "task"}]
           /\ cmd' \in [Proc -> Commands]
           /\ targets' \in [Proc -> SUBSET Rule]
           /\ toRemove' \in [Proc -> SUBSET Rule]
           /\ toAdd' \in [Proc -> SUBSET Rule]
BY DEF End, TypeOK, Commands

(* Every variable keeps its type. *)
LEMMA TypeStep == TypeOK /\ [Next]_vars => TypeOK'
<1> SUFFICES ASSUME TypeOK, [Next]_vars PROVE TypeOK'
    OBVIOUS
<1> USE DEF apps, local, vars
<1>1. ASSUME NEW p \in Proc, NEW c \in Commands, Start(p, c) PROVE TypeOK'
      BY <1>1 DEF Start, TypeOK
<1>2. CASE RefreshFires
      <2>1. Refresh \in Proc /\ "apply --no-persist" \in Commands
            BY DEF Proc, Commands
      <2> QED BY <1>1, <1>2, <2>1 DEF RefreshFires
<1>3. ASSUME NEW p \in Users, UserCommand(p) PROVE TypeOK'
      BY <1>1, <1>3 DEF UserCommand, Proc
<1>4. CASE PackageChange
      BY <1>4 DEF PackageChange, TypeOK
<1>5. CASE VersionChange
      BY <1>5 DEF VersionChange, TypeOK
<1>6. ASSUME NEW p \in Proc, Resolve(p) PROVE TypeOK'
      BY <1>6, ResolvedType DEF Resolve, TypeOK
<1>7. ASSUME NEW p \in Proc, List(p) PROVE TypeOK'
      <2>1. rules \in SUBSET Rule /\ targets[p] \in SUBSET Rule
            BY DEF TypeOK
      <2>2. CASE ListRemove(p)
            BY <1>7, <2>1, <2>2 DEF List, ListRemove, TypeOK
      <2>3. CASE ListPlan(p)
            <3>1. PICK f \in ByNames(rules) :
                    LET plan == ComputePlan(targets[p], rules, f)
                    IN  /\ toAdd' = [toAdd EXCEPT ![p] = plan.add]
                        /\ IF cmd[p] = "status"
                           THEN /\ pc' = [pc EXCEPT ![p] = "task"]
                                /\ UNCHANGED toRemove
                           ELSE /\ pc' = [pc EXCEPT ![p] = "rules"]
                                /\ toRemove' = [toRemove EXCEPT ![p] = plan.remove]
                  BY <2>3 DEF ListPlan
            <3>2. /\ ComputePlan(targets[p], rules, f).add \in SUBSET Rule
                  /\ ComputePlan(targets[p], rules, f).remove \in SUBSET Rule
                  BY <2>1, PlanType
            <3> QED BY <1>7, <3>1, <3>2 DEF List, TypeOK
      <2> QED BY <1>7, <2>2, <2>3 DEF List
<1>8. ASSUME NEW p \in Proc, RemoveRule(p) PROVE TypeOK'
      <2>1. PICK c \in toRemove[p] :
              /\ rules' = rules \ Named(c.name, rules)
              /\ toRemove' = [toRemove EXCEPT ![p] = @ \ {c}]
              /\ Touch(p, c.name)
            BY <1>8 DEF RemoveRule
      <2>2. c.name \in Names
            BY DEF TypeOK, Rule
      <2>3. touched' \in [Proc -> SUBSET Names]
            BY <2>1, <2>2, TouchType
      <2> QED BY <1>8, <2>1, <2>3 DEF RemoveRule, TypeOK
<1>9. ASSUME NEW p \in Proc, AddRule(p) PROVE TypeOK'
      <2>1. PICK t \in toAdd[p] :
              /\ rules' = rules \cup {t}
              /\ toAdd' = [toAdd EXCEPT ![p] = @ \ {t}]
              /\ Touch(p, t.name)
            BY <1>9 DEF AddRule
      <2>2. t \in Rule /\ t.name \in Names
            BY DEF TypeOK, Rule
      <2>3. touched' \in [Proc -> SUBSET Names]
            BY <2>1, <2>2, TouchType
      <2> QED BY <1>9, <2>1, <2>2, <2>3 DEF AddRule, TypeOK
<1>10. ASSUME NEW p \in Proc, Finish(p) PROVE TypeOK'
      <2>1. task' \in BOOLEAN
            BY <1>10 DEF Finish, TypeOK
      <2> QED BY <1>10, <2>1, EndType DEF Finish, TypeOK
<1>11. ASSUME NEW p \in Proc, Fail(p) PROVE TypeOK'
      <2>1. rules' \in SUBSET Rule /\ touched' \in [Proc -> SUBSET Names]
            <3>1. CASE UNCHANGED <<rules, touched>>
                  BY <3>1 DEF TypeOK
            <3>2. ASSUME NEW c \in toRemove[p], NEW gone \in SUBSET rules,
                         rules' = rules \ gone, Touch(p, c.name)
                  PROVE  rules' \in SUBSET Rule /\ touched' \in [Proc -> SUBSET Names]
                  <4>1. c.name \in Names
                        BY DEF TypeOK, Rule
                  <4> QED BY <3>2, <4>1, TouchType DEF TypeOK
            <3> QED BY <1>11, <3>1, <3>2 DEF Fail
      <2> QED BY <1>11, <2>1, EndType DEF Fail, TypeOK
<1>12. CASE UNCHANGED vars
      BY <1>12 DEF TypeOK
<1> QED BY <1>2, <1>3, <1>4, <1>5, <1>6, <1>7, <1>8, <1>9, <1>10, <1>11, <1>12
        DEF Next, Step

(* Type correctness of the whole component, for any constants. *)
THEOREM KillSwitchTyped == Spec => []TypeOK
<1>1. Init => TypeOK
      BY DEF Init, TypeOK, Commands
<1> QED BY <1>1, TypeStep, PTL DEF Spec

-----------------------------------------------------------------------------
(* What a step of another process leaves of q: its locals, and the rules   *)
(* of every name not marked as touched.                                    *)
Bystander(q) ==
    /\ pc'[q] = pc[q] /\ cmd'[q] = cmd[q] /\ targets'[q] = targets[q]
    /\ toRemove'[q] = toRemove[q] /\ toAdd'[q] = toAdd[q]
    /\ touched[q] \subseteq touched'[q]
    /\ HasListed(q) =>
         \A r \in Rule : r.name \notin touched'[q] => (r \in rules <=> r \in rules')

LEMMA BystanderKeeps ==
    ASSUME TypeOK, TypeOK', NEW q \in Proc, PlanInv(q), Bystander(q)
    PROVE  PlanInv(q)'
<1>1. \A m : Owns(q, m)' => /\ Owns(q, m) /\ HasListed(q)
                            /\ m \notin touched'[q]
      BY DEF Owns, HasListed, Bystander
<1>2. Shape(q)'
      BY DEF PlanInv, Shape, Bystander, HasListed
<1>3. TargetsPlaced(q)'
      <2> SUFFICES ASSUME NEW t \in targets[q], Owns(q, t.name)',
                          t \notin toAdd[q]
                   PROVE  t \in rules' /\ t.name \notin NamesOf(toRemove[q])
          BY DEF TargetsPlaced, Bystander
      <2>1. t \in rules /\ t.name \notin NamesOf(toRemove[q])
            BY <1>1 DEF PlanInv, TargetsPlaced
      <2> QED BY <1>1, <2>1 DEF Bystander, TypeOK
<1>4. OrphansPending(q)'
      <2> SUFFICES ASSUME pc[q] = "rules", NEW r \in rules', r.name \notin touched'[q]
                   PROVE  r.name \in NamesOf(targets[q]) \cup NamesOf(toRemove[q])
          BY DEF OrphansPending, Bystander, NamesOf
      <2>1. r \in Rule /\ HasListed(q)
            BY DEF HasListed, TypeOK
      <2>2. r \in rules /\ r.name \notin touched[q]
            BY <2>1 DEF Bystander
      <2> QED BY <2>2 DEF PlanInv, OrphansPending, NamesOf
<1>5. StalePending(q)'
      <2> SUFFICES ASSUME pc[q] = "rules", NEW t \in toAdd[q], Owns(q, t.name)',
                          NEW r \in rules', r.name = t.name
                   PROVE  t.name \in NamesOf(toRemove[q])
          BY DEF StalePending, Bystander, NamesOf
      <2>1. r \in rules /\ Owns(q, t.name)
            BY <1>1 DEF Bystander, TypeOK
      <2> QED BY <2>1 DEF PlanInv, StalePending, NamesOf
<1>6. RemovalsStale(q)'
      <2> SUFFICES ASSUME NEW c \in toRemove[q], NEW t \in targets[q], c.name = t.name,
                          Owns(q, t.name)', t \in rules', Named(t.name, rules') = {t}
                   PROVE  FALSE
          BY DEF RemovalsStale, Bystander, Named
      <2>1. t \in rules
            BY <1>1 DEF Bystander, TypeOK
      <2>2. Named(t.name, rules) = {t}
            BY <1>1, <2>1 DEF Bystander, Named, TypeOK
      <2> QED BY <1>1, <2>1, <2>2 DEF PlanInv, RemovalsStale
<1>7. LabelPlaced(q)'
      <2> SUFFICES ASSUME pc[q] = "rules", NEW t \in targets[q], t.name \notin touched'[q],
                          t.name \notin NamesOf(toAdd[q])
                   PROVE  /\ t.name \in NamesOf(rules' \cap targets[q])
                          /\ t.name \notin NamesOf(toRemove[q])
          BY DEF LabelPlaced, Bystander
      <2>1. HasListed(q) /\ t.name \notin touched[q]
            BY DEF HasListed, Bystander
      <2>2. /\ t.name \in NamesOf(rules \cap targets[q])
            /\ t.name \notin NamesOf(toRemove[q])
            BY <2>1 DEF PlanInv, LabelPlaced
      <2>3. PICK r \in rules \cap targets[q] : r.name = t.name
            BY <2>2 DEF NamesOf
      <2>4. r \in rules'
            BY <2>1, <2>3 DEF Bystander, TypeOK
      <2> QED BY <2>2, <2>3, <2>4 DEF NamesOf
<1> QED BY <1>2, <1>3, <1>4, <1>5, <1>6, <1>7 DEF PlanInv

(* A process that ends owns nothing and plans nothing. *)
LEMMA EndKeeps ==
    ASSUME TypeOK, NEW p \in Proc, End(p)
    PROVE  PlanInv(p)'
<1>1. /\ pc'[p] = "idle" /\ cmd'[p] = "apply" /\ targets'[p] = {}
      /\ toRemove'[p] = {} /\ toAdd'[p] = {}
      BY DEF End, TypeOK
<1> QED BY <1>1 DEF PlanInv, Shape, TargetsPlaced, OrphansPending, StalePending,
                    RemovalsStale, LabelPlaced, HasListed, Commands

(* The plan Apply or Status makes of its list meets the invariant. *)
LEMMA ListKeeps ==
    ASSUME TypeOK, NEW p \in Proc, PlanInv(p), List(p)
    PROVE  PlanInv(p)'
<1>1. /\ targets'[p] = targets[p] /\ cmd'[p] = cmd[p] /\ rules' = rules
      /\ touched'[p] = {} /\ targets[p] \subseteq Rule /\ rules \subseteq Rule
      /\ toAdd[p] = {} /\ toRemove[p] = {}
      BY DEF List, TypeOK, PlanInv, Shape, HasListed
<1>2. CASE ListRemove(p)
      <2>1. /\ pc'[p] = "rules" /\ toRemove'[p] = rules /\ toAdd'[p] = {}
            /\ targets[p] = {} /\ cmd[p] = "remove"
            BY <1>1, <1>2 DEF ListRemove, TypeOK, PlanInv, Shape
      <2> QED BY <1>1, <2>1 DEF PlanInv, Shape, TargetsPlaced, OrphansPending,
                                StalePending, RemovalsStale, LabelPlaced,
                                HasListed
<1>3. CASE ListPlan(p)
      <2>1. PICK f \in ByNames(rules) :
              LET plan == ComputePlan(targets[p], rules, f)
              IN  /\ toAdd' = [toAdd EXCEPT ![p] = plan.add]
                  /\ IF cmd[p] = "status"
                     THEN /\ pc' = [pc EXCEPT ![p] = "task"]
                          /\ UNCHANGED toRemove
                     ELSE /\ pc' = [pc EXCEPT ![p] = "rules"]
                          /\ toRemove' = [toRemove EXCEPT ![p] = plan.remove]
            BY <1>3 DEF ListPlan
      <2> DEFINE plan == ComputePlan(targets[p], rules, f)
      <2>2. /\ toAdd'[p] = plan.add
            /\ \/ pc'[p] = "task" /\ toRemove'[p] = {}
               \/ pc'[p] = "rules" /\ toRemove'[p] = plan.remove
            BY <1>1, <2>1 DEF TypeOK
      <2>3. cmd[p] # "remove"
            BY <1>3 DEF ListPlan
      <2>4. \A n \in NamesOf(rules) : f[n] \in rules /\ f[n].name = n
            BY DEF ByNames
      <2>5. plan.add \subseteq targets[p]
            BY <1>1, PlanType
      <2>6. \A t \in targets[p] : t \in plan.add <=> t \notin Kept(targets[p], rules, f)
            BY DEF ComputePlan
      <2>7. \A t \in Kept(targets[p], rules, f) : t \in rules
            BY <1>1, <2>4 DEF Kept, Rule
      <2>8. \A c : c \in plan.remove <=>
                     \/ c \in plan.add /\ c.name \in NamesOf(rules)
                     \/ c \in rules /\ c.name \notin NamesOf(targets[p])
            BY DEF ComputePlan
      <2>9. ASSUME NEW c \in plan.remove, NEW t \in targets[p], c.name = t.name,
                   Owns(p, t.name)'
            PROVE  c = t /\ t \in plan.add /\ t.name \in NamesOf(rules)
            BY <1>1, <2>5, <2>8, <2>9 DEF Owns, NamesOf
      <2>10. Shape(p)'
             BY <1>1, <2>2, <2>3, <2>5 DEF Shape, HasListed
      <2>11. TargetsPlaced(p)'
             <3> SUFFICES ASSUME NEW t \in targets[p], Owns(p, t.name)', t \notin plan.add
                          PROVE  t \in rules /\ t.name \notin NamesOf(toRemove'[p])
                 BY <1>1, <2>2 DEF TargetsPlaced
             <3>1. t.name \notin NamesOf(plan.remove)
                   BY <2>9 DEF NamesOf
             <3> QED BY <2>2, <2>6, <2>7, <3>1 DEF NamesOf
      <2>12. OrphansPending(p)'
             BY <1>1, <2>2, <2>8 DEF OrphansPending, NamesOf
      <2>13. StalePending(p)'
             BY <1>1, <2>2, <2>8 DEF StalePending, NamesOf
      <2>14. RemovalsStale(p)'
             <3> SUFFICES ASSUME NEW c \in plan.remove, NEW t \in targets[p],
                                 c.name = t.name, Owns(p, t.name)', t \in rules
                          PROVE  Named(t.name, rules) # {t}
                 BY <1>1, <2>2 DEF RemovalsStale
             <3>1. t \notin Kept(targets[p], rules, f) /\ t.name \in NamesOf(rules)
                   BY <2>6, <2>9
             <3>2. f[t.name] # t
                   BY <3>1 DEF Kept
             <3>3. f[t.name] \in Named(t.name, rules)
                   BY <2>4, <3>1 DEF Named
             <3> QED BY <3>2, <3>3
      <2>15. LabelPlaced(p)'
             <3> SUFFICES ASSUME pc'[p] = "rules", NEW t \in targets[p],
                                 t.name \notin NamesOf(plan.add)
                          PROVE  /\ t.name \in NamesOf(rules \cap targets[p])
                                 /\ t.name \notin NamesOf(plan.remove)
                 BY <1>1, <2>2 DEF LabelPlaced
             <3>1. t \in rules
                   BY <2>6, <2>7 DEF NamesOf
             <3>2. t.name \notin NamesOf(plan.remove)
                   BY <2>8 DEF NamesOf
             <3> QED BY <3>1, <3>2 DEF NamesOf
      <2> QED BY <2>10, <2>11, <2>12, <2>13, <2>14, <2>15 DEF PlanInv
<1> QED BY <1>2, <1>3 DEF List

(* A removal call takes a whole name off both the list and the firewall. *)
LEMMA RemoveKeeps ==
    ASSUME TypeOK, NEW p \in Proc, PlanInv(p), RemoveRule(p)
    PROVE  PlanInv(p)'
<1>1. PICK c \in toRemove[p] :
        /\ rules' = rules \ Named(c.name, rules)
        /\ toRemove' = [toRemove EXCEPT ![p] = @ \ {c}]
        /\ Touch(p, c.name)
      BY DEF RemoveRule
<1>2. /\ pc'[p] = pc[p] /\ pc[p] = "rules" /\ cmd'[p] = cmd[p]
      /\ targets'[p] = targets[p] /\ toAdd'[p] = toAdd[p]
      /\ toRemove'[p] = toRemove[p] \ {c} /\ touched'[p] = touched[p]
      BY <1>1 DEF RemoveRule, Touch, TypeOK
<1>3. \A r : r \in rules' <=> r \in rules /\ r.name # c.name
      BY <1>1 DEF Named
<1>4. \A m : Owns(p, m)' <=> Owns(p, m)
      BY <1>2 DEF Owns, HasListed
<1>5. Shape(p)'
      BY <1>2 DEF PlanInv, Shape, HasListed
<1>6. TargetsPlaced(p)'
      <2> SUFFICES ASSUME NEW t \in targets[p], Owns(p, t.name), t \notin toAdd[p]
                   PROVE  t \in rules' /\ t.name \notin NamesOf(toRemove'[p])
          BY <1>2, <1>4 DEF TargetsPlaced
      <2>1. t \in rules /\ t.name \notin NamesOf(toRemove[p])
            BY DEF PlanInv, TargetsPlaced
      <2> QED BY <1>2, <1>3, <2>1 DEF NamesOf
<1>7. OrphansPending(p)'
      BY <1>2, <1>3 DEF PlanInv, OrphansPending, NamesOf
<1>8. StalePending(p)'
      BY <1>2, <1>3, <1>4 DEF PlanInv, StalePending, NamesOf
<1>9. RemovalsStale(p)'
      <2> SUFFICES ASSUME NEW d \in toRemove[p], NEW t \in targets[p], d.name = t.name,
                          Owns(p, t.name), t \in rules', Named(t.name, rules') = {t}
                   PROVE  FALSE
          BY <1>2, <1>4 DEF RemovalsStale
      <2>1. t \in rules /\ Named(t.name, rules) = {t}
            BY <1>3 DEF Named
      <2> QED BY <2>1 DEF PlanInv, RemovalsStale
<1>10. LabelPlaced(p)'
      <2> SUFFICES ASSUME NEW t \in targets[p], t.name \notin touched[p],
                          t.name \notin NamesOf(toAdd[p])
                   PROVE  /\ t.name \in NamesOf(rules' \cap targets[p])
                          /\ t.name \notin NamesOf(toRemove'[p])
          BY <1>2 DEF LabelPlaced
      <2>1. /\ t.name \in NamesOf(rules \cap targets[p])
            /\ t.name \notin NamesOf(toRemove[p])
            BY <1>2 DEF PlanInv, LabelPlaced
      <2>2. c.name # t.name
            BY <2>1 DEF NamesOf
      <2> QED BY <1>2, <1>3, <2>1, <2>2 DEF NamesOf
<1> QED BY <1>5, <1>6, <1>7, <1>8, <1>9, <1>10 DEF PlanInv

(* An add call moves a target from the plan to the firewall. *)
LEMMA AddKeeps ==
    ASSUME TypeOK, NEW p \in Proc, PlanInv(p), AddRule(p)
    PROVE  PlanInv(p)'
<1>1. PICK t \in toAdd[p] :
        /\ rules' = rules \cup {t}
        /\ toAdd' = [toAdd EXCEPT ![p] = @ \ {t}]
        /\ Touch(p, t.name)
      BY DEF AddRule
<1>2. /\ pc'[p] = pc[p] /\ pc[p] = "rules" /\ cmd'[p] = cmd[p]
      /\ targets'[p] = targets[p] /\ toRemove'[p] = toRemove[p]
      /\ toAdd'[p] = toAdd[p] \ {t} /\ touched'[p] = touched[p]
      /\ toRemove[p] = {} /\ t \in targets[p]
      BY <1>1 DEF AddRule, Touch, TypeOK, PlanInv, Shape
<1>3. \A m : Owns(p, m)' <=> Owns(p, m)
      BY <1>2 DEF Owns, HasListed
<1>4. Shape(p)'
      BY <1>2 DEF PlanInv, Shape, HasListed
<1>5. TargetsPlaced(p)'
      BY <1>1, <1>2, <1>3 DEF PlanInv, TargetsPlaced, NamesOf
<1>6. OrphansPending(p)'
      BY <1>1, <1>2 DEF PlanInv, OrphansPending, NamesOf
<1>7. StalePending(p)'
      <2> SUFFICES ASSUME NEW u \in toAdd[p] \ {t}, Owns(p, u.name),
                          u.name \in NamesOf(rules')
                   PROVE  u.name \in NamesOf(toRemove[p])
          BY <1>2, <1>3 DEF StalePending
      <2>1. u.name # t.name
            BY <1>2 DEF Owns, PlanInv, Shape
      <2>2. u.name \in NamesOf(rules)
            BY <1>1, <2>1 DEF NamesOf
      <2> QED BY <1>2, <2>2 DEF PlanInv, StalePending
<1>8. RemovalsStale(p)'
      BY <1>2 DEF RemovalsStale
<1>9. LabelPlaced(p)'
      <2> SUFFICES ASSUME NEW u \in targets[p], u.name \notin touched[p],
                          u.name \notin NamesOf(toAdd[p] \ {t})
                   PROVE  u.name \in NamesOf(rules' \cap targets[p])
          BY <1>2 DEF LabelPlaced, NamesOf
      <2>1. CASE u.name = t.name
            BY <1>1, <1>2, <2>1 DEF NamesOf
      <2>2. CASE u.name # t.name
            <3>1. u.name \in NamesOf(rules \cap targets[p])
                  BY <1>2, <2>2 DEF PlanInv, LabelPlaced, NamesOf
            <3> QED BY <1>1, <3>1 DEF NamesOf
      <2> QED BY <2>1, <2>2
<1> QED BY <1>4, <1>5, <1>6, <1>7, <1>8, <1>9 DEF PlanInv

(* The end of a process, failing or not, changes rules of one name at most. *)
LEMMA FailSpares ==
    ASSUME TypeOK, NEW p \in Proc, NEW q \in Proc, q # p, Fail(p)
    PROVE  Bystander(q)
<1>1. /\ pc'[q] = pc[q] /\ cmd'[q] = cmd[q] /\ targets'[q] = targets[q]
      /\ toRemove'[q] = toRemove[q] /\ toAdd'[q] = toAdd[q]
      BY DEF Fail, End, TypeOK
<1>2. CASE UNCHANGED <<rules, touched>>
      BY <1>1, <1>2 DEF Bystander
<1>3. ASSUME NEW c \in toRemove[p], NEW gone \in SUBSET rules,
             gone \subseteq Named(c.name, rules), rules' = rules \ gone,
             Touch(p, c.name)
      PROVE  Bystander(q)
      <2>1. touched'[q] = IF HasListed(q) THEN touched[q] \cup {c.name} ELSE touched[q]
            BY <1>3 DEF Touch
      <2> QED BY <1>1, <1>3, <2>1 DEF Bystander, Named
<1> QED BY <1>2, <1>3 DEF Fail

LEMMA StepSpares ==
    ASSUME TypeOK, NEW p \in Proc, NEW q \in Proc, q # p, Step(p)
    PROVE  Bystander(q)
<1>1. CASE Resolve(p)
      BY <1>1 DEF Resolve, Bystander, TypeOK
<1>2. CASE List(p)
      BY <1>2 DEF List, ListRemove, ListPlan, Bystander, TypeOK
<1>3. CASE RemoveRule(p)
      <2>1. PICK c \in toRemove[p] : /\ rules' = rules \ Named(c.name, rules)
                                     /\ toRemove' = [toRemove EXCEPT ![p] = @ \ {c}]
                                     /\ Touch(p, c.name)
            BY <1>3 DEF RemoveRule
      <2>2. touched'[q] = IF HasListed(q) THEN touched[q] \cup {c.name} ELSE touched[q]
            BY <2>1 DEF Touch
      <2> QED BY <1>3, <2>1, <2>2 DEF RemoveRule, Bystander, Named, TypeOK
<1>4. CASE AddRule(p)
      <2>1. PICK t \in toAdd[p] : /\ rules' = rules \cup {t}
                                  /\ toAdd' = [toAdd EXCEPT ![p] = @ \ {t}]
                                  /\ Touch(p, t.name)
            BY <1>4 DEF AddRule
      <2>2. touched'[q] = IF HasListed(q) THEN touched[q] \cup {t.name} ELSE touched[q]
            BY <2>1 DEF Touch
      <2> QED BY <1>4, <2>1, <2>2 DEF AddRule, Bystander, TypeOK
<1>5. CASE Finish(p)
      BY <1>5 DEF Finish, End, Bystander, TypeOK
<1> QED BY <1>1, <1>2, <1>3, <1>4, <1>5 DEF Step

(* A process that has no list yet meets the invariant by its shape alone. *)
LEMMA UnlistedKeeps ==
    ASSUME NEW q \in Proc, Shape(q)', ~HasListed(q)'
    PROVE  PlanInv(q)'
BY DEF PlanInv, Shape, TargetsPlaced, OrphansPending, StalePending, RemovalsStale,
       LabelPlaced, HasListed, Owns

LEMMA InvInit == Init => IInv
<1> SUFFICES ASSUME Init PROVE IInv
    OBVIOUS
<1>1. TypeOK
      BY DEF Init, TypeOK, Commands
<1>2. \A q \in Proc : PlanInv(q)
      BY DEF Init, PlanInv, Shape, TargetsPlaced, OrphansPending, StalePending,
             RemovalsStale, LabelPlaced, HasListed, Owns, Commands
<1> QED BY <1>1, <1>2 DEF IInv

LEMMA StepKeeps ==
    ASSUME TypeOK, TypeOK', NEW p \in Proc, PlanInv(p), Step(p)
    PROVE  PlanInv(p)'
<1>1. CASE Resolve(p)
      BY <1>1, UnlistedKeeps DEF Resolve, TypeOK, PlanInv, Shape, HasListed
<1>2. CASE List(p)
      BY <1>2, ListKeeps
<1>3. CASE RemoveRule(p)
      BY <1>3, RemoveKeeps
<1>4. CASE AddRule(p)
      BY <1>4, AddKeeps
<1>5. CASE Finish(p)
      BY <1>5, EndKeeps DEF Finish
<1> QED BY <1>1, <1>2, <1>3, <1>4, <1>5 DEF Step

LEMMA InvStep == IInv /\ [Next]_vars => IInv'
<1> SUFFICES ASSUME IInv, [Next]_vars PROVE IInv'
    OBVIOUS
<1>1. TypeOK /\ TypeOK' /\ \A q \in Proc : PlanInv(q)
      BY TypeStep DEF IInv
<1>2. ASSUME NEW p \in Proc, NEW c \in Commands, Start(p, c), NEW q \in Proc
      PROVE  PlanInv(q)'
      <2>1. CASE q # p
            <3>1. Bystander(q)
                  BY <1>1, <1>2, <2>1 DEF Start, Bystander, TypeOK
            <3> QED BY <1>1, <3>1, BystanderKeeps
      <2>2. CASE q = p
            BY <1>1, <1>2, <2>2, UnlistedKeeps
               DEF Start, TypeOK, PlanInv, Shape, HasListed, Commands
      <2> QED BY <2>1, <2>2
<1>3. ASSUME RefreshFires, NEW q \in Proc PROVE PlanInv(q)'
      <2>1. Refresh \in Proc /\ "apply --no-persist" \in Commands
            BY DEF Proc, Commands
      <2> QED BY <1>2, <1>3, <2>1 DEF RefreshFires
<1>4. ASSUME NEW p \in Users, UserCommand(p), NEW q \in Proc PROVE PlanInv(q)'
      BY <1>2, <1>4 DEF UserCommand, Proc
<1>5. ASSUME UNCHANGED <<rules, local, touched>>, NEW q \in Proc PROVE PlanInv(q)'
      <2>1. Bystander(q)
            BY <1>5 DEF Bystander, local
      <2> QED BY <1>1, <2>1, BystanderKeeps
<1>6. ASSUME NEW p \in Proc, Step(p), NEW q \in Proc PROVE PlanInv(q)'
      <2>1. CASE q # p
            BY <1>1, <1>6, <2>1, StepSpares, BystanderKeeps
      <2>2. CASE q = p
            BY <1>1, <1>6, <2>2, StepKeeps
      <2> QED BY <2>1, <2>2
<1>7. ASSUME NEW p \in Proc, Fail(p), NEW q \in Proc PROVE PlanInv(q)'
      <2>1. CASE q # p
            BY <1>1, <1>7, <2>1, FailSpares, BystanderKeeps
      <2>2. CASE q = p
            BY <1>1, <1>7, <2>2, EndKeeps DEF Fail
      <2> QED BY <2>1, <2>2
<1>8. CASE PackageChange \/ VersionChange \/ UNCHANGED vars
      <2>1. UNCHANGED <<rules, local, touched>>
            BY <1>8 DEF PackageChange, VersionChange, vars
      <2> QED BY <1>1, <1>5, <2>1 DEF IInv
<1> QED BY <1>1, <1>3, <1>4, <1>6, <1>7, <1>8 DEF Next, IInv

LEMMA Invariance == Spec => []IInv
BY InvInit, InvStep, PTL DEF Spec

-----------------------------------------------------------------------------
(* A successful Apply, and a Status that reports coverage, leave no        *)
(* resolved target unblocked but by another command's meddling.            *)
THEOREM SuccessCovers == Spec => []SuccessMeansCovered
<1>1. IInv => SuccessMeansCovered
      BY DEF IInv, PlanInv, TargetsPlaced, SuccessMeansCovered, RulesDone, AllCovered
<1> QED BY <1>1, Invariance, PTL

(* Of several targets of one label Apply leaves one blocked. *)
THEOREM LabelsCovered == Spec => []LabelCovered
<1>1. IInv => LabelCovered
  <2> SUFFICES ASSUME IInv, NEW p \in Proc, RulesDone(p), NEW t \in targets[p],
                      t.name \notin touched[p]
               PROVE  t.name \in NamesOf(rules \cap targets[p])
      BY DEF LabelCovered, NamesOf
  <2> QED BY DEF IInv, PlanInv, LabelPlaced, RulesDone, NamesOf
<1> QED BY <1>1, Invariance, PTL

(* Apply and Remove leave no managed rule but for their targets and for    *)
(* what another command put there meanwhile.                               *)
THEOREM RulesPruned == Spec => []LeavesNoOrphan
<1>1. IInv => LeavesNoOrphan
      BY DEF IInv, PlanInv, OrphansPending, LeavesNoOrphan, RulesDone, NamesOf
<1> QED BY <1>1, Invariance, PTL

(* No duplicate rule is ever made by a command that has the name to itself. *)
THEOREM NoDuplicates == Spec => NeverDuplicates
<1>1. ASSUME IInv, NEW p \in Proc, AddRule(p), NEW r \in rules' \ rules, Owns(p, r.name)
      PROVE  Named(r.name, rules) = {}
      <2>1. /\ pc[p] = "rules" /\ toRemove[p] = {} /\ r \in toAdd[p]
            BY <1>1 DEF AddRule
      <2>2. r.name \notin NamesOf(rules)
            BY <1>1, <2>1 DEF IInv, PlanInv, StalePending, NamesOf
      <2> QED BY <2>2 DEF Named, NamesOf
<1>2. IInv => [\A p \in Proc : AddRule(p) =>
                 \A r \in rules' \ rules : Owns(p, r.name) => Named(r.name, rules) = {}]_vars
      BY <1>1
<1> QED BY <1>2, Invariance, PTL DEF NeverDuplicates

(* No sole rule of a resolved target is ever taken off by its own command. *)
THEOREM CoverKept == Spec => NeverUncovers
<1>1. ASSUME IInv, NEW p \in Proc, RemoveRule(p), NEW t \in targets[p],
             Owns(p, t.name), t \in rules \ rules'
      PROVE  Named(t.name, rules) # {t}
      <2>1. PICK c \in toRemove[p] : rules' = rules \ Named(c.name, rules)
            BY <1>1 DEF RemoveRule
      <2>2. c.name = t.name
            BY <1>1, <2>1 DEF Named
      <2> QED BY <1>1, <2>2 DEF IInv, PlanInv, RemovalsStale
<1>2. IInv => [\A p \in Proc : RemoveRule(p) =>
                 \A t \in targets[p] :
                   Owns(p, t.name) /\ t \in rules \ rules'
                       => Named(t.name, rules) # {t}]_vars
      BY <1>1
<1> QED BY <1>2, Invariance, PTL DEF NeverUncovers

=============================================================================
