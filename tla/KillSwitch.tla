----------------------------- MODULE KillSwitch -----------------------------
(***************************************************************************)
(* The UDP kill switch (internal/killswitch, driven by runKillSwitch in    *)
(* internal/cli/cli.go): firewall rules that block the outbound UDP of the *)
(* AI desktop applications, and a scheduled task that applies them again   *)
(* every few minutes, because an update moves the application to a new     *)
(* path.                                                                   *)
(*                                                                         *)
(* Shared state lives in Windows, outside the program: the installed       *)
(* applications, the firewall's rules, the scheduled task.  Every command  *)
(* is a process of its own which reaches that state one PowerShell call    *)
(* at a time, so a user's command and the refresh task interleave call by  *)
(* call, each working from the targets it resolved and the rules it listed *)
(* earlier.  One action below is one PowerShell call.                      *)
(*                                                                         *)
(* A rule's name is determined by its target's label (ruleName), so names  *)
(* are labels here.  The identity a rule blocks and a target is found by   *)
(* is a package (its SID) or a version of the standalone build (the path   *)
(* of its executable): a rule and a target then are records of one shape,  *)
(* and a rule matches a target when their identities are equal.            *)
(***************************************************************************)
EXTENDS Integers

CONSTANTS Packages,      \* app-container packages the appx pattern may match
          PackageLabel,  \* the display name the resolve script gives each
          Versions,      \* releases of the standalone build, in release order
          NameRank,      \* where each release's directory name sorts
          Standalone,    \* the label of the standalone build
          Users,         \* interactive command lines
          Refresh        \* the process the scheduled task starts

VARIABLES packages,  \* the packages installed
          versions,  \* the versions whose directory exists
          rules,     \* the firewall rules under RulePrefix
          task,      \* whether RefreshTaskName is registered
          pc,        \* idle, or the call a process makes next
          cmd,       \* the command a process runs
          targets,   \* the targets it resolved
          toRemove,  \* the removals left: the rule or target behind each
          toAdd,     \* the targets left to add a rule for
          touched    \* history: names other processes changed since its List

apps  == <<packages, versions>>
local == <<pc, cmd, targets, toRemove, toAdd>>
vars  == <<packages, versions, rules, task, local, touched>>

Proc  == Users \cup {Refresh}
Names == {PackageLabel[k] : k \in Packages} \cup {Standalone}
Rule  == [name : Names, id : Packages \cup Versions]

ASSUME KillSwitchAssumption ==
    /\ Versions \subseteq Nat
    /\ Packages \cap Versions = {}
    /\ NameRank \in [Versions -> Nat]
    /\ Refresh \notin Users

Commands == {"status", "apply", "apply --no-persist", "remove"}

NamesOf(S)  == {r.name : r \in S}
Named(n, S) == {r \in S : r.name = n}

(* The release the user runs: the updater starts the newest one. *)
Newest(V) == {v \in V : \A w \in V : w <= v}

(* A slip: the first path instead of the last. *)
FirstByName(V) == {v \in V : \A w \in V : NameRank[v] <= NameRank[w]}

(* The resolve script takes the last path in string order. *)
LastByName(V) == {v \in V : \A w \in V : NameRank[w] <= NameRank[v]}

Resolved ==
    {[name |-> PackageLabel[k], id |-> k] : k \in packages}
        \cup {[name |-> Standalone, id |-> v] : v \in LastByName(versions)}

(* byName keeps one rule of each name, whichever the firewall lists last.  *)
ByNames(E) == {f \in [NamesOf(E) -> E] : \A n \in NamesOf(E) : f[n].name = n}

(* Slips: a rule kept for its name alone; a known rule always replaced. *)
KeptByName(T, E, byName) == {t \in T : t.name \in NamesOf(E)}
KeptNone(T, E, byName)   == {}

Kept(T, E, byName) ==
    {t \in T : t.name \in NamesOf(E) /\ byName[t.name].id = t.id}

(* Slips: a stale rule not removed; orphans not removed; names for rules. *)

PlanWithoutStale(T, E, byName) ==
    [add    |-> T \ Kept(T, E, byName),
     remove |-> {r \in E : r.name \notin NamesOf(T)}]

PlanWithoutOrphans(T, E, byName) ==
    LET add == T \ Kept(T, E, byName)
    IN  [add |-> add, remove |-> {t \in add : t.name \in NamesOf(E)}]

PlanOfNames(T, E, byName) ==
    [add    |-> T \ Kept(T, E, byName), remove |-> NamesOf(E)]

ComputePlan(T, E, byName) ==
    LET add == T \ Kept(T, E, byName)
    IN  [add    |-> add,
         remove |-> {t \in add : t.name \in NamesOf(E)}
                        \cup {r \in E : r.name \notin NamesOf(T)}]

-----------------------------------------------------------------------------
Init ==
    /\ packages \in SUBSET Packages
    /\ versions \in SUBSET Versions
    /\ rules = {}
    /\ task = FALSE
    /\ pc = [p \in Proc |-> "idle"]
    /\ cmd = [p \in Proc |-> "apply"]
    /\ targets = [p \in Proc |-> {}]
    /\ toRemove = [p \in Proc |-> {}]
    /\ toAdd = [p \in Proc |-> {}]
    /\ touched = [p \in Proc |-> {}]

(* A process ends; what it had resolved and planned dies with it. *)
End(p) ==
    /\ pc' = [pc EXCEPT ![p] = "idle"]
    /\ cmd' = [cmd EXCEPT ![p] = "apply"]
    /\ targets' = [targets EXCEPT ![p] = {}]
    /\ toRemove' = [toRemove EXCEPT ![p] = {}]
    /\ toAdd' = [toAdd EXCEPT ![p] = {}]

HasListed(p) == pc[p] \in {"rules", "task"}

(* Rules named n change under every other process that has made its list. *)
Touch(p, n) ==
    touched' = [q \in Proc |-> IF q # p /\ HasListed(q)
                               THEN touched[q] \cup {n} ELSE touched[q]]

Start(p, c) ==
    /\ pc[p] = "idle"
    /\ pc' = [pc EXCEPT ![p] = IF c = "remove" THEN "list" ELSE "resolve"]
    /\ cmd' = [cmd EXCEPT ![p] = c]
    /\ UNCHANGED <<apps, rules, task, targets, toRemove, toAdd, touched>>

UserCommand(p) == \E c \in Commands : Start(p, c)

(* The scheduled task runs "killswitch apply --no-persist", one at a time. *)
RefreshFires == task /\ Start(Refresh, "apply --no-persist")

Resolve(p) ==
    /\ pc[p] = "resolve"
    /\ targets' = [targets EXCEPT ![p] = Resolved]
    /\ pc' = [pc EXCEPT ![p] = "list"]
    /\ UNCHANGED <<apps, rules, task, cmd, toRemove, toAdd, touched>>

(* List, and the plan made of it at once.  Status and Apply compute one,   *)
(* Status only to count what is missing; Remove takes every rule listed.   *)
ListRemove(p) ==
    /\ cmd[p] = "remove"
    /\ toRemove' = [toRemove EXCEPT ![p] = rules]
    /\ pc' = [pc EXCEPT ![p] = "rules"]
    /\ UNCHANGED toAdd

ListPlan(p) ==
    /\ cmd[p] # "remove"
    /\ \E byName \in ByNames(rules) :
         LET plan == ComputePlan(targets[p], rules, byName)
         IN  /\ toAdd' = [toAdd EXCEPT ![p] = plan.add]
             /\ IF cmd[p] = "status"
                THEN /\ pc' = [pc EXCEPT ![p] = "task"]
                     /\ UNCHANGED toRemove
                ELSE /\ pc' = [pc EXCEPT ![p] = "rules"]
                     /\ toRemove' = [toRemove EXCEPT ![p] = plan.remove]

List(p) ==
    /\ pc[p] = "list"
    /\ ListRemove(p) \/ ListPlan(p)
    /\ touched' = [touched EXCEPT ![p] = {}]
    /\ UNCHANGED <<apps, rules, task, cmd, targets>>

(* Removal is by display name: every rule of that name goes. *)
RemoveRule(p) ==
    /\ pc[p] = "rules"
    /\ \E c \in toRemove[p] :
         /\ rules' = rules \ Named(c.name, rules)
         /\ toRemove' = [toRemove EXCEPT ![p] = @ \ {c}]
         /\ Touch(p, c.name)
    /\ UNCHANGED <<apps, task, pc, cmd, targets, toAdd>>

(* The firewall does not keep names unique: a second rule is just added. *)
AddRule(p) ==
    /\ pc[p] = "rules"
    /\ toRemove[p] = {}
    /\ \E t \in toAdd[p] :
         /\ rules' = rules \cup {t}
         /\ toAdd' = [toAdd EXCEPT ![p] = @ \ {t}]
         /\ Touch(p, t.name)
    /\ UNCHANGED <<apps, task, pc, cmd, targets, toRemove>>

RulesDone(p) == pc[p] = "rules" /\ toRemove[p] = {} /\ toAdd[p] = {}

(* Status found no target missing a rule (AllCovered). *)
AllCovered(p) == pc[p] = "task" /\ toAdd[p] = {}

(* The last call: register the task, unregister it, look it up, or none. *)
Finish(p) ==
    /\ RulesDone(p) \/ pc[p] = "task"
    /\ task' = (cmd[p] = "apply" \/ (task /\ cmd[p] # "remove"))
    /\ End(p)
    /\ UNCHANGED <<apps, rules, touched>>

(* A call fails, or the process dies: the command ends where it stands.  A *)
(* failing removal may have taken some of the rules of its name with it.   *)
Fail(p) ==
    /\ pc[p] # "idle"
    /\ End(p)
    /\ \/ UNCHANGED <<rules, touched>>
       \/ /\ pc[p] = "rules"
          /\ \E c \in toRemove[p], gone \in SUBSET rules :
               /\ gone \subseteq Named(c.name, rules)
               /\ rules' = rules \ gone
               /\ Touch(p, c.name)
    /\ UNCHANGED <<apps, task>>

Step(p) == Resolve(p) \/ List(p) \/ RemoveRule(p) \/ AddRule(p) \/ Finish(p)

(* The applications change whenever the user or an updater pleases. *)
PackageChange ==
    /\ \E k \in Packages :
         packages' = IF k \in packages THEN packages \ {k} ELSE packages \cup {k}
    /\ UNCHANGED <<versions, rules, task, local, touched>>

(* An update puts a newer version beside the old one, which is deleted     *)
(* later; the build can be uninstalled.                                    *)
VersionChange ==
    /\ \/ \E v \in Versions : /\ \A w \in versions : w < v
                              /\ versions' = versions \cup {v}
       \/ \E v \in versions \ Newest(versions) : versions' = versions \ {v}
       \/ versions # {} /\ versions' = {}
    /\ UNCHANGED <<packages, rules, task, local, touched>>

Next ==
    \/ RefreshFires
    \/ PackageChange
    \/ VersionChange
    \/ \E p \in Users : UserCommand(p)
    \/ \E p \in Proc : Step(p) \/ Fail(p)

(* A call returns, well or badly, and Task Scheduler starts the task again *)
(* and again while it is registered.                                       *)
Fairness ==
    /\ WF_vars(RefreshFires)
    /\ \A p \in Proc : WF_vars(Step(p) \/ Fail(p))

Spec == Init /\ [][Next]_vars /\ Fairness

-----------------------------------------------------------------------------
(* Types; a plan's targets and rules are packages and releases known under *)
(* names the program gives (killswitch.go:11-80, 173-210).                 *)
TypeOK ==
    /\ packages \subseteq Packages
    /\ versions \subseteq Versions
    /\ rules \subseteq Rule
    /\ task \in BOOLEAN
    /\ pc \in [Proc -> {"idle", "resolve", "list", "rules", "task"}]
    /\ cmd \in [Proc -> Commands]
    /\ targets \in [Proc -> SUBSET Rule]
    /\ toRemove \in [Proc -> SUBSET Rule]
    /\ toAdd \in [Proc -> SUBSET Rule]
    /\ touched \in [Proc -> SUBSET Names]

(* What process p may rely on for rules named n: it has made its list,     *)
(* nobody else touched those rules since, and its plan names one target so *)
(* (two targets of one label share one rule name, and lose each other's).  *)
Owns(p, n) ==
    /\ HasListed(p)
    /\ n \notin touched[p]
    /\ \A t, u \in targets[p] : t.name = n /\ u.name = n => t = u

(* When Apply has made its last rule call (and is about to register the    *)
(* task or report success), and when Status finds nothing missing, every   *)
(* target it resolved is blocked, unless another command meddled with that *)
(* name meanwhile (killswitch.go:98-145).                                  *)
SuccessMeansCovered ==
    \A p \in Proc :
        RulesDone(p) \/ AllCovered(p) =>
            \A t \in targets[p] : Owns(p, t.name) => t \in rules

(* Even when several targets share a label, and so a rule name, Apply       *)
(* leaves one of them blocked, unless another command meddled with that    *)
(* name: what a kept target's rule loses to another target's replacement   *)
(* is given to that other one (killswitch.go:184-202).                     *)
LabelCovered ==
    \A p \in Proc : RulesDone(p) =>
        NamesOf(targets[p]) \subseteq NamesOf(rules \cap targets[p]) \cup touched[p]

(* When Apply or Remove has made its last rule call, no rule is left under *)
(* a name it has no target for, unless another command put it there        *)
(* meanwhile; for Remove, which resolves no target, this is every rule     *)
(* (killswitch.go:157-171, 204-208).                                       *)
LeavesNoOrphan ==
    \A p \in Proc :
        RulesDone(p) => NamesOf(rules) \subseteq NamesOf(targets[p]) \cup touched[p]

(* Apply never adds a second rule beside one of the same name, unless      *)
(* another command is at work on it (killswitch.go:194-202): a duplicate   *)
(* hides the other from ComputePlan and is never cleaned up.               *)
NeverDuplicates ==
    [][\A p \in Proc : AddRule(p) =>
         \A r \in rules' \ rules : Owns(p, r.name) => Named(r.name, rules) = {}]_vars

(* A removal of Apply never takes the block off a target it has resolved,  *)
(* unless duplicates of that name were there already or another command    *)
(* meddled (killswitch.go:177-182, 194-202).                               *)
NeverUncovers ==
    [][\A p \in Proc : RemoveRule(p) =>
         \A t \in targets[p] :
             Owns(p, t.name) /\ t \in rules \ rules' => Named(t.name, rules) # {t}]_vars

(* Every running application is blocked: each package, and the version of  *)
(* the standalone build the updater starts.                                *)
Blocked == packages \cup Newest(versions) \subseteq {r.id : r \in rules}

(* The applications stay as they are, nobody starts a command, no command  *)
(* ends before its last call.                                              *)
Quiet ==
    /\ UNCHANGED apps
    /\ \A p \in Users : pc[p] = "idle" => pc'[p] = "idle"
    /\ \A p \in Proc : Fail(p) => RulesDone(p) \/ pc[p] = "task"

(* "killswitch apply installs a logon/5m refresh task so Claude updates    *)
(* keep UDP blocked" (cli.go:996): once things are quiet and the task is   *)
(* registered, every running application is blocked for good.              *)
UpdatesKeepBlocked == <>[][Quiet]_vars /\ <>[]task => <>[]Blocked

=============================================================================
