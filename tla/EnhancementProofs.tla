------------------------- MODULE EnhancementProofs --------------------------
(***************************************************************************)
(* Theorems about Enhancement for any set of command lines, credentials,   *)
(* nodes and bootstrap lists, and any number of commands and seconds: its  *)
(* invariants, its refinement of Archive, and that the lists it speaks of  *)
(* are what is read out of the text of the groups file.                    *)
(***************************************************************************)
EXTENDS EnhancementText, GroupsTextProofs

Shape ==
    /\ DOMAIN disk = Files /\ DOMAIN backups = Files /\ DOMAIN owed = Files
    /\ \A f \in Files : DOMAIN backups[f] = Seconds
    /\ clock \in Seconds
    /\ pc \in [Procs -> {"idle", "read", "stamp", "backup", "copy", "write", "fill"}]
    /\ DOMAIN job = Procs
    /\ unread \in [Procs -> SUBSET Files] /\ unwritten \in [Procs -> SUBSET Files]
    /\ DOMAIN existing = Procs /\ \A p \in Procs : DOMAIN existing[p] = Files
    /\ stamp \in [Procs -> Seconds]
    /\ overtaken \in [Procs -> SUBSET Files]
    /\ spoiled \subseteq Files
    /\ \A p \in Procs : pc[p] = "idle" => unwritten[p] = {}

(* A file planned for writing, and not overtaken, is as the process read   *)
(* it, or as the process itself emptied it.                                *)
AsRead ==
    \A p \in Procs : \A f \in unwritten[p] \ overtaken[p] :
        disk[f] = IF pc[p] = "fill" /\ IsNext(f, unwritten[p]) THEN Torn
                  ELSE existing[p][f]

(* p has opened the backup of f for the write it is making. *)
Holds(p, f) ==
    /\ IsNext(f, unwritten[p])
    /\ \/ pc[p] = "copy"
       \/ pc[p] \in {"write", "fill"} /\ existing[p][f] # Absent

(* A backup that a process has opened is its own, and holds what it read.  *)
OwnBackup ==
    \A p \in Procs : \A f \in Files \ spoiled : Holds(p, f) =>
        /\ backups[f][stamp[p]] = IF pc[p] = "copy" THEN Torn ELSE existing[p][f]
        /\ \A q \in Procs \ {p} : Holds(q, f) => stamp[q] # stamp[p]

OwedWhole == \A f \in Files : \A c \in owed[f] : Whole(c)

(* Every file apply has read is as rendered, or is yet to be written. *)
Planned ==
    \A p \in Procs : pc[p] # "idle" /\ job[p].cmd = "apply" =>
        /\ pc[p] # "read" => unread[p] = {}
        /\ \A f \in Scope(job[p]) \ (overtaken[p] \cup unread[p]) :
             f \in unwritten[p] \/ disk[f] = Rendered(f, job[p])

IInv == Shape /\ AsRead /\ OwnBackup /\ OwedWhole /\ NothingLost /\ Planned

-----------------------------------------------------------------------------
LEMMA ContentFacts ==
    /\ Absent # Torn /\ ~Whole(Absent) /\ ~Whole(Torn) /\ Whole(Foreign)
  BY DEF Absent, Torn, Foreign, Content, Whole

LEMMA OneNext ==
    ASSUME NEW S \in SUBSET Files, NEW f, NEW g, IsNext(f, S), IsNext(g, S)
    PROVE  f = g
  BY SMT DEF IsNext, Files, Place

LEMMA InitIInv == Init => IInv
<1> SUFFICES ASSUME Init PROVE IInv
    OBVIOUS
<1>1. Shape
      BY EnhancementAssumption DEF Init, Shape, Seconds
<1>2. AsRead /\ OwnBackup /\ OwedWhole /\ NothingLost /\ Planned
      BY DEF Init, AsRead, OwnBackup, Holds, IsNext, OwedWhole, NothingLost, Planned
<1> QED
    BY <1>1, <1>2 DEF IInv

LEMMA StartKeeps ==
  ASSUME IInv, NEW p \in Procs, Start(p)
  PROVE  IInv'
<1> USE DEF IInv
<1>1. PICK j \in Jobs : job' = [job EXCEPT ![p] = j] /\ unread' = [unread EXCEPT ![p] = Scope(j)]
      BY DEF Start
<1>2. /\ pc' = [pc EXCEPT ![p] = "read"] /\ stamp' = [stamp EXCEPT ![p] = clock]
      /\ UNCHANGED <<files, existing, unwritten, overtaken, owed, spoiled>>
      /\ clock' = clock
      /\ pc[p] = "idle" /\ unwritten[p] = {}
      BY DEF Start, Shape
<1>3. Scope(j) \in SUBSET Files
      BY DEF Scope, Files
<1>4. Shape'
      BY <1>1, <1>2, <1>3 DEF Shape, files
<1>5. AsRead'
      BY <1>2 DEF Shape, AsRead, files
<1>6. OwnBackup'
  <2>1. \A q \in Procs : \A f \in Files :
          Holds(q, f)' => q # p /\ Holds(q, f) /\ pc'[q] = pc[q] /\ stamp'[q] = stamp[q]
        BY <1>2 DEF Holds, Shape, IsNext
  <2> QED
      BY <2>1, <1>2 DEF OwnBackup, Shape, files
<1>7. OwedWhole' /\ NothingLost'
      BY <1>2 DEF OwedWhole, NothingLost, files
<1>8. Planned'
      BY <1>1, <1>2 DEF Planned, Shape, files
<1> QED
    BY <1>4, <1>5, <1>6, <1>7, <1>8

LEMMA ReadKeeps ==
  ASSUME IInv, NEW p \in Procs, Read(p)
  PROVE  IInv'
<1> USE DEF IInv
<1>1. PICK f \in unread[p] :
        /\ ReadApply(p, f) \/ ReadSwitch(p, f)
        /\ existing' = [existing EXCEPT ![p][f] = disk[f]]
        /\ unread' = [unread EXCEPT ![p] = @ \ {f}]
        /\ overtaken' = [overtaken EXCEPT ![p] = @ \ {f}]
      BY DEF Read
<1>2. /\ pc[p] = "read"
      /\ UNCHANGED <<disk, backups, clock, job, stamp, owed, spoiled>>
      BY DEF Read, files
<1>3. /\ f \in Files
      /\ unwritten' = [unwritten EXCEPT ![p] = unwritten'[p]]
      /\ pc' = [pc EXCEPT ![p] = pc'[p]]
      /\ unwritten'[p] \subseteq unwritten[p] \cup {f}
      /\ pc'[p] \in {"read", "stamp", "backup"}
      BY <1>1 DEF ReadApply, ReadSwitch, Shape
<1>4. Shape'
      BY <1>1, <1>2, <1>3 DEF Shape
<1>5. AsRead'
      BY <1>1, <1>2, <1>3 DEF AsRead, Shape
<1>6. OwnBackup'
  <2>1. \A q \in Procs : \A g \in Files :
          Holds(q, g)' => q # p /\ Holds(q, g) /\ pc'[q] = pc[q] /\ existing'[q] = existing[q]
        BY <1>1, <1>2, <1>3 DEF Holds, Shape, IsNext
  <2> QED
      BY <2>1, <1>2 DEF OwnBackup, Shape
<1>7. OwedWhole' /\ NothingLost'
      BY <1>2 DEF OwedWhole, NothingLost
<1>8. Planned'
  <2>1. ASSUME job[p].cmd = "apply"
        PROVE  /\ pc'[p] # "read" => unread'[p] = {}
               /\ \A g \in Scope(job[p]) \ (overtaken'[p] \cup unread'[p]) :
                    g \in unwritten'[p] \/ disk[g] = Rendered(g, job[p])
    <3>1. /\ unwritten'[p] = IF disk[f] # Rendered(f, job[p]) THEN unwritten[p] \cup {f}
                             ELSE unwritten[p]
          /\ pc'[p] = IF unread[p] = {f} THEN "backup" ELSE "read"
          BY <2>1, <1>1 DEF ReadApply, ReadSwitch, Changed, Shape
    <3>2. unread'[p] = unread[p] \ {f} /\ overtaken'[p] = overtaken[p] \ {f}
          BY <1>1 DEF Shape
    <3> QED
        BY <3>1, <3>2, <2>1, <1>2 DEF Planned
  <2>2. \A q \in Procs \ {p} : /\ pc'[q] = pc[q] /\ unread'[q] = unread[q]
                              /\ overtaken'[q] = overtaken[q] /\ unwritten'[q] = unwritten[q]
        BY <1>1, <1>3 DEF Shape
  <2> QED
      BY <2>1, <2>2, <1>2 DEF Planned
<1> QED
    BY <1>4, <1>5, <1>6, <1>7, <1>8

LEMMA StampKeeps ==
  ASSUME IInv, NEW p \in Procs, Stamp(p)
  PROVE  IInv'
<1> USE DEF IInv
<1>1. /\ pc[p] = "stamp" /\ pc' = [pc EXCEPT ![p] = "backup"]
      /\ stamp' = [stamp EXCEPT ![p] = clock]
      /\ UNCHANGED <<disk, backups, clock, job, unread, existing, unwritten, overtaken,
                     owed, spoiled>>
      BY DEF Stamp, files
<1>2. Shape'
      BY <1>1 DEF Shape
<1>3. AsRead'
      BY <1>1 DEF AsRead, Shape
<1>4. OwnBackup'
  <2>1. \A q \in Procs : \A f \in Files :
          Holds(q, f)' => q # p /\ Holds(q, f) /\ pc'[q] = pc[q] /\ stamp'[q] = stamp[q]
        BY <1>1 DEF Holds, Shape
  <2> QED
      BY <2>1, <1>1 DEF OwnBackup, Shape
<1>5. OwedWhole' /\ NothingLost' /\ Planned'
      BY <1>1 DEF OwedWhole, NothingLost, Planned, Shape
<1> QED
    BY <1>2, <1>3, <1>4, <1>5

LEMMA EndKeeps ==
  ASSUME IInv, NEW p \in Procs, End(p),
         UNCHANGED <<files, clock, owed, spoiled>>
  PROVE  IInv'
<1> USE DEF IInv
<1>1. /\ pc' = [pc EXCEPT ![p] = "idle"]
      /\ unwritten' = [unwritten EXCEPT ![p] = {}]
      /\ existing' = [existing EXCEPT ![p] = [f \in Files |-> Absent]]
      /\ stamp' = [stamp EXCEPT ![p] = 0]
      /\ overtaken' = [overtaken EXCEPT ![p] = {}]
      /\ unread' = [unread EXCEPT ![p] = {}]
      /\ job' = [job EXCEPT ![p] = NoJob]
      /\ UNCHANGED <<disk, backups, clock, owed, spoiled>>
      BY DEF End, files
<1>2. Shape'
      BY <1>1, EnhancementAssumption DEF Shape, Seconds
<1>3. AsRead'
      BY <1>1 DEF AsRead, Shape
<1>4. OwnBackup'
  <2>1. \A q \in Procs : \A f \in Files :
          Holds(q, f)' => /\ q # p /\ Holds(q, f) /\ pc'[q] = pc[q] /\ stamp'[q] = stamp[q]
                          /\ existing'[q] = existing[q]
        BY <1>1 DEF Holds, Shape
  <2> QED
      BY <2>1, <1>1 DEF OwnBackup, Shape
<1>5. OwedWhole' /\ NothingLost' /\ Planned'
      BY <1>1 DEF OwedWhole, NothingLost, Planned, Shape
<1> QED
    BY <1>2, <1>3, <1>4, <1>5

LEMMA OpenBackupKeeps ==
  ASSUME IInv, NEW p \in Procs, OpenBackup(p)
  PROVE  IInv'
<1> USE DEF IInv
<1>1. PICK f \in unwritten[p] :
        /\ IsNext(f, unwritten[p])
        /\ \/ /\ existing[p][f] = Absent
              /\ pc' = [pc EXCEPT ![p] = "write"]
              /\ backups' = backups /\ spoiled' = spoiled
           \/ /\ existing[p][f] # Absent
              /\ pc' = [pc EXCEPT ![p] = "copy"]
              /\ backups' = [backups EXCEPT ![f][stamp[p]] = Torn]
              /\ spoiled' = IF backups[f][stamp[p]] = Absent THEN spoiled
                            ELSE spoiled \cup {f}
      BY DEF OpenBackup
<1>2. /\ pc[p] = "backup" /\ f \in Files
      /\ UNCHANGED <<disk, clock, job, unread, existing, unwritten, stamp, overtaken, owed>>
      BY <1>1 DEF OpenBackup, Shape
<1>3. \A q \in Procs : unwritten[q] \in SUBSET Files
      BY DEF Shape
<1>4. Shape'
      BY <1>1, <1>2 DEF Shape
<1>5. AsRead'
      BY <1>1, <1>2 DEF AsRead, Shape
<1>6. \A q \in Procs \ {p} : \A g \in Files : pc'[q] = pc[q] /\ Holds(q, g)' = Holds(q, g)
      BY <1>1, <1>2 DEF Holds, Shape
<1>7. OwnBackup' /\ OwedWhole' /\ NothingLost'
  <2>1. CASE existing[p][f] = Absent
    <3>1. \A g \in Files : ~Holds(p, g)'
      <4>1. pc'[p] = "write"
            BY <2>1, <1>1 DEF Shape
      <4> QED
          BY <4>1, <2>1, <1>1, <1>2, <1>3, OneNext DEF Holds
    <3> QED
        BY <3>1, <2>1, <1>1, <1>2, <1>6, SMTT(30) DEF OwnBackup, OwedWhole, NothingLost, Shape
  <2>2. CASE existing[p][f] # Absent
    <3>1. \A g \in Files : Holds(p, g)' => g = f
          BY <1>2, <1>1, <1>3, OneNext DEF Holds
    <3>2. /\ \A g \in Files, s \in Seconds :
               g # f \/ s # stamp[p] => backups'[g][s] = backups[g][s]
          /\ backups'[f][stamp[p]] = Torn /\ stamp[p] \in Seconds
          /\ pc'[p] = "copy" /\ spoiled \subseteq spoiled'
          /\ f \notin spoiled' => backups[f][stamp[p]] = Absent
          BY <2>2, <1>1, <1>2 DEF Shape
    <3>3. ASSUME f \notin spoiled', NEW q \in Procs \ {p}, Holds(q, f)
          PROVE  stamp[q] # stamp[p]
          BY <1>2, <3>2, <3>3, ContentFacts DEF OwnBackup, Holds
    <3>4. OwnBackup'
      <4>1. ASSUME NEW q \in Procs \ {p}, NEW g \in Files \ spoiled', Holds(q, g)
            PROVE  /\ backups'[g][stamp[q]] = IF pc[q] = "copy" THEN Torn ELSE existing[q][g]
                   /\ \A r \in Procs \ {q} : Holds(r, g)' => stamp[r] # stamp[q]
            BY <4>1, <3>1, <3>2, <3>3, <1>6 DEF OwnBackup, Shape
      <4>2. ASSUME NEW g \in Files \ spoiled', Holds(p, g)'
            PROVE  /\ backups'[g][stamp[p]] = Torn
                   /\ \A r \in Procs \ {p} : Holds(r, g)' => stamp[r] # stamp[p]
            BY <4>2, <3>1, <3>2, <3>3, <1>6
      <4> QED
          BY <4>1, <4>2, <3>2, <1>2, <1>6 DEF OwnBackup
    <3>5. OwedWhole' /\ NothingLost'
          BY <3>2, <1>2, ContentFacts DEF OwedWhole, NothingLost
    <3> QED
        BY <3>4, <3>5
  <2> QED
      BY <2>1, <2>2
<1>8. Planned'
      BY <1>1, <1>2 DEF Planned, Shape
<1> QED
    BY <1>4, <1>5, <1>7, <1>8

LEMMA FillBackupKeeps ==
  ASSUME IInv, NEW p \in Procs, FillBackup(p)
  PROVE  IInv'
<1> USE DEF IInv
<1>1. PICK f \in unwritten[p] :
        /\ IsNext(f, unwritten[p])
        /\ \E c \in Filled(backups[f][stamp[p]], existing[p][f]) :
             backups' = [backups EXCEPT ![f][stamp[p]] = c]
      BY DEF FillBackup
<1>2. /\ pc[p] = "copy" /\ f \in Files /\ pc' = [pc EXCEPT ![p] = "write"]
      /\ UNCHANGED <<disk, clock, job, unread, existing, unwritten, stamp, overtaken, owed,
                     spoiled>>
      BY <1>1 DEF FillBackup, Shape
<1>3. /\ unwritten[p] \in SUBSET Files /\ stamp[p] \in Seconds
      /\ backups'[f][stamp[p]] \in Filled(backups[f][stamp[p]], existing[p][f])
      BY <1>1, <1>2 DEF Shape
<1>4. Shape'
      BY <1>1, <1>2 DEF Shape
<1>5. AsRead'
      BY <1>2 DEF AsRead, Shape
<1>6. /\ \A q \in Procs, g \in Files : Holds(q, g)' => Holds(q, g)
      /\ \A q \in Procs \ {p} : pc'[q] = pc[q]
      /\ pc'[p] = "write"
      /\ \A g \in Files, s \in Seconds :
           g # f \/ s # stamp[p] => backups'[g][s] = backups[g][s]
      BY <1>1, <1>2 DEF Holds, Shape
<1>7. \A g \in Files : Holds(p, g) => g = f
      BY <1>1, <1>3, OneNext DEF Holds
<1>8. f \notin spoiled => /\ backups[f][stamp[p]] = Torn
                         /\ backups'[f][stamp[p]] = existing[p][f]
      BY <1>1, <1>2, <1>3 DEF OwnBackup, Holds, Filled
<1>9. OwnBackup'
  <2>1. ASSUME NEW q \in Procs, NEW g \in Files \ spoiled, Holds(q, g), Holds(q, g)'
        PROVE  /\ backups'[g][stamp[q]] = IF pc'[q] = "copy" THEN Torn ELSE existing[q][g]
               /\ \A r \in Procs \ {q} : Holds(r, g)' => stamp[r] # stamp[q]
    <3>1. \A r \in Procs \ {q} : Holds(r, g)' => stamp[r] # stamp[q]
          BY <2>1, <1>6 DEF OwnBackup
    <3>2. CASE q = p
          BY <3>1, <3>2, <2>1, <1>6, <1>7, <1>8
    <3>3. CASE q # p
      <4>1. g = f => stamp[q] # stamp[p]
            BY <3>3, <2>1, <1>1, <1>2 DEF OwnBackup, Holds
      <4>2. backups'[g][stamp[q]] = backups[g][stamp[q]] /\ pc'[q] = pc[q]
            BY <4>1, <3>3, <2>1, <1>6 DEF Shape
      <4> QED
          BY <3>1, <4>2, <2>1 DEF OwnBackup
    <3> QED
        BY <3>1, <3>2, <3>3
  <2> QED
      BY <2>1, <1>2, <1>6 DEF OwnBackup
<1>10. OwedWhole' /\ NothingLost'
      BY <1>2, <1>6, <1>8, ContentFacts DEF OwedWhole, NothingLost
<1>11. Planned'
      BY <1>2 DEF Planned, Shape
<1> QED
    BY <1>4, <1>5, <1>9, <1>10, <1>11

(* Both file steps write some content over f: what is owed stays backed    *)
(* up when what they write over, if whole, was backed up already.          *)
LEMMA OweKeeps ==
  ASSUME Shape, OwedWhole, NothingLost, NEW f \in Files, Owe(f), backups' = backups,
         spoiled \subseteq spoiled',
         f \notin spoiled' /\ Whole(disk[f]) =>
             \E s \in Seconds : backups[f][s] = disk[f]
  PROVE  OwedWhole' /\ NothingLost' /\ DOMAIN owed' = Files
<1>1. CASE Whole(disk[f])
  <2>1. owed' = [owed EXCEPT ![f] = owed[f] \cup {disk[f]}]
        BY <1>1 DEF Owe
  <2>2. \A g \in Files : owed'[g] = IF g = f THEN owed[f] \cup {disk[f]} ELSE owed[g]
        BY <2>1 DEF Shape
  <2> QED
      BY <1>1, <2>1, <2>2 DEF OwedWhole, NothingLost, Shape
<1>2. CASE ~Whole(disk[f])
      BY <1>2 DEF Owe, OwedWhole, NothingLost, Shape
<1> QED
    BY <1>1, <1>2

LEMMA OpenFileKeeps ==
  ASSUME IInv, NEW p \in Procs, OpenFile(p)
  PROVE  IInv'
<1> USE DEF IInv
<1>1. PICK f \in unwritten[p] :
        /\ IsNext(f, unwritten[p])
        /\ disk' = [disk EXCEPT ![f] = Torn]
        /\ Owe(f) /\ Spoil(p, f) /\ Overtake(p, f)
      BY DEF OpenFile
<1>2. /\ pc[p] = "write" /\ f \in Files /\ pc' = [pc EXCEPT ![p] = "fill"]
      /\ UNCHANGED <<backups, clock, job, unread, existing, unwritten, stamp>>
      BY <1>1 DEF OpenFile, Shape
<1>3. /\ unwritten[p] \in SUBSET Files /\ stamp[p] \in Seconds
      /\ pc'[p] = "fill" /\ \A q \in Procs \ {p} : pc'[q] = pc[q]
      /\ disk'[f] = Torn /\ \A g \in Files \ {f} : disk'[g] = disk[g]
      BY <1>1, <1>2 DEF Shape
<1>4. /\ spoiled' = IF f \in overtaken[p] THEN spoiled \cup {f} ELSE spoiled
      /\ overtaken'[p] = overtaken[p]
      /\ \A q \in Procs \ {p} : overtaken'[q] = IF pc[q] = "idle" THEN overtaken[q]
                                              ELSE overtaken[q] \cup {f}
      BY <1>1 DEF Spoil, Overtake
<1>5. OwedWhole' /\ NothingLost' /\ DOMAIN owed' = Files
  <2>1. ASSUME f \notin spoiled', Whole(disk[f])
        PROVE  \E s \in Seconds : backups[f][s] = disk[f]
    <3>1. disk[f] = existing[p][f]
          BY <2>1, <1>1, <1>2, <1>4 DEF AsRead
    <3>2. Holds(p, f)
          BY <3>1, <2>1, <1>1, <1>2, ContentFacts DEF Holds
    <3> QED
        BY <3>1, <3>2, <2>1, <1>2, <1>3, <1>4 DEF OwnBackup
  <2> QED
      BY <2>1, <1>1, <1>2, <1>4, OweKeeps
<1>6. Shape'
  <2>1. overtaken' \in [Procs -> SUBSET Files]
        BY <1>1, <1>2 DEF Shape, Overtake
  <2> QED
      BY <2>1, <1>1, <1>2, <1>4, <1>5 DEF Shape
<1>7. AsRead'
  <2>1. ASSUME NEW g \in unwritten[p] \ overtaken[p]
        PROVE  disk'[g] = IF IsNext(g, unwritten[p]) THEN Torn ELSE existing[p][g]
    <3>1. CASE g = f
          BY <3>1, <1>1, <1>3
    <3>2. CASE g # f
          BY <3>2, <1>1, <1>2, <1>3, OneNext DEF AsRead
    <3> QED
        BY <3>1, <3>2
  <2>2. ASSUME NEW q \in Procs \ {p}, NEW g \in unwritten[q] \ overtaken'[q]
        PROVE  g \in Files /\ g \notin overtaken[q] /\ disk'[g] = disk[g]
        BY <1>3, <1>4 DEF Shape
  <2> QED
      BY <2>1, <2>2, <1>2, <1>3, <1>4 DEF AsRead
<1>8. OwnBackup'
  <2>1. \A q \in Procs, g \in Files : Holds(q, g)' <=> Holds(q, g)
        BY <1>2, <1>3 DEF Holds
  <2> QED
      BY <2>1, <1>2, <1>3, <1>4 DEF OwnBackup, Holds
<1>9. Planned'
  <2>1. ASSUME NEW q \in Procs \ {p}
        PROVE  pc[q] # "idle" => \A g \in Files \ overtaken'[q] :
                 g \notin overtaken[q] /\ disk'[g] = disk[g]
        BY <1>3, <1>4
  <2>2. \A q \in Procs : Scope(job[q]) \subseteq Files
        BY DEF Scope, Files
  <2> QED
      BY <2>1, <2>2, <1>1, <1>2, <1>3, <1>4 DEF Planned
<1> QED
    BY <1>5, <1>6, <1>7, <1>8, <1>9

LEMMA FillFileKeeps ==
  ASSUME IInv, NEW p \in Procs, FillFile(p)
  PROVE  IInv'
<1> USE DEF IInv
<1>1. PICK f \in unwritten[p] :
        /\ IsNext(f, unwritten[p])
        /\ \E c \in Filled(disk[f], NextContent(f, job[p], existing[p][f])) :
             disk' = [disk EXCEPT ![f] = c]
        /\ unwritten' = [unwritten EXCEPT ![p] = @ \ {f}]
        /\ Owe(f) /\ Spoil(p, f) /\ Overtake(p, f)
      BY DEF FillFile
<1>2. /\ pc[p] = "fill" /\ f \in Files /\ pc' = [pc EXCEPT ![p] = "backup"]
      /\ UNCHANGED <<backups, clock, job, unread, existing, stamp>>
      BY <1>1 DEF FillFile, Shape
<1>3. /\ unwritten[p] \in SUBSET Files /\ unwritten'[p] = unwritten[p] \ {f}
      /\ pc'[p] = "backup"
      /\ \A q \in Procs \ {p} : pc'[q] = pc[q] /\ unwritten'[q] = unwritten[q]
      /\ \A g \in Files \ {f} : disk'[g] = disk[g]
      /\ disk'[f] \in Filled(disk[f], NextContent(f, job[p], existing[p][f]))
      BY <1>1, <1>2 DEF Shape
<1>4. /\ spoiled' = IF f \in overtaken[p] THEN spoiled \cup {f} ELSE spoiled
      /\ overtaken'[p] = overtaken[p]
      /\ \A q \in Procs \ {p} : overtaken'[q] = IF pc[q] = "idle" THEN overtaken[q]
                                              ELSE overtaken[q] \cup {f}
      BY <1>1 DEF Spoil, Overtake
<1>5. f \notin overtaken[p] => disk[f] = Torn
      BY <1>1, <1>2 DEF AsRead
<1>6. OwedWhole' /\ NothingLost' /\ DOMAIN owed' = Files
      BY <1>1, <1>2, <1>4, <1>5, ContentFacts, OweKeeps
<1>7. Shape'
  <2>1. overtaken' \in [Procs -> SUBSET Files]
        BY <1>1, <1>2 DEF Shape, Overtake
  <2> QED
      BY <2>1, <1>1, <1>2, <1>4, <1>6 DEF Shape
<1>8. AsRead'
  <2>1. ASSUME NEW g \in unwritten'[p] \ overtaken[p]
        PROVE  disk'[g] = existing[p][g]
        BY <1>1, <1>2, <1>3, OneNext DEF AsRead
  <2>2. ASSUME NEW q \in Procs \ {p}, NEW g \in unwritten[q] \ overtaken'[q]
        PROVE  g \in Files /\ g \notin overtaken[q] /\ disk'[g] = disk[g]
        BY <1>3, <1>4 DEF Shape
  <2> QED
      BY <2>1, <2>2, <1>2, <1>3, <1>4 DEF AsRead
<1>9. OwnBackup'
  <2>1. \A q \in Procs, g \in Files : Holds(q, g)' => q # p /\ Holds(q, g)
        BY <1>2, <1>3 DEF Holds
  <2> QED
      BY <2>1, <1>2, <1>3, <1>4 DEF OwnBackup
<1>10. Planned'
  <2>1. ASSUME NEW q \in Procs \ {p}
        PROVE  pc[q] # "idle" => \A g \in Files \ overtaken'[q] :
                 g \notin overtaken[q] /\ disk'[g] = disk[g]
        BY <1>3, <1>4
  <2>2. \A q \in Procs : Scope(job[q]) \subseteq Files
        BY DEF Scope, Files
  <2>3. job[p].cmd = "apply" /\ f \notin overtaken[p] => disk'[f] = Rendered(f, job[p])
        BY <1>3, <1>5 DEF Filled, NextContent
  <2> QED
      BY <2>1, <2>2, <2>3, <1>2, <1>3, <1>4 DEF Planned
<1> QED
    BY <1>6, <1>7, <1>8, <1>9, <1>10

LEMMA EditKeeps == IInv /\ Edit => IInv'
<1> SUFFICES ASSUME IInv, Edit PROVE IInv'
    OBVIOUS
<1> USE DEF IInv
<1>1. PICK f \in Editable :
        /\ disk' = [disk EXCEPT ![f] = Foreign]
        /\ overtaken' = [q \in Procs |-> IF pc[q] = "idle" THEN overtaken[q]
                                         ELSE overtaken[q] \cup {f}]
      BY DEF Edit
<1>2. /\ f \in Files /\ UNCHANGED <<backups, clock, local, owed, spoiled>>
      BY EnhancementAssumption DEF Edit, Files
<1>3. Shape'
      BY <1>1, <1>2 DEF Shape, local
<1>4. \A q \in Procs, g \in Files : pc[q] # "idle" /\ g \notin overtaken'[q] =>
        g \notin overtaken[q] /\ disk'[g] = disk[g]
      BY <1>1, <1>2 DEF Shape
<1>5. AsRead' /\ Planned'
  <2>1. \A q \in Procs : Scope(job[q]) \subseteq Files
        BY DEF Scope, Files
  <2> QED
      BY <1>2, <1>4, <2>1 DEF AsRead, Planned, Shape, local
<1>6. OwnBackup' /\ OwedWhole' /\ NothingLost'
      BY <1>2 DEF OwnBackup, Holds, OwedWhole, NothingLost, local
<1> QED
    BY <1>3, <1>5, <1>6

LEMMA TickKeeps == IInv /\ Tick => IInv'
  BY EnhancementAssumption
     DEF Tick, IInv, Shape, Seconds, AsRead, OwnBackup, Holds, OwedWhole, NothingLost,
         Planned, files, local

LEMMA Invariance == Spec => []IInv
<1>1. IInv /\ [Next]_vars => IInv'
  <2> SUFFICES ASSUME IInv, [Next]_vars PROVE IInv'
      OBVIOUS
  <2>1. CASE UNCHANGED vars
        BY <2>1 DEF vars, files, local, IInv, Shape, AsRead, OwnBackup, Holds, OwedWhole,
                    NothingLost, Planned
  <2>2. CASE Edit \/ Tick
        BY <2>2, EditKeeps, TickKeeps
  <2>3. ASSUME NEW p \in Procs, Step(p) PROVE IInv'
    <3>1. CASE Finish(p) \/ Fail(p)
          BY <3>1, EndKeeps DEF Finish, Fail
    <3> QED
        BY <2>3, <3>1, StartKeeps, ReadKeeps, StampKeeps, OpenBackupKeeps, FillBackupKeeps,
           OpenFileKeeps, FillFileKeeps DEF Step
  <2> QED
      BY <2>1, <2>2, <2>3 DEF Next
<1> QED
    BY <1>1, InitIInv, PTL DEF Spec

(* Whatever the commands, the crashes and Clash do, what a command emptied *)
(* is whole in a backup, of a file not spoiled (enhancement.go:86-103).    *)
THEOREM NothingIsLost == Spec => []NothingLost
<1>1. IInv => NothingLost
      BY DEF IInv
<1> QED
    BY <1>1, Invariance, PTL

(* Once apply has made its last write, every file of its scope is as it    *)
(* rendered it, unless overtaken (enhancement.go:86-104, 136-153).         *)
THEOREM ApplyWrites == Spec => []AppliedIsOnDisk
<1>1. IInv => AppliedIsOnDisk
      BY DEF IInv, AppliedIsOnDisk, WritesDone, Planned
<1> QED
    BY <1>1, Invariance, PTL


-----------------------------------------------------------------------------
(* What the files hold, and what switch-bootstrap makes of a list.         *)

(* A process that runs has a command. *)
Underway == \A p \in Procs : pc[p] # "idle" => job[p] \in Jobs

(* switch-bootstrap writes the groups file only, and only when it has read *)
(* it and found the node in it.                                            *)
SwitchPlan ==
    \A p \in Procs : pc[p] # "idle" /\ job[p].cmd = "switch" =>
        /\ unwritten[p] \subseteq {"groups"}
        /\ pc[p] = "read" => unread[p] = {"groups"}
        /\ pc[p] = "stamp" => unwritten[p] = {"groups"}
        /\ pc[p] # "read" =>
             /\ existing[p]["groups"].kind = "managed"
             /\ Contains(existing[p]["groups"].data, job[p].nodes[1])

(* Once it has, the file is what it made of what it read, and the backup   *)
(* is what it read.                                                        *)
SwitchDone ==
    \A p \in Procs : WritesDone(p) /\ job[p].cmd = "switch" =>
        /\ "groups" \notin overtaken[p] =>
             disk["groups"] = NextContent("groups", job[p], existing[p]["groups"])
        /\ "groups" \notin spoiled =>
             backups["groups"][stamp[p]] = existing[p]["groups"]

JInv == TypeOK /\ Underway /\ SwitchPlan /\ SwitchDone

LEMMA SimpleContents ==
    ASSUME NEW f \in Files
    PROVE  /\ IsContent(f, Absent) /\ IsContent(f, Torn) /\ IsContent(f, Foreign)
  BY DEF IsContent

LEMMA AsWrittenFacts ==
    ASSUME NEW N, NEW s \in Seq(NamesOf(N))
    PROVE  /\ AsWritten(s) \in Seq(NamesOf(N)) /\ Len(AsWritten(s)) = Len(s)
           /\ \A i \in 1 .. Len(s) : AsWritten(s)[i] = Doubled(s[i])
           /\ ToSet(AsWritten(s)) = {Doubled(m) : m \in ToSet(s)}
           /\ IsInjective(s) => IsInjective(AsWritten(s))
<1> DEFINE w == AsWritten(s)
<1>1. /\ Len(s) \in Nat /\ DOMAIN s = 1 .. Len(s)
      /\ \A i \in 1 .. Len(s) : s[i] \in NamesOf(N)
      BY LenProperties, ElementOfSeq
<1>2. \A i \in 1 .. Len(s) : Doubled(s[i]) \in NamesOf(N) /\ Halved(Doubled(s[i])) = s[i]
      BY <1>1, NameFacts
<1>3. DOMAIN w = 1 .. Len(s) /\ \A i \in 1 .. Len(s) : w[i] = Doubled(s[i])
      BY <1>1 DEF AsWritten
<1>4. w \in [1 .. Len(s) -> NamesOf(N)]
      BY <1>1, <1>2 DEF AsWritten
<1> HIDE DEF w
<1>5. w \in Seq(NamesOf(N)) /\ Len(w) = Len(s)
      BY <1>1, <1>4
<1>6. ToSet(w) = {Doubled(m) : m \in ToSet(s)}
      BY <1>1, <1>3 DEF ToSet
<1>7. ASSUME IsInjective(s) PROVE IsInjective(w)
  <2> SUFFICES ASSUME NEW i \in 1 .. Len(s), NEW j \in 1 .. Len(s), w[i] = w[j]
               PROVE  i = j
      BY <1>3 DEF IsInjective
  <2>1. Doubled(s[i]) = Doubled(s[j])
        BY <1>3
  <2>2. s[i] = s[j]
        BY <1>2, <2>1
  <2> QED BY <1>1, <1>7, <2>2 DEF IsInjective
<1> QED BY <1>3, <1>5, <1>6, <1>7 DEF w

LEMMA RenderedIsContent ==
    ASSUME NEW f \in Files, NEW j \in Applies
    PROVE  IsContent(f, Rendered(f, j))
<1>1. PICK s \in Credentials, b \in Bootstraps, r \in BOOLEAN : j = Apply(s, b, r)
      BY DEF Applies
<1>2. j.secret = <<s>> /\ j.nodes = b /\ b \in Seq(NamesOf(Nodes))
  <2>1. b \in Seq(Given) /\ Given \subseteq NamesOf(Nodes)
        BY EnhancementAssumption, NodesAssumption
  <2>2. b \in Seq(NamesOf(Nodes))
        BY <2>1, SeqMonotonic
  <2> QED BY <1>1, <2>2 DEF Apply
<1>3. dedupeNonEmpty(b) \in Seq(NamesOf(Nodes)) /\ IsInjective(dedupeNonEmpty(b))
      BY <1>2, DedupeFacts
<1> DEFINE w == AsWritten(dedupeNonEmpty(b))
<1>4. w \in Seq(NamesOf(Nodes)) /\ IsInjective(w)
      BY <1>3, AsWrittenFacts
<1>5. CASE f = "groups"
  <2>1. Rendered(f, j) = Content("managed", w)
        BY <1>2, <1>5 DEF Rendered
  <2> HIDE DEF w
  <2> QED BY <1>4, <1>5, <2>1 DEF IsContent, Content
<1>6. CASE f # "groups"
      BY <1>2, <1>6 DEF IsContent, Rendered, Content, Files
<1> QED BY <1>5, <1>6

(* A list that has the node is reordered: the same candidates, each once,  *)
(* the node first.                                                         *)
LEMMA PutFirst ==
    ASSUME NEW T, NEW s \in Seq(T), IsInjective(s), NEW n \in T, Contains(s, n)
    PROVE  LET t == <<n>> \o Without(s, n)
           IN  /\ t \in Seq(T) /\ IsInjective(t)
               /\ Len(t) = Len(s) /\ ToSet(t) = ToSet(s) /\ t[1] = n
<1> DEFINE w == Without(s, n)
<1> DEFINE t == <<n>> \o w
<1>1. n \in ToSet(s)
      BY LenProperties DEF Contains, ToSet
<1>2. /\ w \in Seq(T) /\ IsInjective(w) /\ ToSet(w) = ToSet(s) \ {n}
      /\ Len(w) = Len(s) - 1
      BY <1>1, WithoutFacts
<1>3. /\ DOMAIN w = 1 .. Len(w) /\ Len(w) \in Nat /\ Len(s) \in Nat
      BY <1>2, LenProperties
<1> HIDE DEF w
<1>4. <<n>> \in Seq(T) /\ Len(<<n>>) = 1 /\ <<n>>[1] = n
      OBVIOUS
<1>5. /\ t \in Seq(T) /\ Len(t) = 1 + Len(w)
      /\ \A i \in 1 .. 1 + Len(w) : t[i] = IF i <= 1 THEN <<n>>[i] ELSE w[i - 1]
      BY <1>2, <1>4, ConcatProperties
<1>6. DOMAIN t = 1 .. 1 + Len(w) /\ t[1] = n /\ \A i \in DOMAIN w : t[i + 1] = w[i]
      BY <1>3, <1>4, <1>5, LenProperties
<1> HIDE DEF t
<1>7. \A i \in DOMAIN t : i # 1 => (i - 1 \in DOMAIN w /\ i = (i - 1) + 1 /\ t[i] = w[i - 1])
      BY <1>3, <1>6
<1>8. ToSet(t) = ToSet(s)
  <2>1. \A x \in ToSet(t) : x = n \/ x \in ToSet(w)
        BY <1>6, <1>7 DEF ToSet
  <2>2. \A x \in ToSet(w) : x \in ToSet(t)
        BY <1>3, <1>6 DEF ToSet
  <2>3. n \in ToSet(t)
        BY <1>3, <1>6 DEF ToSet
  <2>4. ToSet(w) = ToSet(s) \ {n}
        BY <1>2, Zenon
  <2>5. ToSet(t) = ToSet(w) \cup {n}
        BY <2>1, <2>2, <2>3
  <2>6. ToSet(w) \cup {n} = ToSet(s)
        BY <2>4, <1>1
  <2> QED BY <2>5, <2>6, Zenon
<1>9. IsInjective(t)
  <2>1. \A i \in DOMAIN w : w[i] # n
        BY <1>2 DEF ToSet
  <2>2. ASSUME NEW i \in DOMAIN t, NEW j \in DOMAIN t, t[i] = t[j]
        PROVE  i = j
        BY <2>1, <2>2, <1>2, <1>3, <1>6, <1>7 DEF IsInjective
  <2> QED BY <2>2 DEF IsInjective
<1> QED
    BY <1>2, <1>3, <1>5, <1>6, <1>8, <1>9 DEF t, w

LEMMA SwitchedFacts ==
    ASSUME NEW s \in Seq(NamesOf(Nodes)), IsInjective(s), NEW n \in NamesOf(Nodes),
           Contains(s, n)
    PROVE  LET t == Switched(s, n)
           IN  /\ t \in Seq(NamesOf(Nodes)) /\ IsInjective(t)
               /\ Len(t) = Len(s) /\ ToSet(t) = {Doubled(m) : m \in ToSet(s)}
               /\ t[1] = Doubled(n)
<1> DEFINE first == <<n>> \o Without(s, n)
<1>1. /\ first \in Seq(NamesOf(Nodes)) /\ IsInjective(first)
      /\ Len(first) = Len(s) /\ ToSet(first) = ToSet(s) /\ first[1] = n
      BY PutFirst
<1>2. 1 \in 1 .. Len(s)
  <2>1. PICK i \in 1 .. Len(s) : s[i] = n
        BY DEF Contains
  <2> QED BY <2>1, LenProperties
<1>3. Switched(s, n) = AsWritten(first)
      BY Zenon DEF Switched
<1> HIDE DEF first
<1>4. /\ AsWritten(first) \in Seq(NamesOf(Nodes)) /\ IsInjective(AsWritten(first))
      /\ Len(AsWritten(first)) = Len(first)
      /\ ToSet(AsWritten(first)) = {Doubled(m) : m \in ToSet(first)}
      /\ \A i \in 1 .. Len(first) : AsWritten(first)[i] = Doubled(first[i])
      BY <1>1, AsWrittenFacts
<1>5. AsWritten(first)[1] = Doubled(n)
      BY <1>1, <1>2, <1>4
<1> QED BY <1>1, <1>3, <1>4, <1>5

LEMMA JobFacts ==
    ASSUME NEW j \in Jobs
    PROVE  /\ j.cmd = "apply" => j \in Applies
           /\ j.cmd # "apply" => j.cmd = "switch" /\ \E n \in Given : j = Switch(n)
           /\ j.cmd = "switch" => j.nodes[1] \in Given /\ Scope(j) = {"groups"}
           /\ Scope(j) \in SUBSET Files
  BY DEF Jobs, Applies, Apply, Switch, Scope, Files

(* A list that is read and has the node. *)
LEMMA ReadList ==
    ASSUME JInv, NEW p \in Procs, pc[p] \notin {"idle", "read"}, job[p].cmd = "switch"
    PROVE  LET s == existing[p]["groups"].data
           IN  /\ s \in Seq(NamesOf(Nodes)) /\ IsInjective(s)
               /\ job[p].nodes[1] \in NamesOf(Nodes) /\ Contains(s, job[p].nodes[1])
<1>1. /\ existing[p]["groups"].kind = "managed"
      /\ Contains(existing[p]["groups"].data, job[p].nodes[1])
      BY DEF JInv, SwitchPlan
<1>2. IsContent("groups", existing[p]["groups"])
      BY DEF JInv, TypeOK, Files
<1>3. job[p].nodes[1] \in NamesOf(Nodes)
      BY JobFacts, NodesAssumption DEF JInv, Underway
<1> QED
    BY <1>1, <1>2, <1>3 DEF IsContent, Absent, Torn, Foreign, Content

LEMMA NextIsContent ==
    ASSUME JInv, NEW p \in Procs, pc[p] \notin {"idle", "read"}, NEW f \in unwritten[p]
    PROVE  IsContent(f, NextContent(f, job[p], existing[p][f]))
<1>1. job[p] \in Jobs /\ f \in Files
      BY DEF JInv, Underway, TypeOK
<1>2. CASE job[p].cmd = "apply"
      BY <1>1, <1>2, JobFacts, RenderedIsContent DEF NextContent
<1>3. CASE job[p].cmd # "apply"
  <2>1. job[p].cmd = "switch" /\ f = "groups"
        BY <1>1, <1>3, JobFacts DEF JInv, SwitchPlan
  <2> DEFINE t == Switched(existing[p]["groups"].data, job[p].nodes[1])
  <2>2. t \in Seq(NamesOf(Nodes)) /\ IsInjective(t)
        BY <2>1, ReadList, SwitchedFacts
  <2> HIDE DEF t
  <2>3. NextContent(f, job[p], existing[p][f]) = Content("managed", t)
        BY <2>1 DEF NextContent, t
  <2> QED
      BY <2>1, <2>2, <2>3 DEF IsContent, Content
<1> QED
    BY <1>2, <1>3

LEMMA InitJInv == Init => JInv
<1> SUFFICES ASSUME Init PROVE JInv
    OBVIOUS
<1>1. \A f \in Files : IsContent(f, disk[f])
      BY SimpleContents, RenderedIsContent DEF Init, Found
<1>2. TypeOK
      BY <1>1, SimpleContents, EnhancementAssumption DEF Init, TypeOK, Seconds
<1>3. Underway /\ SwitchPlan /\ SwitchDone
      BY DEF Init, Underway, SwitchPlan, SwitchDone, WritesDone, NoJob
<1> QED
    BY <1>2, <1>3 DEF JInv

LEMMA StartTypes ==
  ASSUME IInv, JInv, NEW p \in Procs, Start(p)
  PROVE  JInv'
<1> USE DEF JInv
<1>1. PICK j \in Jobs : job' = [job EXCEPT ![p] = j] /\ unread' = [unread EXCEPT ![p] = Scope(j)]
      BY DEF Start
<1>2. /\ pc' = [pc EXCEPT ![p] = "read"] /\ stamp' = [stamp EXCEPT ![p] = clock]
      /\ UNCHANGED <<disk, backups, clock, existing, unwritten, overtaken, owed, spoiled>>
      /\ pc[p] = "idle" /\ unwritten[p] = {}
      /\ commands < MaxCommands /\ commands' = commands + 1
      BY DEF Start, IInv, Shape, files
<1>3. TypeOK'
      BY <1>1, <1>2, JobFacts, EnhancementAssumption DEF TypeOK
<1>4. Underway'
      BY <1>1, <1>2 DEF TypeOK, Underway
<1>5. SwitchPlan'
      BY <1>1, <1>2, JobFacts DEF TypeOK, SwitchPlan
<1>6. SwitchDone'
      BY <1>1, <1>2 DEF TypeOK, SwitchDone, WritesDone
<1> QED
    BY <1>3, <1>4, <1>5, <1>6

LEMMA ReadTypes ==
  ASSUME IInv, JInv, NEW p \in Procs, Read(p)
  PROVE  JInv'
<1> USE DEF JInv
<1>1. PICK f \in unread[p] :
        /\ ReadApply(p, f) \/ ReadSwitch(p, f)
        /\ existing' = [existing EXCEPT ![p][f] = disk[f]]
        /\ unread' = [unread EXCEPT ![p] = @ \ {f}]
        /\ overtaken' = [overtaken EXCEPT ![p] = @ \ {f}]
      BY DEF Read
<1>2. /\ pc[p] = "read"
      /\ UNCHANGED <<disk, backups, clock, commands, job, stamp, owed, spoiled>>
      BY DEF Read, files
<1>3. /\ f \in Files
      /\ unwritten' = [unwritten EXCEPT ![p] = unwritten'[p]]
      /\ pc' = [pc EXCEPT ![p] = pc'[p]]
      /\ unwritten'[p] \subseteq unwritten[p] \cup {f}
      /\ pc'[p] \in {"read", "stamp", "backup"}
      BY <1>1 DEF ReadApply, ReadSwitch, TypeOK
<1>4. /\ existing'[p][f] = disk[f]
      /\ \A q \in Procs, g \in Files : q # p \/ g # f => existing'[q][g] = existing[q][g]
      BY <1>1, <1>3 DEF IInv, Shape
<1>5. TypeOK'
  <2>1. \A q \in Procs, g \in Files : IsContent(g, existing'[q][g])
        BY <1>3, <1>4 DEF TypeOK
  <2> QED
      BY <2>1, <1>1, <1>2, <1>3 DEF TypeOK
<1>6. Underway'
      BY <1>2, <1>3 DEF Underway, TypeOK
<1>7. SwitchPlan' /\ SwitchDone'
  <2>1. \A q \in Procs \ {p} :
          /\ pc'[q] = pc[q] /\ unread'[q] = unread[q] /\ unwritten'[q] = unwritten[q]
          /\ overtaken'[q] = overtaken[q]
          /\ existing'[q]["groups"] = existing[q]["groups"]
        BY <1>1, <1>2, <1>3, <1>4 DEF TypeOK, Files
  <2>2. ASSUME job[p].cmd = "switch"
        PROVE  /\ pc'[p] = "stamp" /\ unwritten'[p] = {"groups"}
               /\ existing'[p]["groups"].kind = "managed"
               /\ Contains(existing'[p]["groups"].data, job[p].nodes[1])
    <3>1. ReadSwitch(p, f) /\ f = "groups"
          BY <2>2, <1>1, <1>2 DEF ReadApply, SwitchPlan
    <3> QED
        BY <3>1, <1>4 DEF ReadSwitch, TypeOK
  <2>3. SwitchPlan'
        BY <2>1, <2>2, <1>2 DEF SwitchPlan
  <2>4. SwitchDone'
        BY <2>1, <2>2, <1>2 DEF SwitchDone, WritesDone
  <2> QED
      BY <2>3, <2>4
<1> QED
    BY <1>5, <1>6, <1>7

LEMMA StampTypes ==
  ASSUME IInv, JInv, NEW p \in Procs, Stamp(p)
  PROVE  JInv'
<1> USE DEF JInv
<1>1. /\ pc[p] = "stamp" /\ pc' = [pc EXCEPT ![p] = "backup"]
      /\ stamp' = [stamp EXCEPT ![p] = clock]
      /\ UNCHANGED <<disk, backups, clock, commands, job, unread, existing, unwritten,
                     overtaken, owed, spoiled>>
      BY DEF Stamp, files
<1>2. TypeOK' /\ Underway' /\ SwitchPlan'
      BY <1>1 DEF TypeOK, Underway, SwitchPlan
<1>3. SwitchDone'
      BY <1>1, ZenonT(60) DEF TypeOK, SwitchPlan, SwitchDone, WritesDone
<1> QED
    BY <1>2, <1>3

LEMMA EndTypes ==
  ASSUME IInv, JInv, NEW p \in Procs, End(p),
         UNCHANGED <<files, clock, commands, owed, spoiled>>
  PROVE  JInv'
<1> USE DEF JInv
<1>1. /\ pc' = [pc EXCEPT ![p] = "idle"]
      /\ unwritten' = [unwritten EXCEPT ![p] = {}]
      /\ existing' = [existing EXCEPT ![p] = [f \in Files |-> Absent]]
      /\ stamp' = [stamp EXCEPT ![p] = 0]
      /\ overtaken' = [overtaken EXCEPT ![p] = {}]
      /\ unread' = [unread EXCEPT ![p] = {}]
      /\ job' = [job EXCEPT ![p] = NoJob]
      /\ UNCHANGED <<disk, backups, clock, commands, owed, spoiled>>
      BY DEF End, files
<1>2. \A q \in Procs, f \in Files : IsContent(f, existing'[q][f])
      BY <1>1, SimpleContents DEF TypeOK, IInv, Shape
<1>3. TypeOK'
      BY <1>1, <1>2, EnhancementAssumption DEF TypeOK, Seconds
<1>4. \A q \in Procs : pc'[q] # "idle" =>
        /\ q # p /\ pc'[q] = pc[q] /\ job'[q] = job[q] /\ unread'[q] = unread[q]
        /\ unwritten'[q] = unwritten[q] /\ existing'[q] = existing[q]
        /\ overtaken'[q] = overtaken[q] /\ stamp'[q] = stamp[q]
      BY <1>1 DEF TypeOK, IInv, Shape
<1>5. Underway' /\ SwitchPlan'
      BY <1>4 DEF Underway, SwitchPlan
<1>6. SwitchDone'
      BY <1>1, <1>4 DEF SwitchDone, WritesDone
<1> QED
    BY <1>3, <1>5, <1>6

LEMMA OpenBackupTypes ==
  ASSUME IInv, JInv, NEW p \in Procs, OpenBackup(p)
  PROVE  JInv'
<1> USE DEF JInv
<1>1. PICK f \in unwritten[p] :
        \/ /\ pc' = [pc EXCEPT ![p] = "write"]
           /\ backups' = backups /\ spoiled' = spoiled
        \/ /\ pc' = [pc EXCEPT ![p] = "copy"]
           /\ backups' = [backups EXCEPT ![f][stamp[p]] = Torn]
           /\ spoiled' = IF backups[f][stamp[p]] = Absent THEN spoiled
                         ELSE spoiled \cup {f}
      BY DEF OpenBackup
<1>2. /\ pc[p] = "backup" /\ f \in Files /\ unwritten[p] # {}
      /\ UNCHANGED <<disk, clock, commands, job, unread, existing, unwritten, stamp,
                     overtaken, owed>>
      BY <1>1 DEF OpenBackup, TypeOK
<1>3. TypeOK'
      BY <1>1, <1>2, SimpleContents DEF TypeOK
<1>4. Underway' /\ SwitchPlan'
      BY <1>1, <1>2 DEF TypeOK, Underway, SwitchPlan
<1>5. SwitchDone'
  <2> SUFFICES ASSUME NEW q \in Procs, WritesDone(q)', job[q].cmd = "switch"
               PROVE  /\ "groups" \notin overtaken[q] =>
                           disk["groups"] = NextContent("groups", job[q], existing[q]["groups"])
                      /\ "groups" \notin spoiled' =>
                           backups'["groups"][stamp[q]] = existing[q]["groups"]
      BY <1>2 DEF SwitchDone, NextContent, Rendered
  <2>1. q # p /\ WritesDone(q) /\ pc[q] # "idle" /\ pc[q] # "read"
        BY <1>1, <1>2 DEF WritesDone, TypeOK
  <2>2. existing[q]["groups"] # Absent
        BY <2>1 DEF SwitchPlan, Absent, Content
  <2>3. ASSUME "groups" \notin spoiled'
        PROVE  backups'["groups"][stamp[q]] = existing[q]["groups"]
    <3>1. "groups" \notin spoiled /\ backups["groups"][stamp[q]] = existing[q]["groups"]
          BY <2>1, <2>3, <1>1 DEF SwitchDone
    <3>2. f = "groups" /\ stamp[p] = stamp[q] => backups' = backups
          BY <2>2, <2>3, <3>1, <1>1
    <3>3. f # "groups" \/ stamp[p] # stamp[q] =>
            backups'["groups"][stamp[q]] = backups["groups"][stamp[q]]
          BY <1>1, <1>2 DEF TypeOK, Files
    <3> QED
        BY <3>1, <3>2, <3>3
  <2> QED
      BY <2>1, <2>3 DEF SwitchDone
<1> QED
    BY <1>3, <1>4, <1>5

LEMMA FillBackupTypes ==
  ASSUME IInv, JInv, NEW p \in Procs, FillBackup(p)
  PROVE  JInv'
<1> USE DEF JInv
<1>1. PICK f \in unwritten[p] :
        /\ IsNext(f, unwritten[p])
        /\ \E c \in Filled(backups[f][stamp[p]], existing[p][f]) :
             backups' = [backups EXCEPT ![f][stamp[p]] = c]
      BY DEF FillBackup
<1>2. /\ pc[p] = "copy" /\ f \in Files /\ pc' = [pc EXCEPT ![p] = "write"]
      /\ UNCHANGED <<disk, clock, commands, job, unread, existing, unwritten, stamp,
                     overtaken, owed, spoiled>>
      BY <1>1 DEF FillBackup, TypeOK
<1>3. PICK c : /\ c \in {existing[p][f], Torn}
               /\ backups' = [backups EXCEPT ![f][stamp[p]] = c]
      BY <1>1 DEF Filled
<1>4. TypeOK'
      BY <1>2, <1>3, SimpleContents DEF TypeOK
<1>5. Underway' /\ SwitchPlan'
      BY <1>2 DEF TypeOK, Underway, SwitchPlan
<1>6. SwitchDone'
  <2> SUFFICES ASSUME NEW q \in Procs, WritesDone(q)', job[q].cmd = "switch"
               PROVE  /\ "groups" \notin overtaken[q] =>
                           disk["groups"] = NextContent("groups", job[q], existing[q]["groups"])
                      /\ "groups" \notin spoiled =>
                           backups'["groups"][stamp[q]] = existing[q]["groups"]
      BY <1>2 DEF SwitchDone, NextContent, Rendered
  <2>1. q # p /\ WritesDone(q) /\ pc[q] # "idle" /\ pc[q] # "read"
        BY <1>2 DEF WritesDone, TypeOK
  <2>2. existing[q]["groups"] # Torn
        BY <2>1 DEF SwitchPlan, Torn, Content
  <2>3. ASSUME "groups" \notin spoiled
        PROVE  backups'["groups"][stamp[q]] = existing[q]["groups"]
    <3>1. backups["groups"][stamp[q]] = existing[q]["groups"]
          BY <2>1, <2>3 DEF SwitchDone
    <3>2. f = "groups" => backups[f][stamp[p]] = Torn
          BY <2>3, <1>1, <1>2 DEF IInv, OwnBackup, Holds
    <3>3. ~(f = "groups" /\ stamp[p] = stamp[q])
          BY <2>2, <3>1, <3>2
    <3> QED
        BY <3>1, <3>3, <1>2, <1>3 DEF TypeOK
  <2> QED
      BY <2>1, <2>3 DEF SwitchDone
<1> QED
    BY <1>4, <1>5, <1>6

(* Both file steps leave the files of others who are not overtaken.        *)
LEMMA OvertakeTypes ==
  ASSUME JInv, NEW p \in Procs, NEW f \in Files, Overtake(p, f), Spoil(p, f),
         \A g \in Files \ {f} : disk'[g] = disk[g],
         \A q \in Procs \ {p} : pc'[q] = pc[q] /\ unwritten'[q] = unwritten[q],
         UNCHANGED <<backups, job, existing, stamp>>
  PROVE  /\ overtaken' \in [Procs -> SUBSET Files] /\ spoiled' \subseteq Files
         /\ \A q \in Procs \ {p} : WritesDone(q)' /\ job[q].cmd = "switch" =>
              /\ "groups" \notin overtaken'[q] =>
                   disk'["groups"] = NextContent("groups", job[q], existing[q]["groups"])
              /\ "groups" \notin spoiled' =>
                   backups["groups"][stamp[q]] = existing[q]["groups"]
<1> USE DEF JInv
<1>1. overtaken' \in [Procs -> SUBSET Files] /\ spoiled' \subseteq Files
      BY DEF TypeOK, Overtake, Spoil
<1>2. ASSUME NEW q \in Procs \ {p}, WritesDone(q)'
      PROVE  /\ WritesDone(q) /\ "groups" \in Files
             /\ "groups" \notin overtaken'[q] => "groups" # f /\ "groups" \notin overtaken[q]
             /\ spoiled \subseteq spoiled'
      BY <1>2 DEF WritesDone, Overtake, Spoil, Files
<1> QED
    BY <1>1, <1>2 DEF SwitchDone

LEMMA OpenFileTypes ==
  ASSUME IInv, JInv, NEW p \in Procs, OpenFile(p)
  PROVE  JInv'
<1> USE DEF JInv
<1>1. PICK f \in unwritten[p] :
        /\ disk' = [disk EXCEPT ![f] = Torn]
        /\ Spoil(p, f) /\ Overtake(p, f)
      BY DEF OpenFile
<1>2. /\ pc[p] = "write" /\ f \in Files /\ pc' = [pc EXCEPT ![p] = "fill"]
      /\ UNCHANGED <<backups, clock, commands, job, unread, existing, unwritten, stamp>>
      BY <1>1 DEF OpenFile, TypeOK
<1>3. /\ \A g \in Files \ {f} : disk'[g] = disk[g]
      /\ \A q \in Procs \ {p} : pc'[q] = pc[q] /\ unwritten'[q] = unwritten[q]
      BY <1>1, <1>2 DEF TypeOK
<1>4. TypeOK'
      BY <1>1, <1>2, <1>3, SimpleContents, OvertakeTypes DEF TypeOK
<1>5. Underway' /\ SwitchPlan'
      BY <1>2 DEF TypeOK, Underway, SwitchPlan
<1>6. SwitchDone'
  <2>1. ~WritesDone(p)'
        BY <1>2 DEF WritesDone, TypeOK
  <2>2. \A q \in Procs \ {p} : WritesDone(q)' /\ job[q].cmd = "switch" =>
              /\ "groups" \notin overtaken'[q] =>
                   disk'["groups"] = NextContent("groups", job[q], existing[q]["groups"])
              /\ "groups" \notin spoiled' =>
                   backups["groups"][stamp[q]] = existing[q]["groups"]
        BY <1>1, <1>2, <1>3, OvertakeTypes
  <2> QED
      BY <2>1, <2>2, <1>2 DEF SwitchDone
<1> QED
    BY <1>4, <1>5, <1>6

LEMMA FillFileTypes ==
  ASSUME IInv, JInv, NEW p \in Procs, FillFile(p)
  PROVE  JInv'
<1> USE DEF JInv
<1>1. PICK f \in unwritten[p] :
        /\ IsNext(f, unwritten[p])
        /\ \E c \in Filled(disk[f], NextContent(f, job[p], existing[p][f])) :
             disk' = [disk EXCEPT ![f] = c]
        /\ unwritten' = [unwritten EXCEPT ![p] = @ \ {f}]
        /\ Spoil(p, f) /\ Overtake(p, f)
      BY DEF FillFile
<1>2. /\ pc[p] = "fill" /\ f \in Files /\ pc' = [pc EXCEPT ![p] = "backup"]
      /\ UNCHANGED <<backups, clock, commands, job, unread, existing, stamp>>
      BY <1>1 DEF FillFile, TypeOK
<1>3. /\ \A g \in Files \ {f} : disk'[g] = disk[g]
      /\ disk'[f] \in Filled(disk[f], NextContent(f, job[p], existing[p][f]))
      /\ \A q \in Procs \ {p} : pc'[q] = pc[q] /\ unwritten'[q] = unwritten[q]
      BY <1>1, <1>2 DEF TypeOK
<1>4. TypeOK'
  <2>1. IsContent(f, disk'[f])
        BY <1>2, <1>3, SimpleContents, NextIsContent DEF Filled
  <2> QED
      BY <2>1, <1>1, <1>2, <1>3, OvertakeTypes DEF TypeOK
<1>5. Underway' /\ SwitchPlan'
      BY <1>1, <1>2 DEF TypeOK, Underway, SwitchPlan
<1>6. SwitchDone'
  <2>1. ASSUME job[p].cmd = "switch"
        PROVE  /\ "groups" \notin overtaken'[p] =>
                    disk'["groups"] = NextContent("groups", job[p], existing[p]["groups"])
               /\ "groups" \notin spoiled' =>
                    backups["groups"][stamp[p]] = existing[p]["groups"]
    <3>1. /\ f = "groups" /\ existing[p]["groups"] # Absent
          /\ overtaken'[p] = overtaken[p] /\ spoiled \subseteq spoiled'
          BY <2>1, <1>1, <1>2 DEF SwitchPlan, Absent, Content, Spoil, Overtake
    <3>2. "groups" \notin overtaken[p] => disk["groups"] = Torn
          BY <3>1, <1>1, <1>2 DEF IInv, AsRead
    <3>3. "groups" \notin spoiled => backups["groups"][stamp[p]] = existing[p]["groups"]
          BY <3>1, <1>1, <1>2 DEF IInv, OwnBackup, Holds
    <3> QED
        BY <3>1, <3>2, <3>3, <1>3 DEF Filled
  <2>2. \A q \in Procs \ {p} : WritesDone(q)' /\ job[q].cmd = "switch" =>
              /\ "groups" \notin overtaken'[q] =>
                   disk'["groups"] = NextContent("groups", job[q], existing[q]["groups"])
              /\ "groups" \notin spoiled' =>
                   backups["groups"][stamp[q]] = existing[q]["groups"]
        BY <1>1, <1>2, <1>3, OvertakeTypes
  <2> QED
      BY <2>1, <2>2, <1>2 DEF SwitchDone
<1> QED
    BY <1>4, <1>5, <1>6

LEMMA EditTypes == JInv /\ Edit => JInv'
<1> SUFFICES ASSUME JInv, Edit PROVE JInv'
    OBVIOUS
<1> USE DEF JInv
<1>1. PICK f \in Editable :
        /\ disk' = [disk EXCEPT ![f] = Foreign]
        /\ overtaken' = [q \in Procs |-> IF pc[q] = "idle" THEN overtaken[q]
                                         ELSE overtaken[q] \cup {f}]
      BY DEF Edit
<1>2. /\ f \in Files
      /\ UNCHANGED <<backups, clock, commands, pc, job, unread, existing, unwritten, stamp,
                     owed, spoiled>>
      BY EnhancementAssumption DEF Edit, Files, local
<1>3. TypeOK'
      BY <1>1, <1>2, SimpleContents DEF TypeOK
<1>4. Underway' /\ SwitchPlan'
      BY <1>2 DEF Underway, SwitchPlan
<1>5. SwitchDone'
      BY <1>1, <1>2 DEF TypeOK, SwitchDone, WritesDone, Files
<1> QED
    BY <1>3, <1>4, <1>5

LEMMA TickTypes == JInv /\ Tick => JInv'
  BY EnhancementAssumption
     DEF Tick, JInv, TypeOK, Seconds, Underway, SwitchPlan, SwitchDone, WritesDone, files, local

LEMMA TypesInvariance == Spec => []JInv
<1>1. IInv /\ JInv /\ [Next]_vars => JInv'
  <2> SUFFICES ASSUME IInv, JInv, [Next]_vars PROVE JInv'
      OBVIOUS
  <2>1. CASE UNCHANGED vars
        BY <2>1 DEF vars, files, local, JInv, TypeOK, Underway, SwitchPlan, SwitchDone,
                    WritesDone
  <2>2. CASE Edit \/ Tick
        BY <2>2, EditTypes, TickTypes
  <2>3. ASSUME NEW p \in Procs, Step(p) PROVE JInv'
    <3>1. CASE Finish(p) \/ Fail(p)
          BY <3>1, EndTypes DEF Finish, Fail
    <3> QED
        BY <2>3, <3>1, StartTypes, ReadTypes, StampTypes, OpenBackupTypes, FillBackupTypes,
           OpenFileTypes, FillFileTypes DEF Step
  <2> QED
      BY <2>1, <2>2, <2>3 DEF Next
<1> QED
    BY <1>1, InitJInv, Invariance, PTL DEF Spec

(* The files and the backups always hold what their kind may hold, the     *)
(* groups file no candidate twice (enhancement.go:197-272, 364-376).       *)
THEOREM Types == Spec => []TypeOK
<1>1. JInv => TypeOK
      BY DEF JInv
<1> QED
    BY <1>1, TypesInvariance, PTL

(* After a switch the file lists its backup's candidates, the chosen one   *)
(* first, unless the file was overtaken or the backup spoiled              *)
(* (enhancement.go:319-340).                                               *)
THEOREM SwitchReordersTheList == Spec => []SwitchOnlyReorders
<1>1. JInv => SwitchOnlyReorders
  <2> SUFFICES ASSUME JInv, NEW p \in Procs, WritesDone(p), job[p].cmd = "switch",
                      "groups" \notin overtaken[p] \cup spoiled
               PROVE  LET old == backups["groups"][stamp[p]].data
                          new == disk["groups"].data
                      IN  /\ Len(new) = Len(old)
                          /\ ToSet(new) = {Doubled(m) : m \in ToSet(old)}
                          /\ new[1] = Doubled(job[p].nodes[1])
      BY DEF SwitchOnlyReorders
  <2>1. /\ disk["groups"] = NextContent("groups", job[p], existing[p]["groups"])
        /\ backups["groups"][stamp[p]] = existing[p]["groups"]
        BY DEF JInv, SwitchDone
  <2> DEFINE s == existing[p]["groups"].data
  <2> DEFINE n == job[p].nodes[1]
  <2>2. disk["groups"].data = Switched(s, n)
        BY <2>1 DEF NextContent, Content
  <2>3. s \in Seq(NamesOf(Nodes)) /\ IsInjective(s) /\ n \in NamesOf(Nodes) /\ Contains(s, n)
        BY ReadList DEF WritesDone
  <2> HIDE DEF s, n
  <2>4. LET t == Switched(s, n)
        IN  /\ Len(t) = Len(s) /\ ToSet(t) = {Doubled(m) : m \in ToSet(s)}
            /\ t[1] = Doubled(n)
        BY <2>3, SwitchedFacts
  <2> QED
      BY <2>1, <2>2, <2>4 DEF s, n
<1> QED
    BY <1>1, TypesInvariance, PTL

-----------------------------------------------------------------------------
(* The refinement of module Archive.  A file is emptied and filled while   *)
(* the process holds its backup (IInv); of what a process is about to back *)
(* up, though it read it long ago, nothing is new to the archive.          *)

Unread(f, p) == existing[p][f] \in Archived[f] \cup {disk[f]}

KnownReads ==
    \A p \in Procs : \A f \in unwritten[p] \ (Editable \cup spoiled) :
        Whole(existing[p][f]) => Unread(f, p)

LEMMA ArchivedIs ==
    ASSUME NEW f \in Files
    PROVE  /\ Archived[f] = {c \in {backups[f][s] : s \in Seconds} : Whole(c)}
           /\ Archived'[f] = {c \in {backups'[f][s] : s \in Seconds} : Whole(c)}
  BY DEF Archived

(* A step of which the owner of the profile notices nothing. *)
LEMMA QuietStep ==
    ASSUME UNCHANGED <<disk, backups, spoiled>>
    PROVE  UNCHANGED Owner!vars /\ Archived' = Archived
  BY DEF Owner!vars, Archived

(* A step on f alone leaves the archive of the others alone. *)
LEMMA OtherArchives ==
    ASSUME NEW f \in Files, \A g \in Files \ {f} : backups'[g] = backups[g]
    PROVE  \A g \in Files \ {f} : Archived'[g] = Archived[g]
  BY DEF Archived

LEMMA InitOwner == Init => Owner!Init /\ KnownReads
<1> SUFFICES ASSUME Init PROVE Owner!Init /\ KnownReads
    OBVIOUS
<1>1. DOMAIN disk = Files /\ spoiled = {}
      BY DEF Init
<1>2. \A f \in Files : Archived[f] = {}
      BY ArchivedIs, ContentFacts DEF Init
<1>3. Archived = [f \in Files |-> {}]
      BY <1>2 DEF Archived
<1>4. KnownReads
      BY DEF Init, KnownReads
<1> QED
    BY <1>1, <1>3, <1>4 DEF Owner!Init

LEMMA QuietOwner ==
    ASSUME IInv, KnownReads, NEW p \in Procs,
           Start(p) \/ Read(p) \/ Stamp(p) \/ Finish(p) \/ Fail(p)
    PROVE  KnownReads' /\ UNCHANGED Owner!vars
<1>1. UNCHANGED <<disk, backups, spoiled>>
      BY DEF Start, Read, Stamp, Finish, Fail, files
<1>2. Archived' = Archived /\ UNCHANGED Owner!vars
      BY <1>1, QuietStep
<1>3. \A q \in Procs : \A f \in unwritten'[q] :
        \/ f \in unwritten[q] /\ existing'[q][f] = existing[q][f]
        \/ existing'[q][f] = disk[f]
  <2>1. CASE Start(p) \/ Stamp(p)
        BY <2>1 DEF Start, Stamp
  <2>2. CASE Finish(p) \/ Fail(p)
        BY <2>2 DEF Finish, Fail, End, IInv, Shape
  <2>3. CASE Read(p)
    <3>1. PICK f \in unread[p] :
            /\ ReadApply(p, f) \/ ReadSwitch(p, f)
            /\ existing' = [existing EXCEPT ![p][f] = disk[f]]
          BY <2>3 DEF Read
    <3>2. f \in Files /\ \A q \in Procs : unwritten[q] \in SUBSET Files
          BY DEF IInv, Shape
    <3>3. \A q \in Procs : \A g \in unwritten'[q] : g \in unwritten[q] \/ (q = p /\ g = f)
      <4>1. \/ unwritten' = [unwritten EXCEPT ![p] = unwritten[p] \cup {f}]
            \/ unwritten' = [unwritten EXCEPT ![p] = unwritten[p]]
            \/ unwritten' = [unwritten EXCEPT ![p] = {f}]
            BY <3>1 DEF ReadApply, ReadSwitch
      <4>2. unwritten \in [Procs -> SUBSET Files]
            BY DEF IInv, Shape
      <4> QED
          BY <4>1, <4>2
    <3>4. \A q \in Procs : \A g \in Files :
            existing'[q][g] = IF q = p /\ g = f THEN disk[f] ELSE existing[q][g]
          BY <3>1, <3>2 DEF IInv, Shape
    <3> QED
        BY <3>2, <3>3, <3>4
  <2> QED
      BY <2>1, <2>2, <2>3
<1> QED
    BY <1>1, <1>2, <1>3 DEF KnownReads, Unread

LEMMA EditOwner ==
    ASSUME IInv, KnownReads, Edit
    PROVE  KnownReads' /\ \E f \in Files : Owner!Edit(f)
<1>1. PICK f \in Editable : disk' = [disk EXCEPT ![f] = Foreign]
      BY DEF Edit
<1>2. /\ f \in Files /\ UNCHANGED <<backups, unwritten, existing, spoiled>>
      BY EnhancementAssumption DEF Edit, Files, local
<1>3. Archived' = Archived
      BY <1>2 DEF Archived
<1>4. Owner!Edit(f)
      BY <1>1, <1>2, <1>3 DEF Owner!Edit
<1>5. KnownReads'
      BY <1>1, <1>2, <1>3 DEF KnownReads, Unread, IInv, Shape
<1> QED
    BY <1>2, <1>4, <1>5

(* Opening a backup costs nothing unless the name is in use. *)
LEMMA OpenBackupOwner ==
    ASSUME IInv, KnownReads, NEW p \in Procs, OpenBackup(p)
    PROVE  KnownReads' /\ (UNCHANGED Owner!vars \/ \E f \in Files : Owner!Disturb(f))
<1>1. PICK f \in unwritten[p] :
        \/ backups' = backups /\ spoiled' = spoiled
        \/ /\ backups' = [backups EXCEPT ![f][stamp[p]] = Torn]
           /\ spoiled' = IF backups[f][stamp[p]] = Absent THEN spoiled ELSE spoiled \cup {f}
      BY DEF OpenBackup
<1>2. /\ f \in Files /\ stamp[p] \in Seconds
      /\ UNCHANGED <<disk, unwritten, existing>>
      BY DEF OpenBackup, IInv, Shape
<1>3. CASE backups' = backups /\ spoiled' = spoiled
  <2>1. Archived' = Archived /\ UNCHANGED Owner!vars
        BY <1>2, <1>3, QuietStep
  <2> QED
      BY <1>2, <1>3, <2>1 DEF KnownReads, Unread
<1> DEFINE Opens == /\ backups' = [backups EXCEPT ![f][stamp[p]] = Torn]
                    /\ spoiled' = IF backups[f][stamp[p]] = Absent THEN spoiled
                                  ELSE spoiled \cup {f}
<1>4. ASSUME Opens
      PROVE  /\ \A g \in Files \ {f} : backups'[g] = backups[g]
             /\ \A s \in Seconds : backups'[f][s] = IF s = stamp[p] THEN Torn ELSE backups[f][s]
      BY <1>2, <1>4 DEF IInv, Shape
<1>5. CASE Opens /\ backups[f][stamp[p]] = Absent
  <2>1. \A g \in Files : Archived'[g] = Archived[g]
    <3>1. \A s \in Seconds : backups'[f][s] # backups[f][s] =>
                                ~Whole(backups'[f][s]) /\ ~Whole(backups[f][s])
          BY <1>2, <1>4, <1>5, ContentFacts
    <3>2. {c \in {backups'[f][s] : s \in Seconds} : Whole(c)} =
            {c \in {backups[f][s] : s \in Seconds} : Whole(c)}
          BY <3>1
    <3>3. Archived'[f] = Archived[f]
          BY <3>2, <1>2, ArchivedIs
    <3> QED
        BY <3>3, <1>2, <1>4, <1>5, OtherArchives
  <2>2. Archived' = Archived
        BY <2>1 DEF Archived
  <2> QED
      BY <2>2, <1>1, <1>2, <1>5 DEF KnownReads, Unread, Owner!vars
<1>6. CASE Opens /\ backups[f][stamp[p]] # Absent
  <2>1. spoiled' = spoiled \cup {f}
        BY <1>1, <1>6
  <2>2. \A g \in Files \ {f} : Archived'[g] = Archived[g]
        BY <1>1, <1>2, <1>4, <1>6, OtherArchives
  <2>4. Owner!Disturb(f)
        BY <2>1, <2>2, <1>2 DEF Owner!Disturb, Owner!Only
  <2>5. KnownReads'
        BY <2>1, <2>2, <1>2 DEF KnownReads, Unread, IInv, Shape
  <2> QED
      BY <2>4, <2>5, <1>2
<1> QED
    BY <1>1, <1>3, <1>5, <1>6

(* What goes into the archive is in the file, is archived already, or was  *)
(* in the file before somebody else changed it.                            *)
LEMMA FillBackupOwner ==
    ASSUME IInv, KnownReads, NEW p \in Procs, FillBackup(p)
    PROVE  KnownReads' /\ (UNCHANGED Owner!vars \/ \E f \in Files : Owner!Keep(f) \/ Owner!Disturb(f))
<1>1. PICK f \in unwritten[p] :
        /\ IsNext(f, unwritten[p])
        /\ \E c \in Filled(backups[f][stamp[p]], existing[p][f]) :
             backups' = [backups EXCEPT ![f][stamp[p]] = c]
      BY DEF FillBackup
<1>2. /\ pc[p] = "copy" /\ f \in Files /\ stamp[p] \in Seconds
      /\ UNCHANGED <<disk, unwritten, existing, spoiled>>
      BY DEF FillBackup, IInv, Shape
<1>3. PICK c \in Filled(backups[f][stamp[p]], existing[p][f]) :
        /\ \A g \in Files \ {f} : backups'[g] = backups[g]
        /\ \A s \in Seconds : backups'[f][s] = IF s = stamp[p] THEN c ELSE backups[f][s]
      BY <1>1, <1>2 DEF IInv, Shape
<1>4. \A g \in Files \ {f} : Archived'[g] = Archived[g]
      BY <1>2, <1>3, OtherArchives
<1>5. CASE f \in spoiled
  <2>1. Owner!Disturb(f)
        BY <1>2, <1>4, <1>5 DEF Owner!Disturb, Owner!Only
  <2>2. KnownReads'
        BY <1>2, <1>4, <1>5 DEF KnownReads, Unread, IInv, Shape
  <2> QED
      BY <2>1, <2>2, <1>2
<1>6. CASE f \notin spoiled
  <2> DEFINE e == existing[p][f]
  <2>1. backups[f][stamp[p]] = Torn
        BY <1>1, <1>2, <1>6 DEF IInv, OwnBackup, Holds
  <2>2. \A s \in Seconds : backups'[f][s] = IF s = stamp[p] THEN e ELSE backups[f][s]
        BY <1>3, <2>1 DEF Filled
  <2>3. Archived'[f] = Archived[f] \cup (IF Whole(e) THEN {e} ELSE {})
    <3> HIDE DEF e
    <3>1. ASSUME NEW x
          PROVE  (\E s \in Seconds : x = backups'[f][s]) /\ Whole(x) <=>
                   \/ (\E s \in Seconds : x = backups[f][s]) /\ Whole(x)
                   \/ x = e /\ Whole(e)
          BY <1>2, <2>1, <2>2, ContentFacts
    <3>2. \A x : x \in Archived'[f] <=> (\E s \in Seconds : x = backups'[f][s]) /\ Whole(x)
          BY <1>2, ArchivedIs
    <3>3. \A x : x \in Archived[f] <=> (\E s \in Seconds : x = backups[f][s]) /\ Whole(x)
          BY <1>2, ArchivedIs
    <3> QED
        BY <3>1, <3>2, <3>3
  <2>4. KnownReads'
    <3>1. \A g \in Files : Archived[g] \subseteq Archived'[g]
          BY <1>4, <2>3
    <3> QED
        BY <3>1, <1>2 DEF KnownReads, Unread, IInv, Shape
  <2>5. CASE f \in Editable
        BY <2>3, <2>4, <2>5, <1>2, <1>4 DEF Owner!Keep, Owner!Only
  <2>6. CASE f \notin Editable /\ Archived'[f] = Archived[f]
    <3>1. Archived' = Archived
          BY <2>6, <1>4 DEF Archived
    <3> QED
        BY <3>1, <2>4, <1>2 DEF Owner!vars
  <2>7. CASE f \notin Editable /\ Archived'[f] # Archived[f]
    <3>1. Whole(e) /\ e \notin Archived[f]
          BY <2>3, <2>7
    <3>2. e = disk[f]
          BY <3>1, <2>7, <1>6 DEF KnownReads, Unread
    <3>3. Archived'[f] = Archived[f] \cup {disk[f]}
          BY <2>3, <3>1, <3>2
    <3> QED
        BY <3>3, <2>4, <1>2, <1>4 DEF Owner!Keep, Owner!Only
  <2> QED
      BY <2>5, <2>6, <2>7
<1> QED
    BY <1>5, <1>6

(* A file is only emptied when its content is archived.                    *)
LEMMA OpenFileOwner ==
    ASSUME IInv, JInv, KnownReads, NEW p \in Procs, OpenFile(p)
    PROVE  KnownReads' /\ \E f \in Files : Owner!Empty(f) \/ Owner!Disturb(f)
<1>1. PICK f \in unwritten[p] :
        /\ IsNext(f, unwritten[p])
        /\ disk' = [disk EXCEPT ![f] = Torn]
        /\ spoiled' = IF f \in overtaken[p] THEN spoiled \cup {f} ELSE spoiled
      BY DEF OpenFile, Spoil
<1>2. /\ pc[p] = "write" /\ f \in Files /\ stamp[p] \in Seconds
      /\ UNCHANGED <<backups, unwritten, existing>>
      BY DEF OpenFile, IInv, Shape
<1>3. Archived' = Archived
      BY <1>2 DEF Archived
<1>4. \A g \in Files \ {f} : disk'[g] = disk[g]
      BY <1>1, <1>2 DEF IInv, Shape
<1>5. f \notin spoiled' /\ Whole(disk[f]) => disk[f] \in Archived[f]
  <2> SUFFICES ASSUME f \notin spoiled', Whole(disk[f]) PROVE disk[f] \in Archived[f]
      OBVIOUS
  <2>1. f \notin spoiled /\ f \notin overtaken[p]
        BY <1>1
  <2>2. disk[f] = existing[p][f]
        BY <2>1, <1>1, <1>2 DEF IInv, AsRead
  <2>3. Holds(p, f)
        BY <2>2, <1>1, <1>2, ContentFacts DEF Holds
  <2>4. backups[f][stamp[p]] = disk[f]
        BY <2>1, <2>2, <2>3, <1>2 DEF IInv, OwnBackup
  <2> QED
      BY <2>4, <1>2, ArchivedIs
<1>6. KnownReads'
  <2> SUFFICES ASSUME NEW q \in Procs, NEW g \in unwritten[q] \ (Editable \cup spoiled'),
                      Whole(existing[q][g])
               PROVE  existing[q][g] \in Archived[g] \cup {disk'[g]}
      BY <1>2, <1>3 DEF KnownReads, Unread
  <2>1. g \in Files /\ g \notin spoiled
        BY <1>1 DEF IInv, Shape
  <2>2. existing[q][g] \in Archived[g] \cup {disk[g]}
        BY <2>1 DEF KnownReads, Unread
  <2>3. CASE g = f
        BY <2>2, <2>3, <1>5
  <2> QED
      BY <2>1, <2>2, <2>3, <1>4
<1>7. CASE f \in overtaken[p]
      BY <1>1, <1>2, <1>3, <1>4, <1>6, <1>7 DEF Owner!Disturb, Owner!Only
<1>8. CASE f \notin overtaken[p] /\ f \in spoiled
  <2>1. Owner!Disturb(f)
        BY <1>1, <1>3, <1>4, <1>8 DEF Owner!Disturb, Owner!Only
  <2> QED
      BY <2>1, <1>2, <1>6
<1>9. CASE f \notin overtaken[p] /\ f \notin spoiled
  <2>1. IsContent(f, disk[f])
        BY <1>2 DEF JInv, TypeOK
  <2>2. Whole(disk[f]) \/ disk[f] \in {Absent, Torn}
        BY <2>1 DEF IsContent, Whole, Content, Foreign
  <2>3. Owner!Empty(f)
        BY <2>2, <1>1, <1>3, <1>5, <1>9 DEF Owner!Empty
  <2> QED
      BY <2>3, <1>2, <1>6
<1> QED
    BY <1>7, <1>8, <1>9

LEMMA SwitchMovesAhead ==
    ASSUME NEW s \in Seq(NamesOf(Nodes)), IsInjective(s), NEW n \in NamesOf(Nodes), Contains(s, n),
           NEW new, NEW old, new.kind = old.kind,
           new.data = Switched(s, n), old.data = s
    PROVE  Owner!MovedAhead(new, old)
<1>1. PICK k \in 1 .. Len(s) : s[k] = n
      BY DEF Contains
<1> DEFINE w == Without(s, n)
<1> DEFINE t == <<n>> \o w
<1>2. /\ w \in Seq(NamesOf(Nodes)) /\ Len(w) = Len(s) - 1 /\ Len(s) \in Nat
      /\ \A i \in 1 .. k - 1 : w[i] = s[i]
      /\ \A i \in k .. Len(s) - 1 : w[i] = s[i + 1]
  <2>1. n \in ToSet(s) /\ Len(s) \in Nat
        BY <1>1, LenProperties DEF ToSet
  <2>2. w \in Seq(NamesOf(Nodes)) /\ Len(w) = Len(s) - 1
        BY <2>1, WithoutFacts
  <2>3. /\ \A i \in 1 .. k - 1 : Without(s, s[k])[i] = s[i]
        /\ \A i \in k .. Len(s) - 1 : Without(s, s[k])[i] = s[i + 1]
        BY WithoutPlaces
  <2> QED
      BY <2>1, <2>2, <2>3, <1>1
<1> HIDE DEF w
<1>3. <<n>> \in Seq(NamesOf(Nodes)) /\ Len(<<n>>) = 1 /\ <<n>>[1] = n
      OBVIOUS
<1>4. /\ Len(t) = 1 + Len(w)
      /\ \A i \in 1 .. 1 + Len(w) : t[i] = IF i <= 1 THEN <<n>>[i] ELSE w[i - 1]
      BY <1>2, <1>3, ConcatProperties
<1> HIDE DEF t
<1>5. t[1] = s[k] /\ \A i \in 2 .. Len(s) : t[i] = w[i - 1]
  <2>1. 1 \in 1 .. 1 + Len(w)
        BY <1>2, LenProperties
  <2>2. t[1] = <<n>>[1]
        BY <2>1, <1>4
  <2>3. \A i \in 2 .. Len(s) : i \in 1 .. 1 + Len(w) /\ ~(i <= 1)
        BY <1>2
  <2> QED
      BY <2>2, <2>3, <1>1, <1>3, <1>4
<1>6. ASSUME NEW i \in 1 .. k - 1
      PROVE  t[i + 1] = s[i]
  <2>1. i + 1 \in 2 .. Len(s) /\ (i + 1) - 1 = i
        BY <1>2
  <2> QED
      BY <2>1, <1>2, <1>5
<1>7. ASSUME NEW i \in k + 1 .. Len(s)
      PROVE  t[i] = s[i]
  <2>1. i \in 2 .. Len(s) /\ i - 1 \in k .. Len(s) - 1 /\ (i - 1) + 1 = i
        BY <1>2
  <2> QED
      BY <2>1, <1>2, <1>5
<1>8. t \in Seq(NamesOf(Nodes)) /\ Len(t) = Len(s)
      BY <1>2, <1>3, <1>4, ConcatProperties DEF t
<1>9. new.data = AsWritten(t)
      BY Zenon DEF Switched, t, w
<1> DEFINE u == AsWritten(t)
<1>10. Len(u) = Len(s) /\ \A i \in 1 .. Len(s) : u[i] = Doubled(t[i])
       BY <1>8, AsWrittenFacts
<1> HIDE DEF u
<1>11. u[1] = Doubled(s[k])
  <2>1. 1 \in 1 .. Len(s)
        BY <1>2
  <2> QED BY <2>1, <1>5, <1>10
<1>12. ASSUME NEW i \in 1 .. k - 1
       PROVE  u[i + 1] = Doubled(s[i])
  <2>1. i + 1 \in 1 .. Len(s)
        BY <1>2
  <2> QED BY <2>1, <1>6, <1>10
<1>13. ASSUME NEW i \in k + 1 .. Len(s)
       PROVE  u[i] = Doubled(s[i])
  <2>1. i \in 1 .. Len(s)
        BY <1>2
  <2> QED BY <2>1, <1>7, <1>10
<1>14. new.data = u
       BY <1>9 DEF u
<1>15. new.data = u /\ old.data = s /\ new.kind = old.kind /\ k \in 1 .. Len(old.data)
       BY <1>14
<1>16. Len(new.data) = Len(old.data)
       BY <1>10, <1>15, Zenon
<1>17. /\ new.data[1] = Doubled(old.data[k])
       /\ \A i \in 1 .. k - 1 : new.data[i + 1] = Doubled(old.data[i])
       /\ \A i \in k + 1 .. Len(old.data) : new.data[i] = Doubled(old.data[i])
       BY <1>11, <1>12, <1>13, <1>15
<1>18. \A m : Owner!Doubled(m) = Doubled(m)
       BY DEF Owner!Doubled, Doubled
<1> QED
    BY <1>15, <1>16, <1>17, <1>18, Zenon DEF Owner!MovedAhead

(* What a switch fills the file with is a list it holds a backup of.       *)
LEMMA FillIsMovedAhead ==
    ASSUME IInv, JInv, NEW p \in Procs, pc[p] = "fill", job[p].cmd = "switch",
           IsNext("groups", unwritten[p]), "groups" \notin spoiled
    PROVE  /\ existing[p]["groups"] \in Archived["groups"]
           /\ Owner!MovedAhead(NextContent("groups", job[p], existing[p]["groups"]),
                               existing[p]["groups"])
<1> DEFINE e == existing[p]["groups"]
<1>1. e.kind = "managed" /\ IsContent("groups", e) /\ stamp[p] \in Seconds
      BY DEF JInv, TypeOK, SwitchPlan, Files
<1>2. /\ e.data \in Seq(NamesOf(Nodes)) /\ IsInjective(e.data)
      /\ job[p].nodes[1] \in NamesOf(Nodes) /\ Contains(e.data, job[p].nodes[1])
      BY ReadList
<1> HIDE DEF e
<1>3. Whole(e) /\ e # Absent
      BY <1>1 DEF Whole, Absent, Content
<1>4. backups["groups"][stamp[p]] = e
  <2>1. Holds(p, "groups")
        BY <1>3 DEF Holds, e
  <2> QED
      BY <2>1 DEF IInv, OwnBackup, Files, e
<1>5. e \in Archived["groups"]
      BY <1>1, <1>3, <1>4, ArchivedIs DEF Files
<1> DEFINE new == NextContent("groups", job[p], e)
<1>6. new.kind = e.kind /\ new.data = Switched(e.data, job[p].nodes[1])
      BY <1>1 DEF NextContent, Content
<1> HIDE DEF new
<1>7. Owner!MovedAhead(new, e)
      BY <1>2, <1>6, SwitchMovesAhead
<1> QED
    BY <1>5, <1>7 DEF e, new

(* What fills a file is rendered, or a list of its archive with one        *)
(* candidate moved ahead.                                                  *)
LEMMA FillFileOwner ==
    ASSUME IInv, JInv, KnownReads, NEW p \in Procs, FillFile(p)
    PROVE  KnownReads' /\ \E f \in Files : Owner!Fill(f) \/ Owner!Disturb(f)
<1>1. PICK f \in unwritten[p] :
        /\ IsNext(f, unwritten[p])
        /\ \E c \in Filled(disk[f], NextContent(f, job[p], existing[p][f])) :
             disk' = [disk EXCEPT ![f] = c]
        /\ unwritten' = [unwritten EXCEPT ![p] = @ \ {f}]
        /\ spoiled' = IF f \in overtaken[p] THEN spoiled \cup {f} ELSE spoiled
      BY DEF FillFile, Spoil
<1>2. /\ pc[p] = "fill" /\ f \in Files
      /\ UNCHANGED <<backups, existing>>
      BY DEF FillFile, IInv, Shape
<1>3. /\ Archived' = Archived
      /\ \A q \in Procs : unwritten'[q] \subseteq unwritten[q]
      BY <1>1, <1>2 DEF Archived, IInv, Shape
<1>4. /\ \A g \in Files \ {f} : disk'[g] = disk[g]
      /\ disk'[f] \in Filled(disk[f], NextContent(f, job[p], existing[p][f]))
      BY <1>1, <1>2 DEF IInv, Shape
<1>5. f \notin spoiled' => disk[f] = Torn
      BY <1>1, <1>2 DEF IInv, AsRead
<1>6. KnownReads'
  <2> SUFFICES ASSUME NEW q \in Procs, NEW g \in unwritten'[q] \ (Editable \cup spoiled'),
                      Whole(existing[q][g])
               PROVE  existing[q][g] \in Archived[g] \cup {disk'[g]}
      BY <1>2, <1>3 DEF KnownReads, Unread
  <2>1. g \in unwritten[q] /\ g \in Files /\ g \notin spoiled
        BY <1>1, <1>3 DEF IInv, Shape
  <2>2. existing[q][g] \in Archived[g] \cup {disk[g]}
        BY <2>1 DEF KnownReads, Unread
  <2>3. CASE g = f
        BY <2>2, <2>3, <1>5, ContentFacts
  <2> QED
      BY <2>1, <2>2, <2>3, <1>4
<1>7. CASE f \in spoiled'
  <2>1. spoiled' = spoiled \cup {f}
        BY <1>1, <1>7
  <2>2. Owner!Disturb(f)
        BY <2>1, <1>3, <1>4 DEF Owner!Disturb, Owner!Only
  <2> QED
      BY <2>2, <1>2, <1>6
<1>8. CASE f \notin spoiled'
  <2>1. spoiled' = spoiled /\ disk[f] = Torn
        BY <1>1, <1>5, <1>8
  <2>2. disk'[f] = NextContent(f, job[p], existing[p][f])
        BY <2>1, <1>4 DEF Filled
  <2>3. job[p] \in Jobs
        BY <1>2 DEF JInv, Underway
  <2>4. CASE job[p].cmd = "apply"
    <3>1. job[p] \in Applies
          BY <2>3, <2>4, JobFacts
    <3>2. disk'[f] \in {Rendered(f, j) : j \in Applies}
          BY <3>1, <2>2, <2>4 DEF NextContent
    <3>3. Owner!Fill(f)
          BY <3>2, <2>1, <1>2, <1>3, <1>4 DEF Owner!Fill, Owner!Only
    <3> QED
        BY <3>3, <1>2, <1>6
  <2>5. CASE job[p].cmd # "apply"
    <3>1. job[p].cmd = "switch"
          BY <2>3, <2>5, JobFacts
    <3>2. f = "groups"
          BY <3>1, <1>2 DEF JInv, SwitchPlan
    <3>3. /\ existing[p][f] \in Archived[f]
          /\ Owner!MovedAhead(disk'[f], existing[p][f])
          BY <3>1, <3>2, <2>2, <1>1, <1>2, <1>8, FillIsMovedAhead
    <3>4. Owner!Fill(f)
          BY <3>2, <3>3, <2>1, <1>3, <1>4 DEF Owner!Fill, Owner!Only
    <3> QED
        BY <3>4, <1>2, <1>6
  <2> QED
      BY <2>4, <2>5
<1> QED
    BY <1>7, <1>8

LEMMA StepKeepsArchive ==
    IInv /\ JInv /\ KnownReads /\ [Next]_vars => KnownReads' /\ [Owner!Next]_(Owner!vars)
<1> SUFFICES ASSUME IInv, JInv, KnownReads, [Next]_vars
             PROVE  KnownReads' /\ [Owner!Next]_(Owner!vars)
    OBVIOUS
<1>1. CASE UNCHANGED vars
  <2>1. UNCHANGED <<disk, backups, spoiled>> /\ UNCHANGED <<unwritten, existing>>
        BY <1>1 DEF vars, files, local
  <2> QED
      BY <2>1, QuietStep DEF KnownReads, Unread
<1>2. CASE Edit
      BY <1>2, EditOwner DEF Owner!Next
<1>3. CASE Tick
  <2>1. UNCHANGED <<disk, backups, spoiled>> /\ UNCHANGED <<unwritten, existing>>
        BY <1>3 DEF Tick, files, local
  <2> QED
      BY <2>1, QuietStep DEF KnownReads, Unread
<1>4. ASSUME NEW p \in Procs, Step(p)
      PROVE  KnownReads' /\ [Owner!Next]_(Owner!vars)
  <2>1. CASE OpenBackup(p) \/ FillBackup(p)
        BY <2>1, OpenBackupOwner, FillBackupOwner DEF Owner!Next
  <2>2. CASE OpenFile(p) \/ FillFile(p)
        BY <2>2, OpenFileOwner, FillFileOwner DEF Owner!Next
  <2> QED
      BY <2>1, <2>2, <1>4, QuietOwner DEF Step
<1> QED
    BY <1>1, <1>2, <1>3, <1>4 DEF Next

(* Whatever commands overlap and wherever they die, the owner of the       *)
(* profile finds module Archive implemented: no file is emptied before its *)
(* content is archived, nothing leaves the archive, and nothing fills a    *)
(* file but a rendering or a list of the archive with one candidate moved  *)
(* ahead, until the file is disturbed (enhancement.go:86-103, 274-362).    *)
THEOREM ImplementsArchive == Spec => ArchiveKept
<1>1. Init => Owner!Init /\ KnownReads
      BY InitOwner
<1>2. IInv /\ JInv /\ KnownReads /\ [Next]_vars => KnownReads' /\ [Owner!Next]_(Owner!vars)
      BY StepKeepsArchive
<1> QED
    BY <1>1, <1>2, Invariance, TypesInvariance, PTL DEF Spec, ArchiveKept, Owner!Spec
-----------------------------------------------------------------------------
(* The text of a list: what the text is between its ends.                  *)
TextWords == Nodes \cup {"", "static", "bootstrap", "final"}

Above == Opening("bootstrap")
Below == Closing("final", Static)

Listed(list) == [i \in DOMAIN list |-> Item(list[i], "single", Column)]

(* The names of nodes are names of the text, and none is no name.          *)
LEMMA NodeNames ==
    /\ NoName \in NamesOf(TextWords) /\ Static \in NamesOf(TextWords)
    /\ NamesOf(Nodes) \subseteq NamesOf(TextWords)
    /\ \A m \in NamesOf(Nodes) : m # NoName
<1>1. \A w \in TextWords : Name(w, 0) \in NamesOf(TextWords)
      BY DEF Name, NamesOf, Remarks
<1>2. "" \in TextWords /\ "static" \in TextWords /\ Nodes \subseteq TextWords
      BY Zenon DEF TextWords
<1>3. NoName \in NamesOf(TextWords) /\ Static \in NamesOf(TextWords)
      BY <1>1, <1>2, Zenon DEF NoName, Static
<1>4. NamesOf(Nodes) \subseteq NamesOf(TextWords)
      BY <1>2 DEF NamesOf
<1>5. ASSUME NEW m \in NamesOf(Nodes), m = NoName PROVE FALSE
  <2>1. m.node \in Nodes
        BY DEF NamesOf
  <2>2. \A w : Name(w, 0).node = w
        BY DEF Name
  <2>3. m.node = ""
        BY <1>5, <2>2, Zenon DEF NoName
  <2> QED BY <2>1, <2>3, NodesAssumption, Zenon
<1> QED BY <1>3, <1>4, <1>5

LEMMA NamesListed ==
    ASSUME NEW names \in Seq(NamesOf(Nodes))
    PROVE  names \in Seq(NamesOf(TextWords)) /\ Without(names, NoName) = names
<1>1. names \in Seq(NamesOf(TextWords))
      BY NodeNames, SeqMonotonic
<1>2. ToSet(names) \subseteq ToSet(names) \ {NoName}
  <2>1. ToSet(names) \subseteq NamesOf(Nodes)
        BY LenProperties, ElementOfSeq DEF ToSet
  <2> QED BY <2>1, NodeNames
<1>3. Without(names, NoName) = names
      BY <1>2, WithinAll DEF Without
<1> QED BY <1>1, <1>3

LEMMA ListedIs ==
    ASSUME NEW list \in Seq(NamesOf(TextWords))
    PROVE  /\ Listed(list) \in Seq(ItemsIn(TextWords)) /\ Len(Listed(list)) = Len(list)
           /\ \A i \in 1 .. Len(list) : Listed(list)[i] = Item(list[i], "single", Column)
           /\ NamesIn(Listed(list)) = list
<1>1. /\ DOMAIN list = 1 .. Len(list) /\ Len(list) \in Nat
      /\ \A i \in 1 .. Len(list) : list[i] \in NamesOf(TextWords)
      BY LenProperties, ElementOfSeq
<1>2. \A m \in NamesOf(TextWords) : Item(m, "single", Column) \in ItemsIn(TextWords)
  <2>1. "single" \in Styles /\ Column \in Nat
        BY DEF Styles, Column
  <2> QED BY <2>1, NodeNames, ItemFacts, Zenon
<1> DEFINE w == Listed(list)
<1>3. DOMAIN w = 1 .. Len(list) /\ \A i \in 1 .. Len(list) : w[i] = Item(list[i], "single", Column)
      BY <1>1 DEF Listed
<1>4. w \in [1 .. Len(list) -> ItemsIn(TextWords)]
      BY <1>1, <1>2 DEF Listed
<1> HIDE DEF w
<1>5. w \in Seq(ItemsIn(TextWords)) /\ Len(w) = Len(list)
      BY <1>1, <1>4
<1>6. \A m : Trimmed(Item(m, "single", Column)) = m
      BY DEF Trimmed, Item
<1>7. NamesIn(w) = [i \in 1 .. Len(list) |-> list[i]]
      BY <1>3, <1>6 DEF NamesIn
<1>8. list = [i \in 1 .. Len(list) |-> list[i]]
      BY <1>1
<1> QED BY <1>3, <1>5, <1>7, <1>8 DEF w

LEMMA WrittenListed ==
    ASSUME NEW names \in Seq(NamesOf(Nodes))
    PROVE  /\ Written(names) = Listed(AsWritten(names))
           /\ Written(names) \in Seq(ItemsIn(TextWords))
           /\ Written(names) = Renamed(names, Quoted(TextWords))
<1>1. Without(names, NoName) = names /\ names \in Seq(NamesOf(TextWords))
      BY NamesListed
<1>2. /\ Written(names) \in Seq(ItemsIn(TextWords))
      /\ Written(names) = Renamed(names, Quoted(TextWords))
      BY <1>1, NodeNames, WrittenIs
<1>3. Written(names) = [i \in DOMAIN names |-> Item(Doubled(names[i]), "single", Column)]
      BY <1>1 DEF Written, yamlSingleQuote
<1>4. Listed(AsWritten(names)) = [i \in DOMAIN names |-> Item(Doubled(names[i]), "single", Column)]
      BY DEF Listed, AsWritten
<1> QED BY <1>2, <1>3, <1>4, Zenon

LEMMA TextOfIs ==
    ASSUME NEW list
    PROVE  TextOf(list) = Above \o Listed(list) \o Below
  BY Zenon DEF TextOf, Above, Below, Listed

LEMMA Ends ==
    /\ Above \in Seq(LinesOf(TextWords)) /\ Len(Above) = 6
    /\ Above[4] = Group("bootstrap") /\ Above[6].kind = "proxies" /\ Above[6].column = Column
    /\ \A i \in 1 .. 3 : Above[i] # Group("bootstrap")
    /\ \A i \in 5 .. 6 : Above[i].kind \notin {"group", "key"}
    /\ Above[5].kind # "proxies"
    /\ Below \in Seq(LinesOf(TextWords)) /\ Len(Below) = 7 /\ Below[1].kind = "group"
<1> DEFINE L == LinesOf(TextWords)
<1>1. \A k \in {"group", "key", "proxies", "item", "field", "comment", "blank"} :
        /\ Line(k) \in L /\ Line(k).kind = k
        /\ \A c \in Nat : /\ [Line(k) EXCEPT !.column = c] \in L
                          /\ [Line(k) EXCEPT !.column = c].kind = k
                          /\ [Line(k) EXCEPT !.column = c].column = c
        /\ \A g \in TextWords : /\ [Line(k) EXCEPT !.group = g] \in L
                                /\ [Line(k) EXCEPT !.group = g].kind = k
  <2>1. NoName.node \in TextWords /\ NoName \in NamesOf(TextWords)
        BY NodeNames DEF NamesOf
  <2>2. "plain" \in Styles
        BY DEF Styles
  <2> SUFFICES ASSUME NEW k \in {"group", "key", "proxies", "item", "field", "comment", "blank"}
               PROVE  /\ Line(k) \in L /\ Line(k).kind = k
                      /\ \A c \in Nat : /\ [Line(k) EXCEPT !.column = c] \in L
                                        /\ [Line(k) EXCEPT !.column = c].kind = k
                                        /\ [Line(k) EXCEPT !.column = c].column = c
                      /\ \A g \in TextWords : /\ [Line(k) EXCEPT !.group = g] \in L
                                              /\ [Line(k) EXCEPT !.group = g].kind = k
      OBVIOUS
  <2>3. Line(k) \in L /\ Line(k).kind = k
        BY <2>1, <2>2 DEF Line, LinesOf
  <2>4. ASSUME NEW c \in Nat
        PROVE  /\ [Line(k) EXCEPT !.column = c] \in L
               /\ [Line(k) EXCEPT !.column = c].kind = k
               /\ [Line(k) EXCEPT !.column = c].column = c
        BY <2>3 DEF Line, LinesOf
  <2>5. ASSUME NEW g \in TextWords
        PROVE  /\ [Line(k) EXCEPT !.group = g] \in L
               /\ [Line(k) EXCEPT !.group = g].kind = k
        BY <2>3 DEF Line, LinesOf
  <2> QED BY <2>3, <2>4, <2>5
<1>2. /\ Blank \in L /\ Field \in L /\ Comment \in L /\ Key \in L
      /\ Field.kind = "field" /\ Comment.kind = "comment" /\ Key.kind = "key"
      BY <1>1 DEF Blank, Field, Comment, Key
<1>3. Proxies(Column) \in L /\ Proxies(Column).kind = "proxies" /\ Proxies(Column).column = Column
  <2>1. Column \in Nat
        BY DEF Column
  <2> QED BY <1>1, <2>1 DEF Proxies
<1>4. /\ Group("bootstrap") \in L /\ Group("final") \in L
      /\ Group("bootstrap").kind = "group" /\ Group("final").kind = "group"
  <2>1. \A g \in TextWords : Group(g) \in L /\ Group(g).kind = "group"
        BY <1>1 DEF Group
  <2> QED BY <2>1 DEF TextWords
<1>5. Item(Static, "plain", Column) \in L
  <2>1. "plain" \in Styles /\ Column \in Nat /\ Static \in NamesOf(TextWords)
        BY NodeNames DEF Styles, Column
  <2>2. Item(Static, "plain", Column) \in ItemsIn(TextWords)
        BY <2>1, NodeNames, ItemFacts, Zenon
  <2> QED BY <2>2 DEF ItemsIn
<1> HIDE DEF L
<1>6. Above \in Seq(L) /\ Below \in Seq(L)
  <2>1. \A x1, x2, x3, x4, x5, x6, x7 \in L :
          /\ <<x1, x2, x3, x4, x5, x6>> \in Seq(L)
          /\ <<x1, x2, x3, x4, x5, x6, x7>> \in Seq(L)
        OBVIOUS
  <2> QED BY <2>1, <1>2, <1>3, <1>4, <1>5, Zenon DEF Above, Below, Opening, Closing
<1>7. /\ Len(Above) = 6 /\ Above[1] = Comment /\ Above[2] = Comment /\ Above[3] = Key
      /\ Above[4] = Group("bootstrap") /\ Above[5] = Field /\ Above[6] = Proxies(Column)
  <2>1. \A x1, x2, x3, x4, x5, x6 : LET x == <<x1, x2, x3, x4, x5, x6>>
                                    IN  /\ Len(x) = 6 /\ x[1] = x1 /\ x[2] = x2 /\ x[3] = x3
                                        /\ x[4] = x4 /\ x[5] = x5 /\ x[6] = x6
        OBVIOUS
  <2> QED BY <2>1, Zenon DEF Above, Opening
<1>8. Len(Below) = 7 /\ Below[1] = Group("final")
  <2>1. \A x1, x2, x3, x4, x5, x6, x7 : LET x == <<x1, x2, x3, x4, x5, x6, x7>>
                                        IN  Len(x) = 7 /\ x[1] = x1
        OBVIOUS
  <2> QED BY <2>1, Zenon DEF Below, Closing
<1>9. /\ \A i \in 1 .. 3 : i = 1 \/ i = 2 \/ i = 3
      /\ \A i \in 5 .. 6 : i = 5 \/ i = 6
      OBVIOUS
<1>10. \A i \in 1 .. 3 : Above[i] # Group("bootstrap")
       BY <1>2, <1>4, <1>7, <1>9
<1>11. \A i \in 5 .. 6 : Above[i].kind \notin {"group", "key"}
       BY <1>2, <1>3, <1>7, <1>9
<1> QED BY <1>2, <1>3, <1>4, <1>6, <1>7, <1>8, <1>10, <1>11 DEF L

(* The list lies between the ends. *)
LEMMA BetweenTheEnds ==
    ASSUME NEW w \in Seq(ItemsIn(TextWords)), NEW t, t = Above \o w \o Below
    PROVE  /\ t \in Seq(LinesOf(TextWords)) /\ Len(t) = 13 + Len(w)
           /\ \A i \in 1 .. 6 : t[i] = Above[i]
           /\ \A i \in 1 .. 7 : t[6 + Len(w) + i] = Below[i]
           /\ Located(t, "bootstrap", 4, 6, 6 + Len(w) + 1)
           /\ ListLines(t, "bootstrap") = w
<1> DEFINE L == LinesOf(TextWords)
<1> DEFINE n == Len(w)
<1>1. n \in Nat /\ w \in Seq(L) /\ \A i \in 1 .. n : w[i] \in ItemsIn(TextWords)
  <2>1. ItemsIn(TextWords) \subseteq L
        BY DEF ItemsIn
  <2> QED BY <2>1, SeqMonotonic, LenProperties, ElementOfSeq
<1>2. /\ Above \in Seq(L) /\ Len(Above) = 6 /\ Below \in Seq(L) /\ Len(Below) = 7
      BY Ends
<1> DEFINE b == Above \o w
<1> HIDE DEF n, L
<1>3. /\ b \in Seq(L) /\ Len(b) = 6 + n
      /\ \A i \in 1 .. 6 + n : b[i] = IF i <= 6 THEN Above[i] ELSE w[i - 6]
  <2>1. /\ b \in Seq(L) /\ Len(b) = Len(Above) + Len(w)
        /\ \A i \in 1 .. Len(Above) + Len(w) :
             b[i] = IF i <= Len(Above) THEN Above[i] ELSE w[i - Len(Above)]
        BY <1>1, <1>2, ConcatProperties
  <2> HIDE DEF b
  <2> QED BY <2>1, <1>2 DEF n
<1>4. t = b \o Below
      OBVIOUS
<1> HIDE DEF b
<1>5. /\ t \in Seq(L) /\ Len(t) = 13 + n
      /\ \A i \in 1 .. 13 + n : t[i] = IF i <= 6 + n THEN b[i] ELSE Below[i - (6 + n)]
  <2>1. /\ b \o Below \in Seq(L) /\ Len(b \o Below) = Len(b) + Len(Below)
        /\ \A i \in 1 .. Len(b) + Len(Below) :
             (b \o Below)[i] = IF i <= Len(b) THEN b[i] ELSE Below[i - Len(b)]
        BY <1>2, <1>3, ConcatProperties
  <2>2. Len(b) = 6 + n /\ Len(Below) = 7 /\ Len(b) + Len(Below) = 13 + n
        BY <1>1, <1>2, <1>3
  <2> QED BY <2>1, <2>2, <1>4
<1>6. \A i \in 1 .. 6 : t[i] = Above[i]
  <2>1. \A i \in 1 .. 6 : i \in 1 .. 13 + n /\ i \in 1 .. 6 + n /\ i <= 6 + n /\ i <= 6
        BY <1>1
  <2> QED BY <2>1, <1>3, <1>5
<1>7. \A i \in 1 .. n : t[6 + i] = w[i]
  <2>1. \A i \in 1 .. n : /\ 6 + i \in 1 .. 13 + n /\ 6 + i \in 1 .. 6 + n
                          /\ 6 + i <= 6 + n /\ ~(6 + i <= 6) /\ (6 + i) - 6 = i
        BY <1>1
  <2> QED BY <2>1, <1>3, <1>5
<1>8. \A i \in 1 .. 7 : t[6 + n + i] = Below[i]
  <2>1. \A i \in 1 .. 7 : /\ 6 + n + i \in 1 .. 13 + n /\ ~(6 + n + i <= 6 + n)
                          /\ (6 + n + i) - (6 + n) = i
        BY <1>1
  <2> QED BY <2>1, <1>5
<1> DEFINE e == 6 + n + 1
<1>9. Located(t, "bootstrap", 4, 6, e)
  <2>1. ASSUME NEW i \in 5 .. e - 1 PROVE t[i].kind \notin {"group", "key"}
    <3>1. CASE i <= 6
      <4>1. i \in 1 .. 6 /\ i \in 5 .. 6
            BY <3>1
      <4> QED BY <4>1, <1>6, Ends
    <3>2. CASE i > 6
      <4>1. i - 6 \in 1 .. n /\ 6 + (i - 6) = i
            BY <3>2, <1>1
      <4>2. t[i] = w[i - 6] /\ w[i - 6] \in ItemsIn(TextWords)
            BY <4>1, <1>1, <1>7
      <4> QED BY <4>2 DEF ItemsIn
    <3>3. i \in Int
          BY <1>1
    <3>4. i <= 6 \/ i > 6
          BY <3>3
    <3> QED BY <3>1, <3>2, <3>4, Zenon
  <2>2. t[e].kind = "group"
    <3>1. 1 \in 1 .. 7
          OBVIOUS
    <3>2. t[e] = Below[1]
          BY <3>1, <1>8, Zenon
    <3> QED BY <3>2, Ends
  <2>3. /\ 4 \in 1 .. Len(t) /\ e \in 5 .. Len(t) + 1 /\ 6 \in 5 .. e - 1 /\ 4 + 1 = 5
        BY <1>1, <1>5
  <2>4. t[4] = Group("bootstrap") /\ t[6].kind = "proxies" /\ t[5].kind # "proxies"
    <3>1. 4 \in 1 .. 6 /\ 5 \in 1 .. 6 /\ 6 \in 1 .. 6
          OBVIOUS
    <3>2. t[4] = Above[4] /\ t[5] = Above[5] /\ t[6] = Above[6]
          BY <3>1, <1>6, Zenon
    <3> QED BY <3>2, Ends
  <2>5. ASSUME NEW i \in 1 .. 4 - 1 PROVE t[i] # Group("bootstrap")
    <3>1. i \in 1 .. 3 /\ i \in 1 .. 6
          OBVIOUS
    <3> QED BY <3>1, <1>6, Ends
  <2>6. \A i \in 5 .. 6 - 1 : i = 5
        OBVIOUS
  <2> HIDE DEF e
  <2>7. Block(t, 4, e)
        BY <2>1, <2>2, <2>3 DEF Block
  <2> QED BY <2>3, <2>4, <2>5, <2>6, <2>7 DEF Located
<1>10. ListLines(t, "bootstrap") = w
  <2>1. 6 \in Nat
        OBVIOUS
  <2>2. ASSUME NEW p \in Nat, NEW s, Located(t, "bootstrap", s, p, p + Len(w) + 1),
               \A i \in 1 .. Len(w) : t[p + i] = w[i]
        PROVE  ListLines(t, "bootstrap") = w
    <3>1. t \in Seq(LinesOf(TextWords)) /\ NoName \in NamesOf(TextWords)
          BY <1>5, NodeNames DEF L
    <3> QED BY <2>2, <3>1, LinesWritten, ZenonT(90)
  <2> QED BY <2>1, <2>2, <1>7, <1>9, Zenon DEF n
<1> QED BY <1>5, <1>6, <1>8, <1>9, <1>10 DEF n, L

(* The sequence c is k lines of t, from the one after line p on.           *)
StandsAfter(c, t, p, k) == Len(c) = k /\ \A i \in 1 .. k : c[i] = t[p + i]

LEMMA PartOf ==
    ASSUME NEW T, NEW t \in Seq(T), NEW p \in Nat, NEW k \in Nat,
           NEW a, NEW b, a = p + 1, b = p + k, b <= Len(t)
    PROVE  SubSeq(t, a, b) \in Seq(T) /\ StandsAfter(SubSeq(t, a, b), t, p, k)
<1> DEFINE c == SubSeq(t, a, b)
<1>1. Len(t) \in Nat /\ \A i \in 1 .. Len(t) : t[i] \in T
      BY LenProperties, ElementOfSeq
<1>2. a \in Int /\ b \in Int /\ \A i \in a .. b : t[i] \in T
      BY <1>1
<1>3. /\ c \in Seq(T) /\ Len(c) = IF a <= b THEN b - a + 1 ELSE 0
      /\ \A i \in 1 .. b - a + 1 : c[i] = t[a + i - 1]
      BY <1>2, SubSeqProperties
<1> HIDE DEF c
<1>4. Len(c) = k /\ \A i \in 1 .. k : i \in 1 .. b - a + 1 /\ a + i - 1 = p + i
      BY <1>3
<1>5. c \in Seq(T) /\ Len(c) = k /\ \A i \in 1 .. k : c[i] = t[p + i]
      BY <1>3, <1>4
<1> QED BY <1>5 DEF c, StandsAfter

LEMMA TheEnds ==
    ASSUME NEW w \in Seq(ItemsIn(TextWords)), NEW t, t = Above \o w \o Below, NEW v
    PROVE  Edited(t, 6, 6 + Len(w) + 1, v) = Above \o v \o Below
<1> DEFINE L == LinesOf(TextWords)
<1> DEFINE n == Len(w)
<1> DEFINE a == SubSeq(t, 1, 6)
<1> DEFINE z == SubSeq(t, 6 + n + 1, Len(t))
<1>1. n \in Nat
      BY LenProperties
<1>2. /\ t \in Seq(L) /\ Len(t) = 13 + n
      /\ \A i \in 1 .. 6 : t[i] = Above[i]
      /\ \A i \in 1 .. 7 : t[6 + n + i] = Below[i]
      BY BetweenTheEnds, ZenonT(90)
<1>3. Above \in Seq(L) /\ Len(Above) = 6 /\ Below \in Seq(L) /\ Len(Below) = 7
      BY Ends
<1> HIDE DEF L, n
<1>4. a = Above
  <2>1. PICK p \in Nat, k \in Nat : p = 0 /\ k = 6
        OBVIOUS
  <2>2. 1 = p + 1 /\ 6 = p + k /\ 6 <= Len(t)
        BY <2>1, <1>1, <1>2
  <2>3. a \in Seq(L) /\ StandsAfter(a, t, p, k)
        BY <1>2, <2>2, PartOf
  <2> HIDE DEF a
  <2>4. \A i \in 1 .. 6 : i \in 1 .. k /\ p + i = i
        BY <2>1
  <2>5. Len(a) = k /\ \A i \in 1 .. k : a[i] = t[p + i]
        BY <2>3, Zenon DEF StandsAfter
  <2>6. Len(a) = 6 /\ \A i \in 1 .. 6 : a[i] = Above[i]
    <3>1. Len(a) = 6
          BY <2>1, <2>5
    <3>2. \A i \in 1 .. 6 : a[i] = t[i]
          BY <2>4, <2>5
    <3>3. \A i \in 1 .. 6 : t[i] = Above[i]
          BY <1>2, Zenon
    <3> QED BY <3>1, <3>2, <3>3
  <2> QED BY <1>3, <2>3, <2>6, SeqEqual
<1>5. z = Below
  <2>1. PICK p \in Nat, k \in Nat : p = 6 + n /\ k = 7
        BY <1>1
  <2>2. 6 + n + 1 = p + 1 /\ Len(t) = p + k /\ Len(t) <= Len(t)
        BY <2>1, <1>1, <1>2
  <2>3. z \in Seq(L) /\ StandsAfter(z, t, p, k)
        BY <1>2, <2>2, PartOf
  <2> HIDE DEF z
  <2>4. \A i \in 1 .. 7 : i \in 1 .. k /\ p + i = 6 + n + i
        BY <2>1
  <2>5. Len(z) = 7 /\ \A i \in 1 .. 7 : z[i] = Below[i]
        BY <1>2, <2>1, <2>3, <2>4 DEF StandsAfter
  <2> QED BY <1>3, <2>3, <2>5, SeqEqual
<1> HIDE DEF a, z
<1>6. Edited(t, 6, 6 + n + 1, v) = a \o v \o z
      BY Zenon DEF Edited, a, z
<1> QED BY <1>4, <1>5, <1>6, Zenon DEF n

(* For a list of any length, and names with any number of quotes inside:   *)
(* what the tool reads in its text is the list, and switching the text     *)
(* gives the text of the switched list, or is refused when the name is not *)
(* in the list as the tool reads it (enhancement.go:157-195, 274-340).     *)
THEOREM AnyListIsItsText ==
    ASSUME NEW list \in Seq(NamesOf(Nodes))
    PROVE  /\ extractBootstrapCandidates(TextOf(list), "bootstrap") = list
           /\ \A n \in NamesOf(Nodes) :
                SwitchBootstrapInGroups(TextOf(list), "bootstrap", n) =
                  IF Contains(list, n) THEN TextOf(Switched(list, n)) ELSE Refused
<1> DEFINE t == TextOf(list)
<1> DEFINE w == Listed(list)
<1>1. list \in Seq(NamesOf(TextWords))
      BY NamesListed
<1>2. w \in Seq(ItemsIn(TextWords)) /\ NamesIn(w) = list
      BY <1>1, ListedIs
<1>3. t = Above \o w \o Below
      BY TextOfIs
<1> HIDE DEF t, w
<1>4. /\ t \in Seq(LinesOf(TextWords)) /\ Located(t, "bootstrap", 4, 6, 6 + Len(w) + 1)
      /\ ListLines(t, "bootstrap") = w
      BY <1>2, <1>3, BetweenTheEnds
<1>5. /\ HasList(t, "bootstrap") /\ ListAt(t, "bootstrap") = 6
      /\ ListEnd(t, "bootstrap") = 6 + Len(w) + 1
      BY <1>4, LocatedIs
<1>6. extractBootstrapCandidates(t, "bootstrap") = list
  <2>1. ItemsOf(w) = w
        BY <1>2, NodeNames, ItemsAll
  <2> QED BY <2>1, <1>2, <1>4, <1>5, Zenon DEF extractBootstrapCandidates
<1>7. ASSUME NEW n \in NamesOf(Nodes), Contains(list, n)
      PROVE  SwitchBootstrapInGroups(t, "bootstrap", n) = TextOf(Switched(list, n))
  <2> DEFINE r == Reordered(list, n)
  <2> DEFINE v == Written(r)
  <2>1. SwitchBootstrapInGroups(t, "bootstrap", n) =
          Edited(t, ListAt(t, "bootstrap"), ListEnd(t, "bootstrap"), v)
        BY <1>6, <1>7, Zenon DEF SwitchBootstrapInGroups, Edited
  <2>2. r \in Seq(NamesOf(Nodes)) /\ Switched(list, n) = AsWritten(r)
    <3>1. r \in Seq(NamesOf(Nodes))
          BY ReorderedIn
    <3> QED BY <3>1, Zenon DEF Switched, Reordered
  <2> HIDE DEF r
  <2>3. v = Listed(AsWritten(r))
        BY <2>2, WrittenListed
  <2> HIDE DEF v
  <2>4. Edited(t, 6, 6 + Len(w) + 1, v) = Above \o v \o Below
        BY <1>2, <1>3, TheEnds
  <2>5. TextOf(AsWritten(r)) = Above \o Listed(AsWritten(r)) \o Below
        BY TextOfIs
  <2> QED BY <2>1, <2>2, <2>3, <2>4, <2>5, <1>5, Zenon
<1>8. ASSUME NEW n \in NamesOf(Nodes), ~Contains(list, n)
      PROVE  SwitchBootstrapInGroups(t, "bootstrap", n) = Refused
      BY <1>6, <1>8, Zenon DEF SwitchBootstrapInGroups
<1> QED BY <1>6, <1>7, <1>8, Zenon DEF t

LEMMA GivenNames ==
    ASSUME NEW j \in Applies
    PROVE  /\ dedupeNonEmpty(j.nodes) \in Seq(NamesOf(Nodes))
           /\ Rendered("groups", j).data = AsWritten(dedupeNonEmpty(j.nodes))
<1>1. PICK s \in Credentials, b \in Bootstraps, r \in BOOLEAN : j = Apply(s, b, r)
      BY DEF Applies
<1>2. b \in Seq(Given) /\ Given \subseteq NamesOf(Nodes)
      BY EnhancementAssumption, NodesAssumption
<1>3. j.nodes = b /\ b \in Seq(NamesOf(Nodes))
      BY <1>1, <1>2, SeqMonotonic DEF Apply
<1> QED BY <1>3, DedupeFacts DEF Rendered, Content

(* Whatever is on the disk in every reachable state, editing its lines is  *)
(* reordering the list it stands for, and what apply renders is the text   *)
(* of the list that stands for it (enhancement.go:157-240, 274-340).       *)
THEOREM TheTextIsTheList == Spec => []TextIsList
<1>1. TypeOK => TextIsList
  <2> SUFFICES ASSUME TypeOK PROVE TextIsList
      OBVIOUS
  <2>1. ASSUME disk["groups"].kind = "managed"
        PROVE  disk["groups"].data \in Seq(NamesOf(Nodes))
    <3>1. IsContent("groups", disk["groups"])
          BY DEF TypeOK, Files
    <3> QED BY <2>1, <3>1 DEF IsContent, Content, Absent, Torn, Foreign
  <2>2. Given \subseteq NamesOf(Nodes)
        BY NodesAssumption
  <2>3. ASSUME NEW j \in Applies
        PROVE  renderGroupEnhancement("bootstrap", "final", Static, dedupeNonEmpty(j.nodes)) =
                 TextOf(Rendered("groups", j).data)
    <3> DEFINE d == dedupeNonEmpty(j.nodes)
    <3>1. d \in Seq(NamesOf(Nodes)) /\ Rendered("groups", j).data = AsWritten(d)
          BY GivenNames
    <3> HIDE DEF d
    <3>2. Written(d) = Listed(AsWritten(d))
          BY <3>1, WrittenListed
    <3>3. renderGroupEnhancement("bootstrap", "final", Static, d) = Above \o Written(d) \o Below
          BY Zenon DEF renderGroupEnhancement, Above, Below
    <3>4. TextOf(AsWritten(d)) = Above \o Listed(AsWritten(d)) \o Below
          BY TextOfIs
    <3> QED BY <3>1, <3>2, <3>3, <3>4, Zenon DEF d
  <2>4. ASSUME disk["groups"].kind = "managed"
        PROVE  LET list == disk["groups"].data
                   text == TextOf(list)
               IN  /\ extractBootstrapCandidates(text, "bootstrap") = list
                   /\ \A n \in Given :
                        SwitchBootstrapInGroups(text, "bootstrap", n) =
                          IF Contains(list, n) THEN TextOf(Switched(list, n)) ELSE Refused
        BY <2>1, <2>2, <2>4, AnyListIsItsText
  <2> QED BY <2>3, <2>4 DEF TextIsList
<1> QED BY <1>1, Types, PTL

(* What Clash reads in the text of a list that was written is what was     *)
(* written: YAML halves the quotes that writing doubles.                   *)
LEMMA ClashFindsTheWritten ==
    ASSUME NEW names \in Seq(NamesOf(Nodes))
    PROVE  ClashLists(TextOf(AsWritten(names)), "bootstrap") = names
<1> DEFINE t == TextOf(AsWritten(names))
<1> DEFINE w == Written(names)
<1>1. /\ w = Listed(AsWritten(names)) /\ w \in Seq(ItemsIn(TextWords))
      /\ w = Renamed(names, Quoted(TextWords))
      BY WrittenListed
<1>2. names \in Seq(NamesOf(TextWords)) /\ Without(names, NoName) = names
      BY NamesListed
<1>3. t = Above \o w \o Below
      BY <1>1, TextOfIs
<1>4. \A i \in 1 .. Len(w) : w[i].column = Column
      BY <1>2, NodeNames, WrittenIs
<1> HIDE DEF t, w
<1>5. /\ t \in Seq(LinesOf(TextWords)) /\ Located(t, "bootstrap", 4, 6, 6 + Len(w) + 1)
      /\ ListLines(t, "bootstrap") = w /\ \A i \in 1 .. 6 : t[i] = Above[i]
      BY <1>1, <1>3, BetweenTheEnds
<1>6. t[6].column = Column
  <2>1. 6 \in 1 .. 6
        OBVIOUS
  <2>2. t[6] = Above[6]
        BY <2>1, <1>5, Zenon
  <2> QED BY <2>2, Ends
<1>7. \A i \in DOMAIN w : ~LeavesList(w[i], t[6].column)
  <2> SUFFICES ASSUME NEW i \in DOMAIN w PROVE ~LeavesList(w[i], Column)
      BY <1>6
  <2>1. w[i] \in ItemsIn(TextWords) /\ w[i].column = Column
        BY <1>1, <1>4, LenProperties, ElementOfSeq
  <2>2. w[i].kind = "item" /\ ~(Column < Column)
        BY <2>1 DEF ItemsIn, Column
  <2> QED BY <2>1, <2>2 DEF LeavesList
<1>8. ClashLists(t, "bootstrap") = Without(Renamed(ItemsOf(w), Clash(TextWords)), NoName)
  <2> DEFINE p == 6
  <2> DEFINE e == 6 + Len(w) + 1
  <2>1. /\ Located(t, "bootstrap", 4, p, e)
        /\ \A i \in DOMAIN ListLines(t, "bootstrap") :
             ~LeavesList(ListLines(t, "bootstrap")[i], t[p].column)
        BY <1>5, <1>7
  <2> HIDE DEF p, e
  <2>2. ClashLists(t, "bootstrap") =
          Without(Renamed(ItemsOf(ListLines(t, "bootstrap")), Clash(TextWords)), NoName)
        BY <2>1, <1>5, NodeNames, ClashListIs
  <2> QED BY <2>2, <1>5
<1>9. ItemsOf(w) = w
      BY <1>1, NodeNames, ItemsAll
<1>10. Renamed(Renamed(names, Quoted(TextWords)), Clash(TextWords)) = names
       BY <1>2, NodeNames, Reread
<1>11. ClashLists(t, "bootstrap") = names
       BY <1>1, <1>2, <1>8, <1>9, <1>10, Zenon
<1> QED BY <1>11 DEF t

(* When apply is done, what Clash reads is what apply was given, unless    *)
(* the file was overtaken (enhancement.go:86-104, 219-230, 360-376).       *)
THEOREM ClashReadsTheCandidates == Spec => []ClashReadsWhatApplyWasGiven
<1>1. JInv /\ AppliedIsOnDisk => ClashReadsWhatApplyWasGiven
  <2> SUFFICES ASSUME JInv, AppliedIsOnDisk, NEW p \in Procs, WritesDone(p),
                      job[p].cmd = "apply", "groups" \notin overtaken[p]
               PROVE  ClashFinds(disk["groups"]) = dedupeNonEmpty(job[p].nodes)
      BY DEF ClashReadsWhatApplyWasGiven
  <2>1. job[p] \in Applies /\ "groups" \in Scope(job[p])
    <3>1. job[p] \in Jobs
          BY DEF JInv, Underway, WritesDone
    <3> QED BY <3>1, JobFacts DEF Scope
  <2>2. disk["groups"] = Rendered("groups", job[p])
        BY <2>1 DEF AppliedIsOnDisk
  <2> DEFINE d == dedupeNonEmpty(job[p].nodes)
  <2>3. d \in Seq(NamesOf(Nodes)) /\ disk["groups"].data = AsWritten(d)
        BY <2>1, <2>2, GivenNames
  <2> HIDE DEF d
  <2>4. ClashLists(TextOf(AsWritten(d)), "bootstrap") = d
        BY <2>3, ClashFindsTheWritten
  <2> QED BY <2>3, <2>4 DEF ClashFinds, d
<1> QED BY <1>1, TypesInvariance, ApplyWrites, PTL

=============================================================================
