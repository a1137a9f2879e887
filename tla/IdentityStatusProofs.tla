------------------------ MODULE IdentityStatusProofs ------------------------
(***************************************************************************)
(* Theorems about IdentityStatus for any command lines, targets, logs,     *)
(* limits and bounds.                                                      *)
(***************************************************************************)
EXTENDS IdentityStatus, FiniteSetTheorems, TLAPS

Codes == RedCodes \cup YellowCodes \cup GreenCodes

-----------------------------------------------------------------------------
(* The verdict. *)
LEMMA LeakCodeRed == \A i, apply : leakCode(i, apply) \in LeakCodes
  BY DEF leakCode, LeakCodes

LEMMA LeaklessCodes ==
    \A S, readable, apply, verify :
        /\ leakless(S, readable, apply, verify) \in Codes
        /\ leakless(S, readable, apply, verify) \notin LeakCodes
  BY DEF leakless, noHit, Codes, LeakCodes, RedCodes, YellowCodes, GreenCodes

(* A leak is reported when the chain is on disk and a newest route leaks. *)
LEMMA LeakReported ==
    ASSUME NEW chainOK, NEW S, NEW readable, NEW apply, NEW verify,
           NEW code \in EvaluateStatus(chainOK, S, readable, apply, verify)
    PROVE  /\ code \in Codes
           /\ code \in LeakCodes <=>
                chainOK /\ \E i \in LatestByTarget(S) : leakLive(i, apply)
           /\ code \in GreenCodes =>
                chainOK /\ code = leakless(S, readable, apply, verify)
<1> DEFINE leaks == {i \in LatestByTarget(S) : leakLive(i, apply)}
<1>1. LeakCodes \subseteq Codes /\ LeakCodes \cap GreenCodes = {}
      /\ "R_CHAIN_INCOMPLETE" \in Codes \ (LeakCodes \cup GreenCodes)
      BY DEF LeakCodes, RedCodes, GreenCodes, Codes
<1>2. CASE ~chainOK
      BY <1>1, <1>2 DEF EvaluateStatus
<1>3. CASE chainOK /\ leaks # {}
      <2>1. code \in {leakCode(i, apply) : i \in leaks}
            BY <1>3 DEF EvaluateStatus
      <2>2. code \in LeakCodes
            BY <2>1, LeakCodeRed
      <2> QED BY <1>1, <1>3, <2>2
<1>4. CASE chainOK /\ leaks = {}
      <2>1. code = leakless(S, readable, apply, verify)
            BY <1>4 DEF EvaluateStatus
      <2> QED BY <1>4, <2>1, LeaklessCodes
<1> QED BY <1>2, <1>3, <1>4

(* All codes it may return are of one level. *)
LEMMA OneLevel ==
    ASSUME NEW chainOK, NEW S, NEW readable, NEW apply, NEW verify,
           NEW c \in EvaluateStatus(chainOK, S, readable, apply, verify),
           NEW d \in EvaluateStatus(chainOK, S, readable, apply, verify)
    PROVE  Level(c) = Level(d)
<1>1. CASE c = d
      BY <1>1
<1>2. CASE c # d
      <2>1. c \in LeakCodes /\ d \in LeakCodes
            BY <1>2, LeakCodeRed DEF EvaluateStatus
      <2> QED BY <2>1 DEF Level, LeakCodes, RedCodes, GreenCodes
<1> QED BY <1>1, <1>2

-----------------------------------------------------------------------------
(* The lines of a target. *)
LogTyped ==
    /\ log \in Seq(Entries)
    /\ \A i \in DOMAIN log : log[i].kind \in RouteKinds <=> log[i].target \in Targets

(* If the log tells the order, the newest route is the last line. *)
LEMMA NewestIsLast ==
    ASSUME LogTyped, Telling, NEW n \in Nat, n <= Len(log), NEW i \in 1..n
    PROVE  i \in LatestByTarget(1..n) <=> IsLast(i, 1..n)
<1> DEFINE others == RoutesOf(log[i].target, 1..n) \ {i}
<1>1. \A j \in 1..n : j \in DOMAIN log /\ log[j] \in Entries
      BY DEF LogTyped
<1>2. log[i].kind \in RouteKinds <=> log[i].target # "none"
      BY <1>1, StatusAssumption DEF LogTyped, StatusAssumption, Entries
<1>3. ASSUME NEW j \in others
      PROVE  routeIsNewer(i, j) <=> j <= i
      <2>1. /\ j \in 1..n /\ j # i /\ log[j].target = log[i].target
            /\ log[i].when \in Nat /\ log[j].when \in Nat
            /\ log[i].file \in Nat /\ log[j].file \in Nat
            BY <1>1 DEF RoutesOf, Entries
      <2>2. CASE j < i
            BY <1>1, <2>1, <2>2 DEF Telling, Tells, routeIsNewer, ReadAfter
      <2>3. CASE i < j
            BY <1>1, <2>1, <2>3 DEF Telling, Tells, routeIsNewer, ReadAfter
      <2> QED BY <2>1, <2>2, <2>3
<1>4. i \in LatestByTarget(1..n) <=>
          log[i].kind \in RouteKinds /\ \A j \in others : routeIsNewer(i, j)
      BY DEF LatestByTarget
<1>5. IsLast(i, 1..n) <=> log[i].target # "none" /\ \A j \in others : j <= i
      BY DEF IsLast, RoutesOf
<1> QED BY <1>2, <1>3, <1>4, <1>5

(* What a live leak is, in one line. *)
LEMMA LiveLeak ==
    ASSUME LogTyped, clock \in Nat, NEW i \in DOMAIN log, NEW apply \in Nat
    PROVE  leakLive(i, apply) <=>
             /\ log[i].kind # "static"
             /\ \/ log[i].when = Never
                \/ log[i].when >= apply /\ log[i].when >= clock - MaxAge
<1>1. log[i] \in Entries
      BY DEF LogTyped
<1>2. log[i].when \in Nat /\ MaxAge \in Nat
      BY <1>1, StatusAssumption DEF Entries, StatusAssumption
<1> QED BY <1>2 DEF leakLive, Fresh, BeforeApply, Never

LEMMA NoErrors ==
    ASSUME NEW n \in Nat, NEW S \in SUBSET (1..n), NEW s, ~(ErrorCount(s, S) > 0)
    PROVE  \A i \in S : log[i].kind # s
<1> DEFINE E == {i \in S : log[i].kind = s}
<1>1. IsFiniteSet(S)
      <2>1. IsFiniteSet(1..n)
            BY FS_Interval
      <2> QED BY <2>1, FS_Subset
<1>2. IsFiniteSet(E)
      BY <1>1, FS_Subset
<1>3. Cardinality(E) = 0
      BY <1>2, FS_CardinalityType DEF ErrorCount
<1> QED BY <1>2, <1>3, FS_EmptySet

-----------------------------------------------------------------------------
(* Type correctness.  A memory fits what there is to remember.             *)
Fits(m) ==
    /\ m \in Memories
    /\ m.at <= clock /\ m.listed <= file
    /\ m.logged <= Len(log) /\ m.seen \subseteq 1..m.logged

Points == {"idle", "loadActivity", "openActivity", "fillActivity", "openVerify",
           "fillVerify", "readLogs", "loadVerify", "evaluate", "show"}

Settled ==
    /\ chain \in BOOLEAN /\ disturbed \in BOOLEAN
    /\ activity \in Activities /\ recorded \in Activities
    /\ verified \in {"absent", "torn"} \cup Verdicts
    /\ commands \in 0..MaxCommands

Place ==
    /\ clock \in 1..MaxClock /\ file \in 1..MaxFiles
    /\ LogTyped /\ Len(log) <= MaxLines
    /\ \A i \in DOMAIN log : log[i].when <= clock /\ log[i].file <= file

Remembered ==
    /\ pc \in [Procs -> Points] /\ mem \in [Procs -> Memories]
    /\ \A p \in Procs : Fits(mem[p])

LEMMA TypeParts == TypeOK <=> Place /\ Settled /\ Remembered
  BY DEF TypeOK, Place, Settled, Remembered, LogTyped, Fits, Points

LEMMA NothingFits ==
    ASSUME Place
    PROVE  Fits(Nothing) /\ \A code \in Codes : Fits([Nothing EXCEPT !.code = code])
<1>1. Activity(Never, Never) \in Activities
      BY DEF Activity, Activities, Never
<1>2. Len(log) \in Nat /\ clock \in Nat /\ file \in Nat
      BY StatusAssumption DEF Place, LogTyped, StatusAssumption
<1>3. Nothing \in Memories
      BY <1>1 DEF Nothing, Memories, Never
<1>4. \A code \in Codes : [Nothing EXCEPT !.code = code] \in Memories
      BY <1>3 DEF Memories, Codes
<1>5. Fits(Nothing)
      BY <1>2, <1>3 DEF Fits, Nothing, Never
<1>6. ASSUME NEW code \in Codes
      PROVE  Fits([Nothing EXCEPT !.code = code])
      <2> DEFINE m == [Nothing EXCEPT !.code = code]
      <2>1. m.at = Nothing.at /\ m.listed = Nothing.listed
            /\ m.logged = Nothing.logged /\ m.seen = Nothing.seen
            BY DEF Nothing
      <2> HIDE DEF m
      <2>2. m \in Memories
            BY <1>4 DEF m
      <2>3. Fits(m)
            BY <1>5, <2>1, <2>2 DEF Fits
      <2> QED BY <2>3 DEF m
<1> QED BY <1>5, <1>6

(* A process changes what it remembers, and goes on. *)
LEMMA Remembers ==
    ASSUME Place, Remembered, UNCHANGED <<clock, log, file>>,
           NEW p \in Procs, NEW m, Fits(m), mem' = [mem EXCEPT ![p] = m],
           NEW next \in Points, pc' = [pc EXCEPT ![p] = next]
    PROVE  Place' /\ Remembered'
<1>1. Place'
      BY DEF Place, LogTyped
<1>2. \A q \in Procs : mem'[q] = IF q = p THEN m ELSE mem[q]
      BY DEF Remembered
<1>3. \A q \in Procs : Fits(mem[q])'
      BY <1>2 DEF Remembered, Fits
<1> QED BY <1>1, <1>3 DEF Remembered, Fits

LEMMA MergedTyped ==
    ASSUME NEW a \in Activities, NEW cmd, NEW at \in Nat
    PROVE  Merged(a, cmd, at) \in Activities /\ Merged(a, cmd, at).torn = a.torn
  BY DEF Merged, Activities

LEMMA TornTyped == Torn \in Activities
  BY DEF Torn, Activities, Never

LEMMA EndKeeps ==
    ASSUME Place, Remembered, UNCHANGED <<clock, log, file>>, NEW p \in Procs, End(p)
    PROVE  Place' /\ Remembered'
<1>1. "idle" \in Points
      BY DEF Points
<1> QED BY <1>1, NothingFits, Remembers DEF End

LEMMA InitTyped == Init => Place /\ Settled /\ Remembered
<1> SUFFICES ASSUME Init PROVE Place /\ Settled /\ Remembered
    OBVIOUS
<1>1. Place
      BY StatusAssumption DEF Init, Place, LogTyped, StatusAssumption
<1>2. Activity(Never, Never) \in Activities
      BY DEF Activity, Activities, Never
<1>3. Settled
      <2>1. 0 \in 0..MaxCommands
            BY StatusAssumption DEF StatusAssumption
      <2>2. chain \in BOOLEAN /\ disturbed \in BOOLEAN
            BY DEF Init
      <2> QED BY <1>2, <2>1, <2>2 DEF Init, Settled
<1>4. Remembered
      BY <1>1, NothingFits DEF Init, Remembered, Points, Fits
<1> QED BY <1>1, <1>3, <1>4

(* The steps of the world around the commands. *)
LEMMA LogTypes ==
    ASSUME Place, Settled, Remembered, Log
    PROVE  Place' /\ Settled' /\ Remembered'
<1>1. PICK l \in Loggable :
        log' = Append(log, [target |-> l.target, kind |-> l.kind, file |-> file,
                            when |-> IF l.timed THEN clock ELSE Never])
      BY DEF Log
<1> DEFINE e == [target |-> l.target, kind |-> l.kind, file |-> file,
                 when |-> IF l.timed THEN clock ELSE Never]
<1>2. l \in Lines /\ "none" \notin Targets
      BY StatusAssumption DEF StatusAssumption
<1>3. /\ l.target \in Targets \cup {"none"}
      /\ l.kind \in RouteKinds \cup Sources \cup {"healthcheck"}
      /\ l.kind \in RouteKinds <=> l.target \in Targets
      BY <1>2 DEF Lines, Route, Error, Noise, RouteKinds, Sources
<1>4. clock \in Nat /\ file \in Nat /\ Len(log) \in Nat /\ log \in Seq(Entries)
      BY StatusAssumption DEF Place, LogTyped, StatusAssumption
<1>5. e \in Entries /\ e.when <= clock /\ e.file <= file
      /\ (e.kind \in RouteKinds <=> e.target \in Targets)
      BY <1>3, <1>4 DEF Entries, Never
<1> HIDE DEF e
<1>6. /\ log' \in Seq(Entries) /\ Len(log') = Len(log) + 1
      /\ DOMAIN log' = DOMAIN log \cup {Len(log) + 1}
      /\ \A i \in DOMAIN log' : log'[i] = IF i = Len(log) + 1 THEN e ELSE log[i]
      BY <1>1, <1>4, <1>5 DEF e
<1>7. Place'
      BY <1>4, <1>5, <1>6, StatusAssumption DEF Log, Place, LogTyped, StatusAssumption
<1>8. Remembered'
      BY <1>4, <1>6 DEF Log, Remembered, Fits, Memories
<1> QED BY <1>7, <1>8 DEF Log, Settled

LEMMA WorldTypes ==
    ASSUME Place, Settled, Remembered, Rotate \/ Tick
    PROVE  Place' /\ Settled' /\ Remembered'
<1>1. /\ clock \in 1..MaxClock /\ file \in 1..MaxFiles
      /\ clock' \in 1..MaxClock /\ file' \in 1..MaxFiles
      /\ clock <= clock' /\ file <= file' /\ log' = log
      BY StatusAssumption DEF Place, Rotate, Tick, StatusAssumption
<1>2. \A i \in DOMAIN log : log[i].when \in Nat /\ log[i].file \in Nat
      <2>1. \A i \in DOMAIN log : log[i] \in Entries
            BY DEF Place, LogTyped
      <2> QED BY <2>1 DEF Entries
<1>3. Place'
      BY <1>1, <1>2 DEF Place, LogTyped
<1>4. Remembered'
      BY <1>1 DEF Rotate, Tick, Remembered, Fits, Memories
<1>5. Settled'
      BY DEF Rotate, Tick, Settled
<1> QED BY <1>3, <1>4, <1>5

(* Apply and reload. *)
LEMMA RecordTypes ==
    ASSUME Place, Settled, Remembered, NEW p \in Procs,
           Done(p) \/ LoadActivity(p) \/ OpenActivity(p) \/ FillActivity(p)
    PROVE  Place' /\ Settled' /\ Remembered'
<1>1. mem[p] \in Memories /\ Fits(mem[p]) /\ mem[p].activity \in Activities
      /\ mem[p].at \in Nat /\ clock \in Nat
      BY StatusAssumption DEF Remembered, Memories, Place, StatusAssumption
<1>2. CASE Done(p)
      <2>1. PICK cmd \in {"apply", "reload"} :
              /\ mem' = [mem EXCEPT ![p].cmd = cmd, ![p].at = clock]
              /\ chain' \in {chain, chain \/ cmd = "apply"}
            BY <1>2 DEF Done
      <2> DEFINE m == [mem[p] EXCEPT !.cmd = cmd, !.at = clock]
      <2>2. m \in Memories /\ m.at = clock /\ m.listed = mem[p].listed
            /\ m.logged = mem[p].logged /\ m.seen = mem[p].seen
            BY <1>1 DEF Memories
      <2>3. mem' = [mem EXCEPT ![p] = m]
            BY <2>1 DEF Remembered
      <2> HIDE DEF m
      <2>4. Fits(m)
            BY <1>1, <2>2 DEF Fits
      <2>5. "loadActivity" \in Points /\ pc' = [pc EXCEPT ![p] = "loadActivity"]
            BY <1>2 DEF Done, Start, Points
      <2>6. Place' /\ Remembered'
            BY <1>2, <2>3, <2>4, <2>5, Remembers DEF Done
      <2>7. chain' \in BOOLEAN
            BY <2>1 DEF Settled
      <2>8. commands' \in 0..MaxCommands
            BY <1>2, StatusAssumption DEF Done, Start, Settled, StatusAssumption
      <2> QED BY <1>2, <2>6, <2>7, <2>8 DEF Done, Settled
<1>3. CASE LoadActivity(p)
      <2>1. Settled' /\ UNCHANGED <<clock, log, file>>
            BY <1>3 DEF LoadActivity, Settled
      <2>2. CASE activity = Torn
            BY <1>3, <2>1, <2>2, EndKeeps DEF LoadActivity
      <2>3. CASE activity # Torn
            <3> DEFINE a == Merged(activity, mem[p].cmd, mem[p].at)
                       m == [mem[p] EXCEPT !.activity = a]
            <3>1. a \in Activities
                  BY <1>1, MergedTyped DEF Settled
            <3> HIDE DEF a
            <3>2. m \in Memories /\ m.at = mem[p].at /\ m.listed = mem[p].listed
                  /\ m.logged = mem[p].logged /\ m.seen = mem[p].seen
                  BY <1>1, <3>1 DEF Memories
            <3>3. mem' = [mem EXCEPT ![p] = m]
                  BY <1>3, <2>3 DEF LoadActivity, Remembered, a
            <3> HIDE DEF m
            <3>4. Fits(m)
                  BY <1>1, <3>2 DEF Fits
            <3>5. "openActivity" \in Points /\ pc' = [pc EXCEPT ![p] = "openActivity"]
                  BY <1>3, <2>3 DEF LoadActivity, Points
            <3> QED BY <2>1, <3>3, <3>4, <3>5, Remembers
      <2> QED BY <2>2, <2>3
<1>4. CASE OpenActivity(p)
      <2>1. Settled' /\ UNCHANGED <<clock, log, file>>
            BY <1>4, TornTyped DEF OpenActivity, Settled
      <2>2. "fillActivity" \in Points /\ mem' = [mem EXCEPT ![p] = mem[p]]
            BY <1>4 DEF OpenActivity, Remembered, Points
      <2> QED BY <1>1, <1>4, <2>1, <2>2, Remembers DEF OpenActivity
<1>5. CASE FillActivity(p)
      <2>1. activity' \in Activities
            BY <1>1, <1>5, TornTyped DEF FillActivity, Filled
      <2>2. recorded' \in Activities
            BY <1>1, <1>5, MergedTyped DEF FillActivity, Settled
      <2>3. Settled'
            BY <1>5, <2>1, <2>2 DEF FillActivity, Settled
      <2> QED BY <1>5, <2>3, EndKeeps DEF FillActivity
<1> QED BY <1>2, <1>3, <1>4, <1>5

(* Verify. *)
LEMMA VerifyTypes ==
    ASSUME Place, Settled, Remembered, NEW p \in Procs,
           Probed(p) \/ OpenVerify(p) \/ FillVerify(p)
    PROVE  Place' /\ Settled' /\ Remembered'
<1>1. mem[p] \in Memories /\ Fits(mem[p]) /\ mem[p].verify \in {"absent"} \cup Verdicts
      BY DEF Remembered, Memories
<1>2. CASE Probed(p)
      <2>1. PICK v \in Observable :
              mem' = [mem EXCEPT ![p].cmd = "verify", ![p].verify = v]
            BY <1>2 DEF Probed
      <2> DEFINE m == [mem[p] EXCEPT !.cmd = "verify", !.verify = v]
      <2>2. m \in Memories /\ m.at = mem[p].at /\ m.listed = mem[p].listed
            /\ m.logged = mem[p].logged /\ m.seen = mem[p].seen
            BY <1>1, StatusAssumption DEF Memories, StatusAssumption
      <2>3. mem' = [mem EXCEPT ![p] = m]
            BY <2>1 DEF Remembered
      <2> HIDE DEF m
      <2>4. Fits(m)
            BY <1>1, <2>2 DEF Fits
      <2>5. "openVerify" \in Points /\ pc' = [pc EXCEPT ![p] = "openVerify"]
            BY <1>2 DEF Probed, Start, Points
      <2>6. Place' /\ Remembered'
            BY <1>2, <2>3, <2>4, <2>5, Remembers DEF Probed
      <2>7. commands' \in 0..MaxCommands
            BY <1>2, StatusAssumption DEF Probed, Start, Settled, StatusAssumption
      <2> QED BY <1>2, <2>6, <2>7 DEF Probed, Settled
<1>3. CASE OpenVerify(p)
      <2>1. Settled' /\ UNCHANGED <<clock, log, file>>
            BY <1>3 DEF OpenVerify, Settled
      <2>2. "fillVerify" \in Points /\ mem' = [mem EXCEPT ![p] = mem[p]]
            BY <1>3 DEF OpenVerify, Remembered, Points
      <2> QED BY <1>1, <1>3, <2>1, <2>2, Remembers DEF OpenVerify
<1>4. CASE FillVerify(p)
      <2>1. verified' \in {"absent", "torn"} \cup Verdicts
            BY <1>1, <1>4 DEF FillVerify, Filled
      <2>2. Settled'
            BY <1>4, <2>1 DEF FillVerify, Settled
      <2> QED BY <1>4, <2>2, EndKeeps DEF FillVerify
<1> QED BY <1>2, <1>3, <1>4

(* Status. *)
LEMMA StatusTypes ==
    ASSUME Place, Settled, Remembered, NEW p \in Procs,
           \/ Inspect(p) \/ ReadLogs(p) \/ LoadVerify(p) \/ Evaluate(p)
           \/ Show(p) \/ Fail(p)
    PROVE  Place' /\ Settled' /\ Remembered'
<1>1. mem[p] \in Memories /\ Fits(mem[p])
      BY DEF Remembered
<1>2. /\ file \in Nat /\ Len(log) \in Nat /\ log \in Seq(Entries)
      /\ MaxCommands \in Nat
      BY StatusAssumption DEF Place, LogTyped, StatusAssumption
<1>3. CASE Inspect(p)
      <2> DEFINE m == [mem[p] EXCEPT !.cmd = "status", !.chain = chain, !.listed = file]
      <2>1. chain \in BOOLEAN
            BY DEF Settled
      <2>2. m \in Memories /\ m.at = mem[p].at /\ m.listed = file
            /\ m.logged = mem[p].logged /\ m.seen = mem[p].seen
            BY <1>1, <1>2, <2>1 DEF Memories
      <2>3. mem' = [mem EXCEPT ![p] = m]
            BY <1>3 DEF Inspect, Remembered
      <2> HIDE DEF m
      <2>4. Fits(m)
            BY <1>1, <1>2, <2>2 DEF Fits
      <2>5. "readLogs" \in Points /\ pc' = [pc EXCEPT ![p] = "readLogs"]
            BY <1>3 DEF Inspect, Start, Points
      <2>6. Place' /\ Remembered'
            BY <1>3, <2>3, <2>4, <2>5, Remembers DEF Inspect
      <2>7. commands' \in 0..MaxCommands
            BY <1>2, <1>3 DEF Inspect, Start, Settled
      <2> QED BY <1>3, <2>6, <2>7 DEF Inspect, Settled
<1>4. CASE ReadLogs(p)
      <2>1. PICK F \in SUBSET (1..(mem[p].listed - 1) \cup {file}) :
              mem' = [mem EXCEPT ![p].seen = {i \in DOMAIN log : log[i].file \in F},
                                 ![p].readable = F # {}, ![p].logged = Len(log)]
            BY <1>4 DEF ReadLogs
      <2> DEFINE seen == {i \in DOMAIN log : log[i].file \in F}
                 some == F # {}
                 m == [mem[p] EXCEPT !.seen = seen, !.readable = some,
                                     !.logged = Len(log)]
      <2>2. seen \subseteq 1..Len(log) /\ seen \in SUBSET Nat
            BY <1>2
      <2>3. some \in BOOLEAN
            OBVIOUS
      <2>4. mem' = [mem EXCEPT ![p] = m]
            BY <2>1 DEF Remembered
      <2> HIDE DEF seen, some
      <2>5. m \in Memories /\ m.at = mem[p].at /\ m.listed = mem[p].listed
            /\ m.logged = Len(log) /\ m.seen = seen
            BY <1>1, <1>2, <2>2, <2>3 DEF Memories
      <2> HIDE DEF m
      <2>6. Fits(m)
            BY <1>1, <1>2, <2>2, <2>5 DEF Fits
      <2>7. "loadVerify" \in Points /\ pc' = [pc EXCEPT ![p] = "loadVerify"]
            BY <1>4 DEF ReadLogs, Points
      <2>8. Settled' /\ UNCHANGED <<clock, log, file>>
            BY <1>4 DEF ReadLogs, Settled
      <2> QED BY <2>4, <2>6, <2>7, <2>8, Remembers
<1>5. CASE LoadVerify(p)
      <2>1. Settled' /\ UNCHANGED <<clock, log, file>>
            BY <1>5 DEF LoadVerify, Settled
      <2>2. CASE verified = "torn"
            BY <1>5, <2>1, <2>2, EndKeeps DEF LoadVerify
      <2>3. CASE verified # "torn"
            <3> DEFINE m == [mem[p] EXCEPT !.verify = verified]
            <3>1. verified \in {"absent"} \cup Verdicts
                  BY <2>3 DEF Settled
            <3>2. m \in Memories /\ m.at = mem[p].at /\ m.listed = mem[p].listed
                  /\ m.logged = mem[p].logged /\ m.seen = mem[p].seen
                  BY <1>1, <3>1 DEF Memories
            <3>3. mem' = [mem EXCEPT ![p] = m]
                  BY <1>5, <2>3 DEF LoadVerify, Remembered
            <3> HIDE DEF m
            <3>4. Fits(m)
                  BY <1>1, <3>2 DEF Fits
            <3>5. "evaluate" \in Points /\ pc' = [pc EXCEPT ![p] = "evaluate"]
                  BY <1>5, <2>3 DEF LoadVerify, Points
            <3> QED BY <2>1, <3>3, <3>4, <3>5, Remembers
      <2> QED BY <2>2, <2>3
<1>6. CASE Evaluate(p)
      <2>1. PICK code \in Outcomes(p) :
              mem' = [mem EXCEPT ![p] = [Nothing EXCEPT !.code = code]]
            BY <1>6 DEF Evaluate
      <2>2. Fits([Nothing EXCEPT !.code = code])
            BY <2>1, LeakReported, NothingFits DEF Outcomes
      <2>3. "show" \in Points /\ pc' = [pc EXCEPT ![p] = "show"]
            BY <1>6 DEF Evaluate, Points
      <2>4. Settled' /\ UNCHANGED <<clock, log, file>>
            BY <1>6 DEF Evaluate, Settled
      <2> QED BY <2>1, <2>2, <2>3, <2>4, Remembers
<1>7. CASE Show(p)
      BY <1>7, EndKeeps DEF Show, Settled
<1>8. CASE Fail(p)
      BY <1>8, EndKeeps DEF Fail, Settled
<1> QED BY <1>3, <1>4, <1>5, <1>6, <1>7, <1>8

(* Every variable keeps its type; no verify result is remembered that did  *)
(* not parse, no line that was not there (state.go:52-78, logs.go:69-102). *)
THEOREM StatusTyped == Spec => []TypeOK
<1>1. Init => TypeOK
      BY InitTyped, TypeParts
<1>2. TypeOK /\ [Next]_vars => TypeOK'
      <2> SUFFICES ASSUME Place, Settled, Remembered, [Next]_vars
                   PROVE  Place' /\ Settled' /\ Remembered'
          BY TypeParts DEF TypeOK, Place, Settled, Remembered, LogTyped, Fits, Points
      <2>1. CASE Log
            BY <2>1, LogTypes
      <2>2. CASE Rotate \/ Tick
            BY <2>2, WorldTypes
      <2>3. ASSUME NEW p \in Procs, Step(p)
            PROVE  Place' /\ Settled' /\ Remembered'
            BY <2>3, RecordTypes, VerifyTypes, StatusTypes DEF Step
      <2>4. CASE UNCHANGED vars
            BY <2>4 DEF vars, Place, Settled, Remembered, LogTyped, Fits
      <2> QED BY <2>1, <2>2, <2>3, <2>4 DEF Next
<1> QED BY <1>1, <1>2, PTL DEF Spec

(* In whatever order the targets are looked at, the colour is the same.    *)
THEOREM LevelIsDetermined == Spec => []LevelDetermined
<1>1. LevelDetermined
      BY OneLevel DEF LevelDetermined, Outcomes
<1> QED BY <1>1, PTL

-----------------------------------------------------------------------------
(* The activity record.  Until two commands overlap or one dies writing,   *)
(* whoever is about to write it will write what was recorded, merged with  *)
(* its own time; and nobody else is, while a command fills the file.       *)
Recording(p) == pc[p] \in {"openActivity", "fillActivity"}

Orderly ==
    /\ ActivityIsMerged
    /\ \A p \in Procs : Recording(p) =>
         mem[p].activity = Merged(recorded, mem[p].cmd, mem[p].at)
    /\ \A p, q \in Procs : pc[p] = "fillActivity" /\ Recording(q) => p = q

IInv == TypeOK /\ recorded.torn = FALSE /\ (disturbed \/ Orderly)

LEMMA RecordKeeps ==
    ASSUME IInv, NEW p \in Procs,
           Done(p) \/ LoadActivity(p) \/ OpenActivity(p) \/ FillActivity(p)
    PROVE  recorded'.torn = FALSE /\ (disturbed \/ Orderly)'
<1>1. /\ pc \in [Procs -> Points] /\ mem \in [Procs -> Memories]
      /\ recorded \in Activities /\ activity \in Activities /\ recorded.torn = FALSE
      BY TypeParts DEF IInv, Remembered, Settled
<1>2. mem[p] \in Memories /\ mem[p].at \in Nat
      BY <1>1 DEF Memories
<1>3. recorded # Torn
      BY <1>1 DEF Torn
<1>4. recorded'.torn = FALSE
      BY <1>1, <1>2, MergedTyped DEF Done, LoadActivity, OpenActivity, FillActivity
<1>5. SUFFICES ASSUME ~disturbed' PROVE Orderly'
      BY <1>4
<1>6. ~disturbed /\ Orderly
      <2>1. disturbed => disturbed'
            BY Zenon DEF Done, LoadActivity, OpenActivity, FillActivity
      <2> QED BY <1>5, <2>1 DEF IInv
<1>7. CASE Done(p)
      <2>1. \A q \in Procs : pc'[q] = IF q = p THEN "loadActivity" ELSE pc[q]
            BY <1>1, <1>7 DEF Done, Start
      <2>2. pc[p] = "idle" /\ \A q \in Procs \ {p} : mem'[q] = mem[q]
            BY <1>1, <1>7 DEF Done, Start
      <2>3. UNCHANGED <<activity, recorded, disturbed>>
            BY <1>7 DEF Done
      <2> QED BY <1>6, <2>1, <2>2, <2>3 DEF Orderly, ActivityIsMerged, Recording
<1>8. CASE LoadActivity(p)
      <2>1. pc[p] = "loadActivity" /\ UNCHANGED <<activity, recorded, disturbed>>
            /\ \A q \in Procs \ {p} : mem'[q] = mem[q] /\ pc'[q] = pc[q]
            BY <1>1, <1>8 DEF LoadActivity, End
      <2>2. CASE activity = Torn
            <3>1. pc'[p] = "idle"
                  BY <1>1, <1>8, <2>2 DEF LoadActivity, End
            <3> QED BY <1>6, <2>1, <3>1 DEF Orderly, ActivityIsMerged, Recording
      <2>3. CASE activity # Torn
            <3>1. activity = recorded /\ \A q \in Procs : pc[q] # "fillActivity"
                  BY <1>6, <2>3 DEF Orderly, ActivityIsMerged
            <3>2. pc'[p] = "openActivity" /\ mem'[p].cmd = mem[p].cmd
                  /\ mem'[p].at = mem[p].at
                  /\ mem'[p].activity = Merged(recorded, mem[p].cmd, mem[p].at)
                  BY <1>1, <1>2, <1>8, <2>3, <3>1 DEF LoadActivity, Memories
            <3> QED BY <1>6, <2>1, <3>1, <3>2 DEF Orderly, ActivityIsMerged, Recording
      <2> QED BY <2>2, <2>3
<1>9. CASE OpenActivity(p)
      <2>1. /\ pc[p] = "openActivity" /\ activity' = Torn
            /\ UNCHANGED <<mem, recorded>>
            /\ \A q \in Procs : pc'[q] = IF q = p THEN "fillActivity" ELSE pc[q]
            BY <1>1, <1>9 DEF OpenActivity
      <2>2. \A q \in Procs \ {p} : ~Recording(q)
            <3>1. disturbed' = (disturbed \/ \E q \in Procs \ {p} : Recording(q))
                  BY <1>9, Zenon DEF OpenActivity, Recording
            <3> QED BY <1>5, <3>1, Zenon
      <2> QED BY <1>6, <2>1, <2>2 DEF Orderly, ActivityIsMerged, Recording
<1>10. CASE FillActivity(p)
      <2>1. pc[p] = "fillActivity" /\ UNCHANGED disturbed
            /\ recorded' = Merged(recorded, mem[p].cmd, mem[p].at)
            /\ \A q \in Procs : pc'[q] = IF q = p THEN "idle" ELSE pc[q]
            BY <1>1, <1>10 DEF FillActivity, End
      <2>2. activity = Torn /\ mem[p].activity = recorded'
            /\ \A q \in Procs \ {p} : ~Recording(q)
            BY <1>6, <2>1 DEF Orderly, ActivityIsMerged, Recording
      <2>3. activity' = recorded'
            BY <1>10, <2>2 DEF FillActivity, Filled
      <2> QED BY <2>1, <2>2, <2>3 DEF Orderly, ActivityIsMerged, Recording
<1> QED BY <1>7, <1>8, <1>9, <1>10

(* No other step touches the record, or enters a command that does. *)
LEMMA OthersKeep ==
    ASSUME IInv, [Next]_vars,
           \A p \in Procs : ~(Done(p) \/ LoadActivity(p) \/ OpenActivity(p) \/ FillActivity(p))
    PROVE  recorded'.torn = FALSE /\ (disturbed \/ Orderly)'
<1>1. pc \in [Procs -> Points] /\ mem \in [Procs -> Memories]
      BY TypeParts DEF IInv, Remembered
<1>2. CASE Log \/ Rotate \/ Tick \/ UNCHANGED vars
      <2>1. UNCHANGED <<pc, mem, activity, recorded, disturbed>>
            BY <1>2 DEF Log, Rotate, Tick, vars
      <2> QED BY <2>1 DEF IInv, Orderly, ActivityIsMerged, Recording
<1>3. ASSUME NEW p \in Procs, Step(p)
      PROVE  recorded'.torn = FALSE /\ (disturbed \/ Orderly)'
      <2>1. \/ Probed(p) \/ OpenVerify(p) \/ FillVerify(p) \/ Inspect(p) \/ ReadLogs(p)
            \/ LoadVerify(p) \/ Evaluate(p) \/ Show(p) \/ Fail(p)
            BY <1>3 DEF Step
      <2>2. /\ UNCHANGED <<activity, recorded>> /\ pc'[p] \notin {"openActivity", "fillActivity"}
            /\ \A q \in Procs \ {p} : pc'[q] = pc[q] /\ mem'[q] = mem[q]
            BY <1>1, <2>1 DEF Probed, OpenVerify, FillVerify, Inspect, ReadLogs, LoadVerify,
                              Evaluate, Show, Fail, Start, End
      <2>3. (disturbed \/ pc[p] = "fillActivity") => disturbed'
            <3>1. disturbed => disturbed'
                  BY <2>1, Zenon DEF Probed, OpenVerify, FillVerify, Inspect, ReadLogs,
                                     LoadVerify, Evaluate, Show, Fail
            <3>2. pc[p] = "fillActivity" => Fail(p)
                  BY <2>1 DEF Probed, OpenVerify, FillVerify, Inspect, ReadLogs, LoadVerify,
                              Evaluate, Show, Start
            <3>3. Fail(p) /\ pc[p] = "fillActivity" => disturbed'
                  BY Zenon DEF Fail
            <3> QED BY <3>1, <3>2, <3>3
      <2> QED BY <2>2, <2>3 DEF IInv, Orderly, ActivityIsMerged, Recording
<1> QED BY <1>2, <1>3 DEF Next

(* activity.json tells the last apply and the last reload, until two       *)
(* commands record at once or one dies writing (state.go:85-127).          *)
THEOREM ActivityMerged == Spec => []ActivityIsMerged
<1>1. Init => TypeOK /\ recorded.torn = FALSE /\ (disturbed \/ Orderly)
      <2> SUFFICES ASSUME Init
                   PROVE  TypeOK /\ recorded.torn = FALSE /\ (disturbed \/ Orderly)
          OBVIOUS
      <2>1. TypeOK
            BY InitTyped, TypeParts
      <2>2. \A p \in Procs : pc[p] = "idle"
            BY DEF Init
      <2>3. activity = recorded /\ recorded.torn = FALSE
            BY DEF Init, Activity
      <2> QED BY <2>1, <2>2, <2>3 DEF Orderly, ActivityIsMerged, Recording
<1>2. IInv /\ TypeOK' /\ [Next]_vars => IInv'
      <2> SUFFICES ASSUME IInv, TypeOK', [Next]_vars PROVE IInv'
          OBVIOUS
      <2>1. recorded'.torn = FALSE /\ (disturbed \/ Orderly)'
            BY RecordKeeps, OthersKeep
      <2> QED BY <2>1 DEF IInv
<1>3. IInv => ActivityIsMerged
      BY DEF IInv, Orderly, ActivityIsMerged
<1> QED BY <1>1, <1>2, <1>3, StatusTyped, PTL DEF Spec, IInv

-----------------------------------------------------------------------------
(* Only an evaluation concludes, with one of its outcomes. *)
LEMMA ConcludesWith ==
    ASSUME TypeOK, [Next]_vars, NEW p \in Procs, Concludes(p)
    PROVE  /\ mem'[p].code \in Outcomes(p)
           /\ clock \in Nat /\ LogTyped /\ activity.apply \in Nat
           /\ mem[p].logged \in Nat /\ mem[p].logged <= Len(log) /\ Len(log) \in Nat
<1>1. Place /\ Settled /\ Remembered
      BY TypeParts
<1>2. pc[p] = "evaluate" /\ pc'[p] = "show" /\ pc \in [Procs -> Points]
      BY <1>1 DEF Concludes, Remembered
<1>3. Evaluate(p)
      <2>1. PICK q \in Procs : Step(q)
            BY <1>2 DEF Next, vars, Log, Rotate, Tick
      <2>2. q = p
            BY <1>2, <2>1 DEF Step, Done, LoadActivity, OpenActivity, FillActivity, Probed,
               OpenVerify, FillVerify, Inspect, ReadLogs, LoadVerify, Evaluate, Show, Fail,
               Start, End
      <2>3. ~Fail(p)
            BY <1>2 DEF Fail, End
      <2> QED BY <1>2, <2>1, <2>2, <2>3 DEF Step, Done, LoadActivity, OpenActivity,
               FillActivity, Probed, OpenVerify, FillVerify, Inspect, ReadLogs, LoadVerify,
               Show, Start
<1>4. PICK code \in Outcomes(p) : mem' = [mem EXCEPT ![p] = [Nothing EXCEPT !.code = code]]
      BY <1>3 DEF Evaluate
<1>5. mem'[p].code = code
      BY <1>1, <1>4 DEF Remembered, Nothing
<1>6. mem[p].logged \in Nat /\ mem[p].logged <= Len(log)
      BY <1>1 DEF Remembered, Fits, Memories
<1>7. clock \in Nat /\ LogTyped /\ Len(log) \in Nat
      BY <1>1, StatusAssumption DEF Place, LogTyped, StatusAssumption
<1>8. activity.apply \in Nat
      BY <1>1 DEF Settled, Activities
<1> QED BY <1>5, <1>6, <1>7, <1>8

(* The property each conclusion satisfies. *)
JudgesLeaks(p) ==
    mem'[p].code \in LeakCodes <=>
      /\ mem[p].chain
      /\ \E i \in mem[p].seen :
           /\ IsLast(i, mem[p].seen) /\ log[i].kind # "static"
           /\ \/ log[i].when = Never
              \/ log[i].when >= activity.apply
                 /\ log[i].when >= clock - MaxAge

LEMMA ConclusionJudges ==
    ASSUME TypeOK, [Next]_vars, NEW p \in Procs, Concludes(p), SawAll(p), Telling
    PROVE  JudgesLeaks(p)
<1> DEFINE n == mem[p].logged
           S == 1..n
<1>1. /\ mem'[p].code \in Outcomes(p)
      /\ clock \in Nat /\ LogTyped /\ activity.apply \in Nat
      /\ n \in Nat /\ n <= Len(log) /\ Len(log) \in Nat
      BY ConcludesWith
<1>2. mem[p].seen = S
      BY DEF SawAll
<1>3. S \subseteq DOMAIN log
      BY <1>1 DEF LogTyped
<1>4. \A i \in S : i \in LatestByTarget(S) <=> IsLast(i, S)
      BY <1>1, NewestIsLast
<1>5. \A i \in S : leakLive(i, activity.apply) <=>
             /\ log[i].kind # "static"
             /\ \/ log[i].when = Never
                \/ log[i].when >= activity.apply /\ log[i].when >= clock - MaxAge
      BY <1>1, <1>3, LiveLeak
<1>6. mem'[p].code \in LeakCodes <=>
          mem[p].chain /\ \E i \in LatestByTarget(S) : leakLive(i, activity.apply)
      BY <1>1, <1>2, LeakReported DEF Outcomes
<1>7. LatestByTarget(S) \subseteq S
      BY DEF LatestByTarget
<1> HIDE DEF n, S
<1> QED BY <1>2, <1>4, <1>5, <1>6, <1>7 DEF JudgesLeaks

(* A status that read every line reports a leak exactly when the last      *)
(* route of some target leaks, recently and not before the apply it read   *)
(* of, wherever the log tells the order (window.go:15-53, status.go).      *)
THEOREM LeaksAreJudged == Spec => LeaksJudged
<1>1. TypeOK /\ [Next]_vars =>
        \A p \in Procs : Concludes(p) /\ SawAll(p) /\ Telling => JudgesLeaks(p)
      BY ConclusionJudges
<1>2. TypeOK /\ [Next]_vars =>
        [\A p \in Procs : Concludes(p) /\ SawAll(p) /\ Telling =>
          (mem'[p].code \in LeakCodes <=>
              /\ mem[p].chain
              /\ \E i \in mem[p].seen :
                   /\ IsLast(i, mem[p].seen) /\ log[i].kind # "static"
                   /\ \/ log[i].when = Never
                      \/ log[i].when >= activity.apply
                         /\ log[i].when >= clock - MaxAge)]_vars
      BY <1>1 DEF JudgesLeaks
<1> QED BY <1>2, StatusTyped, PTL DEF Spec, LeaksJudged

(* What GREEN rests on. *)
Backed(p) ==
    /\ mem[p].chain /\ mem[p].verify = "match"
    /\ \A i \in mem[p].seen : log[i].kind \notin {"IPRoyal", "AIBusiness"}
    /\ SawAll(p) /\ Telling =>
         \E i \in mem[p].seen :
           /\ IsLast(i, mem[p].seen) /\ log[i].kind = "static"
           /\ log[i].when = Never \/ log[i].when >= clock - MaxAge

LEMMA GreenLeakless ==
    ASSUME NEW S, NEW readable, NEW apply, NEW verify,
           leakless(S, readable, apply, verify) \in GreenCodes
    PROVE  /\ verify = "match" /\ \E i \in LatestByTarget(S) : staticLive(i)
           /\ ~(ErrorCount("IPRoyal", S) > 0) /\ ~(ErrorCount("AIBusiness", S) > 0)
  BY DEF leakless, noHit, GreenCodes, Verdicts, Expected

LEMMA GreenBacked ==
    ASSUME TypeOK, [Next]_vars, NEW p \in Procs, Concludes(p), mem'[p].code \in GreenCodes
    PROVE  Backed(p)
<1> DEFINE S == mem[p].seen
<1>1. /\ mem'[p].code \in Outcomes(p)
      /\ clock \in Nat /\ LogTyped /\ activity.apply \in Nat
      /\ mem[p].logged \in Nat /\ mem[p].logged <= Len(log) /\ Len(log) \in Nat
      BY ConcludesWith
<1>2. S \subseteq 1..mem[p].logged
      BY TypeParts DEF Remembered, Fits
<1>3. mem[p].chain
      /\ leakless(S, mem[p].readable, activity.apply, mem[p].verify) \in GreenCodes
      BY <1>1, LeakReported DEF Outcomes
<1>4. /\ mem[p].verify = "match" /\ \E i \in LatestByTarget(S) : staticLive(i)
      /\ ~(ErrorCount("IPRoyal", S) > 0) /\ ~(ErrorCount("AIBusiness", S) > 0)
      BY <1>3, GreenLeakless
<1>5. \A i \in S : log[i].kind \notin {"IPRoyal", "AIBusiness"}
      BY <1>1, <1>2, <1>4, NoErrors
<1>6. ASSUME SawAll(p), Telling
      PROVE  \E i \in S : /\ IsLast(i, S) /\ log[i].kind = "static"
                          /\ log[i].when = Never \/ log[i].when >= clock - MaxAge
      <2>1. PICK i \in LatestByTarget(S) : staticLive(i)
            BY <1>4
      <2>2. i \in S /\ S = 1..mem[p].logged
            BY <1>6 DEF LatestByTarget, SawAll
      <2>3. IsLast(i, S)
            BY <1>1, <1>6, <2>1, <2>2, NewestIsLast
      <2>4. log[i] \in Entries
            BY <1>1, <2>2 DEF LogTyped
      <2>5. log[i].when \in Nat /\ MaxAge \in Nat
            BY <2>4, StatusAssumption DEF Entries, StatusAssumption
      <2>6. log[i].kind = "static"
            /\ (log[i].when = Never \/ log[i].when >= clock - MaxAge)
            BY <1>1, <2>1, <2>5 DEF staticLive, Fresh
      <2> QED BY <2>2, <2>3, <2>6
<1> QED BY <1>3, <1>4, <1>5, <1>6 DEF Backed

(* GREEN needs the chain on disk, a verify that matched, no error of the   *)
(* static node or of an AI client, and a target whose last route is static *)
(* and recent (status.go:120-180).                                         *)
THEOREM GreenIsAlwaysBacked == Spec => GreenIsBacked
<1>1. TypeOK /\ [Next]_vars =>
        \A p \in Procs : Concludes(p) /\ mem'[p].code \in GreenCodes => Backed(p)
      BY GreenBacked
<1>2. TypeOK /\ [Next]_vars =>
        [\A p \in Procs : Concludes(p) /\ mem'[p].code \in GreenCodes =>
          /\ mem[p].chain /\ mem[p].verify = "match"
          /\ \A i \in mem[p].seen : log[i].kind \notin {"IPRoyal", "AIBusiness"}
          /\ SawAll(p) /\ Telling =>
               \E i \in mem[p].seen :
                 /\ IsLast(i, mem[p].seen) /\ log[i].kind = "static"
                 /\ log[i].when = Never \/ log[i].when >= clock - MaxAge]_vars
      BY <1>1 DEF Backed
<1> QED BY <1>2, StatusTyped, PTL DEF Spec, GreenIsBacked

=============================================================================
