--------------------------- MODULE IdentityStatus ---------------------------
(***************************************************************************)
(* What "status" (and each round of "watch") concludes, and the files it   *)
(* concludes it from: Clash's logs, activity.json with the last apply and  *)
(* reload, and the result of the last "verify" (internal/cli/cli.go,       *)
(* internal/identity/status.go, state.go, evidence/window.go).             *)
(*                                                                         *)
(* The log is one sequence of lines in the order Clash wrote them, each    *)
(* with the number of its file; Clash starts a new file now and then.      *)
(* status reads the latest file first and older ones after it, the newest  *)
(* of them first.  A line is a route some target took, an error, or the    *)
(* noise of a health check; a route may lack a time that can be parsed.    *)
(* Lines without any of these (and UDP to other ports) are not there.      *)
(*                                                                         *)
(* No file is locked; os.WriteFile empties a file before it fills it; any  *)
(* command may fail or die between two calls.                              *)
(***************************************************************************)
EXTENDS Integers, Sequences, FiniteSets

CONSTANTS Procs,               \* command lines
          Targets,             \* AI clients, and the tool's own probe
          Probe,               \* the target of ipinfo.io
          Loggable,            \* what Clash may log (see Lines)
          Observable,          \* what verify may find (see Verdicts)
          MaxAge,              \* 30 minutes
          SwitchAfterFailures, \* configured
          MaxClock,            \* bound: the last moment
          MaxLines,            \* bound: lines logged
          MaxFiles,            \* bound: log files
          MaxCommands          \* bound: commands run

VARIABLES clock,
          log,       \* the lines Clash logged
          file,      \* the number of the latest log file
          chain,     \* do the enhancement files hold the static chain?
          activity,  \* activity.json
          verified,  \* the file of the last verify
          commands,  \* commands run so far
          pc,        \* idle, or what a process does next
          mem,       \* what a process remembers
          \* history
          recorded,  \* the last apply and reload that were recorded
          disturbed  \* two of them overlapped, or one died in the middle

vars == <<clock, log, file, chain, activity, verified, commands, pc, mem,
          recorded, disturbed>>

-----------------------------------------------------------------------------
Route(t, k, timed) == [target |-> t, kind |-> k, timed |-> timed]
Error(s)           == [target |-> "none", kind |-> s, timed |-> TRUE]
Noise              == [target |-> "none", kind |-> "healthcheck", timed |-> TRUE]

RouteKinds == {"static", "direct", "nonstatic"}
Sources    == {"IPRoyal", "JMS", "AIBusiness"}

Lines == {Route(t, k, timed) : t \in Targets, k \in RouteKinds, timed \in BOOLEAN}
         \cup {Error(s) : s \in Sources} \cup {Noise}

Never == 0

Activity(apply, reload) == [torn |-> FALSE, apply |-> apply, reload |-> reload]
Torn == [torn |-> TRUE, apply |-> Never, reload |-> Never]

(* The exit fits what is expected, or not, or could not be probed; or no   *)
(* identity is expected, and it was probed or not.                         *)
Expected == {"match", "mismatch", "error"}
Verdicts == Expected \cup {"unexpected", "unexpectedError"}

ASSUME StatusAssumption ==
    /\ Probe \in Targets /\ "none" \notin Targets
    /\ Loggable \subseteq Lines /\ Observable \subseteq Verdicts
    /\ {MaxAge, SwitchAfterFailures, MaxLines, MaxCommands} \subseteq Nat
    /\ {MaxClock, MaxFiles} \subseteq Nat \ {0}

Nothing == [cmd |-> "none", at |-> Never, activity |-> Activity(Never, Never),
            verify |-> "absent", chain |-> FALSE, listed |-> 0, seen |-> {},
            readable |-> FALSE, logged |-> 0, code |-> "none"]

-----------------------------------------------------------------------------
(* The window: lines are known by their place in the log. *)

(* Line i was read after line j. *)
ReadAfter(i, j) ==
    \/ log[i].file < log[j].file
    \/ log[i].file = log[j].file /\ i > j

(* A slip: the line read last is the newest. *)
routeIsNewerUntimed(i, j) == ReadAfter(i, j)

routeIsNewer(i, j) ==
    \/ log[i].when > log[j].when
    \/ log[i].when = log[j].when /\ ReadAfter(i, j)

RoutesOf(t, S) == {i \in S : log[i].target = t}

(* The newest route of each target (Build keeps the newest of each host    *)
(* and process; what is newer is a total order, so it is the same one).    *)
LatestByTarget(S) ==
    {i \in S : /\ log[i].kind \in RouteKinds
               /\ \A j \in RoutesOf(log[i].target, S) \ {i} : routeIsNewer(i, j)}

ErrorCount(s, S) == Cardinality({i \in S : log[i].kind = s})

HealthCheckOnly(S) == \E i \in S : log[i].kind = "healthcheck"

Fresh(i) == log[i].when = Never \/ clock - log[i].when <= MaxAge

(* A slip: old static routes count. *)
staticLiveEver(i) == log[i].kind = "static"

staticLive(i) == log[i].kind = "static" /\ Fresh(i)

BeforeApply(i, apply) == log[i].when # Never /\ apply # Never /\ log[i].when < apply

leakLive(i, apply) ==
    log[i].kind # "static" /\ Fresh(i) /\ ~BeforeApply(i, apply)

leakPreApply(i, apply) ==
    log[i].kind # "static" /\ Fresh(i) /\ BeforeApply(i, apply)

leakCode(i, apply) ==
    IF log[i].kind = "direct" THEN "R_AI_DIRECT"
    ELSE IF log[i].when # Never /\ apply # Never THEN "R_RUNTIME_STALE_LEAK"
    ELSE "R_AI_NONSTATIC"

noHit(S, readable) ==
    IF ~readable THEN "Y_LOGS_UNREADABLE"
    ELSE IF HealthCheckOnly(S) THEN "Y_HEALTHCHECK_NOISE"
    ELSE "Y_NO_AI_HIT"

(* The code of a status without a live leak. *)
leakless(S, readable, apply, verify) ==
    LET hit     == \E i \in LatestByTarget(S) : staticLive(i)
        pending == \E i \in LatestByTarget(S) : leakPreApply(i, apply)
    IN  IF ErrorCount("IPRoyal", S) > 0 THEN "R_IPROYAL_DOWN"
        ELSE IF SwitchAfterFailures > 0 /\ ErrorCount("JMS", S) >= SwitchAfterFailures
             THEN "R_JMS_DOWN"
        ELSE IF ErrorCount("AIBusiness", S) > 0 THEN "R_AI_BUSINESS_FAIL"
        ELSE IF verify \in Verdicts \ Expected THEN "Y_VERIFY_NO_EXPECT"
        ELSE IF verify \in {"mismatch", "error"} THEN "R_VERIFY_MISMATCH"
        ELSE IF pending /\ ~hit THEN "Y_RELOAD_PENDING"
        ELSE IF ~hit THEN noHit(S, readable)
        ELSE IF verify = "match" THEN "G_VERIFIED"
        ELSE "Y_VERIFY_MISSING"

(* A slip: a leak from before the apply ends the loop too. *)
EvaluateStatusAtOnce(chainOK, S, readable, apply, verify) ==
    LET leaks == {i \in LatestByTarget(S) : leakLive(i, apply)}
        old   == {i \in LatestByTarget(S) : leakPreApply(i, apply)}
    IN  IF ~chainOK THEN {"R_CHAIN_INCOMPLETE"}
        ELSE IF leaks \cup old # {}
             THEN {leakCode(i, apply) : i \in leaks}
                  \cup {"Y_RELOAD_PENDING" : i \in old}
        ELSE {leakless(S, readable, apply, verify)}

(* The codes EvaluateStatus may return: of several leaks it reports the    *)
(* first of a map's iteration, in any order.                               *)
EvaluateStatus(chainOK, S, readable, apply, verify) ==
    LET leaks == {i \in LatestByTarget(S) : leakLive(i, apply)}
    IN  IF ~chainOK THEN {"R_CHAIN_INCOMPLETE"}
        ELSE IF leaks # {} THEN {leakCode(i, apply) : i \in leaks}
        ELSE {leakless(S, readable, apply, verify)}

LeakCodes  == {"R_AI_DIRECT", "R_RUNTIME_STALE_LEAK", "R_AI_NONSTATIC"}
RedCodes   == LeakCodes \cup {"R_CHAIN_INCOMPLETE", "R_IPROYAL_DOWN", "R_JMS_DOWN",
                             "R_AI_BUSINESS_FAIL", "R_VERIFY_MISMATCH"}
GreenCodes == {"G_VERIFIED"}
YellowCodes == {"Y_VERIFY_NO_EXPECT", "Y_RELOAD_PENDING", "Y_LOGS_UNREADABLE",
                "Y_HEALTHCHECK_NOISE", "Y_NO_AI_HIT", "Y_VERIFY_MISSING"}

Level(code) == IF code \in GreenCodes THEN "GREEN"
               ELSE IF code \in RedCodes THEN "RED" ELSE "YELLOW"

Outcomes(p) ==
    EvaluateStatus(mem[p].chain, mem[p].seen, mem[p].readable, activity.apply,
                   mem[p].verify)

-----------------------------------------------------------------------------
(* Filling a file: c, or a jumble when another process filled it meanwhile. *)
Filled(old, torn, c) == IF old = torn THEN {c} ELSE {c, torn}

Init ==
    /\ clock = 1 /\ log = <<>> /\ file = 1
    /\ chain \in BOOLEAN
    /\ activity = Activity(Never, Never)
    /\ verified = "absent"
    /\ commands = 0
    /\ pc = [p \in Procs |-> "idle"]
    /\ mem = [p \in Procs |-> Nothing]
    /\ recorded = Activity(Never, Never)
    /\ disturbed = FALSE

Start(p, next) ==
    /\ pc[p] = "idle"
    /\ commands < MaxCommands
    /\ commands' = commands + 1
    /\ pc' = [pc EXCEPT ![p] = next]

End(p) ==
    /\ pc' = [pc EXCEPT ![p] = "idle"]
    /\ mem' = [mem EXCEPT ![p] = Nothing]

Merged(a, cmd, at) ==
    IF cmd = "apply" THEN [a EXCEPT !.apply = at] ELSE [a EXCEPT !.reload = at]

(* apply has written the files (with --no-rules the chain may stay         *)
(* incomplete); reload has had the runtime config read again, and has seen *)
(* the connections.  They take the time.                                   *)
Done(p) ==
    /\ Start(p, "loadActivity")
    /\ \E cmd \in {"apply", "reload"} :
         /\ mem' = [mem EXCEPT ![p].cmd = cmd, ![p].at = clock]
         /\ chain' \in {chain, chain \/ cmd = "apply"}
    /\ UNCHANGED <<clock, log, file, activity, verified, recorded, disturbed>>

(* A slip: the file is made anew. *)
LoadActivityNot(p) ==
    /\ pc[p] = "loadActivity"
    /\ mem' = [mem EXCEPT ![p].activity =
                  Merged(Activity(Never, Never), mem[p].cmd, mem[p].at)]
    /\ pc' = [pc EXCEPT ![p] = "openActivity"]
    /\ UNCHANGED <<clock, log, file, chain, activity, verified, commands, recorded,
                   disturbed>>

(* RecordApply and RecordReload give up, unheard, on a torn file; no file  *)
(* is read as no times.                                                    *)
LoadActivity(p) ==
    /\ pc[p] = "loadActivity"
    /\ IF activity = Torn THEN End(p)
       ELSE /\ mem' = [mem EXCEPT ![p].activity =
                          Merged(activity, mem[p].cmd, mem[p].at)]
            /\ pc' = [pc EXCEPT ![p] = "openActivity"]
    /\ UNCHANGED <<clock, log, file, chain, activity, verified, commands, recorded,
                   disturbed>>

OpenActivity(p) ==
    /\ pc[p] = "openActivity"
    /\ activity' = Torn
    /\ pc' = [pc EXCEPT ![p] = "fillActivity"]
    /\ disturbed' = (disturbed \/ \E q \in Procs \ {p} :
                                     pc[q] \in {"openActivity", "fillActivity"})
    /\ UNCHANGED <<clock, log, file, chain, verified, commands, mem, recorded>>

FillActivity(p) ==
    /\ pc[p] = "fillActivity"
    /\ activity' \in Filled(activity, Torn, mem[p].activity)
    /\ recorded' = Merged(recorded, mem[p].cmd, mem[p].at)
    /\ End(p)
    /\ UNCHANGED <<clock, log, file, chain, verified, commands, disturbed>>

(* verify has probed the exit. *)
Probed(p) ==
    /\ Start(p, "openVerify")
    /\ \E v \in Observable : mem' = [mem EXCEPT ![p].cmd = "verify", ![p].verify = v]
    /\ UNCHANGED <<clock, log, file, chain, activity, verified, recorded, disturbed>>

OpenVerify(p) ==
    /\ pc[p] = "openVerify"
    /\ verified' = "torn"
    /\ pc' = [pc EXCEPT ![p] = "fillVerify"]
    /\ UNCHANGED <<clock, log, file, chain, activity, commands, mem, recorded, disturbed>>

FillVerify(p) ==
    /\ pc[p] = "fillVerify"
    /\ verified' \in Filled(verified, "torn", mem[p].verify)
    /\ End(p)
    /\ UNCHANGED <<clock, log, file, chain, activity, commands, recorded, disturbed>>

(* status inspects the enhancement files and lists the log files. *)
Inspect(p) ==
    /\ Start(p, "readLogs")
    /\ mem' = [mem EXCEPT ![p].cmd = "status", ![p].chain = chain, ![p].listed = file]
    /\ UNCHANGED <<clock, log, file, chain, activity, verified, recorded, disturbed>>

(* The file that is the latest now, and those that were older when listed, *)
(* but for those that cannot be read.                                      *)
ReadLogs(p) ==
    /\ pc[p] = "readLogs"
    /\ \E F \in SUBSET (1..(mem[p].listed - 1) \cup {file}) :
         LET seen == {i \in DOMAIN log : log[i].file \in F}
         IN  mem' = [mem EXCEPT ![p].seen = seen, ![p].readable = F # {},
                                ![p].logged = Len(log)]
    /\ pc' = [pc EXCEPT ![p] = "loadVerify"]
    /\ UNCHANGED <<clock, log, file, chain, activity, verified, commands, recorded,
                   disturbed>>

(* A slip: a file that does not parse is a result. *)
LoadVerifyAnyhow(p) ==
    /\ pc[p] = "loadVerify"
    /\ mem' = [mem EXCEPT ![p].verify = verified]
    /\ pc' = [pc EXCEPT ![p] = "evaluate"]
    /\ UNCHANGED <<clock, log, file, chain, activity, verified, commands, recorded,
                   disturbed>>

(* A file that does not parse ends the command. *)
LoadVerify(p) ==
    /\ pc[p] = "loadVerify"
    /\ IF verified = "torn" THEN End(p)
       ELSE /\ mem' = [mem EXCEPT ![p].verify = verified]
            /\ pc' = [pc EXCEPT ![p] = "evaluate"]
    /\ UNCHANGED <<clock, log, file, chain, activity, verified, commands, recorded,
                   disturbed>>

(* The colour as of now, and of activity.json as it is: torn, it has no     *)
(* times.                                                                  *)
Evaluate(p) ==
    /\ pc[p] = "evaluate"
    /\ \E code \in Outcomes(p) : mem' = [mem EXCEPT ![p] = [Nothing EXCEPT !.code = code]]
    /\ pc' = [pc EXCEPT ![p] = "show"]
    /\ UNCHANGED <<clock, log, file, chain, activity, verified, commands, recorded,
                   disturbed>>

Show(p) ==
    /\ pc[p] = "show"
    /\ End(p)
    /\ UNCHANGED <<clock, log, file, chain, activity, verified, commands, recorded,
                   disturbed>>

(* A call fails, or the process dies. *)
Fail(p) ==
    /\ pc[p] # "idle"
    /\ End(p)
    /\ disturbed' = (disturbed \/ pc[p] = "fillActivity")
    /\ UNCHANGED <<clock, log, file, chain, activity, verified, commands, recorded>>

-----------------------------------------------------------------------------
(* Clash logs a line. *)
Log ==
    /\ Len(log) < MaxLines
    /\ \E l \in Loggable :
         log' = Append(log, [target |-> l.target, kind |-> l.kind, file |-> file,
                             when |-> IF l.timed THEN clock ELSE Never])
    /\ UNCHANGED <<clock, file, chain, activity, verified, commands, pc, mem, recorded,
                   disturbed>>

Rotate ==
    /\ file < MaxFiles
    /\ file' = file + 1
    /\ UNCHANGED <<clock, log, chain, activity, verified, commands, pc, mem, recorded,
                   disturbed>>

Tick ==
    /\ clock < MaxClock
    /\ clock' = clock + 1
    /\ UNCHANGED <<log, file, chain, activity, verified, commands, pc, mem, recorded,
                   disturbed>>

Step(p) ==
    \/ Done(p) \/ LoadActivity(p) \/ OpenActivity(p) \/ FillActivity(p)
    \/ Probed(p) \/ OpenVerify(p) \/ FillVerify(p)
    \/ Inspect(p) \/ ReadLogs(p) \/ LoadVerify(p) \/ Evaluate(p)
    \/ Show(p) \/ Fail(p)

Next == Log \/ Rotate \/ Tick \/ \E p \in Procs : Step(p)

Spec == Init /\ [][Next]_vars

-----------------------------------------------------------------------------
Activities == [torn : BOOLEAN, apply : Nat, reload : Nat]

Entries == [target : Targets \cup {"none"}, kind : RouteKinds \cup Sources \cup {"healthcheck"},
            when : Nat, file : Nat]

Memories == [cmd : {"none", "apply", "reload", "verify", "status"}, at : Nat,
             activity : Activities, verify : {"absent"} \cup Verdicts, chain : BOOLEAN,
             listed : Nat, seen : SUBSET Nat, readable : BOOLEAN, logged : Nat,
             code : {"none"} \cup RedCodes \cup YellowCodes \cup GreenCodes]

(* Types; a memory never holds a torn verify result (state.go:64-66), nor   *)
(* lines logged after it was read.                                         *)
TypeOK ==
    /\ clock \in 1..MaxClock /\ file \in 1..MaxFiles
    /\ log \in Seq(Entries) /\ Len(log) <= MaxLines
    /\ \A i \in DOMAIN log :
         /\ log[i].kind \in RouteKinds <=> log[i].target \in Targets
         /\ log[i].when <= clock /\ log[i].file <= file
    /\ chain \in BOOLEAN /\ disturbed \in BOOLEAN
    /\ activity \in Activities /\ recorded \in Activities
    /\ verified \in {"absent", "torn"} \cup Verdicts
    /\ commands \in 0..MaxCommands
    /\ pc \in [Procs -> {"idle", "loadActivity", "openActivity", "fillActivity",
                         "openVerify", "fillVerify", "readLogs", "loadVerify",
                         "evaluate", "show"}]
    /\ mem \in [Procs -> Memories]
    /\ \A p \in Procs :
         /\ mem[p].at <= clock /\ mem[p].listed <= file
         /\ mem[p].logged <= Len(log) /\ mem[p].seen \subseteq 1..mem[p].logged

(* The log tells that line i came before line j: by their times, or by     *)
(* their places in one file, or an untimed line (taken for the oldest) was.*)
Tells(i, j) ==
    \/ log[i].when < log[j].when
    \/ log[i].when = log[j].when /\ log[i].file = log[j].file

Telling == \A i, j \in DOMAIN log : i < j /\ log[i].target = log[j].target => Tells(i, j)

(* Line i is the last of its target in S, in the order Clash wrote them. *)
IsLast(i, S) ==
    log[i].target # "none" /\ \A j \in RoutesOf(log[i].target, S) : j <= i

SawAll(p) == mem[p].seen = 1..mem[p].logged

Concludes(p) == pc[p] = "evaluate" /\ pc'[p] = "show"

(* status reports a leak exactly when the last route of some target leaks, *)
(* and no longer than MaxAge ago, nor before the apply it read of: though  *)
(* files are read newest first, and lines may have no time.  The log must  *)
(* tell the order, and every file be read (window.go:15-53, status.go).    *)
LeaksJudged ==
    [][\A p \in Procs : Concludes(p) /\ SawAll(p) /\ Telling =>
          (mem'[p].code \in LeakCodes <=>
              /\ mem[p].chain
              /\ \E i \in mem[p].seen :
                   /\ IsLast(i, mem[p].seen) /\ log[i].kind # "static"
                   /\ \/ log[i].when = Never
                      \/ log[i].when >= activity.apply
                         /\ log[i].when >= clock - MaxAge)]_vars

(* GREEN needs the chain on disk, a verify that matched, no error of the   *)
(* static node or of an AI client, and a target whose last route is static *)
(* and recent (status.go:120-180).                                         *)
GreenIsBacked ==
    [][\A p \in Procs : Concludes(p) /\ mem'[p].code \in GreenCodes =>
          /\ mem[p].chain /\ mem[p].verify = "match"
          /\ \A i \in mem[p].seen : log[i].kind \notin {"IPRoyal", "AIBusiness"}
          /\ SawAll(p) /\ Telling =>
               \E i \in mem[p].seen :
                 /\ IsLast(i, mem[p].seen) /\ log[i].kind = "static"
                 /\ log[i].when = Never \/ log[i].when >= clock - MaxAge]_vars

(* In whatever order the targets are looked at, the colour is the same     *)
(* (status.go:131-147 ranges over a map).                                  *)
LevelDetermined ==
    \A p \in Procs : pc[p] = "evaluate" =>
        \A c, d \in Outcomes(p) : Level(c) = Level(d)

(* activity.json tells the last apply and the last reload, unless two      *)
(* commands recorded at once or one died writing (state.go:75-127).        *)
ActivityIsMerged ==
    disturbed \/ activity = IF \E p \in Procs : pc[p] = "fillActivity" THEN Torn ELSE recorded

(* A status that is GREEN says "AI traffic used AI-Static" (status.go:172):*)
(* an AI client's line says so, not the tool's own probe.                  *)
GreenNeedsAIHit ==
    [][\A p \in Procs : Concludes(p) /\ mem'[p].code \in GreenCodes =>
          \E i \in mem[p].seen : log[i].target # Probe /\ log[i].kind = "static"]_vars

=============================================================================
