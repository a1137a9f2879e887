------------------------------ MODULE Monitor -------------------------------
(***************************************************************************)
(* "monitor" (runMonitor in internal/cli/cli.go with the Tracker of        *)
(* internal/identity/session): it polls the proxy's controller for the     *)
(* open connections, samples the exit identity now and then, scans the log *)
(* for chain errors, and folds what it saw into the worst level of the     *)
(* session, which becomes its exit code.                                   *)
(*                                                                         *)
(* The loop runs beside connections that come and go between answers, a    *)
(* controller and a probe that fail, and a clock that moves during every   *)
(* call.  Levels, verdicts and reason codes are the code's; of a           *)
(* connection only its id and kind count: not of an AI target, on the      *)
(* static chain, or leaking (a connection keeps its chain, and an id that  *)
(* left an answer is never used again).                                    *)
(***************************************************************************)
EXTENDS Integers, FiniteSets

CONSTANTS Conns,       \* connection ids
          Kind,        \* other, static or leak, for each
          Identities,  \* exit identities: an ip, and whether it fits EXPECTED_*
          Lines,       \* chain-error lines the log may show
          NoIP,        \* the baseline before the first sample
          Interval, IPInterval, Duration,  \* the flags, in ticks
          MaxTime      \* bound: the clock stops here

ASSUME MonitorAssumption ==
    /\ IsFiniteSet(Conns) /\ IsFiniteSet(Lines)
    /\ Kind \in [Conns -> {"other", "static", "leak"}]
    /\ \A id \in Identities : id.fits \in BOOLEAN /\ id.ip # NoIP
    /\ Interval \in Nat \ {0} /\ IPInterval \in Nat \ {0}
    /\ Duration \in Nat \ {0} /\ MaxTime \in Nat /\ Duration <= MaxTime

VARIABLES mode,       \* once or watch
          expected,   \* whether any EXPECTED_* value is configured
          pc,         \* what the loop does next
          exit,       \* the exit code, -1 before
          now,        \* the clock
          wake,       \* when the sleep ends
          lastIP,     \* when the last scheduled sample was done
          sampleIP,   \* whether this round samples
          prev,       \* the connections of the last answer
          seen,       \* the log lines counted
          reason,     \* the reason code this round printed
          \* the Tracker
          baseline, ipChanged, samples, sampleFails, drops, leakEvents,
          chainErrors, worst,
          \* history
          known,      \* connections any answer showed
          taken,      \* identities sampled
          fetchedAt   \* when the probe last answered or failed

flags   == <<mode, expected>>
loop    == <<pc, exit, wake, lastIP, sampleIP, reason>>
tracker == <<baseline, ipChanged, samples, sampleFails, drops, leakEvents,
             chainErrors, worst>>
history == <<known, taken, fetchedAt>>
vars    == <<flags, loop, now, prev, seen, tracker, history>>

Levels  == {"green", "yellow", "red"}
Reasons == {"none", "R_SESSION_IP_CHANGED", "R_AI_NON_STATIC", "Y_NO_AI_HIT",
            "R_VERIFY_MISMATCH", "Y_VERIFY_MISSING", "G_VERIFIED"}

rank == [l \in Levels |-> CASE l = "red" -> 2 [] l = "yellow" -> 1 [] OTHER -> 0]

(* A slip: the level is set, not raised. *)
raiseToLast(w, l) == l

raise(w, l) == IF rank[l] > rank[w] THEN l ELSE w

ClassifyExit(id) ==
    IF ~expected THEN "unverifiable" ELSE IF id.fits THEN "matched" ELSE "mismatched"

AI(S)    == {c \in S : Kind[c] # "other"}
Leaks(S) == {c \in S : Kind[c] = "leak"}

DropsBetween(before, cur) == AI(before) \ cur

exitForLevel(l) == rank[l]

-----------------------------------------------------------------------------
Init ==
    /\ mode \in {"once", "watch"} /\ expected \in BOOLEAN
    /\ pc = "open" /\ exit = -1 /\ now = 0 /\ wake = 0
    /\ lastIP = -IPInterval /\ sampleIP = FALSE
    /\ prev = {} /\ seen = {} /\ reason = "none"
    /\ baseline = NoIP /\ ipChanged = FALSE
    /\ samples = 0 /\ sampleFails = 0 /\ drops = 0 /\ leakEvents = 0
    /\ chainErrors = 0 /\ worst = "green"
    /\ known = {} /\ taken = {} /\ fetchedAt = -IPInterval

Quit(code) ==
    /\ pc' = "done"
    /\ exit' = code

Open ==
    /\ pc = "open"
    /\ \/ pc' = "top" /\ UNCHANGED exit
       \/ Quit(2)
    /\ UNCHANGED <<flags, now, wake, lastIP, sampleIP, reason, prev, seen,
                   tracker, history>>

BeginEarly ==  \* a slip: a tick too soon
    /\ pc = "top"
    /\ sampleIP' = (mode = "once" \/ now - lastIP >= IPInterval - 1)
    /\ pc' = "connections"
    /\ reason' = "none"
    /\ UNCHANGED <<flags, exit, now, wake, lastIP, prev, seen, tracker,
                   history>>

(* The round begins: is a sample due?  "once" always samples. *)
Begin ==
    /\ pc = "top"
    /\ sampleIP' = (mode = "once" \/ now - lastIP >= IPInterval)
    /\ pc' = "connections"
    /\ reason' = "none"
    /\ UNCHANGED <<flags, exit, now, wake, lastIP, prev, seen, tracker,
                   history>>

ConnectionsOk ==
    /\ pc = "connections"
    /\ \E conns \in SUBSET (Conns \ (known \ prev)) :
         /\ leakEvents' = leakEvents + Cardinality(Leaks(conns))
         /\ worst' = IF Leaks(conns) # {} THEN raise(worst, "red") ELSE worst
         /\ drops' = drops + Cardinality(DropsBetween(prev, conns))
         /\ prev' = conns
         /\ known' = known \cup conns
    /\ pc' = IF sampleIP THEN "probe" ELSE "report"
    /\ UNCHANGED <<flags, exit, now, wake, lastIP, sampleIP, reason, seen, baseline,
                   ipChanged, samples, sampleFails, chainErrors, taken, fetchedAt>>

(* Slips after a failed poll: the sample counts as made; the connections   *)
(* are forgotten; the round starts over at once.                           *)
ErrCountsAsSample ==
    /\ pc = "connections"
    /\ IF mode = "once" THEN Quit(2) ELSE pc' = "check" /\ UNCHANGED exit
    /\ lastIP' = IF sampleIP THEN now ELSE lastIP
    /\ UNCHANGED <<flags, now, wake, sampleIP, reason, prev, seen, tracker, history>>

ErrForgetsPrev ==
    /\ pc = "connections"
    /\ IF mode = "once" THEN Quit(2) ELSE pc' = "check" /\ UNCHANGED exit
    /\ prev' = {}
    /\ UNCHANGED <<flags, now, wake, lastIP, sampleIP, reason, seen, tracker, history>>

ErrRetries ==
    /\ pc = "connections"
    /\ IF mode = "once" THEN Quit(2) ELSE pc' = "top" /\ UNCHANGED exit
    /\ UNCHANGED <<flags, now, wake, lastIP, sampleIP, reason, prev, seen, tracker,
                   history>>

(* "once" gives up; "watch" prints the error and goes on. *)
ConnectionsErr ==
    /\ pc = "connections"
    /\ IF mode = "once" THEN Quit(2) ELSE pc' = "check" /\ UNCHANGED exit
    /\ UNCHANGED <<flags, now, wake, lastIP, sampleIP, reason, prev, seen, tracker,
                   history>>

FetchErr ==
    /\ pc = "probe"
    /\ sampleFails' = sampleFails + 1
    /\ worst' = raise(worst, "yellow")
    /\ fetchedAt' = now
    /\ pc' = "report"
    /\ UNCHANGED <<flags, exit, now, wake, lastIP, sampleIP, reason, prev, seen,
                   baseline, ipChanged, samples, drops, leakEvents, chainErrors,
                   known, taken>>

(* A slip: the whole identity becomes the baseline. *)
NoteExitIdentity(id) ==
    /\ samples' = samples + 1
    /\ baseline' = IF baseline = NoIP THEN id ELSE baseline
    /\ UNCHANGED <<ipChanged, worst>>

(* NoteExitIP: the baseline is the first IP sampled; a later difference is *)
(* kept even when the baseline comes back.                                 *)
NoteExitIP(id) ==
    LET verdict == ClassifyExit(id)
        changed == baseline # NoIP /\ id.ip # baseline
        w       == IF changed THEN raise(worst, "red") ELSE worst
    IN  /\ samples' = samples + 1
        /\ baseline' = IF baseline = NoIP THEN id.ip ELSE baseline
        /\ ipChanged' = (ipChanged \/ changed)
        /\ worst' = IF verdict = "unverifiable" THEN raise(w, "yellow")
                    ELSE IF verdict = "mismatched" THEN raise(w, "red") ELSE w

FetchOk ==
    /\ pc = "probe"
    /\ \E id \in Identities : NoteExitIP(id) /\ taken' = taken \cup {id}
    /\ fetchedAt' = now
    /\ pc' = "report"
    /\ UNCHANGED <<flags, exit, now, wake, lastIP, sampleIP, reason, prev, seen,
                   sampleFails, drops, leakEvents, chainErrors, known>>

monitorReasonAnyFault ==  \* a slip: whatever is not green is a mismatch
    IF ipChanged THEN "R_SESSION_IP_CHANGED"
    ELSE IF Leaks(prev) # {} THEN "R_AI_NON_STATIC"
    ELSE IF AI(prev) = {} THEN "Y_NO_AI_HIT"
    ELSE IF worst # "green" THEN "R_VERIFY_MISMATCH" ELSE "G_VERIFIED"

monitorReasonCode ==
    IF ipChanged THEN "R_SESSION_IP_CHANGED"
    ELSE IF Leaks(prev) # {} THEN "R_AI_NON_STATIC"
    ELSE IF AI(prev) = {} THEN "Y_NO_AI_HIT"
    ELSE IF worst = "red" THEN "R_VERIFY_MISMATCH"
    ELSE IF worst = "yellow" THEN "Y_VERIFY_MISSING" ELSE "G_VERIFIED"

(* The log's tail shows some of the lines; each is counted the first time. *)
scanLogErrorsStep ==
    \E shown \in SUBSET Lines :
        /\ chainErrors' = chainErrors + Cardinality(shown \ seen)
        /\ seen' = seen \cup shown

(* monitorStep prints its reason code and returns; the log is scanned, and *)
(* a sample, good or bad, restarts the sampling interval.                  *)
EndStep ==
    /\ pc = "report"
    /\ reason' = monitorReasonCode
    /\ scanLogErrorsStep
    /\ IF mode = "once"
       THEN Quit(exitForLevel(worst)) /\ UNCHANGED lastIP
       ELSE /\ lastIP' = IF sampleIP THEN now ELSE lastIP
            /\ pc' = "check"
            /\ UNCHANGED exit
    /\ UNCHANGED <<flags, now, wake, sampleIP, prev, baseline, ipChanged, samples,
                   sampleFails, drops, leakEvents, worst, history>>

(* The loop ends at the deadline, or when the next sleep would pass it. *)
Check ==
    /\ pc = "check"
    /\ IF now >= Duration \/ Duration - now < Interval
       THEN Quit(exitForLevel(worst)) /\ UNCHANGED wake
       ELSE /\ pc' = "sleep"
            /\ wake' = now + Interval
            /\ UNCHANGED exit
    /\ UNCHANGED <<flags, now, lastIP, sampleIP, reason, prev, seen, tracker,
                   history>>

Wake ==
    /\ pc = "sleep"
    /\ now >= wake
    /\ pc' = "top"
    /\ UNCHANGED <<flags, exit, now, wake, lastIP, sampleIP, reason, prev, seen,
                   tracker, history>>

Program ==
    Open \/ Begin \/ ConnectionsOk \/ ConnectionsErr \/ FetchErr \/ FetchOk
         \/ EndStep \/ Check \/ Wake

(* Time runs from the moment the controller was opened. *)
Tick ==
    /\ pc \notin {"open", "done"}
    /\ now < MaxTime
    /\ now' = now + 1
    /\ UNCHANGED <<flags, loop, prev, seen, tracker, history>>

Finished == pc = "done" /\ UNCHANGED vars

Next == Program \/ Tick \/ Finished

(* Every call of the loop times out at last (the controller's and the      *)
(* probe's own limits), so the program keeps moving, and so does time.     *)
Fairness == WF_vars(Program) /\ WF_vars(Tick)

Spec == Init /\ [][Next]_vars /\ Fairness

-----------------------------------------------------------------------------
(* Types; the baseline is none or an address some identity has             *)
(* (tracker.go:9-32, cli.go:229-282).                                      *)
TypeOK ==
    /\ mode \in {"once", "watch"} /\ expected \in BOOLEAN
    /\ pc \in {"open", "top", "connections", "probe", "report", "check", "sleep",
               "done"}
    /\ exit \in {-1, 0, 1, 2}
    /\ now \in 0..MaxTime /\ wake \in Nat /\ lastIP \in Int /\ fetchedAt \in Int
    /\ sampleIP \in BOOLEAN /\ reason \in Reasons
    /\ prev \subseteq Conns /\ known \subseteq Conns /\ seen \subseteq Lines /\ taken \subseteq Identities
    /\ baseline \in {NoIP} \cup {id.ip : id \in Identities}
    /\ ipChanged \in BOOLEAN /\ worst \in Levels
    /\ samples \in Nat /\ sampleFails \in Nat
    /\ drops \in Nat /\ leakEvents \in Nat /\ chainErrors \in Nat

(* What the session deserves, from all that was ever observed. *)
Condemned ==
    \/ Leaks(known) # {}
    \/ expected /\ \E id \in taken : ~id.fits
    \/ \E id1, id2 \in taken : id1.ip # id2.ip

Doubtful == sampleFails > 0 \/ (~expected /\ taken # {})

Verdict == IF Condemned THEN "red" ELSE IF Doubtful THEN "yellow" ELSE "green"

(* The worst level is exactly what the whole session's observations call   *)
(* for, in whatever order leaks, samples and failures came and however     *)
(* they passed (an IP that changed and changed back, a leak since gone);   *)
(* log lines have no say in it (tracker.go:45-90), and it is the exit code *)
(* of a session that got as far as an answer (cli.go:272, 303).            *)
WorstIsVerdict ==
    /\ worst = Verdict
    /\ exit >= 0 => exit = 2 \/ exit = exitForLevel(Verdict)

(* G_VERIFIED is printed only when the exit identity has been sampled in   *)
(* this session, every sample was the expected one, no sample failed, and  *)
(* no leak was seen (cli.go:279-290, 343-361).                             *)
GreenReportVerified ==
    reason = "G_VERIFIED" =>
        /\ expected /\ taken # {} /\ \A id \in taken : id.fits
        /\ sampleFails = 0
        /\ Leaks(known) = {} /\ AI(prev) # {}

(* A red reason is given only to a session that deserves it, and says why: *)
(* but R_VERIFY_MISMATCH may also stand for a leak that has since gone,    *)
(* and a session whose connections have all gone is told Y_NO_AI_HIT with  *)
(* an exit code of 2 (cli.go:343-361, 303).                                *)
ReasonFits ==
    /\ reason = "R_SESSION_IP_CHANGED" => \E id1, id2 \in taken : id1.ip # id2.ip
    /\ reason = "R_AI_NON_STATIC" => Leaks(prev) # {}
    /\ reason = "R_VERIFY_MISMATCH" =>
         /\ Condemned /\ Leaks(prev) = {}
         /\ ~(expected /\ \E id \in taken : ~id.fits) => Leaks(known \ prev) # {}
    /\ reason \in {"Y_VERIFY_MISSING", "G_VERIFIED"} => Leaks(known) = {}

(* The summary counts every AI connection that was seen and is gone once,  *)
(* across failed polls, and every chain-error line once (drops.go:5-18,    *)
(* cli.go:282-287, 363-374).                                               *)
CountsExact ==
    /\ drops = Cardinality(AI(known) \ prev)
    /\ chainErrors = Cardinality(seen)

(* Exit identities are asked for no more often than --ip-interval, however *)
(* the polls fail (cli.go:279-290).                                        *)
SampleSpacing == [][FetchOk \/ FetchErr => now - fetchedAt >= IPInterval]_vars

(* A watch with a duration ends, even when every poll fails (cli.go:292-297). *)
Terminates == <>(pc = "done")

(* "0: routing is static and exit identity is verified"                    *)
(* (docs/monitor-usage.md:64).                                             *)
ZeroMeansVerified == exit = 0 => taken # {}

=============================================================================
