---------------------------- MODULE MonitorProofs ---------------------------
(***************************************************************************)
(* Theorems about Monitor for any finite set of connections and log lines, *)
(* any identities, intervals and durations.                                *)
(***************************************************************************)
EXTENDS Monitor, FiniteSetTheorems, TLAPS

(* The baseline is the ip of a sample, and ipChanged tells of another one. *)
BaselineInv ==
    /\ baseline = NoIP <=> taken = {}
    /\ taken # {} => \E id \in taken : id.ip = baseline
    /\ ipChanged <=> \E id \in taken : id.ip # baseline

Tried == taken # {} \/ sampleFails > 0

(* A session that has tried no sample still has one due; a round that      *)
(* reports has had one, in this round or before.                           *)
DueInv ==
    /\ ~Tried => lastIP = -IPInterval
    /\ pc = "connections" /\ ~sampleIP => Tried
    /\ pc = "probe" => sampleIP
    /\ pc = "report" => Tried
    /\ reason # "none" => pc \in {"check", "sleep", "top", "done"}
    /\ reason = "G_VERIFIED" => Tried /\ worst = "green" /\ AI(prev) # {}
    /\ exit >= 0 => pc = "done"
    /\ exit >= 0 => exit = 2 \/ exit = exitForLevel(worst)

(* The clock never runs behind a sample, and a due sample is due. *)
SpacingInv ==
    /\ fetchedAt <= now
    /\ pc # "report" /\ pc # "done" => fetchedAt <= lastIP
    /\ pc = "report" /\ ~sampleIP => fetchedAt <= lastIP
    /\ pc \in {"connections", "probe"} /\ sampleIP => now - fetchedAt >= IPInterval
    /\ mode = "once" /\ pc \in {"open", "top"} => lastIP = -IPInterval
    /\ mode = "once" => pc \notin {"check", "sleep"}

(* What the summary counts, and connections are known once answered. *)
CountInv ==
    /\ prev \subseteq known
    /\ drops = Cardinality(AI(known) \ prev)
    /\ chainErrors = Cardinality(seen)

IInv ==
    /\ TypeOK
    /\ BaselineInv
    /\ worst = Verdict
    /\ DueInv
    /\ SpacingInv
    /\ CountInv

-----------------------------------------------------------------------------
LEMMA RankFacts ==
    /\ rank["green"] = 0 /\ rank["yellow"] = 1 /\ rank["red"] = 2
    /\ \A w, l \in Levels : /\ raise(w, l) \in Levels
                            /\ raise(w, "red") = "red"
                            /\ raise(w, "yellow") = IF w = "red" THEN "red" ELSE "yellow"
                            /\ raise(w, l) = "red" <=> w = "red" \/ l = "red"
                            /\ raise(w, l) = "green" <=> w = "green" /\ l = "green"
<1>1. rank["green"] = 0 /\ rank["yellow"] = 1 /\ rank["red"] = 2
      BY DEF rank, Levels
<1> QED BY <1>1 DEF raise, Levels

LEMMA CountsAreNat ==
    ASSUME NEW S \in SUBSET Conns
    PROVE  IsFiniteSet(S) /\ Cardinality(S) \in Nat
BY MonitorAssumption, FS_Subset, FS_CardinalityType DEF MonitorAssumption

LEMMA InvInit == Init => IInv
<1> SUFFICES ASSUME Init PROVE IInv
    OBVIOUS
<1> USE MonitorAssumption DEF MonitorAssumption
<1>1. TypeOK
      <2>1. /\ -IPInterval \in Int /\ 0 \in 0..MaxTime
            /\ "green" \in Levels /\ "none" \in Reasons
            BY DEF Levels, Reasons
      <2> QED BY <2>1 DEF Init, TypeOK
<1>2. BaselineInv
      BY DEF Init, BaselineInv
<1>3. worst = Verdict
      BY DEF Init, Verdict, Condemned, Doubtful, Leaks
<1>4. DueInv /\ SpacingInv
      BY DEF Init, DueInv, SpacingInv, Tried
<1>5. CountInv
      BY FS_EmptySet DEF Init, CountInv, AI
<1> QED BY <1>1, <1>2, <1>3, <1>4, <1>5 DEF IInv

(* An answer of the controller. *)
LEMMA AnswerKeeps == IInv /\ ConnectionsOk => IInv'
<1> SUFFICES ASSUME IInv, ConnectionsOk PROVE IInv'
    OBVIOUS
<1> USE MonitorAssumption DEF MonitorAssumption
<1>1. PICK conns \in SUBSET (Conns \ (known \ prev)) :
        /\ leakEvents' = leakEvents + Cardinality(Leaks(conns))
        /\ worst' = IF Leaks(conns) # {} THEN raise(worst, "red") ELSE worst
        /\ drops' = drops + Cardinality(DropsBetween(prev, conns))
        /\ prev' = conns
        /\ known' = known \cup conns
      BY DEF ConnectionsOk
<1>2. /\ Cardinality(Leaks(conns)) \in Nat
      /\ Cardinality(DropsBetween(prev, conns)) \in Nat
      BY CountsAreNat DEF IInv, TypeOK, Leaks, DropsBetween, AI
<1>3. TypeOK'
      BY <1>1, <1>2, RankFacts DEF IInv, TypeOK, ConnectionsOk, flags, Levels, tracker
<1>4. BaselineInv'
      BY DEF IInv, BaselineInv, ConnectionsOk
<1>5. (worst = Verdict)'
      <2>1. Leaks(known') # {} <=> Leaks(known) # {} \/ Leaks(conns) # {}
            BY <1>1 DEF Leaks
      <2>2. worst \in Levels /\ "red" \in Levels
            BY DEF IInv, TypeOK, Levels
      <2>3. /\ Condemned' <=> Condemned \/ Leaks(conns) # {}
            /\ Doubtful' <=> Doubtful
            BY <2>1 DEF ConnectionsOk, Condemned, Doubtful, flags
      <2>4. worst' = IF Leaks(conns) # {} THEN "red" ELSE worst
            BY <1>1, <2>2, RankFacts
      <2> QED BY <2>3, <2>4 DEF IInv, Verdict
<1>6. DueInv'
      BY DEF IInv, DueInv, Tried, ConnectionsOk, TypeOK
<1>7. SpacingInv'
      BY DEF IInv, SpacingInv, ConnectionsOk, flags, TypeOK
<1>8. CountInv'
      <2> DEFINE before == AI(known) \ prev
                 gone   == DropsBetween(prev, conns)
      <2>1. AI(known') \ prev' = before \cup gone /\ before \cap gone = {}
            BY <1>1 DEF AI, DropsBetween, IInv, CountInv
      <2>2. IsFiniteSet(before) /\ IsFiniteSet(gone)
            BY CountsAreNat DEF IInv, TypeOK, AI, DropsBetween
      <2>3. Cardinality(before \cup gone) =
              Cardinality(before) + Cardinality(gone) - Cardinality(before \cap gone)
            BY <2>2, FS_Union
      <2>4. Cardinality(before \cup gone) = Cardinality(before) + Cardinality(gone)
            <3>1. Cardinality(before) \in Nat /\ Cardinality(gone) \in Nat
                  BY <2>2, FS_CardinalityType
            <3>2. Cardinality(before \cap gone) = 0
                  BY <2>1, FS_EmptySet
            <3> HIDE DEF before, gone
            <3> QED BY <2>3, <3>1, <3>2
      <2> QED BY <1>1, <2>1, <2>4 DEF IInv, CountInv, ConnectionsOk
<1> QED BY <1>3, <1>4, <1>5, <1>6, <1>7, <1>8 DEF IInv

(* A sample. *)
LEMMA SampleKeeps == IInv /\ FetchOk => IInv'
<1> SUFFICES ASSUME IInv, FetchOk PROVE IInv'
    OBVIOUS
<1> USE MonitorAssumption DEF MonitorAssumption
<1>1. PICK id \in Identities : NoteExitIP(id) /\ taken' = taken \cup {id}
      BY DEF FetchOk
<1> DEFINE changed == baseline # NoIP /\ id.ip # baseline
           verdict == ClassifyExit(id)
           w       == IF changed THEN raise(worst, "red") ELSE worst
<1>2. /\ samples' = samples + 1
      /\ baseline' = IF baseline = NoIP THEN id.ip ELSE baseline
      /\ ipChanged' = (ipChanged \/ changed)
      /\ worst' = IF verdict = "unverifiable" THEN raise(w, "yellow")
                  ELSE IF verdict = "mismatched" THEN raise(w, "red") ELSE w
      BY <1>1 DEF NoteExitIP
<1>3. worst \in Levels /\ "red" \in Levels /\ "yellow" \in Levels
      BY DEF IInv, TypeOK, Levels
<1>4. w \in Levels /\ w = IF changed THEN "red" ELSE worst
      BY <1>3, RankFacts
<1>5. worst' \in Levels
      BY <1>2, <1>3, <1>4, RankFacts
<1>6. TypeOK'
      <2>1. baseline' \in {NoIP} \cup {i.ip : i \in Identities}
            BY <1>2 DEF IInv, TypeOK
      <2>2. ipChanged' \in BOOLEAN
            BY <1>2 DEF IInv, TypeOK
      <2> QED BY <1>1, <1>2, <1>5, <2>1, <2>2 DEF IInv, TypeOK, FetchOk, flags
<1>7. BaselineInv'
      <2>1. CASE baseline = NoIP
            BY <1>1, <1>2, <2>1 DEF IInv, BaselineInv
      <2>2. CASE baseline # NoIP
            BY <1>1, <1>2, <2>2 DEF IInv, BaselineInv
      <2> QED BY <2>1, <2>2
<1>8. (worst = Verdict)'
      <2>1. Condemned' <=> Condemned \/ changed \/ (expected /\ ~id.fits)
            BY <1>1 DEF FetchOk, Condemned, IInv, BaselineInv, flags
      <2>2. Doubtful' <=> sampleFails > 0 \/ ~expected
            BY <1>1 DEF FetchOk, Doubtful, flags
      <2>3. verdict = IF ~expected THEN "unverifiable"
                      ELSE IF id.fits THEN "matched" ELSE "mismatched"
            BY DEF ClassifyExit
      <2>4. worst = IF Condemned THEN "red" ELSE IF Doubtful THEN "yellow" ELSE "green"
            BY DEF IInv, Verdict
      <2>5. CASE expected
            <3>1. worst' = IF ~id.fits THEN raise(w, "red") ELSE w
                  BY <1>2, <2>3, <2>5
            <3>2. worst' = IF ~id.fits \/ changed THEN "red" ELSE worst
                  BY <1>3, <1>4, <3>1, RankFacts
            <3> QED BY <2>1, <2>2, <2>4, <2>5, <3>2 DEF Verdict, Doubtful
      <2>6. CASE ~expected
            <3>1. worst' = raise(w, "yellow")
                  BY <1>2, <2>3, <2>6
            <3>2. worst' = IF changed \/ worst = "red" THEN "red" ELSE "yellow"
                  BY <1>3, <1>4, <3>1, RankFacts
            <3> QED BY <2>1, <2>2, <2>4, <2>6, <3>2 DEF Verdict
      <2> QED BY <2>5, <2>6
<1>9. DueInv'
      BY <1>1 DEF IInv, DueInv, Tried, FetchOk, TypeOK
<1>10. SpacingInv'
      BY DEF IInv, SpacingInv, DueInv, FetchOk, flags, TypeOK
<1>11. CountInv'
      BY DEF IInv, CountInv, FetchOk
<1> QED BY <1>6, <1>7, <1>8, <1>9, <1>10, <1>11 DEF IInv

(* A sample that failed. *)
LEMMA FailedSampleKeeps == IInv /\ FetchErr => IInv'
<1> SUFFICES ASSUME IInv, FetchErr PROVE IInv'
    OBVIOUS
<1> USE MonitorAssumption DEF MonitorAssumption
<1>1. worst \in Levels /\ "yellow" \in Levels
      BY DEF IInv, TypeOK, Levels
<1>2. worst' \in Levels /\ worst' = IF worst = "red" THEN "red" ELSE "yellow"
      BY <1>1, RankFacts DEF FetchErr
<1>3. TypeOK'
      BY <1>2 DEF IInv, TypeOK, FetchErr, flags
<1>4. BaselineInv'
      BY DEF IInv, BaselineInv, FetchErr
<1>5. (worst = Verdict)'
      <2>1. Doubtful' /\ (Condemned' <=> Condemned)
            BY DEF IInv, TypeOK, FetchErr, Doubtful, Condemned, flags
      <2> QED BY <1>2, <2>1 DEF IInv, Verdict
<1>6. DueInv'
      BY DEF IInv, DueInv, Tried, FetchErr, TypeOK
<1>7. SpacingInv'
      BY DEF IInv, SpacingInv, DueInv, FetchErr, flags, TypeOK
<1>8. CountInv'
      BY DEF IInv, CountInv, FetchErr
<1> QED BY <1>3, <1>4, <1>5, <1>6, <1>7, <1>8 DEF IInv

(* A step that observes nothing leaves the verdict and the counts alone. *)
Observes == <<expected, baseline, ipChanged, sampleFails, drops, worst, prev,
              known, taken>>

LEMMA QuietKeeps ==
    ASSUME IInv, UNCHANGED Observes, chainErrors' = Cardinality(seen')
    PROVE  /\ BaselineInv'
           /\ (worst = Verdict)'
           /\ CountInv'
<1> USE DEF Observes
<1>1. BaselineInv'
      BY DEF IInv, BaselineInv
<1>2. (worst = Verdict)'
      BY DEF IInv, Verdict, Condemned, Doubtful
<1>3. CountInv'
      BY DEF IInv, CountInv
<1> QED BY <1>1, <1>2, <1>3

(* The end of a round: the log lines are counted, the interval restarts. *)
LEMMA EndKeeps == IInv /\ EndStep => IInv'
<1> SUFFICES ASSUME IInv, EndStep PROVE IInv'
    OBVIOUS
<1> USE MonitorAssumption DEF MonitorAssumption
<1>1. PICK shown \in SUBSET Lines :
        /\ chainErrors' = chainErrors + Cardinality(shown \ seen)
        /\ seen' = seen \cup shown
      BY DEF EndStep, scanLogErrorsStep
<1>2. chainErrors' = Cardinality(seen') /\ chainErrors' \in Nat
      <2>1. IsFiniteSet(seen) /\ IsFiniteSet(shown \ seen)
            BY FS_Subset DEF IInv, TypeOK
      <2>2. /\ Cardinality(seen \cup (shown \ seen)) =
                 Cardinality(seen) + Cardinality(shown \ seen)
                   - Cardinality(seen \cap (shown \ seen))
            /\ Cardinality(seen \cap (shown \ seen)) = 0
            /\ Cardinality(seen) \in Nat /\ Cardinality(shown \ seen) \in Nat
            <3>1. seen \cap (shown \ seen) = {}
                  OBVIOUS
            <3> QED BY <2>1, <3>1, FS_Union, FS_EmptySet, FS_CardinalityType
      <2>3. seen' = seen \cup (shown \ seen)
            BY <1>1
      <2>4. chainErrors = Cardinality(seen)
            BY DEF IInv, CountInv
      <2>5. /\ Cardinality(seen') = Cardinality(seen) + Cardinality(shown \ seen)
            /\ Cardinality(seen') \in Nat
            BY <2>2, <2>3
      <2> QED BY <1>1, <2>4, <2>5
<1>3. worst \in Levels /\ exitForLevel(worst) \in {0, 1, 2}
      BY RankFacts DEF IInv, TypeOK, Levels, exitForLevel
<1>4. UNCHANGED Observes /\ UNCHANGED <<flags, now, wake, sampleIP>>
      BY DEF EndStep, Observes, flags, history
<1>5. TypeOK'
      <2>1. reason' \in Reasons
            BY DEF EndStep, monitorReasonCode, Reasons
      <2>2. /\ pc' \in {"done", "check"} /\ exit' \in {-1, 0, 1, 2}
            /\ lastIP' \in Int
            BY <1>3 DEF EndStep, Quit, IInv, TypeOK
      <2> QED BY <1>1, <1>2, <1>4, <2>1, <2>2
              DEF IInv, TypeOK, EndStep, flags, history, Observes
<1>6. DueInv'
      <2>1. Tried /\ (Tried' <=> Tried)
            BY <1>4 DEF EndStep, IInv, DueInv, Tried, Observes
      <2>2. pc' \in {"done", "check"} /\ (exit' >= 0 => pc' = "done")
            BY DEF EndStep, Quit, IInv, DueInv
      <2>3. reason' = "G_VERIFIED" => worst = "green" /\ AI(prev) # {}
            BY <1>3 DEF EndStep, monitorReasonCode, Levels
      <2>4. exit' >= 0 => exit' = exitForLevel(worst)
            BY DEF EndStep, Quit, IInv, DueInv
      <2> QED BY <1>4, <2>1, <2>2, <2>3, <2>4 DEF DueInv, Observes
<1>7. SpacingInv'
      BY DEF EndStep, Quit, IInv, SpacingInv, TypeOK, flags, history
<1> QED BY <1>2, <1>4, <1>5, <1>6, <1>7, QuietKeeps DEF IInv

(* Every other step keeps the tracker and the history. *)
LEMMA LoopKeeps ==
    ASSUME IInv, Open \/ Begin \/ ConnectionsErr \/ Check \/ Wake \/ Tick
    PROVE  IInv'
<1> USE MonitorAssumption DEF MonitorAssumption
<1>1. UNCHANGED <<flags, prev, seen, tracker, history>>
      BY DEF Open, Begin, ConnectionsErr, Check, Wake, Tick
<1>2. BaselineInv' /\ (worst = Verdict)' /\ CountInv'
      <2>1. UNCHANGED Observes /\ chainErrors' = Cardinality(seen')
            BY <1>1 DEF Observes, flags, tracker, history, IInv, CountInv
      <2> QED BY <2>1, QuietKeeps
<1>3. worst \in Levels /\ exitForLevel(worst) \in {0, 1, 2}
      BY RankFacts DEF IInv, TypeOK, Levels, exitForLevel
<1>4. TypeOK' /\ DueInv' /\ SpacingInv'
      <2> USE <1>1 DEF IInv, flags, loop, tracker, history, TypeOK, DueInv, SpacingInv, Tried
      <2>1. CASE Open
            BY <2>1 DEF Open, Quit
      <2>2. CASE Begin
            <3>1. /\ pc = "top" /\ pc' = "connections" /\ reason' = "none"
                  /\ UNCHANGED <<exit, now, wake, lastIP>>
                  BY <2>2 DEF Begin
            <3>2. /\ sampleIP' \in BOOLEAN
                  /\ sampleIP' => mode = "once" \/ now - lastIP >= IPInterval
                  /\ ~sampleIP' => now - lastIP < IPInterval
                  <4> DEFINE due == now - lastIP >= IPInterval
                  <4>1. /\ sampleIP' \in BOOLEAN
                        /\ sampleIP' <=> mode = "once" \/ due
                        BY <2>2, Zenon DEF Begin
                  <4>2. ~due => now - lastIP < IPInterval
                        OBVIOUS
                  <4> QED BY <4>1, <4>2
            <3>3. TypeOK'
                  BY <3>1, <3>2 DEF Reasons
            <3>4. DueInv'
                  BY <3>1, <3>2
            <3>5. SpacingInv'
                  BY <3>1, <3>2
            <3> QED BY <3>3, <3>4, <3>5
      <2>3. CASE ConnectionsErr
            <3>1. /\ pc = "connections" /\ reason = "none"
                  /\ UNCHANGED <<now, wake, lastIP, sampleIP, reason>>
                  BY <2>3 DEF ConnectionsErr
            <3>2. CASE mode = "once"
                  <4>1. pc' = "done" /\ exit' = 2
                        BY <2>3, <3>2 DEF ConnectionsErr, Quit
                  <4> QED BY <3>1, <3>2, <4>1
            <3>3. CASE mode # "once"
                  <4>1. pc' = "check" /\ exit' = exit
                        BY <2>3, <3>3 DEF ConnectionsErr
                  <4> QED BY <3>1, <3>3, <4>1
            <3> QED BY <3>2, <3>3
      <2>4. CASE Check
            BY <1>3, <2>4 DEF Check, Quit
      <2>5. CASE Wake
            BY <2>5 DEF Wake
      <2>6. CASE Tick
            BY <2>6 DEF Tick
      <2> QED BY <2>1, <2>2, <2>3, <2>4, <2>5, <2>6
<1> QED BY <1>2, <1>4 DEF IInv

LEMMA InvStep == IInv /\ [Next]_vars => IInv'
<1> SUFFICES ASSUME IInv, [Next]_vars PROVE IInv'
    OBVIOUS
<1>1. CASE Program
      BY <1>1, AnswerKeeps, SampleKeeps, FailedSampleKeeps, EndKeeps, LoopKeeps
         DEF Program
<1>2. CASE Tick
      BY <1>2, LoopKeeps
<1>3. CASE UNCHANGED vars
      BY <1>3 DEF vars, flags, loop, tracker, history, IInv, TypeOK, BaselineInv,
                  Verdict, Condemned, Doubtful, DueInv, Tried, SpacingInv, CountInv
<1> QED BY <1>1, <1>2, <1>3 DEF Next, Finished

LEMMA Invariance == Spec => []IInv
BY InvInit, InvStep, PTL DEF Spec

-----------------------------------------------------------------------------
(* Type correctness, for any constants. *)
THEOREM MonitorTyped == Spec => []TypeOK
BY Invariance, PTL DEF IInv

(* The worst level, and with it the exit code, is the verdict of everything *)
(* the session observed.                                                   *)
THEOREM ExitIsVerdict == Spec => []WorstIsVerdict
<1>1. IInv => WorstIsVerdict
      BY DEF IInv, DueInv, WorstIsVerdict
<1> QED BY <1>1, Invariance, PTL

(* No G_VERIFIED without a sample, nor after a leak or a bad sample. *)
THEOREM GreenIsVerified == Spec => []GreenReportVerified
<1>1. IInv => GreenReportVerified
      BY DEF IInv, TypeOK, DueInv, Tried, Verdict, Condemned, Doubtful,
             GreenReportVerified
<1> QED BY <1>1, Invariance, PTL

(* Until the next round begins, the reason is that of what was seen last. *)
ReasonInv == reason # "none" => reason = monitorReasonCode

LEMMA ReasonKeeps ==
    ASSUME IInv, ReasonInv, [Next]_vars
    PROVE  ReasonInv'
<1> USE DEF IInv, DueInv, ReasonInv, monitorReasonCode
<1>1. CASE ConnectionsOk \/ FetchErr \/ FetchOk
      BY <1>1 DEF ConnectionsOk, FetchErr, FetchOk
<1>2. CASE EndStep
      BY <1>2 DEF EndStep, history
<1>3. CASE Begin
      BY <1>3 DEF Begin
<1>4. CASE Open \/ ConnectionsErr \/ Check \/ Wake \/ Tick \/ UNCHANGED vars
  <2>1. UNCHANGED <<reason, ipChanged, prev, worst>>
        BY <1>4 DEF Open, ConnectionsErr, Check, Wake, Tick, vars, loop, tracker
  <2> QED BY <2>1
<1> QED BY <1>1, <1>2, <1>3, <1>4 DEF Next, Program, Finished

LEMMA ReasonInvariance == Spec => []ReasonInv
<1>1. Init => ReasonInv
      BY DEF Init, ReasonInv
<1> QED BY <1>1, Invariance, ReasonKeeps, PTL DEF Spec

(* A red reason says what the session did wrong, in this round or before. *)
THEOREM ReasonsFit == Spec => []ReasonFits
<1>1. IInv /\ ReasonInv => ReasonFits
  <2> SUFFICES ASSUME IInv, ReasonInv, reason # "none" PROVE ReasonFits
      BY DEF ReasonFits
  <2> USE DEF IInv
  <2>1. reason = monitorReasonCode
        BY DEF ReasonInv
  <2>2. ipChanged => \E id1, id2 \in taken : id1.ip # id2.ip
        BY DEF BaselineInv
  <2>3. Leaks(known) = {} \/ Leaks(known \ prev) # {} \/ Leaks(prev) # {}
        BY DEF CountInv, Leaks
  <2>4. ~ipChanged => ~ \E id1, id2 \in taken : id1.ip # id2.ip
        BY DEF BaselineInv
  <2> QED BY <2>1, <2>2, <2>3, <2>4 DEF monitorReasonCode, ReasonFits, Verdict, Condemned
<1> QED BY <1>1, Invariance, ReasonInvariance, PTL

(* The summary's drops and chain errors are exact counts. *)
THEOREM CountsAreExact == Spec => []CountsExact
<1>1. IInv => CountsExact
      BY DEF IInv, CountInv, CountsExact
<1> QED BY <1>1, Invariance, PTL

(* Samples are an interval apart. *)
THEOREM SamplesSpaced == Spec => SampleSpacing
<1>1. IInv => [FetchOk \/ FetchErr => now - fetchedAt >= IPInterval]_vars
      BY DEF IInv, DueInv, SpacingInv, FetchOk, FetchErr
<1> QED BY <1>1, Invariance, PTL DEF SampleSpacing

=============================================================================
