----------------------------- MODULE KeeperProofs -----------------------------
(***************************************************************************)
(* Theorems about Keeper for any clients, flags and clock.                 *)
(***************************************************************************)
EXTENDS Keeper, TLAPS

(* The breaker counts the failed setups at the end of the list of outcomes, *)
(* and is open from the threshold on until the last one plus the period.    *)
BreakerInv ==
    /\ failures <= Len(outcomes)
    /\ \A i \in Len(outcomes) - failures + 1 .. Len(outcomes) : outcomes[i] = "failed"
    /\ failures < Len(outcomes) => outcomes[Len(outcomes) - failures] = "ok"
    /\ failures > 0 => lastFailure \in Nat
    /\ openUntil = IF failures >= Threshold THEN lastFailure + OpenDuration ELSE Never

(* What has been done for a client, by where its handler is. *)
ClientInv(c) ==
    /\ pc[c] \in {"away", "read", "check"} =>
         attempts[c] = 0 /\ up[c] = "none" /\ answer[c] = 0
    /\ pc[c] \in {"dial", "connect"} => attempts[c] <= SetupRetries
    /\ pc[c] \in {"dial", "failed"} => up[c] # "open"
    /\ pc[c] = "failed" => attempts[c] >= 1
    /\ pc[c] \in {"connect", "opened", "established"} => up[c] = "open"
    /\ pc[c] \in {"dial", "connect", "failed", "opened", "established"} => answer[c] = 0

ServerInv ==
    /\ main \in {"joining", "marked"} => closed
    /\ listener = "closed" => closed
    /\ serve = "broken" => ownError
    /\ exit = 1 => ownError

IInv == TypeOK /\ BreakerInv /\ (\A c \in Clients : ClientInv(c)) /\ AnswerFits /\ ServerInv

-----------------------------------------------------------------------------
LEMMA Effective ==
    /\ SetupRetries \in Nat
    /\ Threshold \in Nat \ {0}
    /\ OpenDuration \in Nat \ {0}
BY KeeperAssumption DEF KeeperAssumption, SetupRetries, Threshold, OpenDuration

LEMMA InvInit == Init => IInv
<1> SUFFICES ASSUME Init PROVE IInv
    OBVIOUS
<1> USE Effective, KeeperAssumption DEF KeeperAssumption
<1>1. TypeOK
  <2>1. HandlersTypeOK
        BY DEF Init, HandlersTypeOK
  <2>2. BreakerTypeOK
        BY DEF Init, BreakerTypeOK, Never
  <2>3. ServerTypeOK
        BY DEF Init, ServerTypeOK
  <2> QED BY <2>1, <2>2, <2>3 DEF TypeOK
<1>2. BreakerInv
      BY DEF Init, BreakerInv, Never
<1>3. \A c \in Clients : ClientInv(c)
      BY DEF Init, ClientInv
<1>4. AnswerFits /\ ServerInv
      BY DEF Init, AnswerFits, ServerInv
<1> QED BY <1>1, <1>2, <1>3, <1>4 DEF IInv

LEMMA ReadKeeps ==
    ASSUME IInv, NEW c \in Clients, Read(c)
    PROVE  IInv'
<1> USE Effective DEF Read, breaker, server, history, Running, Goes, Answers
<1>1. TypeOK'
  <2>1. HandlersTypeOK'
        BY DEF IInv, TypeOK, HandlersTypeOK
  <2>2. BreakerTypeOK'
        BY DEF IInv, TypeOK, BreakerTypeOK, Never
  <2>3. ServerTypeOK'
        BY DEF IInv, TypeOK, ServerTypeOK
  <2> QED BY <2>1, <2>2, <2>3 DEF TypeOK
<1>2. BreakerInv'
      BY DEF IInv, TypeOK, BreakerTypeOK, BreakerInv, Never
<1>3. (\A d \in Clients : ClientInv(d))'
      BY DEF IInv, TypeOK, HandlersTypeOK, ClientInv
<1>4. AnswerFits'
      BY DEF IInv, TypeOK, HandlersTypeOK, ClientInv, AnswerFits
<1>5. ServerInv'
      BY DEF IInv, TypeOK, ServerTypeOK, ServerInv
<1> QED BY <1>1, <1>2, <1>3, <1>4, <1>5 DEF IInv

LEMMA CheckKeeps ==
    ASSUME IInv, NEW c \in Clients, Check(c)
    PROVE  IInv'
<1> USE Effective DEF Check, breaker, server, history, Running, Goes, Answers
<1>1. TypeOK'
  <2>1. HandlersTypeOK'
        BY DEF IInv, TypeOK, HandlersTypeOK
  <2>2. BreakerTypeOK'
        BY DEF IInv, TypeOK, BreakerTypeOK, Never
  <2>3. ServerTypeOK'
        BY DEF IInv, TypeOK, ServerTypeOK
  <2> QED BY <2>1, <2>2, <2>3 DEF TypeOK
<1>2. BreakerInv'
      BY DEF IInv, TypeOK, BreakerTypeOK, BreakerInv, Never
<1>3. (\A d \in Clients : ClientInv(d))'
      BY DEF IInv, TypeOK, HandlersTypeOK, ClientInv
<1>4. AnswerFits'
      BY DEF IInv, TypeOK, HandlersTypeOK, ClientInv, AnswerFits
<1>5. ServerInv'
      BY DEF IInv, TypeOK, ServerTypeOK, ServerInv
<1> QED BY <1>1, <1>2, <1>3, <1>4, <1>5 DEF IInv

(* An attempt that fails is tried again only while there are attempts left. *)
LEMMA RetriedCounts ==
    ASSUME IInv, NEW c \in Clients, NEW e, Retried(c, e), pc[c] \in {"dial", "connect"}
    PROVE  /\ attempts' \in [Clients -> 0 .. SetupRetries + 1]
           /\ pc' \in [Clients -> {"away", "read", "check", "dial", "connect", "failed",
                                   "opened", "established", "tunnel", "gone"}]
<1> USE Effective DEF IInv, TypeOK, HandlersTypeOK, Retried
<1>1. attempts[c] \in 0 .. SetupRetries
      BY DEF ClientInv
<1>2. attempts' \in [Clients -> 0 .. SetupRetries + 1]
      BY <1>1
<1>3. pc' \in [Clients -> {"away", "read", "check", "dial", "connect", "failed",
                            "opened", "established", "tunnel", "gone"}]
      OBVIOUS
<1> QED BY <1>2, <1>3

LEMMA TransportKeeps ==
    ASSUME IInv, NEW c \in Clients, Transport(c)
    PROVE  IInv'
<1> USE Effective DEF Transport, breaker, server, history, Running, Goes, Retried, Errors
<1>1. TypeOK'
  <2>1. HandlersTypeOK'
    <3>1. CASE Goes(c, "dial", "connect") /\ up' = [up EXCEPT ![c] = "open"] /\ UNCHANGED attempts
          BY <3>1 DEF IInv, TypeOK, HandlersTypeOK
    <3>2. CASE (\E e \in Errors : Retried(c, e)) /\ UNCHANGED up
      <4> HIDE DEF Retried, Errors
      <4>1. PICK e : Retried(c, e)
            BY <3>2
      <4>2. /\ attempts' \in [Clients -> 0 .. SetupRetries + 1]
            /\ pc' \in [Clients -> {"away", "read", "check", "dial", "connect", "failed",
                                    "opened", "established", "tunnel", "gone"}]
            BY <4>1, RetriedCounts
      <4> QED BY <3>2, <4>2 DEF IInv, TypeOK, HandlersTypeOK
    <3> QED BY <3>1, <3>2
  <2>2. BreakerTypeOK'
        BY DEF IInv, TypeOK, BreakerTypeOK, Never
  <2>3. ServerTypeOK'
        BY DEF IInv, TypeOK, ServerTypeOK
  <2> QED BY <2>1, <2>2, <2>3 DEF TypeOK
<1>2. BreakerInv'
      BY DEF IInv, TypeOK, BreakerTypeOK, BreakerInv, Never
<1>3. (\A d \in Clients : ClientInv(d))'
      BY DEF IInv, TypeOK, HandlersTypeOK, ClientInv
<1>4. AnswerFits'
      BY DEF IInv, TypeOK, HandlersTypeOK, ClientInv, AnswerFits
<1>5. ServerInv'
      BY DEF IInv, TypeOK, ServerTypeOK, ServerInv
<1> QED BY <1>1, <1>2, <1>3, <1>4, <1>5 DEF IInv

LEMMA ConnectOkKeeps ==
    ASSUME IInv, NEW c \in Clients, ConnectOk(c)
    PROVE  IInv'
<1> USE Effective DEF ConnectOk, breaker, server, history, Running, Goes
<1>1. TypeOK'
  <2>1. HandlersTypeOK'
        BY DEF IInv, TypeOK, HandlersTypeOK
  <2>2. BreakerTypeOK'
        BY DEF IInv, TypeOK, BreakerTypeOK, Never
  <2>3. ServerTypeOK'
        BY DEF IInv, TypeOK, ServerTypeOK
  <2> QED BY <2>1, <2>2, <2>3 DEF TypeOK
<1>2. BreakerInv'
      BY DEF IInv, TypeOK, BreakerTypeOK, BreakerInv, Never
<1>3. (\A d \in Clients : ClientInv(d))'
      BY DEF IInv, TypeOK, HandlersTypeOK, ClientInv
<1>4. AnswerFits'
      BY DEF IInv, TypeOK, HandlersTypeOK, ClientInv, AnswerFits
<1>5. ServerInv'
      BY DEF IInv, TypeOK, ServerTypeOK, ServerInv
<1> QED BY <1>1, <1>2, <1>3, <1>4, <1>5 DEF IInv

LEMMA ConnectErrKeeps ==
    ASSUME IInv, NEW c \in Clients, NEW e \in Errors, ConnectErr(c, e)
    PROVE  IInv'
<1> USE Effective DEF ConnectErr, breaker, server, history, Running, Retried
<1>1. TypeOK'
  <2>1. HandlersTypeOK'
        BY RetriedCounts DEF IInv, TypeOK, HandlersTypeOK
  <2>2. BreakerTypeOK'
        BY DEF IInv, TypeOK, BreakerTypeOK, Never
  <2>3. ServerTypeOK'
        BY DEF IInv, TypeOK, ServerTypeOK
  <2> QED BY <2>1, <2>2, <2>3 DEF TypeOK
<1>2. BreakerInv'
      BY DEF IInv, TypeOK, BreakerTypeOK, BreakerInv, Never
<1>3. (\A d \in Clients : ClientInv(d))'
      BY DEF IInv, TypeOK, HandlersTypeOK, ClientInv
<1>4. AnswerFits'
      BY DEF IInv, TypeOK, HandlersTypeOK, ClientInv, AnswerFits
<1>5. ServerInv'
      BY DEF IInv, TypeOK, ServerTypeOK, ServerInv
<1> QED BY <1>1, <1>2, <1>3, <1>4, <1>5 DEF IInv

LEMMA SetupFailedKeeps ==
    ASSUME IInv, NEW c \in Clients, SetupFailed(c)
    PROVE  IInv'
<1> USE Effective DEF SetupFailed, breaker, server, history, Running, Goes, Answers, failure
<1>1. TypeOK'
  <2>1. HandlersTypeOK'
        BY DEF IInv, TypeOK, HandlersTypeOK
  <2>2. BreakerTypeOK'
        BY DEF IInv, TypeOK, BreakerTypeOK, Never
  <2>3. ServerTypeOK'
        BY DEF IInv, TypeOK, ServerTypeOK
  <2> QED BY <2>1, <2>2, <2>3 DEF TypeOK
<1>2. BreakerInv'
      BY DEF IInv, TypeOK, BreakerTypeOK, BreakerInv, Never
<1>3. (\A d \in Clients : ClientInv(d))'
      BY DEF IInv, TypeOK, HandlersTypeOK, ClientInv
<1>4. AnswerFits'
      BY DEF IInv, TypeOK, HandlersTypeOK, ClientInv, AnswerFits
<1>5. ServerInv'
      BY DEF IInv, TypeOK, ServerTypeOK, ServerInv
<1> QED BY <1>1, <1>2, <1>3, <1>4, <1>5 DEF IInv

LEMMA SetupOkKeeps ==
    ASSUME IInv, NEW c \in Clients, SetupOk(c)
    PROVE  IInv'
<1> USE Effective DEF SetupOk, breaker, server, history, Running, Goes, success
<1>1. TypeOK'
  <2>1. HandlersTypeOK'
        BY DEF IInv, TypeOK, HandlersTypeOK
  <2>2. BreakerTypeOK'
        BY DEF IInv, TypeOK, BreakerTypeOK, Never
  <2>3. ServerTypeOK'
        BY DEF IInv, TypeOK, ServerTypeOK
  <2> QED BY <2>1, <2>2, <2>3 DEF TypeOK
<1>2. BreakerInv'
      BY DEF IInv, TypeOK, BreakerTypeOK, BreakerInv, Never
<1>3. (\A d \in Clients : ClientInv(d))'
      BY DEF IInv, TypeOK, HandlersTypeOK, ClientInv
<1>4. AnswerFits'
      BY DEF IInv, TypeOK, HandlersTypeOK, ClientInv, AnswerFits
<1>5. ServerInv'
      BY DEF IInv, TypeOK, ServerTypeOK, ServerInv
<1> QED BY <1>1, <1>2, <1>3, <1>4, <1>5 DEF IInv

LEMMA EstablishedKeeps ==
    ASSUME IInv, NEW c \in Clients, Established(c)
    PROVE  IInv'
<1> USE Effective DEF Established, breaker, server, history, Running, Goes
<1>1. TypeOK'
  <2>1. HandlersTypeOK'
        BY DEF IInv, TypeOK, HandlersTypeOK
  <2>2. BreakerTypeOK'
        BY DEF IInv, TypeOK, BreakerTypeOK, Never
  <2>3. ServerTypeOK'
        BY DEF IInv, TypeOK, ServerTypeOK
  <2> QED BY <2>1, <2>2, <2>3 DEF TypeOK
<1>2. BreakerInv'
      BY DEF IInv, TypeOK, BreakerTypeOK, BreakerInv, Never
<1>3. (\A d \in Clients : ClientInv(d))'
      BY DEF IInv, TypeOK, HandlersTypeOK, ClientInv
<1>4. AnswerFits'
      BY DEF IInv, TypeOK, HandlersTypeOK, ClientInv, AnswerFits
<1>5. ServerInv'
      BY DEF IInv, TypeOK, ServerTypeOK, ServerInv
<1> QED BY <1>1, <1>2, <1>3, <1>4, <1>5 DEF IInv

LEMMA EndOutKeeps ==
    ASSUME IInv, NEW c \in Clients, EndOut(c)
    PROVE  IInv'
<1> USE Effective DEF EndOut, breaker, server, history, Running
<1>1. TypeOK'
  <2>1. HandlersTypeOK'
        BY DEF IInv, TypeOK, HandlersTypeOK
  <2>2. BreakerTypeOK'
        BY DEF IInv, TypeOK, BreakerTypeOK, Never
  <2>3. ServerTypeOK'
        BY DEF IInv, TypeOK, ServerTypeOK
  <2> QED BY <2>1, <2>2, <2>3 DEF TypeOK
<1>2. BreakerInv'
      BY DEF IInv, TypeOK, BreakerTypeOK, BreakerInv, Never
<1>3. (\A d \in Clients : ClientInv(d))'
      BY DEF IInv, TypeOK, HandlersTypeOK, ClientInv
<1>4. AnswerFits'
      BY DEF IInv, TypeOK, HandlersTypeOK, ClientInv, AnswerFits
<1>5. ServerInv'
      BY DEF IInv, TypeOK, ServerTypeOK, ServerInv
<1> QED BY <1>1, <1>2, <1>3, <1>4, <1>5 DEF IInv

LEMMA EndBackKeeps ==
    ASSUME IInv, NEW c \in Clients, EndBack(c)
    PROVE  IInv'
<1> USE Effective DEF EndBack, breaker, server, history, Running
<1>1. TypeOK'
  <2>1. HandlersTypeOK'
        BY DEF IInv, TypeOK, HandlersTypeOK
  <2>2. BreakerTypeOK'
        BY DEF IInv, TypeOK, BreakerTypeOK, Never
  <2>3. ServerTypeOK'
        BY DEF IInv, TypeOK, ServerTypeOK
  <2> QED BY <2>1, <2>2, <2>3 DEF TypeOK
<1>2. BreakerInv'
      BY DEF IInv, TypeOK, BreakerTypeOK, BreakerInv, Never
<1>3. (\A d \in Clients : ClientInv(d))'
      BY DEF IInv, TypeOK, HandlersTypeOK, ClientInv
<1>4. AnswerFits'
      BY DEF IInv, TypeOK, HandlersTypeOK, ClientInv, AnswerFits
<1>5. ServerInv'
      BY DEF IInv, TypeOK, ServerTypeOK, ServerInv
<1> QED BY <1>1, <1>2, <1>3, <1>4, <1>5 DEF IInv

LEMMA LeaveKeeps ==
    ASSUME IInv, NEW c \in Clients, Leave(c)
    PROVE  IInv'
<1> USE Effective DEF Leave, breaker, server, history, Running, Goes
<1>1. TypeOK'
  <2>1. HandlersTypeOK'
        BY DEF IInv, TypeOK, HandlersTypeOK
  <2>2. BreakerTypeOK'
        BY DEF IInv, TypeOK, BreakerTypeOK, Never
  <2>3. ServerTypeOK'
        BY DEF IInv, TypeOK, ServerTypeOK
  <2> QED BY <2>1, <2>2, <2>3 DEF TypeOK
<1>2. BreakerInv'
      BY DEF IInv, TypeOK, BreakerTypeOK, BreakerInv, Never
<1>3. (\A d \in Clients : ClientInv(d))'
      BY DEF IInv, TypeOK, HandlersTypeOK, ClientInv
<1>4. AnswerFits'
      BY DEF IInv, TypeOK, HandlersTypeOK, ClientInv, AnswerFits
<1>5. ServerInv'
      BY DEF IInv, TypeOK, ServerTypeOK, ServerInv
<1> QED BY <1>1, <1>2, <1>3, <1>4, <1>5 DEF IInv

LEMMA AcceptKeeps ==
    ASSUME IInv, NEW c \in Clients, Accept(c)
    PROVE  IInv'
<1> USE Effective DEF Accept, breaker, server, history, Running
<1>1. TypeOK'
  <2>1. HandlersTypeOK'
        BY DEF IInv, TypeOK, HandlersTypeOK
  <2>2. BreakerTypeOK'
        BY DEF IInv, TypeOK, BreakerTypeOK, Never
  <2>3. ServerTypeOK'
        BY DEF IInv, TypeOK, ServerTypeOK
  <2> QED BY <2>1, <2>2, <2>3 DEF TypeOK
<1>2. BreakerInv'
      BY DEF IInv, TypeOK, BreakerTypeOK, BreakerInv, Never
<1>3. (\A d \in Clients : ClientInv(d))'
      BY DEF IInv, TypeOK, HandlersTypeOK, ClientInv
<1>4. AnswerFits'
      BY DEF IInv, TypeOK, HandlersTypeOK, ClientInv, AnswerFits
<1>5. ServerInv'
      BY DEF IInv, TypeOK, ServerTypeOK, ServerInv
<1> QED BY <1>1, <1>2, <1>3, <1>4, <1>5 DEF IInv

LEMMA ServerKeeps ==
    ASSUME IInv, NEW own \in BOOLEAN,
           ServeStarts \/ AcceptErr(own) \/ Signal \/ Close \/ Ends \/ Tick \/ UNCHANGED vars
    PROVE  IInv'
<1> USE Effective, KeeperAssumption
    DEF KeeperAssumption, client, breaker, server, history, vars, Running, ServeStarts,
        AcceptErr, Signal, Close, Ends, Tick
<1>1. TypeOK'
  <2>1. HandlersTypeOK'
        BY DEF IInv, TypeOK, HandlersTypeOK
  <2>2. BreakerTypeOK'
        BY DEF IInv, TypeOK, BreakerTypeOK, Never
  <2>3. ServerTypeOK'
        BY ZenonT(60) DEF IInv, TypeOK, ServerTypeOK
  <2> QED BY <2>1, <2>2, <2>3 DEF TypeOK
<1>2. BreakerInv'
      BY DEF IInv, TypeOK, BreakerTypeOK, BreakerInv, Never
<1>3. (\A d \in Clients : ClientInv(d))'
      BY DEF IInv, ClientInv
<1>4. AnswerFits'
      BY DEF IInv, AnswerFits
<1>5. ServerInv'
      BY DEF IInv, TypeOK, ServerTypeOK, ServerInv
<1> QED BY <1>1, <1>2, <1>3, <1>4, <1>5 DEF IInv

LEMMA InvNext == IInv /\ [Next]_vars => IInv'
<1> SUFFICES ASSUME IInv, [Next]_vars PROVE IInv'
    OBVIOUS
<1>1. ASSUME NEW c \in Clients, Handler(c) PROVE IInv'
      BY <1>1, ReadKeeps, CheckKeeps, TransportKeeps, ConnectErrKeeps, SetupFailedKeeps,
         SetupOkKeeps, EstablishedKeeps, LeaveKeeps DEF Handler, Errors
<1>2. ASSUME NEW c \in Clients, Tunnel(c) PROVE IInv'
      BY <1>2, EndOutKeeps, EndBackKeeps DEF Tunnel
<1>3. ASSUME NEW c \in Clients, ConnectOk(c) PROVE IInv'
      BY <1>3, ConnectOkKeeps
<1>4. ASSUME NEW c \in Clients, Accept(c) PROVE IInv'
      BY <1>4, AcceptKeeps
<1>5. ASSUME NEW c \in Clients, NEW e \in Errors, ConnectErr(c, e) PROVE IInv'
      BY <1>5, ConnectErrKeeps
<1>6. CASE ServeStarts \/ AcceptErr(TRUE) \/ AcceptErr(FALSE) \/ Signal \/ Close \/ Ends
           \/ Tick \/ Ended \/ UNCHANGED vars
      BY <1>6, ServerKeeps DEF Ended
<1> QED BY <1>1, <1>2, <1>3, <1>4, <1>5, <1>6 DEF Next

LEMMA Invariance == Spec => []IInv
<1>1. Init => IInv
      BY InvInit
<1>2. IInv /\ [Next]_vars => IInv'
      BY InvNext
<1> QED BY <1>1, <1>2, PTL DEF Spec

-----------------------------------------------------------------------------
(* Every variable of the keeper has its type: in particular no client is   *)
(* tried more often than the flag allows.                                  *)
THEOREM TypeCorrect == Spec => []TypeOK
<1>1. IInv => TypeOK
      BY DEF IInv
<1> QED BY <1>1, Invariance, PTL

(* What a client is told fits what was done for it, and its connection to  *)
(* the upstream does not outlive its handler.                              *)
THEOREM AnswersFit == Spec => []AnswerFits
<1>1. IInv => AnswerFits
      BY DEF IInv
<1> QED BY <1>1, Invariance, PTL

(* An exit code of 1 is the fault of an Accept that failed by itself.      *)
THEOREM ShutsDownCleanly == Spec => []CleanShutdown
<1>1. IInv => CleanShutdown
      BY DEF IInv, ServerInv, CleanShutdown
<1> QED BY <1>1, Invariance, PTL

(* The counter and the time of the breaker say what the last outcomes say. *)
LEMMA OpenInStreak ==
    ASSUME IInv
    PROVE  allow <=> ~(Streak /\ now <= lastFailure + OpenDuration)
<1> USE Effective DEF IInv, TypeOK, BreakerTypeOK, BreakerInv, Never
<1>1. failures >= Threshold => Streak
      BY DEF Streak
<1>2. failures < Threshold => ~Streak
  <2> SUFFICES ASSUME failures < Threshold, Streak PROVE FALSE
      OBVIOUS
  <2>1. failures < Len(outcomes) /\ outcomes[Len(outcomes) - failures] = "ok"
        BY DEF Streak
  <2>2. Len(outcomes) - failures \in Len(outcomes) - Threshold + 1 .. Len(outcomes)
        BY <2>1
  <2> QED BY <2>1, <2>2 DEF Streak
<1>3. CASE failures >= Threshold
      BY <1>1, <1>3 DEF allow
<1>4. CASE failures < Threshold
      BY <1>2, <1>4 DEF allow
<1> QED BY <1>3, <1>4

(* Only Check moves a client on from where the breaker is asked. *)
LEMMA OnlyCheckAsks ==
    ASSUME IInv, [Next]_vars, NEW c \in Clients, pc[c] = "check", pc'[c] \in {"dial", "gone"}
    PROVE  Check(c)
<1> USE DEF IInv, TypeOK, HandlersTypeOK
<1>1. ASSUME NEW d \in Clients, Handler(d) \/ (\E e \in Errors : ConnectErr(d, e)), d # c
      PROVE  pc'[c] = pc[c]
      BY <1>1 DEF Handler, Read, Check, Transport, ConnectErr, SetupFailed, SetupOk,
                  Established, Leave, Goes, Answers, Retried
<1>2. ASSUME Handler(c) \/ (\E e \in Errors : ConnectErr(c, e))
      PROVE  Check(c)
      BY <1>2 DEF Handler, Read, Transport, ConnectErr, SetupFailed, SetupOk, Established,
                  Leave, Goes, Answers
<1>3. ASSUME NEW d \in Clients, Tunnel(d) \/ ConnectOk(d) \/ Accept(d)
      PROVE  pc'[c] = pc[c] \/ pc'[c] \notin {"dial", "gone"}
      BY <1>3 DEF Tunnel, EndOut, EndBack, ConnectOk, Goes, Accept
<1>4. ASSUME ServeStarts \/ AcceptErr(TRUE) \/ AcceptErr(FALSE) \/ Signal \/ Close \/ Ends
             \/ Tick \/ Ended \/ UNCHANGED vars
      PROVE  pc'[c] = pc[c] \/ pc'[c] \notin {"dial", "gone"}
      BY <1>4 DEF ServeStarts, AcceptErr, Signal, Close, Ends, Tick, Ended, vars, client
<1>5. pc'[c] # pc[c]
      OBVIOUS
<1>6. ASSUME NEW d \in Clients, Handler(d) \/ (\E e \in Errors : ConnectErr(d, e))
      PROVE  Check(c)
      BY <1>1, <1>2, <1>5, <1>6
<1>7. ~ \E d \in Clients : Tunnel(d) \/ ConnectOk(d) \/ Accept(d)
      BY <1>3, <1>5
<1>8. \E d \in Clients : Handler(d) \/ (\E e \in Errors : ConnectErr(d, e))
      BY <1>4, <1>5, <1>7 DEF Next
<1> QED BY <1>6, <1>8

(* A client is refused exactly in the open period of a streak of failures, *)
(* however the setups of the clients interleave.                           *)
THEOREM RefusesInStreaks == Spec => RefusesDuringStreak
<1>1. ASSUME IInv, [Next]_vars, NEW c \in Clients,
             pc[c] = "check", pc'[c] \in {"dial", "gone"}
      PROVE  answer'[c] = 503 <=> Streak /\ now <= lastFailure + OpenDuration
  <2>1. Check(c)
        BY <1>1, OnlyCheckAsks
  <2>2. answer'[c] = 503 <=> ~allow
    <3>1. answer \in [Clients -> {0, 200, 400, 502, 503}] /\ answer[c] = 0
          BY <1>1 DEF IInv, TypeOK, HandlersTypeOK, ClientInv
    <3> QED BY <2>1, <3>1 DEF Check, Answers
  <2> QED BY <2>2, <1>1, OpenInStreak
<1>2. IInv /\ [Next]_vars =>
        [\A c \in Clients :
           pc[c] = "check" /\ pc'[c] \in {"dial", "gone"} =>
             (answer'[c] = 503 <=> Streak /\ now <= lastFailure + OpenDuration)]_vars
      BY <1>1
<1> QED BY <1>2, Invariance, PTL DEF Spec, RefusesDuringStreak

=============================================================================
