-------------------------------- MODULE Keeper --------------------------------
(***************************************************************************)
(* The retired identity keeper (archive/legacy-20260617): a local CONNECT  *)
(* proxy that tunnels its clients through one upstream proxy.              *)
(*                                                                         *)
(* Every accepted client has a goroutine of its own (handleConn); they     *)
(* share a circuit breaker, whose mutex covers its own fields and not the  *)
(* dial in between.  A setup is tried again after some errors; a timeout   *)
(* ends every attempt.  main starts Serve in a goroutine and closes the    *)
(* server on a signal.  Of a request only whether it can be served counts, *)
(* and of a tunnel which of its directions still runs.                     *)
(***************************************************************************)
EXTENDS Integers, Sequences

CONSTANTS Clients,
          RetriesFlag, ThresholdFlag, OpenFlag,  \* flags, OpenFlag in ticks
          MaxTime,                               \* bound: the clock stops here
          MaxSetups                              \* bound: nobody comes after as many

ASSUME KeeperAssumption ==
    /\ RetriesFlag \in Int /\ ThresholdFlag \in Int /\ OpenFlag \in Int
    /\ MaxTime \in Nat /\ MaxSetups \in Nat

VARIABLES pc,        \* where the goroutine of each client is
          attempts,  \* setups tried for it
          up,        \* its connection to the upstream
          answer,    \* the status it got, 0 before
          out, back, \* the goroutines of its tunnel, to and from the upstream
          failures, openUntil,               \* the breaker
          main, serve, listener, closed, exit,  \* main and Server
          now,
          \* history
          outcomes, lastFailure,  \* how setups ended, in order; when one last failed
          ownError                \* an Accept failed by itself

client  == <<pc, attempts, up, answer, out, back>>
breaker == <<failures, openUntil>>
server  == <<main, serve, listener, closed, exit>>
history == <<outcomes, lastFailure, ownError>>
vars    == <<client, breaker, server, now, history>>

(* withDefaults: what the flags come to. *)
SetupRetries == IF RetriesFlag < 0 THEN 0 ELSE RetriesFlag
Threshold    == IF ThresholdFlag <= 0 THEN 3 ELSE ThresholdFlag
OpenDuration == IF OpenFlag <= 0 THEN 5 ELSE OpenFlag

Never == -1   \* the zero time

(* "bad-gateway" is a status of 502 to 504, "denied" any other but 200.    *)
Errors == {"refused", "denied", "eof", "reset", "timeout", "bad-gateway"}

isRetryableSetupError(e) == e \in {"eof", "reset", "timeout", "bad-gateway"}

-----------------------------------------------------------------------------
Init ==
    /\ pc = [c \in Clients |-> "away"] /\ attempts = [c \in Clients |-> 0]
    /\ up = [c \in Clients |-> "none"] /\ answer = [c \in Clients |-> 0]
    /\ out = [c \in Clients |-> "off"] /\ back = [c \in Clients |-> "off"]
    /\ failures = 0 /\ openUntil = Never
    /\ main = "waiting" /\ serve = "starting" /\ listener = "unset"
    /\ closed = FALSE /\ exit = -1
    /\ now = 0
    /\ outcomes = <<>> /\ lastFailure = Never /\ ownError = FALSE

Running == main # "ended"

Goes(c, from, to) ==
    /\ Running /\ pc[c] = from
    /\ pc' = [pc EXCEPT ![c] = to]

(* A status is written and the deferred closes run. *)
Answers(c, from, code) ==
    /\ Goes(c, from, "gone")
    /\ answer' = [answer EXCEPT ![c] = code]

(* 400 stands for 405 too: a request that is not a CONNECT, names no       *)
(* target, or does not come in time.                                       *)
Read(c) ==
    /\ \/ Goes(c, "read", "check") /\ UNCHANGED answer
       \/ Answers(c, "read", 400)
    /\ UNCHANGED <<attempts, up, out, back, breaker, server, now,
                   history>>

AllowAtEnd ==  \* a slip: the period ends a tick early
    openUntil = Never \/ now >= openUntil

allow == openUntil = Never \/ now > openUntil

(* The breaker is asked before the dial and not held during it.            *)
Check(c) ==
    /\ \/ allow /\ Goes(c, "check", "dial") /\ UNCHANGED answer
       \/ ~allow /\ Answers(c, "check", 503)
    /\ UNCHANGED <<attempts, up, out, back, breaker, server, now,
                   history>>

RetriedForever(c, e) ==  \* a slip: the attempts are not counted
    /\ attempts' = [attempts EXCEPT ![c] = @ + 1]
    /\ pc' = [pc EXCEPT ![c] = IF isRetryableSetupError(e) THEN "dial" ELSE "failed"]

Retried(c, e) ==
    /\ attempts' = [attempts EXCEPT ![c] = @ + 1]
    /\ pc' = [pc EXCEPT ![c] =
                IF isRetryableSetupError(e) /\ attempts[c] < SetupRetries
                  THEN "dial" ELSE "failed"]

(* One attempt: connect (through the bootstrap proxy if there is one), ask *)
(* the upstream for the target; an error closes what was opened.           *)
Transport(c) ==
    /\ Running /\ pc[c] = "dial"
    /\ \/ Goes(c, "dial", "connect") /\ up' = [up EXCEPT ![c] = "open"]
          /\ UNCHANGED attempts
       \/ \E e \in Errors : Retried(c, e) /\ UNCHANGED up
    /\ UNCHANGED <<answer, out, back, breaker, server, now, history>>

ConnectOk(c) ==
    /\ Goes(c, "connect", "opened")
    /\ UNCHANGED <<attempts, up, answer, out, back, breaker, server,
                   now, history>>

ConnectErrNoDeadline(c, e) ==  \* a slip: the connection gets no deadline
    /\ Running /\ pc[c] = "connect" /\ e # "timeout"
    /\ Retried(c, e)
    /\ up' = [up EXCEPT ![c] = "closed"]
    /\ UNCHANGED <<answer, out, back, breaker, server, now, history>>

ConnectErr(c, e) ==
    /\ Running /\ pc[c] = "connect"
    /\ Retried(c, e)
    /\ up' = [up EXCEPT ![c] = "closed"]
    /\ UNCHANGED <<answer, out, back, breaker, server, now, history>>

failure ==
    /\ failures' = failures + 1
    /\ openUntil' = IF failures + 1 >= Threshold THEN now + OpenDuration ELSE openUntil

success == failures' = 0 /\ openUntil' = Never

(* The setup has failed for good: the breaker counts it, the client is told. *)
SetupFailed(c) ==
    /\ Answers(c, "failed", 502)
    /\ failure
    /\ outcomes' = Append(outcomes, "failed") /\ lastFailure' = now
    /\ UNCHANGED <<attempts, up, out, back, server, now, ownError>>

(* The setup has succeeded: the breaker is reset, whatever it was.         *)
SetupOk(c) ==
    /\ Goes(c, "opened", "established")
    /\ success
    /\ outcomes' = Append(outcomes, "ok")
    /\ UNCHANGED <<attempts, up, answer, out, back, server, now,
                   lastFailure, ownError>>

(* A client that is gone cannot be written to; the upstream is closed.     *)
Established(c) ==
    /\ \/ /\ Goes(c, "established", "tunnel")
          /\ answer' = [answer EXCEPT ![c] = 200]
          /\ out' = [out EXCEPT ![c] = "copying"]
          /\ back' = [back EXCEPT ![c] = "copying"]
          /\ UNCHANGED up
       \/ /\ Goes(c, "established", "gone")
          /\ up' = [up EXCEPT ![c] = "closed"]
          /\ UNCHANGED <<answer, out, back>>
    /\ UNCHANGED <<attempts, breaker, server, now, history>>

(* One direction ends, at the end of the input or an error, and closes the *)
(* other side for writing; the other goes on.                              *)
EndOut(c) ==
    /\ Running /\ out[c] = "copying"
    /\ out' = [out EXCEPT ![c] = "ended"]
    /\ UNCHANGED <<pc, attempts, up, answer, back, breaker, server, now,
                   history>>

EndBack(c) ==
    /\ Running /\ back[c] = "copying"
    /\ back' = [back EXCEPT ![c] = "ended"]
    /\ UNCHANGED <<pc, attempts, up, answer, out, breaker, server, now,
                   history>>

LeaveEarly(c) ==  \* a slip: the handler leaves when either direction has ended
    /\ Goes(c, "tunnel", "gone")
    /\ out[c] = "ended" \/ back[c] = "ended"
    /\ up' = [up EXCEPT ![c] = "closed"]
    /\ UNCHANGED <<attempts, answer, out, back, breaker, server, now,
                   history>>

Leave(c) ==
    /\ Goes(c, "tunnel", "gone")
    /\ out[c] = "ended" /\ back[c] = "ended"
    /\ up' = [up EXCEPT ![c] = "closed"]
    /\ UNCHANGED <<attempts, answer, out, back, breaker, server, now,
                   history>>

-----------------------------------------------------------------------------
(* Server and main. *)

ServeStarts ==
    /\ Running /\ serve = "starting"
    /\ serve' = "serving" /\ listener' = "open"
    /\ UNCHANGED <<client, breaker, main, closed, exit, now, history>>

(* The place of a client that has been served is taken by another.         *)
Accept(c) ==
    /\ Running /\ serve = "serving" /\ listener = "open"
    /\ Len(outcomes) < MaxSetups
    /\ pc[c] \in {"away", "gone"} /\ pc' = [pc EXCEPT ![c] = "read"]
    /\ attempts' = [attempts EXCEPT ![c] = 0] /\ up' = [up EXCEPT ![c] = "none"]
    /\ answer' = [answer EXCEPT ![c] = 0]
    /\ out' = [out EXCEPT ![c] = "off"] /\ back' = [back EXCEPT ![c] = "off"]
    /\ UNCHANGED <<breaker, server, now, history>>

(* Accept fails once the listener is closed, or by itself; Serve returns   *)
(* nil if Close has been called.                                           *)
AcceptErr(own) ==
    /\ Running /\ serve = "serving"
    /\ own \/ listener = "closed"
    /\ serve' = IF closed THEN "returned" ELSE "broken"
    /\ ownError' = (ownError \/ own)
    /\ UNCHANGED <<client, breaker, main, listener, closed, exit, now, outcomes,
                   lastFailure>>

Signal ==
    /\ main = "waiting"
    /\ main' = "closing"
    /\ UNCHANGED <<client, breaker, serve, listener, closed, exit, now, history>>

CloseListenerFirst ==  \* a slip: the listener is closed before the server is marked
    /\ \/ main = "closing" /\ main' = "marked"
          /\ listener' = (IF listener = "open" THEN "closed" ELSE listener)
          /\ UNCHANGED closed
       \/ main = "marked" /\ main' = "joining"
          /\ closed' = TRUE /\ UNCHANGED listener
    /\ UNCHANGED <<client, breaker, serve, exit, now, history>>

CloseOnlyMarks ==  \* a slip: the listener stays open
    /\ \/ main = "closing" /\ main' = "marked" /\ closed' = TRUE
       \/ main = "marked" /\ main' = "joining" /\ UNCHANGED closed
    /\ UNCHANGED <<client, breaker, serve, listener, exit, now, history>>

(* Close marks the server closed, then closes the listener it knows.       *)
Close ==
    /\ \/ main = "closing" /\ main' = "marked"
          /\ closed' = TRUE /\ UNCHANGED listener
       \/ main = "marked" /\ main' = "joining"
          /\ listener' = (IF listener = "open" THEN "closed" ELSE listener)
          /\ UNCHANGED closed
    /\ UNCHANGED <<client, breaker, serve, exit, now, history>>

(* main ends with what Serve returned, and every goroutine with it.        *)
Ends ==
    /\ main \in {"waiting", "joining"} /\ serve \in {"returned", "broken"}
    /\ main' = "ended"
    /\ exit' = IF serve = "broken" THEN 1 ELSE 0
    /\ pc' = [c \in Clients |-> "away"] /\ attempts' = [c \in Clients |-> 0]
    /\ up' = [c \in Clients |-> "none"] /\ answer' = [c \in Clients |-> 0]
    /\ out' = [c \in Clients |-> "off"] /\ back' = [c \in Clients |-> "off"]
    /\ UNCHANGED <<breaker, serve, listener, closed, now, history>>

Tick ==
    /\ Running /\ now < MaxTime
    /\ now' = now + 1
    /\ UNCHANGED <<client, breaker, server, history>>

Ended == ~Running /\ UNCHANGED vars

Handler(c) == \/ Read(c) \/ Check(c) \/ Transport(c) \/ ConnectErr(c, "timeout")
              \/ SetupFailed(c) \/ SetupOk(c) \/ Established(c) \/ Leave(c)

Tunnel(c) == EndOut(c) \/ EndBack(c)

Next ==
    \/ \E c \in Clients :
         \/ Handler(c) \/ Tunnel(c) \/ ConnectOk(c) \/ Accept(c)
         \/ \E e \in Errors : ConnectErr(c, e)
    \/ ServeStarts \/ AcceptErr(TRUE) \/ AcceptErr(FALSE)
    \/ Signal \/ Close \/ Ends \/ Tick \/ Ended

(* A goroutine runs on, and what it waits for in a setup times out; the    *)
(* ends of a tunnel may stay open for ever.  Closing makes Accept fail.    *)
Fairness ==
    /\ \A c \in Clients : WF_vars(Handler(c))
    /\ WF_vars(ServeStarts) /\ WF_vars(AcceptErr(FALSE)) /\ WF_vars(Close) /\ WF_vars(Ends)

Spec == Init /\ [][Next]_vars /\ Fairness

-----------------------------------------------------------------------------
HandlersTypeOK ==
    /\ pc \in [Clients -> {"away", "read", "check", "dial", "connect", "failed",
                           "opened", "established", "tunnel", "gone"}]
    /\ attempts \in [Clients -> 0 .. SetupRetries + 1]
    /\ up \in [Clients -> {"none", "open", "closed"}]
    /\ answer \in [Clients -> {0, 200, 400, 502, 503}]
    /\ out \in [Clients -> {"off", "copying", "ended"}]
    /\ back \in [Clients -> {"off", "copying", "ended"}]

BreakerTypeOK ==
    /\ failures \in Nat /\ openUntil \in Nat \cup {Never}
    /\ now \in 0 .. MaxTime
    /\ outcomes \in Seq({"ok", "failed"}) /\ lastFailure \in 0 .. MaxTime \cup {Never}

ServerTypeOK ==
    /\ main \in {"waiting", "closing", "marked", "joining", "ended"}
    /\ serve \in {"starting", "serving", "returned", "broken"}
    /\ listener \in {"unset", "open", "closed"}
    /\ closed \in BOOLEAN /\ exit \in {-1, 0, 1} /\ ownError \in BOOLEAN

TypeOK == HandlersTypeOK /\ BreakerTypeOK /\ ServerTypeOK

(* The last Threshold setups to end all failed. *)
Streak == /\ Len(outcomes) >= Threshold
          /\ \A i \in Len(outcomes) - Threshold + 1 .. Len(outcomes) : outcomes[i] = "failed"

(* A client is refused exactly while the last Threshold setups to end      *)
(* failed, the last of them at most the open period ago: in the order they *)
(* ended, not the order they began, so that a success that began before a  *)
(* streak and ended in it lets everybody in again.                         *)
RefusesDuringStreak ==
    [][\A c \in Clients :
         pc[c] = "check" /\ pc'[c] \in {"dial", "gone"} =>
           (answer'[c] = 503 <=> Streak /\ now <= lastFailure + OpenDuration)]_vars

(* What a client is told fits what was done for it: a tunnel only over an  *)
(* open upstream, a bad gateway only after setups tried at most 1 +        *)
(* SetupRetries times, and nothing tried for a client refused; every       *)
(* connection to the upstream is closed with its client's handler, which   *)
(* ends once both directions have.                                         *)
AnswerFits ==
    \A c \in Clients :
      /\ pc[c] = "tunnel" => answer[c] = 200 /\ up[c] = "open"
      /\ answer[c] = 502 => attempts[c] \in 1 .. SetupRetries + 1
      /\ answer[c] \in {400, 503} => attempts[c] = 0 /\ up[c] = "none"
      /\ pc[c] = "gone" => up[c] # "open"
      /\ pc[c] = "gone" /\ answer[c] = 200 => out[c] = "ended" /\ back[c] = "ended"
      /\ pc[c] = "dial" => up[c] # "open"

(* A signal ends the keeper with exit code 0 unless Accept failed by       *)
(* itself: the error of closing the listener is never taken for one.       *)
CleanShutdown == exit = 1 => ownError

(* Every accepted client gets an answer or is hung up on: what it sends,   *)
(* and every attempt for it, is under a timeout.                           *)
EveryClientAnswered ==
    \A c \in Clients : pc[c] = "read" ~> pc[c] \in {"tunnel", "gone"} \/ ~Running

(* A signal that comes once Serve has its listener ends the keeper.        *)
SignalEnds == main = "closing" /\ listener # "unset" ~> main = "ended"

=============================================================================
