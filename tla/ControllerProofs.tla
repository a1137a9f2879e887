--------------------------- MODULE ControllerProofs ---------------------------
(***************************************************************************)
(* Theorems about Controller for any sets of AI connections: its           *)
(* invariants, and that its reload implements module Reload.               *)
(***************************************************************************)
EXTENDS Controller, TLAPS

(* Exchanges are begun in order: versions, a reload, the list. *)
OrderInv ==
    /\ pc = "start" => req = "none"
    /\ req = "none" => n = 0 /\ pc \in {"start", "done"}
    /\ req = "version" => n \in 1 .. 2 /\ (via = "tcp" => n = 1)
    /\ req = "reload" => n \in 2 .. 3 /\ cmd = "reload"
    /\ req = "connections" => n \in 2 .. 4
    /\ req # "none" => via \in Transports

(* Nothing is left open, and nothing of a later exchange exists yet. *)
SocketInv ==
    /\ \A i \in Exchanges : i > n => sock[i] = "none" /\ dog[i] = "off"
    /\ pc = "dial" => sock[n] = "none" /\ dog[n] = "off"
    /\ NothingLeftOpen

(* How far the answer is bounds what the client can have got of it, and    *)
(* the server reloads before it says so.                                   *)
AnswerInv ==
    /\ pc \in {"dial", "write"} => sent = 0
    /\ pc \in {"dial", "write", "head"} => res = "none"
    /\ pc = "decode" => HeadSent /\ answer.status = "success"
                         /\ req \in {"version", "connections"}
    /\ req = "reload" /\ HeadSent /\ answer.status = "success" => put = "done"
    /\ req = "reload" /\ pc \in {"close", "return"} /\ res = "ok" => put = "done"
    /\ req = "connections" /\ ValueSent /\ answer.status = "success" => view.taken
    /\ req = "connections" /\ pc \in {"close", "return"} /\ res = "ok" => view.taken
    /\ view.taken => req = "connections" /\ ValueSent
    /\ cmd = "reload" /\ view.taken => view.reloaded
    /\ cmd = "reload" /\ req = "connections" => put = "done"
    /\ put # "none" => req \in {"reload", "connections"}
    /\ req = "reload" /\ pc \in {"dial", "write"} => put = "none"

(* Which transports have answered, and when the verdict is out. *)
ToldInv ==
    /\ req = "none" => pinged = {}
    /\ req = "version" => pinged = {} \/ (res = "ok" /\ pinged = {via})
    /\ req = "version" /\ pc = "decode" => pinged = {}
    /\ req = "version" /\ res = "ok" /\ pc \in {"close", "return"} => pinged = {via}
    /\ req \in {"reload", "connections"} => pinged = {via}
    /\ res = "unauthorized" => refused
    /\ pc # "done" => exit = -1 /\ told = "nothing" /\ ~recorded
    /\ RecordedMeansReloaded
    /\ ToldTheTruth

IInv == TypeOK /\ OrderInv /\ SocketInv /\ AnswerInv /\ ToldInv

-----------------------------------------------------------------------------
LEMMA RecordFacts ==
    /\ NoAnswer \in Answers /\ NoView \in Views
BY DEF NoAnswer, NoView, Answers, Views

LEMMA GoodKeepsStatus ==
    ASSUME NEW a \in Answers, NEW g \in BOOLEAN
    PROVE  /\ [a EXCEPT !.good = g] \in Answers
           /\ [a EXCEPT !.good = g].status = a.status
BY DEF Answers

LEMMA VerdictType == \A conns : Verdict(conns) \in 0 .. 2
BY DEF Verdict

LEMMA InvInit == Init => IInv
<1> SUFFICES ASSUME Init PROVE IInv
    OBVIOUS
<1>b. recorded \in BOOLEAN /\ hung \in BOOLEAN /\ refused \in BOOLEAN
      BY Zenon DEF Init
<1>1. ProgramTypeOK /\ ServerTypeOK
      BY <1>b, RecordFacts DEF Init, ProgramTypeOK, ServerTypeOK, Exchanges, Transports
<1>2. OrderInv /\ SocketInv
      BY DEF Init, OrderInv, SocketInv, NothingLeftOpen, Exchanges
<1>3. AnswerInv /\ ToldInv
      BY DEF Init, AnswerInv, ToldInv, NoView, HeadSent, ValueSent,
             RecordedMeansReloaded, ToldTheTruth
<1> QED BY <1>1, <1>2, <1>3 DEF IInv, TypeOK, ProgramTypeOK, ServerTypeOK

(* While a call is under way, n is the number of its exchange. *)
LEMMA Current ==
    ASSUME TypeOK, OrderInv, pc \notin {"start", "done"}
    PROVE  n \in Exchanges /\ req # "none"
BY DEF TypeOK, ProgramTypeOK, OrderInv, Exchanges

LEMMA StartKeeps == IInv /\ Start => IInv'
<1> SUFFICES ASSUME IInv, Start PROVE IInv'
    OBVIOUS
<1> USE DEF Start, config, call, result, stream, history, Request, Finish, Unreachable
<1>b. recorded' \in BOOLEAN /\ hung' \in BOOLEAN /\ refused' \in BOOLEAN
      BY Zenon DEF IInv, TypeOK, ProgramTypeOK, ServerTypeOK
<1>p. ProgramTypeOK'
      BY RecordFacts, <1>b, SMT DEF IInv, TypeOK, ProgramTypeOK, ServerTypeOK, OrderInv, Transports
<1>s. ServerTypeOK'
      BY RecordFacts, <1>b, SMT DEF IInv, TypeOK, ProgramTypeOK, ServerTypeOK, OrderInv, Transports
<1>1. TypeOK'
      BY <1>p, <1>s DEF TypeOK
<1>2. OrderInv'
      BY SMT DEF IInv, TypeOK, ProgramTypeOK, ServerTypeOK, OrderInv, Transports
<1>3. SocketInv'
      BY SMT DEF IInv, TypeOK, ProgramTypeOK, ServerTypeOK, OrderInv, SocketInv, NothingLeftOpen, Exchanges
<1>4. AnswerInv'
      BY SMT DEF IInv, TypeOK, ProgramTypeOK, ServerTypeOK, OrderInv, AnswerInv, HeadSent, ValueSent
<1>5. ToldInv'
      BY SMT DEF IInv, TypeOK, ProgramTypeOK, ServerTypeOK, OrderInv, AnswerInv, ToldInv, RecordedMeansReloaded, ToldTheTruth
<1> QED BY <1>1, <1>2, <1>3, <1>4, <1>5 DEF IInv

LEMMA OpenFailedKeeps == IInv /\ OpenFailed => IInv'
<1> SUFFICES ASSUME IInv, OpenFailed PROVE IInv'
    OBVIOUS
<1> USE DEF OpenFailed, config, call, result, stream, history, Request, Finish, Unreachable
<1>0. pc \notin {"start", "done"} => n \in Exchanges /\ req # "none"
      BY Current DEF IInv
<1>b. recorded' \in BOOLEAN /\ hung' \in BOOLEAN /\ refused' \in BOOLEAN
      BY Zenon DEF IInv, TypeOK, ProgramTypeOK, ServerTypeOK
<1>p. ProgramTypeOK'
      BY RecordFacts, <1>0, <1>b, SMT DEF IInv, TypeOK, ProgramTypeOK, ServerTypeOK, OrderInv, Transports
<1>s. ServerTypeOK'
      BY RecordFacts, <1>0, <1>b, SMT DEF IInv, TypeOK, ProgramTypeOK, ServerTypeOK, OrderInv, Transports
<1>1. TypeOK'
      BY <1>p, <1>s DEF TypeOK
<1>2. OrderInv'
      BY <1>0, SMT DEF IInv, TypeOK, ProgramTypeOK, ServerTypeOK, OrderInv, Transports
<1>3. SocketInv'
      BY <1>0, SMT DEF IInv, TypeOK, ProgramTypeOK, ServerTypeOK, OrderInv, SocketInv, NothingLeftOpen, Exchanges
<1>4. AnswerInv'
      BY <1>0, SMT DEF IInv, TypeOK, ProgramTypeOK, ServerTypeOK, OrderInv, AnswerInv, HeadSent, ValueSent
<1>5. ToldInv'
      BY <1>0, SMT DEF IInv, TypeOK, ProgramTypeOK, ServerTypeOK, OrderInv, AnswerInv, ToldInv, RecordedMeansReloaded, ToldTheTruth
<1> QED BY <1>1, <1>2, <1>3, <1>4, <1>5 DEF IInv

LEMMA OpenedKeeps == IInv /\ Opened => IInv'
<1> SUFFICES ASSUME IInv, Opened PROVE IInv'
    OBVIOUS
<1> USE DEF Opened, config, call, result, stream, history, Request, Finish
<1>0. pc \notin {"start", "done"} => n \in Exchanges /\ req # "none"
      BY Current DEF IInv
<1>b. recorded' \in BOOLEAN /\ hung' \in BOOLEAN /\ refused' \in BOOLEAN
      BY Zenon DEF IInv, TypeOK, ProgramTypeOK, ServerTypeOK
<1>p. ProgramTypeOK'
      BY RecordFacts, <1>0, <1>b, SMT DEF IInv, TypeOK, ProgramTypeOK, ServerTypeOK, OrderInv, Transports
<1>s. ServerTypeOK'
      BY RecordFacts, <1>0, <1>b, SMT DEF IInv, TypeOK, ProgramTypeOK, ServerTypeOK, OrderInv, Transports
<1>1. TypeOK'
      BY <1>p, <1>s DEF TypeOK
<1>2. OrderInv'
      BY <1>0, SMT DEF IInv, TypeOK, ProgramTypeOK, ServerTypeOK, OrderInv, Transports
<1>3. SocketInv'
      BY <1>0, SMT DEF IInv, TypeOK, ProgramTypeOK, ServerTypeOK, OrderInv, SocketInv, NothingLeftOpen, Exchanges
<1>4. AnswerInv'
      BY <1>0, SMT DEF IInv, TypeOK, ProgramTypeOK, ServerTypeOK, OrderInv, AnswerInv, HeadSent, ValueSent
<1>5. ToldInv'
      BY <1>0, SMT DEF IInv, TypeOK, ProgramTypeOK, ServerTypeOK, OrderInv, AnswerInv, ToldInv, RecordedMeansReloaded, ToldTheTruth
<1> QED BY <1>1, <1>2, <1>3, <1>4, <1>5 DEF IInv

LEMMA ReloadedKeeps == IInv /\ Reloaded => IInv'
<1> SUFFICES ASSUME IInv, Reloaded PROVE IInv'
    OBVIOUS
<1> USE DEF Reloaded, config, call, result, stream, history, Request, Finish
<1>0. pc \notin {"start", "done"} => n \in Exchanges /\ req # "none"
      BY Current DEF IInv
<1>b. recorded' \in BOOLEAN /\ hung' \in BOOLEAN /\ refused' \in BOOLEAN
      BY Zenon DEF IInv, TypeOK, ProgramTypeOK, ServerTypeOK
<1>p. ProgramTypeOK'
      BY RecordFacts, <1>0, <1>b, SMT DEF IInv, TypeOK, ProgramTypeOK, ServerTypeOK, OrderInv, Transports
<1>s. ServerTypeOK'
      BY RecordFacts, <1>0, <1>b, SMT DEF IInv, TypeOK, ProgramTypeOK, ServerTypeOK, OrderInv, Transports
<1>1. TypeOK'
      BY <1>p, <1>s DEF TypeOK
<1>2. OrderInv'
      BY <1>0, SMT DEF IInv, TypeOK, ProgramTypeOK, ServerTypeOK, OrderInv, Transports
<1>3. SocketInv'
      BY <1>0, SMT DEF IInv, TypeOK, ProgramTypeOK, ServerTypeOK, OrderInv, SocketInv, NothingLeftOpen, Exchanges
<1>4. AnswerInv'
      BY <1>0, SMT DEF IInv, TypeOK, ProgramTypeOK, ServerTypeOK, OrderInv, AnswerInv, HeadSent, ValueSent
<1>5. ToldInv'
      BY <1>0, SMT DEF IInv, TypeOK, ProgramTypeOK, ServerTypeOK, OrderInv, AnswerInv, ToldInv, RecordedMeansReloaded, ToldTheTruth
<1> QED BY <1>1, <1>2, <1>3, <1>4, <1>5 DEF IInv

LEMMA ListedKeeps == IInv /\ Listed => IInv'
<1> SUFFICES ASSUME IInv, Listed PROVE IInv'
    OBVIOUS
<1> USE DEF Listed, config, call, result, stream, history, Finish
<1>0. pc \notin {"start", "done"} => n \in Exchanges /\ req # "none"
      BY Current DEF IInv
<1>b. recorded' \in BOOLEAN /\ hung' \in BOOLEAN /\ refused' \in BOOLEAN
      BY Zenon DEF IInv, TypeOK, ProgramTypeOK, ServerTypeOK
<1>p. ProgramTypeOK'
      BY <1>0, VerdictType, <1>b, SMT DEF IInv, TypeOK, ProgramTypeOK, ServerTypeOK, OrderInv, Transports
<1>s. ServerTypeOK'
      BY <1>0, VerdictType, <1>b, SMT DEF IInv, TypeOK, ProgramTypeOK, ServerTypeOK, OrderInv, Transports
<1>1. TypeOK'
      BY <1>p, <1>s DEF TypeOK
<1>2. OrderInv'
      BY <1>0, SMT DEF IInv, TypeOK, ProgramTypeOK, ServerTypeOK, OrderInv, Transports
<1>3. SocketInv'
      BY <1>0, SMT DEF IInv, TypeOK, ProgramTypeOK, ServerTypeOK, OrderInv, SocketInv, NothingLeftOpen, Exchanges
<1>4. AnswerInv'
      BY <1>0, SMT DEF IInv, TypeOK, ProgramTypeOK, ServerTypeOK, OrderInv, AnswerInv, HeadSent, ValueSent
<1>5. ToldInv'
      BY <1>0, SMT DEF Verdict, IInv, TypeOK, OrderInv, AnswerInv, ToldInv, RecordedMeansReloaded, ToldTheTruth
<1> QED BY <1>1, <1>2, <1>3, <1>4, <1>5 DEF IInv

LEMMA DialKeeps == IInv /\ Dial => IInv'
<1> SUFFICES ASSUME IInv, Dial PROVE IInv'
    OBVIOUS
<1> USE DEF Dial, config, call, result, stream, history, Return
<1>0. pc \notin {"start", "done"} => n \in Exchanges /\ req # "none"
      BY Current DEF IInv
<1>p. ProgramTypeOK'
      BY <1>0, SMT DEF IInv, TypeOK, ProgramTypeOK, ServerTypeOK, OrderInv, Transports
<1>s. ServerTypeOK'
      BY <1>0, SMT DEF IInv, TypeOK, ProgramTypeOK, ServerTypeOK, OrderInv, Transports
<1>1. TypeOK'
      BY <1>p, <1>s DEF TypeOK
<1>2. OrderInv'
      BY <1>0, SMT DEF IInv, TypeOK, ProgramTypeOK, ServerTypeOK, OrderInv, Transports
<1>3. SocketInv'
      BY <1>0, SMT DEF IInv, TypeOK, ProgramTypeOK, ServerTypeOK, OrderInv, SocketInv, NothingLeftOpen, Exchanges
<1>4. AnswerInv'
      BY <1>0, SMT DEF IInv, TypeOK, ProgramTypeOK, ServerTypeOK, OrderInv, AnswerInv, HeadSent, ValueSent
<1>5. ToldInv'
      BY <1>0, SMT DEF IInv, TypeOK, ProgramTypeOK, ServerTypeOK, OrderInv, AnswerInv, ToldInv, RecordedMeansReloaded, ToldTheTruth
<1> QED BY <1>1, <1>2, <1>3, <1>4, <1>5 DEF IInv

LEMMA WriteKeeps == IInv /\ Write => IInv'
<1> SUFFICES ASSUME IInv, Write PROVE IInv'
    OBVIOUS
<1> USE DEF Write, config, call, result, stream, history, Deliver
<1>0. pc \notin {"start", "done"} => n \in Exchanges /\ req # "none"
      BY Current DEF IInv
<1>p. ProgramTypeOK'
      BY <1>0, SMT DEF IInv, TypeOK, ProgramTypeOK, ServerTypeOK, OrderInv, Transports
<1>s. ServerTypeOK'
      BY <1>0, SMT DEF IInv, TypeOK, ProgramTypeOK, ServerTypeOK, OrderInv, Transports
<1>1. TypeOK'
      BY <1>p, <1>s DEF TypeOK
<1>2. OrderInv'
      BY <1>0, SMT DEF IInv, TypeOK, ProgramTypeOK, ServerTypeOK, OrderInv, Transports
<1>3. SocketInv'
      BY <1>0, SMT DEF IInv, TypeOK, ProgramTypeOK, ServerTypeOK, OrderInv, SocketInv, NothingLeftOpen, Exchanges
<1>4. AnswerInv'
      BY <1>0, SMT DEF IInv, TypeOK, ProgramTypeOK, ServerTypeOK, OrderInv, AnswerInv, HeadSent, ValueSent
<1>5. ToldInv'
      BY <1>0, SMT DEF IInv, TypeOK, ProgramTypeOK, ServerTypeOK, OrderInv, AnswerInv, ToldInv, RecordedMeansReloaded, ToldTheTruth
<1> QED BY <1>1, <1>2, <1>3, <1>4, <1>5 DEF IInv

LEMMA WriteErrKeeps == IInv /\ WriteErr => IInv'
<1> SUFFICES ASSUME IInv, WriteErr PROVE IInv'
    OBVIOUS
<1> USE DEF WriteErr, config, call, result, stream, history, Deliver, Teardown, Return
<1>0. pc \notin {"start", "done"} => n \in Exchanges /\ req # "none"
      BY Current DEF IInv
<1>p. ProgramTypeOK'
      BY <1>0, SMT DEF IInv, TypeOK, ProgramTypeOK, ServerTypeOK, OrderInv, Transports
<1>s. ServerTypeOK'
      BY <1>0, SMT DEF IInv, TypeOK, ProgramTypeOK, ServerTypeOK, OrderInv, Transports
<1>1. TypeOK'
      BY <1>p, <1>s DEF TypeOK
<1>2. OrderInv'
      BY <1>0, SMT DEF IInv, TypeOK, ProgramTypeOK, ServerTypeOK, OrderInv, Transports
<1>3. SocketInv'
      BY <1>0, SMT DEF IInv, TypeOK, ProgramTypeOK, ServerTypeOK, OrderInv, SocketInv, NothingLeftOpen, Exchanges
<1>4. AnswerInv'
      BY <1>0, SMT DEF IInv, TypeOK, ProgramTypeOK, ServerTypeOK, OrderInv, AnswerInv, HeadSent, ValueSent
<1>5. ToldInv'
      BY <1>0, SMT DEF IInv, TypeOK, ProgramTypeOK, ServerTypeOK, OrderInv, AnswerInv, ToldInv, RecordedMeansReloaded, ToldTheTruth
<1> QED BY <1>1, <1>2, <1>3, <1>4, <1>5 DEF IInv

LEMMA HeadKeeps == IInv /\ Head => IInv'
<1> SUFFICES ASSUME IInv, Head PROVE IInv'
    OBVIOUS
<1> USE DEF Head, config, call, result, stream, history, ReadHead
<1>0. pc \notin {"start", "done"} => n \in Exchanges /\ req # "none"
      BY Current DEF IInv
<1>p. ProgramTypeOK'
      BY <1>0, SMT DEF IInv, TypeOK, ProgramTypeOK, ServerTypeOK, OrderInv, Transports
<1>s. ServerTypeOK'
      BY <1>0, SMT DEF IInv, TypeOK, ProgramTypeOK, ServerTypeOK, OrderInv, Transports
<1>1. TypeOK'
      BY <1>p, <1>s DEF TypeOK
<1>2. OrderInv'
      BY <1>0, SMT DEF IInv, TypeOK, ProgramTypeOK, ServerTypeOK, OrderInv, Transports
<1>3. SocketInv'
      BY <1>0, SMT DEF IInv, TypeOK, ProgramTypeOK, ServerTypeOK, OrderInv, SocketInv, NothingLeftOpen, Exchanges
<1>4. AnswerInv'
      BY <1>0, SMT DEF IInv, TypeOK, ProgramTypeOK, ServerTypeOK, OrderInv, AnswerInv, HeadSent, ValueSent
<1>5. ToldInv'
      <2>1. res = "none" /\ ((res' = "unauthorized") => refused')
            BY DEF IInv, AnswerInv
      <2>2. pc' # "decode" => res' # "ok" \/ req = "reload"
            OBVIOUS
      <2>3. pc' = "decode" => req # "reload"
            OBVIOUS
      <2> QED BY <1>0, <2>1, <2>2, <2>3, SMT
              DEF IInv, TypeOK, ProgramTypeOK, ServerTypeOK, ToldInv, RecordedMeansReloaded, ToldTheTruth
<1> QED BY <1>1, <1>2, <1>3, <1>4, <1>5 DEF IInv

LEMMA HeadErrKeeps == IInv /\ HeadErr => IInv'
<1> SUFFICES ASSUME IInv, HeadErr PROVE IInv'
    OBVIOUS
<1> USE DEF HeadErr, config, call, result, stream, history, Teardown, Return
<1>0. pc \notin {"start", "done"} => n \in Exchanges /\ req # "none"
      BY Current DEF IInv
<1>p. ProgramTypeOK'
      BY <1>0, SMT DEF IInv, TypeOK, ProgramTypeOK, ServerTypeOK, OrderInv, Transports
<1>s. ServerTypeOK'
      BY <1>0, SMT DEF IInv, TypeOK, ProgramTypeOK, ServerTypeOK, OrderInv, Transports
<1>1. TypeOK'
      BY <1>p, <1>s DEF TypeOK
<1>2. OrderInv'
      BY <1>0, SMT DEF IInv, TypeOK, ProgramTypeOK, ServerTypeOK, OrderInv, Transports
<1>3. SocketInv'
      BY <1>0, SMT DEF IInv, TypeOK, ProgramTypeOK, ServerTypeOK, OrderInv, SocketInv, NothingLeftOpen, Exchanges
<1>4. AnswerInv'
      BY <1>0, SMT DEF IInv, TypeOK, ProgramTypeOK, ServerTypeOK, OrderInv, AnswerInv, HeadSent, ValueSent
<1>5. ToldInv'
      BY <1>0, SMT DEF IInv, TypeOK, ProgramTypeOK, ServerTypeOK, OrderInv, AnswerInv, ToldInv, RecordedMeansReloaded, ToldTheTruth
<1> QED BY <1>1, <1>2, <1>3, <1>4, <1>5 DEF IInv

LEMMA DecodeKeeps == IInv /\ Decode => IInv'
<1> SUFFICES ASSUME IInv, Decode PROVE IInv'
    OBVIOUS
<1> USE DEF Decode, config, call, result, stream, history
<1>0. pc \notin {"start", "done"} => n \in Exchanges /\ req # "none"
      BY Current DEF IInv
<1>p. ProgramTypeOK'
      BY <1>0, SMT DEF IInv, TypeOK, ProgramTypeOK, ServerTypeOK, OrderInv, Transports
<1>s. ServerTypeOK'
      BY <1>0, SMT DEF IInv, TypeOK, ProgramTypeOK, ServerTypeOK, OrderInv, Transports
<1>1. TypeOK'
      BY <1>p, <1>s DEF TypeOK
<1>2. OrderInv'
      BY <1>0, SMT DEF IInv, TypeOK, ProgramTypeOK, ServerTypeOK, OrderInv, Transports
<1>3. SocketInv'
      BY <1>0, SMT DEF IInv, TypeOK, ProgramTypeOK, ServerTypeOK, OrderInv, SocketInv, NothingLeftOpen, Exchanges
<1>4. AnswerInv'
      BY <1>0, SMT DEF IInv, TypeOK, ProgramTypeOK, ServerTypeOK, OrderInv, AnswerInv, HeadSent, ValueSent
<1>5. ToldInv'
      BY <1>0, SMT DEF IInv, TypeOK, ProgramTypeOK, ServerTypeOK, OrderInv, AnswerInv, ToldInv, RecordedMeansReloaded, ToldTheTruth
<1> QED BY <1>1, <1>2, <1>3, <1>4, <1>5 DEF IInv

LEMMA DecodeErrKeeps == IInv /\ DecodeErr => IInv'
<1> SUFFICES ASSUME IInv, DecodeErr PROVE IInv'
    OBVIOUS
<1> USE DEF DecodeErr, config, call, result, stream, history
<1>0. pc \notin {"start", "done"} => n \in Exchanges /\ req # "none"
      BY Current DEF IInv
<1>p. ProgramTypeOK'
      BY <1>0, SMT DEF IInv, TypeOK, ProgramTypeOK, ServerTypeOK, OrderInv, Transports
<1>s. ServerTypeOK'
      BY <1>0, SMT DEF IInv, TypeOK, ProgramTypeOK, ServerTypeOK, OrderInv, Transports
<1>1. TypeOK'
      BY <1>p, <1>s DEF TypeOK
<1>2. OrderInv'
      BY <1>0, SMT DEF IInv, TypeOK, ProgramTypeOK, ServerTypeOK, OrderInv, Transports
<1>3. SocketInv'
      BY <1>0, SMT DEF IInv, TypeOK, ProgramTypeOK, ServerTypeOK, OrderInv, SocketInv, NothingLeftOpen, Exchanges
<1>4. AnswerInv'
      BY <1>0, SMT DEF IInv, TypeOK, ProgramTypeOK, ServerTypeOK, OrderInv, AnswerInv, HeadSent, ValueSent
<1>5. ToldInv'
      BY <1>0, SMT DEF IInv, TypeOK, ProgramTypeOK, ServerTypeOK, OrderInv, AnswerInv, ToldInv, RecordedMeansReloaded, ToldTheTruth
<1> QED BY <1>1, <1>2, <1>3, <1>4, <1>5 DEF IInv

LEMMA CloseBodyKeeps == IInv /\ CloseBody => IInv'
<1> SUFFICES ASSUME IInv, CloseBody PROVE IInv'
    OBVIOUS
<1> USE DEF CloseBody, config, call, result, stream, history, Teardown, Return
<1>0. pc \notin {"start", "done"} => n \in Exchanges /\ req # "none"
      BY Current DEF IInv
<1>p. ProgramTypeOK'
      BY <1>0, SMT DEF IInv, TypeOK, ProgramTypeOK, ServerTypeOK, OrderInv, Transports
<1>s. ServerTypeOK'
      BY <1>0, SMT DEF IInv, TypeOK, ProgramTypeOK, ServerTypeOK, OrderInv, Transports
<1>1. TypeOK'
      BY <1>p, <1>s DEF TypeOK
<1>2. OrderInv'
      BY <1>0, SMT DEF IInv, TypeOK, ProgramTypeOK, ServerTypeOK, OrderInv, Transports
<1>3. SocketInv'
      BY <1>0, SMT DEF IInv, TypeOK, ProgramTypeOK, ServerTypeOK, OrderInv, SocketInv, NothingLeftOpen, Exchanges
<1>4. AnswerInv'
      BY <1>0, SMT DEF IInv, TypeOK, ProgramTypeOK, ServerTypeOK, OrderInv, AnswerInv, HeadSent, ValueSent
<1>5. ToldInv'
      BY <1>0, SMT DEF IInv, TypeOK, ProgramTypeOK, ServerTypeOK, OrderInv, AnswerInv, ToldInv, RecordedMeansReloaded, ToldTheTruth
<1> QED BY <1>1, <1>2, <1>3, <1>4, <1>5 DEF IInv

LEMMA ServerHeadKeeps == IInv /\ ServerHead => IInv'
<1> SUFFICES ASSUME IInv, ServerHead PROVE IInv'
    OBVIOUS
<1> USE DEF ServerHead, config, call, result, stream, history
<1>0. pc \notin {"start", "done"} => n \in Exchanges /\ req # "none"
      BY Current DEF IInv
<1>a. PICK status \in {"success", "denied", "other", "malformed"}, drains \in BOOLEAN :
        /\ status = "success" /\ req = "reload" => put = "done"
        /\ answer' = [status |-> status, drains |-> drains, good |-> FALSE]
      OBVIOUS
<1>b. answer' \in Answers /\ answer'.status = status
      BY <1>a DEF Answers
<1>p. ProgramTypeOK'
      BY <1>0, <1>a, <1>b, SMT DEF IInv, TypeOK, ProgramTypeOK, ServerTypeOK, OrderInv, Transports
<1>s. ServerTypeOK'
      BY <1>0, <1>a, <1>b, SMT DEF IInv, TypeOK, ProgramTypeOK, ServerTypeOK, OrderInv, Transports
<1>1. TypeOK'
      BY <1>p, <1>s DEF TypeOK
<1>2. OrderInv'
      BY <1>0, <1>a, <1>b, SMT DEF IInv, TypeOK, ProgramTypeOK, ServerTypeOK, OrderInv, Transports
<1>3. SocketInv'
      BY <1>0, <1>a, <1>b, SMT DEF IInv, TypeOK, ProgramTypeOK, ServerTypeOK, OrderInv, SocketInv, NothingLeftOpen, Exchanges
<1>4. AnswerInv'
      <2>1. /\ pc' = pc /\ req' = req /\ res' = res /\ put' = put /\ cmd' = cmd
            /\ view' = view /\ sent = 0 /\ sent' = 1 /\ pc \in {"head", "decode", "close"}
            /\ req = "reload" /\ answer'.status = "success" => put = "done"
            BY <1>a, <1>b DEF Asked
      <2>2. pc # "decode"
            BY <2>1 DEF IInv, AnswerInv, HeadSent
      <2> QED BY <2>1, <2>2 DEF IInv, AnswerInv, HeadSent, ValueSent
<1>5. ToldInv'
      BY <1>0, <1>a, <1>b, SMT DEF IInv, TypeOK, ProgramTypeOK, ServerTypeOK, OrderInv, AnswerInv, ToldInv, RecordedMeansReloaded, ToldTheTruth
<1> QED BY <1>1, <1>2, <1>3, <1>4, <1>5 DEF IInv

LEMMA ServerValueKeeps == IInv /\ ServerValue => IInv'
<1> SUFFICES ASSUME IInv, ServerValue PROVE IInv'
    OBVIOUS
<1> USE DEF ServerValue, config, call, result, stream, history
<1>0. pc \notin {"start", "done"} => n \in Exchanges /\ req # "none"
      BY Current DEF IInv
<1>a. answer' \in Answers /\ answer'.status = answer.status
      BY GoodKeepsStatus DEF IInv, TypeOK, ProgramTypeOK, ServerTypeOK
<1>b. view' \in Views
      BY DEF IInv, TypeOK, ProgramTypeOK, ServerTypeOK, Views
<1>p. ProgramTypeOK'
      BY <1>0, <1>a, <1>b, SMT DEF IInv, TypeOK, ProgramTypeOK, ServerTypeOK, OrderInv, Transports
<1>s. ServerTypeOK'
      BY <1>0, <1>a, <1>b, SMT DEF IInv, TypeOK, ProgramTypeOK, ServerTypeOK, OrderInv, Transports
<1>1. TypeOK'
      BY <1>p, <1>s DEF TypeOK
<1>2. OrderInv'
      BY <1>0, <1>a, <1>b, SMT DEF IInv, TypeOK, ProgramTypeOK, ServerTypeOK, OrderInv, Transports
<1>3. SocketInv'
      BY <1>0, <1>a, <1>b, SMT DEF IInv, TypeOK, ProgramTypeOK, ServerTypeOK, OrderInv, SocketInv, NothingLeftOpen, Exchanges
<1>c. /\ pc' = pc /\ req' = req /\ res' = res /\ put' = put /\ cmd' = cmd
      /\ sent = 1 /\ sent' = 2 /\ pc \in {"head", "decode", "close"}
      BY DEF Asked
<1>d. IF req = "connections" /\ answer.status = "success"
        THEN view'.taken /\ (view'.reloaded <=> put = "done")
        ELSE view' = view
      OBVIOUS
<1>4. AnswerInv'
      BY <1>a, <1>c, <1>d DEF IInv, AnswerInv, HeadSent, ValueSent
<1>5. ToldInv'
      <2>1. ~recorded /\ exit = -1 /\ told = "nothing"
            BY <1>c DEF IInv, ToldInv
      <2>2. /\ recorded' = recorded /\ exit' = exit /\ told' = told
            /\ pinged' = pinged /\ refused' = refused /\ via' = via
            OBVIOUS
      <2> QED BY <2>1, <2>2, <1>c DEF IInv, ToldInv, RecordedMeansReloaded, ToldTheTruth
<1> QED BY <1>1, <1>2, <1>3, <1>4, <1>5 DEF IInv

LEMMA ServerEndKeeps == IInv /\ ServerEnd => IInv'
<1> SUFFICES ASSUME IInv, ServerEnd PROVE IInv'
    OBVIOUS
<1> USE DEF ServerEnd, config, call, result, stream, history
<1>0. pc \notin {"start", "done"} => n \in Exchanges /\ req # "none"
      BY Current DEF IInv
<1>p. ProgramTypeOK'
      BY <1>0, SMT DEF IInv, TypeOK, ProgramTypeOK, ServerTypeOK, OrderInv, Transports
<1>s. ServerTypeOK'
      BY <1>0, SMT DEF IInv, TypeOK, ProgramTypeOK, ServerTypeOK, OrderInv, Transports
<1>1. TypeOK'
      BY <1>p, <1>s DEF TypeOK
<1>2. OrderInv'
      BY <1>0, SMT DEF IInv, TypeOK, ProgramTypeOK, ServerTypeOK, OrderInv, Transports
<1>3. SocketInv'
      BY <1>0, SMT DEF IInv, TypeOK, ProgramTypeOK, ServerTypeOK, OrderInv, SocketInv, NothingLeftOpen, Exchanges
<1>4. AnswerInv'
      BY <1>0, SMT DEF IInv, TypeOK, ProgramTypeOK, ServerTypeOK, OrderInv, AnswerInv, HeadSent, ValueSent
<1>5. ToldInv'
      BY <1>0, SMT DEF IInv, TypeOK, ProgramTypeOK, ServerTypeOK, OrderInv, AnswerInv, ToldInv, RecordedMeansReloaded, ToldTheTruth
<1> QED BY <1>1, <1>2, <1>3, <1>4, <1>5 DEF IInv

LEMMA ServerHangsKeeps == IInv /\ ServerHangs => IInv'
<1> SUFFICES ASSUME IInv, ServerHangs PROVE IInv'
    OBVIOUS
<1> USE DEF ServerHangs, config, call, result, stream, history
<1>0. pc \notin {"start", "done"} => n \in Exchanges /\ req # "none"
      BY Current DEF IInv
<1>p. ProgramTypeOK'
      BY <1>0, SMT DEF IInv, TypeOK, ProgramTypeOK, ServerTypeOK, OrderInv, Transports
<1>s. ServerTypeOK'
      BY <1>0, SMT DEF IInv, TypeOK, ProgramTypeOK, ServerTypeOK, OrderInv, Transports
<1>1. TypeOK'
      BY <1>p, <1>s DEF TypeOK
<1>2. OrderInv'
      BY <1>0, SMT DEF IInv, TypeOK, ProgramTypeOK, ServerTypeOK, OrderInv, Transports
<1>3. SocketInv'
      BY <1>0, SMT DEF IInv, TypeOK, ProgramTypeOK, ServerTypeOK, OrderInv, SocketInv, NothingLeftOpen, Exchanges
<1>4. AnswerInv'
      BY <1>0, SMT DEF IInv, TypeOK, ProgramTypeOK, ServerTypeOK, OrderInv, AnswerInv, HeadSent, ValueSent
<1>5. ToldInv'
      BY <1>0, SMT DEF IInv, TypeOK, ProgramTypeOK, ServerTypeOK, OrderInv, AnswerInv, ToldInv, RecordedMeansReloaded, ToldTheTruth
<1> QED BY <1>1, <1>2, <1>3, <1>4, <1>5 DEF IInv

LEMMA ServerReloadsKeeps == IInv /\ ServerReloads => IInv'
<1> SUFFICES ASSUME IInv, ServerReloads PROVE IInv'
    OBVIOUS
<1> USE DEF ServerReloads, config, call, result, stream, history
<1>0. pc \notin {"start", "done"} => n \in Exchanges /\ req # "none"
      BY Current DEF IInv
<1>p. ProgramTypeOK'
      BY <1>0, SMT DEF IInv, TypeOK, ProgramTypeOK, ServerTypeOK, OrderInv, Transports
<1>s. ServerTypeOK'
      BY <1>0, SMT DEF IInv, TypeOK, ProgramTypeOK, ServerTypeOK, OrderInv, Transports
<1>1. TypeOK'
      BY <1>p, <1>s DEF TypeOK
<1>2. OrderInv'
      BY <1>0, SMT DEF IInv, TypeOK, ProgramTypeOK, ServerTypeOK, OrderInv, Transports
<1>3. SocketInv'
      BY <1>0, SMT DEF IInv, TypeOK, ProgramTypeOK, ServerTypeOK, OrderInv, SocketInv, NothingLeftOpen, Exchanges
<1>4. AnswerInv'
      BY <1>0, SMT DEF IInv, TypeOK, ProgramTypeOK, ServerTypeOK, OrderInv, AnswerInv, HeadSent, ValueSent
<1>5. ToldInv'
      BY <1>0, SMT DEF IInv, TypeOK, ProgramTypeOK, ServerTypeOK, OrderInv, AnswerInv, ToldInv, RecordedMeansReloaded, ToldTheTruth
<1> QED BY <1>1, <1>2, <1>3, <1>4, <1>5 DEF IInv

LEMMA TrafficKeeps == IInv /\ Traffic => IInv'
<1> SUFFICES ASSUME IInv, Traffic PROVE IInv'
    OBVIOUS
<1> USE DEF Traffic, config, call, result, stream, history
<1>0. pc \notin {"start", "done"} => n \in Exchanges /\ req # "none"
      BY Current DEF IInv
<1>p. ProgramTypeOK'
      BY <1>0, SMT DEF IInv, TypeOK, ProgramTypeOK, ServerTypeOK, OrderInv, Transports
<1>s. ServerTypeOK'
      BY <1>0, SMT DEF IInv, TypeOK, ProgramTypeOK, ServerTypeOK, OrderInv, Transports
<1>1. TypeOK'
      BY <1>p, <1>s DEF TypeOK
<1>2. OrderInv'
      BY <1>0, SMT DEF IInv, TypeOK, ProgramTypeOK, ServerTypeOK, OrderInv, Transports
<1>3. SocketInv'
      BY <1>0, SMT DEF IInv, TypeOK, ProgramTypeOK, ServerTypeOK, OrderInv, SocketInv, NothingLeftOpen, Exchanges
<1>4. AnswerInv'
      BY <1>0, SMT DEF IInv, TypeOK, ProgramTypeOK, ServerTypeOK, OrderInv, AnswerInv, HeadSent, ValueSent
<1>5. ToldInv'
      BY <1>0, SMT DEF IInv, TypeOK, ProgramTypeOK, ServerTypeOK, OrderInv, AnswerInv, ToldInv, RecordedMeansReloaded, ToldTheTruth
<1> QED BY <1>1, <1>2, <1>3, <1>4, <1>5 DEF IInv

LEMMA WatchdogKeeps == IInv /\ Watchdog => IInv'
<1> SUFFICES ASSUME IInv, NEW i \in Exchanges, Expire(i) \/ DogCloses(i) PROVE IInv'
    BY DEF Watchdog
<1> USE DEF Expire, DogCloses, config, call, result, stream, history
<1>1. TypeOK'
      BY DEF IInv, TypeOK, ProgramTypeOK, ServerTypeOK
<1>2. OrderInv'
      BY DEF IInv, OrderInv
<1>3. SocketInv'
      <2>1. dog[i] # "off" /\ i <= n
            BY SMT DEF IInv, TypeOK, ProgramTypeOK, SocketInv, Exchanges
      <2>2. pc = "dial" => i # n
            BY <2>1 DEF IInv, SocketInv
      <2> QED BY <2>1, <2>2, SMT
              DEF IInv, TypeOK, ProgramTypeOK, SocketInv, NothingLeftOpen, Exchanges
<1>4. AnswerInv'
      BY DEF IInv, AnswerInv, HeadSent, ValueSent
<1>5. ToldInv'
      BY DEF IInv, ToldInv, RecordedMeansReloaded, ToldTheTruth
<1> QED BY <1>1, <1>2, <1>3, <1>4, <1>5 DEF IInv

LEMMA StutterKeeps == IInv /\ UNCHANGED vars => IInv'
<1> SUFFICES ASSUME IInv, UNCHANGED vars PROVE IInv'
    OBVIOUS
<1> USE DEF vars, config, call, result, stream, history
<1>1. TypeOK'
      BY DEF IInv, TypeOK, ProgramTypeOK, ServerTypeOK
<1>2. OrderInv' /\ SocketInv'
      BY DEF IInv, OrderInv, SocketInv, NothingLeftOpen
<1>3. AnswerInv' /\ ToldInv'
      BY DEF IInv, AnswerInv, HeadSent, ValueSent, ToldInv, RecordedMeansReloaded,
             ToldTheTruth
<1> QED BY <1>1, <1>2, <1>3 DEF IInv

LEMMA InvNext == IInv /\ [Next]_vars => IInv'
BY StartKeeps, OpenFailedKeeps, OpenedKeeps, ReloadedKeeps, ListedKeeps,
   DialKeeps, WriteKeeps, WriteErrKeeps, HeadKeeps, HeadErrKeeps,
   DecodeKeeps, DecodeErrKeeps, CloseBodyKeeps, ServerHeadKeeps, ServerValueKeeps,
   ServerEndKeeps, ServerHangsKeeps, ServerReloadsKeeps, TrafficKeeps, WatchdogKeeps, StutterKeeps
   DEF Next, Command, Exchange, Server, Ended

(* The inductive invariant holds of every behaviour. *)
LEMMA Invariance == Spec => []IInv
BY InvInit, InvNext, PTL DEF Spec

(* Types, for any connections. *)
THEOREM TypeCorrect == Spec => []TypeOK
BY Invariance, PTL DEF IInv

(* No request of Open, Connections or ReloadRuntime leaves its connection  *)
(* open or its watchdog armed behind it, whichever way it ended.           *)
THEOREM LeavesNothingOpen == Spec => []NothingLeftOpen
<1>1. IInv => NothingLeftOpen
      BY DEF IInv, SocketInv
<1> QED BY <1>1, Invariance, PTL

(* A recorded reload has happened, and judged what was open after it.      *)
THEOREM RecordsAreTrue == Spec => []RecordedMeansReloaded
<1>1. IInv => RecordedMeansReloaded
      BY DEF IInv, ToldInv
<1> QED BY <1>1, Invariance, PTL

(* Messages of a failure say what happened.                                *)
THEOREM TellsTheTruth == Spec => []ToldTheTruth
<1>1. IInv => ToldTheTruth
      BY DEF IInv, ToldInv
<1> QED BY <1>1, Invariance, PTL

-----------------------------------------------------------------------------
(* The refinement: what each step of a command is to module Reload.        *)

LEMMA PromiseInit == Init => Promise!Init
BY DEF Init, Promise!Init, NoView, AI, Promise!Unseen

LEMMA VerdictIsCode == \A conns : Verdict(conns) = Promise!Code(conns)
BY DEF Verdict, Promise!Code

(* Steps that neither end a command, reload, list nor open a connection.   *)
LEMMA QuietStep ==
    ASSUME UNCHANGED <<live, view, cmd, exit, recorded>>,
           put' = "done" <=> put = "done"
    PROVE  UNCHANGED Promise!vars
BY DEF Promise!vars

(* What only moves the exchange along. *)
LEMMA ExchangeIsQuiet ==
    ASSUME IInv, Exchange \/ Watchdog \/ ServerHead \/ ServerEnd \/ ServerHangs
                 \/ UNCHANGED vars
    PROVE  UNCHANGED Promise!vars
<1> USE DEF config, call, result, stream, history
<1>1. UNCHANGED <<live, view, cmd, exit, recorded>>
      <2>1. CASE Exchange
            BY <2>1 DEF Exchange, Dial, Write, WriteErr, Head, ReadHead, HeadErr, Decode,
                        DecodeErr, CloseBody
      <2>2. CASE Watchdog
            BY <2>2 DEF Watchdog, Expire, DogCloses
      <2>3. CASE ServerHead \/ ServerEnd \/ ServerHangs \/ UNCHANGED vars
            BY <2>3 DEF ServerHead, ServerEnd, ServerHangs, vars
      <2> QED BY <2>1, <2>2, <2>3
<1>2. put' = "done" <=> put = "done"
      <2>1. CASE Write \/ WriteErr
            <3>1. req = "reload" => put = "none"
                  BY <2>1 DEF Write, WriteErr, IInv, AnswerInv
            <3> QED BY <2>1, <3>1 DEF Write, WriteErr, Deliver
      <2>2. CASE Exchange /\ ~(Write \/ WriteErr)
            BY <2>2 DEF Exchange, Dial, Head, ReadHead, HeadErr, Decode, DecodeErr,
                        CloseBody
      <2>3. CASE Watchdog
            BY <2>3 DEF Watchdog, Expire, DogCloses
      <2>4. CASE ServerHead \/ ServerEnd \/ ServerHangs \/ UNCHANGED vars
            BY <2>4 DEF ServerHead, ServerEnd, ServerHangs, vars
      <2> QED BY <2>1, <2>2, <2>3, <2>4
<1> QED BY <1>1, <1>2, QuietStep

(* A command that ends in a message fails its promise, or promised nothing. *)
LEMMA FinishFails ==
    ASSUME IInv, pc # "done", UNCHANGED <<live, view, cmd, put, recorded>>,
           exit' = exit \/ exit' = 2 \/ cmd # "reload"
    PROVE  Promise!Fail \/ UNCHANGED Promise!vars
<1>1. exit = -1
      BY DEF IInv, ToldInv
<1> QED BY <1>1 DEF Promise!Fail, Promise!vars

LEMMA CommandKeepsPromise ==
    ASSUME IInv, Command
    PROVE  Promise!Next \/ UNCHANGED Promise!vars
<1> USE DEF config, call, result, stream, history
<1>1. CASE Start \/ OpenFailed \/ Opened \/ Reloaded
      <2>1. /\ pc # "done" /\ UNCHANGED <<live, view, cmd, put, recorded>>
            /\ exit' = exit \/ exit' = 2 \/ cmd # "reload"
            <3>1. CASE Start \/ OpenFailed
                  BY <3>1 DEF Start, OpenFailed, Finish, Request, Unreachable
            <3>2. CASE Opened \/ Reloaded
                  BY <3>2 DEF Opened, Reloaded, Finish, Request
            <3> QED BY <1>1, <3>1, <3>2
      <2> QED BY <2>1, FinishFails DEF Promise!Next
<1>2. CASE Listed
      <2>1. CASE res = "ok" /\ cmd = "reload"
            <3>1. /\ exit = -1 /\ view.taken
                  BY <1>2, <2>1 DEF Listed, IInv, AnswerInv, ToldInv
            <3>2. /\ exit' = Verdict(view.conns) /\ recorded' = TRUE
                  /\ UNCHANGED <<live, view, cmd, put>>
                  BY <1>2, <2>1 DEF Listed, Finish
            <3>3. Promise!Judge
                  BY <2>1, <3>1, <3>2, VerdictIsCode DEF Promise!Judge
            <3> QED BY <3>3 DEF Promise!Next
      <2>2. CASE ~(res = "ok" /\ cmd = "reload")
            <3>1. /\ pc # "done" /\ UNCHANGED <<live, view, cmd, put, recorded>>
                  /\ exit' = 2 \/ cmd # "reload"
                  BY <1>2, <2>2 DEF Listed, Finish
            <3> QED BY <3>1, FinishFails DEF Promise!Next
      <2> QED BY <2>1, <2>2
<1> QED BY <1>1, <1>2 DEF Command

LEMMA ServerKeepsPromise ==
    ASSUME IInv, ServerValue \/ ServerReloads \/ Traffic
    PROVE  Promise!Next \/ UNCHANGED Promise!vars
<1> USE DEF config, call, result, stream, history
<1>1. CASE ServerValue
      <2>1. /\ pc # "done" /\ sent = 1
            /\ UNCHANGED <<live, cmd, put, exit, recorded>>
            BY <1>1 DEF ServerValue, Asked
      <2>2. CASE req = "connections" /\ answer.status = "success" /\ cmd = "reload"
            <3>1. put = "done" /\ exit = -1 /\ ~view.taken
                  BY <2>1, <2>2 DEF IInv, AnswerInv, ToldInv, ValueSent
            <3>2. view'.taken = TRUE /\ view'.conns = live
                  BY <1>1, <2>2 DEF ServerValue
            <3>3. Promise!Look
                  BY <2>1, <2>2, <3>1, <3>2 DEF Promise!Look
            <3> QED BY <3>3 DEF Promise!Next
      <2>3. CASE cmd # "reload"
            BY <2>1, <2>3 DEF Promise!vars
      <2>4. CASE ~(req = "connections" /\ answer.status = "success")
            <3>1. view' = view
                  BY <1>1, <2>4 DEF ServerValue
            <3> QED BY <2>1, <3>1, QuietStep
      <2> QED BY <2>2, <2>3, <2>4
<1>2. CASE ServerReloads
      BY <1>2 DEF ServerReloads, Promise!Next, Promise!Apply
<1>3. CASE Traffic
      BY <1>3 DEF Traffic, AI, Promise!Next, Promise!Change
<1> QED BY <1>1, <1>2, <1>3

(* A reload implements module Reload: its verdict and its record are of    *)
(* one look at the open connections after the configuration was read.      *)
THEOREM KeepsThePromise == Spec => ReloadPromise
<1>1. Init => Promise!Init
      BY PromiseInit
<1>2. IInv /\ [Next]_vars => [Promise!Next]_(Promise!vars)
      BY ExchangeIsQuiet, CommandKeepsPromise, ServerKeepsPromise
         DEF Next, Server, Ended
<1> QED BY <1>1, <1>2, Invariance, PTL DEF Spec, ReloadPromise, Promise!Spec
=============================================================================
