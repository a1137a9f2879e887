------------------------------ MODULE Controller ------------------------------
(***************************************************************************)
(* The transport to the proxy's controller (internal/controller) and the   *)
(* commands that use it (runReload, the opening of "monitor --once" and    *)
(* checkController in internal/cli/cli.go).                                *)
(*                                                                         *)
(* A command opens the controller by asking its version over TCP and, when *)
(* that fails, over the named pipe; reload then asks for the runtime       *)
(* configuration to be read again and lists the open connections.  Every   *)
(* request is an exchange of its own: dial, write, read the head, decode,  *)
(* close the body, with a watchdog goroutine that closes the connection at *)
(* the timeout, since a named pipe has no deadlines.  The server may       *)
(* answer in parts, with any status, with nonsense, late, or never; it may *)
(* hang up; it may apply a reload nobody waits for any more.  Of the open  *)
(* connections only those to AI targets count, and whether one leaks.      *)
(***************************************************************************)
EXTENDS Integers, FiniteSets

CONSTANTS Static,  \* AI connections whose chain is the static one
          Leaks    \* AI connections whose chain is another

ASSUME ControllerAssumption == Static \cap Leaks = {}

VARIABLES cmd, tcp, pipe, secret,  \* the command and what is configured
          pc, req, via, res,       \* the exchange: its step, request, transport and result
          n,                       \* exchanges begun
          sock, dog,               \* the socket and the watchdog of each
          exit, told, recorded,    \* exit code, message, and the activity file's lastReload
          \* the server
          sent, answer, hung,      \* parts sent (head, value, end), what it is, peer gone
          put, live,               \* the reload request, the open AI connections
          \* history
          view,                    \* connections the answer listed, and if after the reload
          pinged, refused          \* transports that answered /version; a 401 came

config  == <<cmd, tcp, pipe, secret>>
call    == <<req, via, n>>
result  == <<exit, told, recorded>>
stream  == <<sent, answer, hung>>
history == <<view, pinged, refused>>
vars    == <<config, call, pc, res, sock, dog, result, stream, put, live, history>>

Transports == {"tcp", "pipe"}
Exchanges  == 1 .. 4   \* two versions, a reload, a list
AI         == Static \cup Leaks
Answers    == [status : {"none", "success", "denied", "other", "malformed"},
               drains : BOOLEAN, good : BOOLEAN]
Views      == [conns : SUBSET AI, reloaded : BOOLEAN, taken : BOOLEAN]
NoView     == [conns |-> {}, reloaded |-> FALSE, taken |-> FALSE]
NoAnswer   == [status |-> "none", drains |-> FALSE, good |-> FALSE]

HeadSent  == sent >= 1
ValueSent == sent >= 2
EndSent   == sent = 3

(* Evaluate's AllStatic, as the exit code of a reload. *)
Verdict(conns) ==
    CASE conns = {}                           -> 1
      [] conns # {} /\ conns \cap Leaks = {}  -> 0
      [] OTHER                                -> 2

-----------------------------------------------------------------------------
Init ==
    /\ cmd \in {"reload", "monitor", "doctor"}
    /\ tcp \in BOOLEAN /\ pipe \in {"none", "unsupported", "usable"}
    /\ secret \in BOOLEAN
    /\ pc = "start" /\ req = "none" /\ via = "none" /\ res = "none" /\ n = 0
    /\ sock = [i \in Exchanges |-> "none"] /\ dog = [i \in Exchanges |-> "off"]
    /\ exit = -1 /\ told = "nothing" /\ recorded = FALSE
    /\ sent = 0 /\ answer = NoAnswer /\ hung = FALSE
    /\ put = "none" /\ live \in SUBSET AI
    /\ view = NoView /\ pinged = {} /\ refused = FALSE

Finish(code, message) ==
    /\ pc' = "done"
    /\ exit' = code /\ told' = message
    /\ UNCHANGED <<call, res, stream>>

Request(r, t) ==
    /\ pc' = "dial" /\ req' = r /\ via' = t /\ res' = "none" /\ n' = n + 1
    /\ sent' = 0 /\ answer' = NoAnswer /\ hung' = FALSE
    /\ UNCHANGED <<exit, told>>

(* printControllerError, and the exit code 2 of its callers.  Open reports *)
(* every failure as ErrNoController.  A doctor's check is a warning.       *)
Unreachable == Finish(IF cmd = "doctor" THEN 1 ELSE 2, "unreachable")

Usable(t) == IF t = "tcp" THEN tcp ELSE pipe = "usable"

(* A command gives up without a secret; a doctor asks without one.  Open   *)
(* begins with TCP, and has nothing to ask when neither is usable.         *)
Start ==
    /\ pc = "start"
    /\ \/ cmd # "doctor" /\ ~secret /\ Finish(2, "missing-secret")
       \/ /\ cmd = "doctor" \/ secret
          /\ \/ Usable("tcp") /\ Request("version", "tcp")
             \/ ~Usable("tcp") /\ Usable("pipe") /\ Request("version", "pipe")
             \/ ~Usable("tcp") /\ ~Usable("pipe") /\ Unreachable
    /\ UNCHANGED <<config, sock, dog, recorded, put, live, history>>

-----------------------------------------------------------------------------
(* The exchange.  What has been read may come from a buffer filled before  *)
(* the watchdog closed the socket, so both outcomes are possible then.     *)

Broken == sock[n] = "closed" \/ hung

TeardownKeepsSocket ==  \* a slip: the socket is left open
    /\ sock' = sock
    /\ dog' = [dog EXCEPT ![n] = IF @ = "armed" THEN "ended" ELSE @]

(* Stop the watchdog unless it is under way, and close the connection.     *)
Teardown ==
    /\ sock' = [sock EXCEPT ![n] = "closed"]
    /\ dog' = [dog EXCEPT ![n] = IF @ = "armed" THEN "ended" ELSE @]

Return(r) ==
    /\ pc' = "return"
    /\ res' = r

(* Connecting is not under the timeout: the watchdog starts after it.      *)
Dial ==
    /\ pc = "dial"
    /\ \/ /\ pc' = "write"
          /\ sock' = [sock EXCEPT ![n] = "open"]
          /\ dog' = [dog EXCEPT ![n] = "armed"]
          /\ UNCHANGED res
       \/ Return("failed") /\ UNCHANGED <<sock, dog>>
    /\ UNCHANGED <<config, call, result, stream, put, live, history>>

Deliver == put' = IF req = "reload" THEN "received" ELSE put

Write ==
    /\ pc = "write" /\ sock[n] = "open"
    /\ pc' = "head"
    /\ Deliver \/ (hung /\ UNCHANGED put)
    /\ UNCHANGED <<config, call, res, sock, dog, result, stream, live, history>>

(* The request may have gone out whole all the same.                       *)
WriteErr ==
    /\ pc = "write" /\ Broken
    /\ Teardown /\ Return("failed")
    /\ Deliver \/ UNCHANGED put
    /\ UNCHANGED <<config, call, result, stream, live, history>>

ReadHead ==
    /\ pc = "head" /\ HeadSent /\ answer.status # "malformed"
    /\ pc' = IF answer.status = "success" /\ req # "reload" THEN "decode" ELSE "close"
    /\ res' = CASE answer.status = "success" -> "ok"
                [] answer.status = "denied" -> "unauthorized"
                [] OTHER                 -> "failed"
    /\ refused' = (refused \/ answer.status = "denied")
    /\ UNCHANGED <<config, call, sock, result, stream, put, live, view, pinged>>

HeadStopsTimer ==  \* a slip: the timeout covers the head alone
    /\ ReadHead
    /\ dog' = [dog EXCEPT ![n] = IF @ = "armed" THEN "ended" ELSE @]

(* Any status but 2xx is an error, and its body is closed like another.    *)
Head == ReadHead /\ UNCHANGED dog

HeadErr ==
    /\ pc = "head"
    /\ Broken \/ (HeadSent /\ answer.status = "malformed")
    /\ Teardown /\ Return("failed")
    /\ UNCHANGED <<config, call, result, stream, put, live, history>>

(* One JSON value is decoded; what follows it is not waited for.           *)
Decode ==
    /\ pc = "decode" /\ ValueSent
    /\ pc' = "close"
    /\ res' = IF answer.good THEN "ok" ELSE "failed"
    /\ pinged' = IF req = "version" /\ answer.good THEN pinged \cup {via} ELSE pinged
    /\ UNCHANGED <<config, call, sock, dog, result, stream, put, live, view, refused>>

DecodeErr ==
    /\ pc = "decode" /\ Broken
    /\ pc' = "close" /\ res' = "failed"
    /\ UNCHANGED <<config, call, sock, dog, result, stream, put, live, history>>

CloseErrFails ==  \* a slip: the error of closing counts for every request
    /\ pc = "close"
    /\ \/ (~answer.drains \/ EndSent) /\ Return(res)
       \/ answer.drains /\ Broken /\ Return("failed")
    /\ Teardown
    /\ UNCHANGED <<config, call, result, stream, put, live, history>>

(* Closing a body may first read the rest of it.  Only a reload has its    *)
(* error returned.                                                         *)
CloseBody ==
    /\ pc = "close"
    /\ \/ /\ ~answer.drains \/ EndSent
          /\ Return(res)
       \/ /\ answer.drains /\ Broken
          /\ Return(IF req = "reload" THEN "failed" ELSE res)
    /\ Teardown
    /\ UNCHANGED <<config, call, result, stream, put, live, history>>

-----------------------------------------------------------------------------
(* The commands: what a returned call leads to.                            *)

OpenAsksAgain ==  \* a slip: the pipe is tried after the pipe, too
    /\ pc = "return" /\ req = "version" /\ res # "ok"
    /\ \/ Usable("pipe") /\ Request("version", "pipe")
       \/ ~Usable("pipe") /\ Unreachable
    /\ UNCHANGED <<config, sock, dog, recorded, put, live, history>>

(* Open's fallback to the pipe, and its single error.                      *)
OpenFailed ==
    /\ pc = "return" /\ req = "version" /\ res # "ok"
    /\ \/ via = "tcp" /\ Usable("pipe") /\ Request("version", "pipe")
       \/ ~(via = "tcp" /\ Usable("pipe")) /\ Unreachable
    /\ UNCHANGED <<config, sock, dog, recorded, put, live, history>>

OpenListsFirst ==  \* a slip: reload lists before it reloads
    /\ pc = "return" /\ req = "version" /\ res = "ok"
    /\ \/ cmd = "doctor" /\ Finish(0, "reachable")
       \/ cmd # "doctor" /\ Request("connections", via)
    /\ UNCHANGED <<config, sock, dog, recorded, put, live, history>>

Opened ==
    /\ pc = "return" /\ req = "version" /\ res = "ok"
    /\ \/ cmd = "doctor" /\ Finish(0, "reachable")
       \/ cmd = "monitor" /\ Request("connections", via)
       \/ cmd = "reload" /\ Request("reload", via)
    /\ UNCHANGED <<config, sock, dog, recorded, put, live, history>>

ReloadIgnoresErr ==  \* a slip: the reload's error is dropped
    /\ pc = "return" /\ req = "reload"
    /\ Request("connections", via)
    /\ UNCHANGED <<config, sock, dog, recorded, put, live, history>>

Reloaded ==
    /\ pc = "return" /\ req = "reload"
    /\ \/ res = "ok" /\ Request("connections", via)
       \/ res # "ok" /\ Finish(2, "reload-failed")
    /\ UNCHANGED <<config, sock, dog, recorded, put, live, history>>

(* The monitor goes on with what was listed (module Monitor); a reload     *)
(* judges it, and recordReload notes the time in the activity file.        *)
Listed ==
    /\ pc = "return" /\ req = "connections"
    /\ \/ /\ res # "ok"
          /\ Finish(2, IF res = "unauthorized" THEN "unauthorized" ELSE "error")
          /\ UNCHANGED recorded
       \/ /\ res = "ok" /\ cmd = "monitor"
          /\ Finish(-1, "polled") /\ UNCHANGED recorded
       \/ /\ res = "ok" /\ cmd = "reload"
          /\ Finish(Verdict(view.conns), "verdict") /\ recorded' = TRUE
    /\ UNCHANGED <<config, sock, dog, put, live, history>>

-----------------------------------------------------------------------------
(* The watchdog of exchange i: the timeout passes, its goroutine closes.   *)
Expire(i) ==
    /\ dog[i] = "armed"
    /\ dog' = [dog EXCEPT ![i] = "running"]
    /\ UNCHANGED <<config, call, pc, res, sock, result, stream, put, live, history>>

DogCloses(i) ==
    /\ dog[i] = "running"
    /\ dog' = [dog EXCEPT ![i] = "ended"]
    /\ sock' = [sock EXCEPT ![i] = "closed"]
    /\ UNCHANGED <<config, call, pc, res, result, stream, put, live, history>>

(* The server.  It answers a reload with 2xx once it has been done.        *)
Asked == pc \in {"head", "decode", "close"}

ServerHead ==
    /\ Asked /\ ~hung /\ sent = 0
    /\ sent' = 1
    /\ \E status \in {"success", "denied", "other", "malformed"}, drains \in BOOLEAN :
         /\ status = "success" /\ req = "reload" => put = "done"
         /\ answer' = [status |-> status, drains |-> drains, good |-> FALSE]
    /\ UNCHANGED <<config, call, pc, res, sock, dog, result, hung, put, live, history>>

(* The list shows the connections open as it is written.                   *)
ServerValue ==
    /\ Asked /\ ~hung /\ sent = 1
    /\ sent' = 2
    /\ \E good \in BOOLEAN : answer' = [answer EXCEPT !.good = good]
    /\ view' = IF req = "connections" /\ answer.status = "success"
                 THEN [conns |-> live, reloaded |-> put = "done", taken |-> TRUE]
                 ELSE view
    /\ UNCHANGED <<config, call, pc, res, sock, dog, result, hung, put, live,
                   pinged, refused>>

ServerEnd ==
    /\ Asked /\ ~hung /\ sent = 2
    /\ sent' = 3
    /\ UNCHANGED <<config, call, pc, res, sock, dog, result, answer, hung, put,
                   live, history>>

ServerHangs ==
    /\ pc \in {"write", "head", "decode", "close"} /\ ~hung
    /\ hung' = TRUE
    /\ UNCHANGED <<config, call, pc, res, sock, dog, result, sent, answer, put,
                   live, history>>

(* It may do so after the client has given up.                             *)
ServerReloads ==
    /\ put = "received"
    /\ put' = "done"
    /\ UNCHANGED <<config, call, pc, res, sock, dog, result, stream, live, history>>

Traffic ==
    /\ pc # "done" /\ cmd = "reload"
    /\ live' \in SUBSET AI
    /\ UNCHANGED <<config, call, pc, res, sock, dog, result, stream, put, history>>

Command  == Start \/ OpenFailed \/ Opened \/ Reloaded \/ Listed
Exchange == Dial \/ Write \/ WriteErr \/ Head \/ HeadErr \/ Decode \/ DecodeErr
            \/ CloseBody
Watchdog == \E i \in Exchanges : Expire(i) \/ DogCloses(i)
Server   == ServerHead \/ ServerValue \/ ServerEnd \/ ServerHangs \/ ServerReloads
            \/ Traffic

(* The command has ended; nothing is left to happen to it.                 *)
Ended == pc = "done" /\ UNCHANGED vars

Next == Command \/ Exchange \/ Watchdog \/ Server \/ Ended

(* The program runs on and a dial ends (the operating system gives up);    *)
(* what waits for the server is not fair until the server acts or the      *)
(* connection is closed; the timer and its goroutine are.                  *)
Fairness ==
    /\ WF_vars(Command) /\ WF_vars(Dial)
    /\ WF_vars(WriteErr \/ Head \/ HeadErr \/ Decode \/ DecodeErr \/ CloseBody)
    /\ \A i \in Exchanges : WF_vars(Expire(i)) /\ WF_vars(DogCloses(i))

Spec == Init /\ [][Next]_vars /\ Fairness

-----------------------------------------------------------------------------
ProgramTypeOK ==
    /\ cmd \in {"reload", "monitor", "doctor"}
    /\ tcp \in BOOLEAN /\ pipe \in {"none", "unsupported", "usable"}
    /\ secret \in BOOLEAN
    /\ pc \in {"start", "dial", "write", "head", "decode", "close", "return", "done"}
    /\ req \in {"none", "version", "reload", "connections"}
    /\ via \in Transports \cup {"none"}
    /\ res \in {"none", "ok", "failed", "unauthorized"}
    /\ n \in 0 .. 4
    /\ sock \in [Exchanges -> {"none", "open", "closed"}]
    /\ dog \in [Exchanges -> {"off", "armed", "running", "ended"}]
    /\ exit \in -1 .. 2 /\ recorded \in BOOLEAN
    /\ told \in {"nothing", "missing-secret", "unreachable", "unauthorized", "error",
                 "reload-failed", "verdict", "polled", "reachable"}

ServerTypeOK ==
    /\ sent \in 0 .. 3 /\ hung \in BOOLEAN
    /\ answer \in Answers
    /\ put \in {"none", "received", "done"} /\ live \in SUBSET AI
    /\ view \in Views
    /\ pinged \in SUBSET Transports /\ refused \in BOOLEAN

TypeOK == ProgramTypeOK /\ ServerTypeOK

(* No exchange outlives its call: whenever a call has returned, and so     *)
(* before the next is dialled, every socket is closed and no watchdog is   *)
(* left armed to close one later.                                          *)
NothingLeftOpen ==
    \A i \in Exchanges :
      (i < n \/ (i = n /\ pc \in {"return", "done"})) =>
        sock[i] # "open" /\ dog[i] # "armed"

(* A reload that is recorded, and so any exit code 0 or 1 of it, judged    *)
(* connections that were open after the configuration was read again; with *)
(* exit code 0 there was one and none leaked.                              *)
RecordedMeansReloaded ==
    /\ recorded => put = "done" /\ view.taken /\ view.reloaded
    /\ cmd = "reload" /\ exit \in {0, 1} => recorded
    /\ cmd = "reload" /\ exit = 0 => view.conns # {} /\ view.conns \cap Leaks = {}

(* What the user is told is so: "unauthorized" follows a 401; when told    *)
(* "unreachable" no transport had answered a version and no reload was     *)
(* sent, so it is safe to try again; a failed call of an opened controller *)
(* is never told as "unreachable".                                         *)
ToldTheTruth ==
    /\ told = "unauthorized" => refused
    /\ told = "unreachable" => pinged = {} /\ put = "none"
    /\ told \in {"reachable", "reload-failed", "error"} => pinged = {via}

(* A reload keeps the promise of module Reload: its list is one look at    *)
(* the open connections after the reload, and its verdict is of that look. *)
Promise == INSTANCE Reload WITH
    applied <- (put = "done"),
    seen    <- IF cmd = "reload" THEN [taken |-> view.taken, conns |-> view.conns]
                                 ELSE [taken |-> FALSE, conns |-> {}],
    exit    <- IF cmd = "reload" THEN exit ELSE -1
ReloadPromise == Promise!Spec

(* Every command ends, even if the server never answers: no request waits  *)
(* longer than its timeout, the draining of a body included.               *)
EveryCommandEnds == <>(pc = "done")

=============================================================================
