-------------------------------- MODULE Reload --------------------------------
(***************************************************************************)
(* What "reload" promises its user (docs/monitor-usage.md): exit codes 0   *)
(* and 1, and the record of a reload, speak of the AI connections that     *)
(* were open at one moment after the proxy had read its configuration      *)
(* again; 2 is that verdict too, or a failure, and after a failure the     *)
(* proxy may or may not have read it, or may yet.                          *)
(***************************************************************************)
EXTENDS Integers

CONSTANTS Static, Leaks

VARIABLES live,      \* AI connections open now
          applied,   \* whether the proxy has read its configuration again
          seen,      \* what was looked at: a set of connections, once
          exit, recorded

vars == <<live, applied, seen, exit, recorded>>

Unseen == [taken |-> FALSE, conns |-> {}]

Code(conns) ==
    CASE conns = {}          -> 1
      [] conns \cap Leaks # {} -> 2
      [] OTHER               -> 0

Init ==
    /\ live \subseteq Static \cup Leaks
    /\ applied = FALSE /\ seen = Unseen /\ exit = -1 /\ recorded = FALSE

Change ==
    /\ live' \subseteq Static \cup Leaks
    /\ UNCHANGED <<applied, seen, exit, recorded>>

Apply ==
    /\ ~applied
    /\ applied' = TRUE
    /\ UNCHANGED <<live, seen, exit, recorded>>

Look ==
    /\ applied /\ exit = -1 /\ ~seen.taken
    /\ seen' = [taken |-> TRUE, conns |-> live]
    /\ UNCHANGED <<live, applied, exit, recorded>>

Judge ==
    /\ seen.taken /\ exit = -1
    /\ exit' = Code(seen.conns)
    /\ recorded' = TRUE
    /\ UNCHANGED <<live, applied, seen>>

Fail ==
    /\ exit = -1
    /\ exit' = 2
    /\ UNCHANGED <<live, applied, seen, recorded>>

Next == Change \/ Apply \/ Look \/ Judge \/ Fail

Spec == Init /\ [][Next]_vars
=============================================================================
