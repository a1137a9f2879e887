------------------------------- MODULE Archive --------------------------------
(***************************************************************************)
(* What apply and switch-bootstrap promise the owner of the profile        *)
(* (README.md:17, 71): a file's content is never emptied before it is in   *)
(* the archive of backups, nothing leaves the archive, and what fills the  *)
(* file is rendered from the configuration, or an archived list with one   *)
(* candidate moved ahead, the quotes inside its names doubled once more;   *)
(* all until the file is disturbed.                                        *)
(***************************************************************************)
EXTENDS Integers, Sequences, Names

CONSTANTS Files,
          Editable,    \* the files others rewrite
          Saved,       \* what they save
          Renderings,  \* what the configurations make of each file
          Absent, Torn

VARIABLES file, archive, disturbed

vars == <<file, archive, disturbed>>

(* Nothing but f changes. *)
Only(f, old, new) == \A g \in Files \ {f} : new[g] = old[g]

MovedAhead(new, old) ==
    /\ new.kind = old.kind /\ Len(new.data) = Len(old.data)
    /\ \E k \in 1 .. Len(old.data) :
         /\ new.data[1] = Doubled(old.data[k])
         /\ \A i \in 1 .. k - 1 : new.data[i + 1] = Doubled(old.data[i])
         /\ \A i \in k + 1 .. Len(old.data) : new.data[i] = Doubled(old.data[i])

Init ==
    /\ DOMAIN file = Files
    /\ archive = [f \in Files |-> {}]
    /\ disturbed = {}

Edit(f) ==
    /\ f \in Editable
    /\ file' = [file EXCEPT ![f] = Saved]
    /\ UNCHANGED <<archive, disturbed>>

(* What is archived is in the file, or was when somebody else changed it. *)
Keep(f) ==
    /\ UNCHANGED <<file, disturbed>>
    /\ Only(f, archive, archive')
    /\ \/ archive'[f] = archive[f] \cup {file[f]}
       \/ f \in Editable /\ archive[f] \subseteq archive'[f]

Empty(f) ==
    /\ file' = [file EXCEPT ![f] = Torn]
    /\ file[f] \in archive[f] \cup {Absent, Torn}
    /\ UNCHANGED <<archive, disturbed>>

Fill(f) ==
    /\ file[f] = Torn
    /\ Only(f, file, file')
    /\ \/ file'[f] \in Renderings[f]
       \/ f = "groups" /\ \E old \in archive[f] : MovedAhead(file'[f], old)
    /\ UNCHANGED <<archive, disturbed>>

(* Two writers meet at the file, or two backups at one name. *)
Disturb(f) ==
    /\ disturbed' = disturbed \cup {f}
    /\ Only(f, file, file') /\ Only(f, archive, archive')

Next == \E f \in Files : Edit(f) \/ Keep(f) \/ Empty(f) \/ Fill(f) \/ Disturb(f)

Spec == Init /\ [][Next]_vars
=============================================================================
