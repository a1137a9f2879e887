-------------------------------- MODULE Lists --------------------------------
(***************************************************************************)
(* The loops over lists of the enhancement files' code, as recursive       *)
(* functions: kept[i] is what the loop has appended when it has passed i   *)
(* elements.                                                               *)
(***************************************************************************)
EXTENDS Integers, SequencesExt

(* The elements of s that are in S, in their order. *)
Within(s, S) ==
    LET kept[i \in 0 .. Len(s)] ==
          IF i = 0 THEN <<>>
          ELSE IF s[i] \in S THEN Append(kept[i - 1], s[i]) ELSE kept[i - 1]
    IN  kept[Len(s)]

Without(s, e) == Within(s, ToSet(s) \ {e})

(* A slip: the candidates as they are given. *)
keepAll(s) == s

(* The first occurrence of each element of s, in their order. *)
dedupeNonEmpty(s) ==
    LET kept[i \in 0 .. Len(s)] ==
          IF i = 0 THEN <<>>
          ELSE IF Contains(kept[i - 1], s[i]) THEN kept[i - 1]
               ELSE Append(kept[i - 1], s[i])
    IN  kept[Len(s)]

=============================================================================
