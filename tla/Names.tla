-------------------------------- MODULE Names ---------------------------------
(***************************************************************************)
(* The names of nodes as the enhancement files carry them                  *)
(* (internal/identity/enhancement.go).  A name is a node, how many single  *)
(* quotes are inside it, and the remark the tool takes for a part of it: a *)
(* comment at the end of the item's line, and the quote before it that     *)
(* closed the name (191, 314).  Quotes at the ends of a name, which the    *)
(* tool strips, and comments that end in one are not modelled.             *)
(***************************************************************************)
EXTENDS Integers

Remarks == {"none", "plain", "single", "double"}

NamesOf(N) == [node : N, quotes : Nat, remark : Remarks]

Name(node, quotes) == [node |-> node, quotes |-> quotes, remark |-> "none"]
NoName == Name("", 0)

DoubledNot(m) == m  \* a slip: the quotes inside are left as they are

(* yamlSingleQuote writes each quote inside a name twice; the tool reads   *)
(* two quotes back, Clash one.                                             *)
Doubled(m) == [m EXCEPT !.quotes = 2 * @]
Halved(m)  == [m EXCEPT !.quotes = @ \div 2]

(* What the tool reads of a list of names that it has written. *)
AsWritten(s) == [i \in DOMAIN s |-> Doubled(s[i])]

=============================================================================
