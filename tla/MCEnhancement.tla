--------------------------- MODULE MCEnhancement ----------------------------
(* One or two command lines (interchangeable), two bootstrap nodes, one    *)
(* with a quote in its name, two seconds; the --bootstrap list names a     *)
(* node twice, --node also gives the other name with its quote doubled.    *)
EXTENDS EnhancementText

CONSTANTS p1, p2

a == Name("a", 0)
b == Name("b", 1)

MCNodes      == {"a", "b"}
MCGiven      == {a, b, Doubled(b)}
MCBootstraps == {<<a, b, a>>}
MCSymmetry   == Permutations(Procs)
=============================================================================
