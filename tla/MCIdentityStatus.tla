-------------------------- MODULE MCIdentityStatus --------------------------
(* Two command lines (interchangeable), an AI client and the probe; two    *)
(* log files, three moments, and an age limit of one of them.              *)
EXTENDS IdentityStatus, TLC

CONSTANTS p1, p2

MCTargets  == {"claude", "probe"}
MCLoggable == {Route("claude", "static", TRUE), Route("claude", "static", FALSE),
               Route("claude", "nonstatic", TRUE), Route("probe", "direct", TRUE),
               Error("IPRoyal")}
MCProbeOnly == {Route("probe", "static", TRUE)}
MCSymmetry == Permutations(Procs)
=============================================================================
