---------------------------- MODULE MCKillSwitch ----------------------------
(* One user and the refresh task, with two packages of one display name    *)
(* and a release of the standalone build, or with two releases of it.      *)
(* Releases are 1 and 2; in the first order their directory names sort as  *)
(* they were released, in the second as app-1.9 and app-1.10 do.           *)
EXTENDS KillSwitch

CONSTANTS store, beta, claude, standalone, user, refresh

MCPackageLabel == [k \in Packages |-> claude]
ReleaseOrder   == [v \in Versions |-> v]
StringOrder    == [v \in Versions |-> 10 - v]
=============================================================================
