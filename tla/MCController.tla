----------------------------- MODULE MCController -----------------------------
(* Module Controller on one AI connection of each kind.                    *)
EXTENDS Controller

MCStatic == {"static"}
MCLeaks  == {"leak"}
=============================================================================
