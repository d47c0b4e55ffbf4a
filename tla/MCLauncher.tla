----------------------------- MODULE MCLauncher -----------------------------
(***************************************************************************)
(* Values for the constants of Launcher: two launchers with one --port.    *)
(***************************************************************************)
EXTENDS Launcher

MCStart == [l \in Launchers |-> 1]
=============================================================================
