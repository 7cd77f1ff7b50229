---------------------------- MODULE MCInactivity ----------------------------
(***************************************************************************)
(* Small instances of the inactivity check for TLC.                        *)
(***************************************************************************)
EXTENDS Inactivity

\* How far the clock can be set at once.
ByOneOrTwo == {-1, 1, 2}
=============================================================================
