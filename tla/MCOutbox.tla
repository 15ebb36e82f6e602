------------------------------ MODULE MCOutbox ------------------------------
(* Outbox for TLC.  No symmetry: the fair specification also serves the        *)
(* liveness run, where symmetry is unsound.                                    *)
EXTENDS Outbox, TLC
=============================================================================
