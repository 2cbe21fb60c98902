------------------------------ MODULE MCLifecycle ------------------------------
(***************************************************************************)
(* Lifecycle with interchangeable requests.                                *)
(***************************************************************************)
EXTENDS Lifecycle, TLC

CONSTANTS r1, r2

MCReq == {r1, r2}
=============================================================================
