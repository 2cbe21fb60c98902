------------------------------ MODULE MCExchange ------------------------------
(***************************************************************************)
(* Exchange on the statuses the tables of ServiceErrors tell apart and the *)
(* ids that routing tells apart.                                           *)
(***************************************************************************)
EXTENDS Exchange

MCStatus  == {NoAnswer, 400, 404, 406, 408, 409, 422, 429, 500, 503}
MCIdClass == {"good", "malformed", "dots", "empty"}
=============================================================================
