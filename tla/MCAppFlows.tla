----------------------------- MODULE MCAppFlows -----------------------------
(* Two channels of three pages: enough for a page of one channel to arrive   *)
(* in the other, and for a page to arrive twice.                           *)
EXTENDS AppFlows
=============================================================================
