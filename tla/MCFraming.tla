----------------------------- MODULE MCFraming -----------------------------
(* The instance of Framing for TLC: lengths scaled down so that a read can *)
(* cut any packet, and bring two of the small ones.                        *)
EXTENDS Framing
=============================================================================
