----------------------------- MODULE MCPageFlip -----------------------------
(* Instances of PageFlip: two CRTCs on one frame buffer and a second one.  *)
EXTENDS PageFlip

CONSTANTS front, back
MCBuf == {front, back}
=============================================================================
