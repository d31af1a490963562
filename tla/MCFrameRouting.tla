--------------------------- MODULE MCFrameRouting ---------------------------
(***************************************************************************)
(* Instances of FrameRouting for TLC: one peripheral puts its BLE address  *)
(* in its frames, the other one an address of its own.                     *)
(***************************************************************************)
EXTENDS FrameRouting

CONSTANTS p1, p2, b1, b2, m2

MCBle == p1 :> b1 @@ p2 :> b2
MCMac == p1 :> b1 @@ p2 :> m2
=============================================================================
