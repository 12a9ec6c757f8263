---------------------------- MODULE MCNetDevice -----------------------------
(* Two users, two ports, rings that wrap around.                           *)
EXTENDS NetDevice
=============================================================================
