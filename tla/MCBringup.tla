----------------------------- MODULE MCBringup -----------------------------
(* Instances of Bringup.                                                   *)
EXTENDS Bringup

\* A file that is a whole number of packets, one that ends in a short packet and
\* is longer, and a short one.
Files == <<2, 3, 1>>
=============================================================================
