--------------------------- MODULE MCNetworkRange ---------------------------
(* Instances of NetworkRange for TLC; the .cfg files give the constants. *)
EXTENDS NetworkRange
=============================================================================
