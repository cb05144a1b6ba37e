--------------------------- MODULE MCNapiStartup ---------------------------
(* Instances of NapiStartup for TLC. *)
EXTENDS NapiStartup

CONSTANTS b1, b2

TwoModels == <<b1, b2>>
=============================================================================
