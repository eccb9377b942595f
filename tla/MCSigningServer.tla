--------------------------- MODULE MCSigningServer ---------------------------
(* Two clients and one chip's values, so that every request competes with  *)
(* or repeats another, live and dry run.                                   *)
EXTENDS SigningServer
==============================================================================
