------------------------- MODULE MCRbcpHandshake -------------------------
(* Two slots, a small ring and a token byte of two values, so that the     *)
(* ring fills and the token carries within a few commands.                 *)
EXTENDS RbcpHandshake
=============================================================================
