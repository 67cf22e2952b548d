----------------------------- MODULE MCOutbound -----------------------------
(* Two leads alike, one event tomorrow. *)
EXTENDS Outbound, TLC

Perms == Permutations(Lead)
=============================================================================
