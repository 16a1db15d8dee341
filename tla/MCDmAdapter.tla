---------------------------- MODULE MCDmAdapter ----------------------------
(* Instances of DmAdapter for TLC: two controllers on a two-channel adapter. *)
EXTENDS DmAdapter

CONSTANTS u1, u2

Alike == Permutations(Users)
=============================================================================
