--------------------------- MODULE MCSessionHost ---------------------------
(* Two clients and a host, two action ids, at most one re-seed.            *)
EXTENDS SessionHost, TLC

Symmetry == Permutations(Client) \cup Permutations(ActionId)
=============================================================================
