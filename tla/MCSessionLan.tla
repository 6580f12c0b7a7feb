---------------------------- MODULE MCSessionLan ----------------------------
(* A joining app over a few connection slots.                           *)
EXTENDS SessionLan, TLC

CONSTANTS u1, x1

OneUser == (x1 :> u1)

Slots == Permutations(Conn)
=============================================================================
