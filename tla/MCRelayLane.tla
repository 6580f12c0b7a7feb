---------------------------- MODULE MCRelayLane ----------------------------
(* One or two joiners over a few connections through the relay.            *)
EXTENDS RelayLane, TLC

Slots == Permutations(Conn)
=============================================================================
