---------------------------- MODULE MCRelayEdge ----------------------------
(* The relay around the lane, in three models that share no state: all rooms
   of the server (RelayRooms), one link to it byte by byte (FrameLink), and the
   dial that opens such a link (RelayDial).  A behaviour runs one of them. *)
EXTENDS RelayRooms

CONSTANTS a1, Prefix, MaxChunk, Window, MayBreak, DialTimeout, HandshakeTimeout, MaxAddresses

VARIABLES
  runs,  \* which of the three
  phase, waiting, rest, writing, reader, pipe, surplus, buffer, got, begun, given, cut,
  target, resolved, local, step, todo, elapsed, link

linkVars == <<phase, waiting, rest, writing, reader, pipe, surplus, buffer, got, begun, given, cut>>
dialVars == <<target, resolved, local, step, todo, elapsed, link>>

OneAddress == [c \in Conn |-> a1]

\* What the bridge writes after its hello fits the socket, so its writers never
\* wait for room while the relay's do; each end is given a frame over its cap,
\* and the relay refuses what the bridge may still send.
Ends(b, r) == [e \in {"bridge", "relay"} |-> IF e = "bridge" THEN b ELSE r]

Link == INSTANCE FrameLink WITH
          Sizes <- Ends({1, 3, 4}, {1, 2, 3}), Cap <- Ends(3, 2), MaxFrames <- Ends(2, 3),
          writer <- writing

Dial == INSTANCE RelayDial WITH stage <- step

ASSUME EdgeAssumption == Link!LinkAssumption /\ Dial!DialAssumption

NoDial == [scheme |-> "none", host |-> "no-port"]

EdgeInit ==
  /\ Init /\ Link!Init /\ Dial!Init
  /\ \/ runs = "dial"
     \/ runs \in {"rooms", "link"} /\ target = NoDial /\ resolved = <<>> /\ local = "refuses"

EdgeNext ==
  /\ UNCHANGED runs
  /\ \/ runs = "rooms" /\ Next /\ UNCHANGED <<linkVars, dialVars>>
     \/ runs = "link" /\ Link!Next /\ UNCHANGED <<vars, dialVars>>
     \/ runs = "dial" /\ Dial!Next /\ UNCHANGED <<vars, linkVars>>

all_vars == <<runs, vars, linkVars, dialVars>>

EdgeSpec ==
  /\ EdgeInit /\ [][EdgeNext]_all_vars
  /\ \A e \in {"bridge", "relay"} : WF_linkVars(runs = "link" /\ Link!Step(e))

\* Frames come out of a link whole and in order (FrameLink).
FramesWhole == Link!FramesWhole

\* What is begun arrives, and every writer gets its turn (FrameLink).
LinkGoesOn == Link!Arrives /\ Link!TurnComes

\* A dial keeps plain connections on the machine, reaches the relay if it is all
\* that answers, and does so in time with one thing in its way (RelayDial).
DialHolds == Dial!PlainStaysLocal /\ Dial!FallsThrough /\ Dial!WindowHeld
=============================================================================
