----------------------------- MODULE FrameLink -----------------------------
(***************************************************************************)
(* One link to the relay, byte by byte: the frame codec                    *)
(* (session-relay/relay_protocol.rs), the stream that the reader and the   *)
(* writers of an end share under one lock (relay_server.rs), the handshake *)
(* of the dialing end (relay_link.rs) and the TLS upgrade of the relay     *)
(* with the bytes it captures (relay_tls.rs).  RelayLane takes such a link *)
(* for a queue of whole frames.                                            *)
(*                                                                         *)
(* A frame is its length, Prefix units of the wire, and a body of `size`   *)
(* units.  The socket holds Window units in each direction: a write that   *)
(* finds it full waits with the lock of its end, a read that finds nothing *)
(* gives the lock back after a slice.  So a read is one step, and a write  *)
(* is a step for every part that the socket takes.                         *)
(***************************************************************************)
EXTENDS Naturals, Sequences, SequencesExt

CONSTANTS Sizes,      \* end -> body sizes of the frames its writers are given
          Cap,        \* end -> max_frame_bytes
          Prefix,     \* LENGTH_PREFIX_BYTES
          MaxChunk,   \* what one read takes at most
          Window,     \* what the socket holds in one direction
          MayBreak,   \* the connection may break
          MaxFrames   \* bound: end -> frames its writers are given

End == {"bridge", "relay"}
Other(e) == IF e = "bridge" THEN "relay" ELSE "bridge"

LinkAssumption ==
  /\ \A e \in End : Sizes[e] \subseteq Nat \ {0} /\ {Cap[e], MaxFrames[e]} \subseteq Nat
  /\ {Prefix, MaxChunk, Window} \subseteq Nat \ {0}
  /\ MayBreak \in BOOLEAN

VARIABLES
  phase,    \* "handshake" until the end reads through its buffer, then "steady"
  waiting,  \* frames whose writers wait for the lock of the end
  rest,     \* what is left to write of the frame whose writer has the lock
  writer,   \* "up", or "down" once the writer of the end gave up
  reader,   \* "up", or "down" once the reader of the end gave up
  pipe,     \* what the end wrote and the other has not read
  surplus,  \* HandshakeBufferedStream: prefix from prefix_pos on
  buffer,   \* FrameBuffer::buf; in the handshake, what read_frame has so far
  got,      \* the frames the reader handed out, each as the units it was cut from
  begun,    \* the frames the end began to write
  given,    \* how many frames its writers were given
  cut       \* the connection is over

vars == <<phase, waiting, rest, writer, reader, pipe, surplus, buffer, got, begun,
          given, cut>>

\* A frame on the wire: its length, then its body.
Units(f) == [i \in 1 .. Prefix + f.size |-> [of |-> f, at |-> i]]

Least(m, n) == IF m < n THEN m ELSE n
Drop(s, n) == SubSeq(s, n + 1, Len(s))

Init ==
  /\ phase = [e \in End |-> "handshake"]
  /\ writer = [e \in End |-> "up"] /\ reader = [e \in End |-> "up"]
  /\ LET nothing == [e \in End |-> <<>>] IN
     /\ waiting = nothing /\ rest = nothing /\ pipe = nothing
     /\ surplus = nothing /\ buffer = nothing
     /\ got = nothing /\ begun = nothing
  /\ given = [e \in End |-> 0]
  /\ cut = FALSE
-----------------------------------------------------------------------------
(* Writing.                                                                *)

\* The bridge says hello, and starts its threads when it is answered; the relay
\* writes nothing before it read the hello.
MayWrite(e) ==
  IF e = "bridge" THEN given[e] = 0 \/ phase[e] = "steady" ELSE got[e] # <<>>

\* A frame for the writers of an end.
Offer(e) ==
  /\ given[e] < MaxFrames[e] /\ MayWrite(e) /\ writer[e] = "up" /\ reader[e] = "up"
  /\ given' = [given EXCEPT ![e] = @ + 1]
  /\ \E n \in Sizes[e] :
       waiting' = [waiting EXCEPT ![e] = Append(@, [nr |-> given[e], size |-> n])]
  /\ UNCHANGED <<phase, rest, writer, reader, pipe, surplus, buffer, got, begun, cut>>

\* A writer gets the lock.  A frame over the cap is refused before anything of
\* it is written: the bridge ignores that and goes on, the writer thread of the
\* relay ends.  So it does when the connection is over.
BeginWrite(e) ==
  /\ waiting[e] # <<>> /\ rest[e] = <<>> /\ writer[e] = "up"
  /\ LET f == Head(waiting[e]) IN
     \/ /\ f.size <= Cap[e] /\ ~cut
        /\ rest' = [rest EXCEPT ![e] = Units(f)]
        /\ begun' = [begun EXCEPT ![e] = Append(@, f)]
        /\ waiting' = [waiting EXCEPT ![e] = Tail(@)]
        /\ UNCHANGED writer
     \/ /\ f.size > Cap[e] /\ ~cut /\ e = "bridge"
        /\ waiting' = [waiting EXCEPT ![e] = Tail(@)]
        /\ UNCHANGED <<rest, begun, writer>>
     \/ /\ cut \/ (f.size > Cap[e] /\ e = "relay")
        /\ writer' = [writer EXCEPT ![e] = "down"]
        /\ waiting' = [waiting EXCEPT ![e] = <<>>]
        /\ UNCHANGED <<rest, begun>>
  /\ UNCHANGED <<phase, reader, pipe, surplus, buffer, got, given, cut>>

\* write_all: the socket takes what it has room for.
Push(e) ==
  /\ rest[e] # <<>> /\ Len(pipe[e]) < Window
  /\ LET n == Least(Len(rest[e]), Window - Len(pipe[e])) IN
     /\ pipe' = [pipe EXCEPT ![e] = @ \o SubSeq(rest[e], 1, n)]
     /\ rest' = [rest EXCEPT ![e] = Drop(@, n)]
  /\ UNCHANGED <<phase, waiting, writer, reader, surplus, buffer, got, begun, given, cut>>
-----------------------------------------------------------------------------
(* Reading.  The length of a frame is known when its prefix is there.      *)

Size(b) == b[1].of.size
Whole(b) == Len(b) >= Prefix /\ Len(b) >= Prefix + Size(b)

\* Mutant: the handshake reads whatever is there.
WantsAll(b) == MaxChunk

\* What read_frame asks the stream for: the rest of the prefix, then of the body.
Wants(b) == IF Len(b) < Prefix THEN Prefix - Len(b) ELSE Prefix + Size(b) - Len(b)

\* handshake_exchange reads the answer with nothing but read_frame: no byte
\* beyond the frame may leave the stream, for there is no buffer to keep it.
HandshakeRead(e) ==
  LET other == Other(e) n == Least(Wants(buffer[e]), Len(pipe[other])) IN
  /\ e = "bridge" /\ phase[e] = "handshake" /\ reader[e] = "up"
  /\ begun[e] # <<>> /\ rest[e] = <<>>
  /\ \/ /\ ~Whole(buffer[e]) /\ pipe[other] # <<>>
        /\ buffer' = [buffer EXCEPT ![e] = @ \o SubSeq(pipe[other], 1, n)]
        /\ pipe' = [pipe EXCEPT ![other] = Drop(@, n)]
        /\ UNCHANGED <<phase, got>>
     \/ /\ Whole(buffer[e])
        /\ got' = [got EXCEPT ![e] = Append(@, buffer[e])]
        /\ buffer' = [buffer EXCEPT ![e] = <<>>]
        /\ phase' = [phase EXCEPT ![e] = "steady"]
        /\ UNCHANGED pipe
  /\ UNCHANGED <<waiting, rest, writer, reader, surplus, begun, given, cut>>

\* Mutant: what the handshake read beyond itself is discarded.
UpgradeForgets(e) ==
  /\ e = "relay" /\ phase[e] = "handshake" /\ reader[e] = "up" /\ ~cut
  /\ phase' = [phase EXCEPT ![e] = "steady"]
  /\ \E n \in 0 .. Least(MaxChunk, Len(pipe[Other(e)])) :
       pipe' = [pipe EXCEPT ![Other(e)] = Drop(@, n)]
  /\ UNCHANGED <<waiting, rest, writer, reader, surplus, buffer, got, begun, given, cut>>

\* TlsRelayServerAcceptor::upgrade: the read that completes the handshake may
\* carry the first bytes of the session.
Upgrade(e) ==
  /\ e = "relay" /\ phase[e] = "handshake" /\ reader[e] = "up" /\ ~cut
  /\ phase' = [phase EXCEPT ![e] = "steady"]
  /\ \E n \in 0 .. Least(MaxChunk, Len(pipe[Other(e)])) :
       /\ surplus' = [surplus EXCEPT ![e] = SubSeq(pipe[Other(e)], 1, n)]
       /\ pipe' = [pipe EXCEPT ![Other(e)] = Drop(@, n)]
  /\ UNCHANGED <<waiting, rest, writer, reader, buffer, got, begun, given, cut>>

\* The reader of an end has its lock: no writer holds it.
Holds(e) == phase[e] = "steady" /\ reader[e] = "up" /\ rest[e] = <<>>

Oversized(e) == Len(buffer[e]) >= Prefix /\ Size(buffer[e]) > Cap[e]

\* One turn of read_frame_shared that finds no whole frame in the buffer: what
\* the handshake left over is read before anything fresh.
Read(e) ==
  LET other == Other(e)
      n == Least(MaxChunk, IF surplus[e] # <<>> THEN Len(surplus[e]) ELSE Len(pipe[other]))
  IN
  /\ Holds(e) /\ ~Whole(buffer[e]) /\ ~Oversized(e)
  /\ \/ /\ surplus[e] # <<>>
        /\ buffer' = [buffer EXCEPT ![e] = @ \o SubSeq(surplus[e], 1, n)]
        /\ surplus' = [surplus EXCEPT ![e] = Drop(@, n)]
        /\ UNCHANGED pipe
     \/ /\ surplus[e] = <<>> /\ pipe[other] # <<>>
        /\ buffer' = [buffer EXCEPT ![e] = @ \o SubSeq(pipe[other], 1, n)]
        /\ pipe' = [pipe EXCEPT ![other] = Drop(@, n)]
        /\ UNCHANGED surplus
  /\ UNCHANGED <<phase, waiting, rest, writer, reader, got, begun, given, cut>>

\* take_frame hands out one frame; what follows it stays in the buffer.
Take(e) ==
  /\ Holds(e) /\ Whole(buffer[e]) /\ ~Oversized(e)
  /\ LET n == Prefix + Size(buffer[e]) IN
     /\ got' = [got EXCEPT ![e] = Append(@, SubSeq(buffer[e], 1, n))]
     /\ buffer' = [buffer EXCEPT ![e] = Drop(@, n)]
  /\ UNCHANGED <<phase, waiting, rest, writer, reader, pipe, surplus, begun, given, cut>>

\* A length over the cap, and the end of the stream, end the reader.  With the
\* reader of the relay its room goes and the socket is closed.
EndRead(e) ==
  /\ reader[e] = "up" /\ rest[e] = <<>>
  /\ \/ phase[e] = "steady" /\ Oversized(e)
     \/ cut /\ pipe[Other(e)] = <<>> /\ surplus[e] = <<>> /\ ~Whole(buffer[e])
  /\ reader' = [reader EXCEPT ![e] = "down"]
  /\ cut' = (cut \/ e = "relay")
  /\ UNCHANGED <<phase, waiting, rest, writer, pipe, surplus, buffer, got, begun, given>>

\* The connection breaks: what is under way is lost from some point on, and a
\* writer that waits for room fails.
Break ==
  /\ MayBreak /\ ~cut
  /\ cut' = TRUE
  /\ \E n \in [End -> 0 .. Window] :
       pipe' = [e \in End |-> SubSeq(pipe[e], 1, Least(n[e], Len(pipe[e])))]
  /\ rest' = [e \in End |-> <<>>]
  /\ writer' = [e \in End |-> IF rest[e] # <<>> THEN "down" ELSE writer[e]]
  /\ waiting' = [e \in End |-> IF rest[e] # <<>> THEN <<>> ELSE waiting[e]]
  /\ UNCHANGED <<phase, reader, surplus, buffer, got, begun, given>>

Step(e) ==
  \/ BeginWrite(e) \/ Push(e) \/ HandshakeRead(e) \/ Upgrade(e)
  \/ Read(e) \/ Take(e) \/ EndRead(e)

Next == (\E e \in End : Offer(e) \/ Step(e)) \/ Break

Spec == Init /\ [][Next]_vars /\ \A e \in End : WF_vars(Step(e))
-----------------------------------------------------------------------------
\* The frames that the reader of one end hands out are those that the other end
\* began to write: whole, in order, none lost and none cut at the wrong place,
\* however the reads and writes of the two ends, the upgrade and the handshake
\* divide the stream (FrameBuffer::take_frame, read_frame, upgrade).
FramesWhole ==
  \A e \in End :
    IsPrefix(got[Other(e)], [i \in DOMAIN begun[e] |-> Units(begun[e][i])])

\* What the other end wrote is read to its end: every frame that a writer began
\* is handed out on the other side, unless the connection is over or the other
\* side refused a length (read_frame_shared, HandshakeBufferedStream::read).
Arrives ==
  \A e \in End : \A i \in 1 .. MaxFrames[e] :
    Len(begun[e]) >= i ~>
      Len(got[Other(e)]) >= i \/ cut \/ reader[Other(e)] = "down"

\* "Reads release the lock every slice so the writer half always gets its turn":
\* a frame that waits for the lock of an end is written or refused, while the
\* connection lasts.
TurnComes ==
  \A e \in End : waiting[e] # <<>> ~> waiting[e] = <<>> \/ cut \/ reader[e] = "down"
=============================================================================
