---------------------------- MODULE DocumentSync ----------------------------
(***************************************************************************)
(* Painting together: sessions that each own a runtime of the document and *)
(* exchange action records through one totally ordered log                 *)
(* (domain/painter-session/sync/document_sync.rs, and the same exchange in *)
(* the frame seam of main.rs).  A session paints a stroke in chunks that   *)
(* it stages on its runtime, commits it as one record at the release, and  *)
(* undoes and redoes; between those, its frame publishes what is new and   *)
(* own and applies what is new and foreign, in the order of the log.       *)
(*                                                                         *)
(* How the log travels is the concern of SessionLan; a record that is      *)
(* under way is here one that its session has yet to publish.  `Works` and *)
(* `Turns` say how the users share the layers: who paints where, and which *)
(* layers they paint in turns, after what the others did has arrived.      *)
(***************************************************************************)
EXTENDS DocumentRuntime, FiniteSets

CONSTANTS Session,
          Works,    \* session -> the layers its user paints on
          Turns,    \* layers whose users wait for each other
          Midway,   \* do users undo and redo in the middle of a stroke
          MaxActs   \* bound: records

ASSUME SyncAssumption ==
  /\ Works \in [Session -> SUBSET Layer]
  /\ Turns \subseteq Layer
  /\ Midway \in BOOLEAN
  /\ MaxActs \in Nat

VARIABLES
  bus,        \* LoopbackActionBus::records, SessionHost::records
  runtime,    \* session -> SharedDocumentRuntime
  published,  \* net_published: the publish cursor into runtime.actions
  consumed,   \* consumed_count: the read cursor into the log
  stroke,     \* the stroke in progress: its layer, the canvas it started from
              \* (StrokeStart), the cells its user changed since
  minted      \* ids handed out so far

syncVars == <<bus, runtime, published, consumed, stroke, minted>>

NoStroke == [layers |-> {}, start |-> Blank, touched |-> {}]

SyncInit ==
  /\ bus = <<>>
  /\ runtime = [s \in Session |-> NewRuntime]
  /\ published = [s \in Session |-> 0]
  /\ consumed = [s \in Session |-> 0]
  /\ stroke = [s \in Session |-> NoStroke]
  /\ minted = 0

Own(s, rs) == Kept(rs, {r \in Range(rs) : r.user = s})
Foreign(s, rs) == Kept(rs, {r \in Range(rs) : r.user # s})

\* The records, applied one after the other.
ApplyAll(rt, rs) ==
  LET done[n \in 0 .. Len(rs)] ==
        IF n = 0 THEN rt ELSE ApplyActionRecord(done[n - 1], rs[n])
  IN  done[Len(rs)]

Unpublished(s) ==
  Own(s, SubSeq(runtime[s].actions, published[s] + 1, Len(runtime[s].actions)))
Unread(s) == Foreign(s, SubSeq(bus, consumed[s] + 1, Len(bus)))

Touches(rs, l) == \E i \in DOMAIN rs : rs[i].layer = l

\* Nothing of the layer is under way, and nobody else is painting on it.
Quiet(s, l) ==
  /\ \A t \in Session : ~Touches(Unpublished(t), l) /\ ~Touches(Unread(t), l)
  /\ \A t \in Session \ {s} : l \notin stroke[t].layers

\* Whether the user of a session starts something on a layer now.
Turn(s, l) == l \in Works[s] /\ (l \in Turns => Quiet(s, l))

\* stage_image_edit_chunk: the first chunk of a stroke snapshots the canvas.
Paint(s, l, c, v) ==
  /\ stroke[s].layers \subseteq {l}
  /\ stroke[s].layers = {} => Turn(s, l)
  /\ minted < MaxActs
  /\ runtime[s].canvas[l][c] # v
  /\ runtime' = [runtime EXCEPT ![s] = Stage(@, l, c, v)]
  /\ stroke' = [stroke EXCEPT ![s] =
       [layers |-> {l},
        start |-> IF @.layers = {} THEN runtime[s].canvas[l] ELSE @.start,
        touched |-> @.touched \cup {c}]]
  /\ UNCHANGED <<bus, published, consumed, minted>>

\* Mutant: the patches are taken against the empty canvas.
CommitAll(s, l) ==
  LET ps == CollectPatches(Blank, runtime[s].canvas[l]) IN
  /\ stroke[s].layers = {l}
  /\ minted < MaxActs
  /\ minted' = minted + 1
  /\ runtime' = [runtime EXCEPT ![s] = ApplyActionRecord(@, Stroke(minted + 1, s, l, ps))]
  /\ stroke' = [stroke EXCEPT ![s] = NoStroke]
  /\ UNCHANGED <<bus, published, consumed>>

\* commit_staged_paint_stroke: the record is the difference of the canvas to
\* the snapshot; no difference, no record.
Commit(s, l) ==
  LET ps == CollectPatches(stroke[s].start, runtime[s].canvas[l]) IN
  /\ stroke[s].layers = {l}
  /\ IF DOMAIN ps = {} THEN UNCHANGED <<runtime, minted>>
     ELSE /\ minted < MaxActs
          /\ minted' = minted + 1
          /\ runtime' = [runtime EXCEPT ![s] = ApplyActionRecord(@, Stroke(minted + 1, s, l, ps))]
  /\ stroke' = [stroke EXCEPT ![s] = NoStroke]
  /\ UNCHANGED <<bus, published, consumed>>

\* When undo and redo are pressed: no key is held back during a stroke.
MayRevert(s, l) ==
  /\ stroke[s].layers \subseteq {l}
  /\ stroke[s].layers # {} => Midway
  /\ Turn(s, l)
  /\ minted < MaxActs

TouchedToo(s, l, ps) ==
  [stroke EXCEPT ![s].touched = @ \cup IF l \in stroke[s].layers THEN DOMAIN ps ELSE {}]

\* apply_shared_history_action: the top action of the layer, whoever made it.
Undo(s, l) ==
  LET rt == runtime[s] x == TopApplied(rt, l) ps == Inversed(PatchesOf(rt, x)) IN
  /\ MayRevert(s, l)
  /\ rt.applied[l] # <<>>
  /\ minted' = minted + 1
  /\ runtime' = [runtime EXCEPT ![s] =
       PushHistoryRecord(UndoTop(rt, l), Revert(minted + 1, s, l, ps, x))]
  /\ stroke' = TouchedToo(s, l, ps)
  /\ UNCHANGED <<bus, published, consumed>>

Redo(s, l) ==
  LET rt == runtime[s] x == TopUndone(rt, l) ps == PatchesOf(rt, x) IN
  /\ MayRevert(s, l)
  /\ rt.undone[l] # <<>>
  /\ minted' = minted + 1
  /\ runtime' = [runtime EXCEPT ![s] =
       PushHistoryRecord(RedoTop(rt, l), Revert(minted + 1, s, l, ps, x))]
  /\ stroke' = TouchedToo(s, l, ps)
  /\ UNCHANGED <<bus, published, consumed>>

\* Mutant: own records are applied again when they come back.
FrameEcho(s) ==
  LET log == bus \o Unpublished(s) IN
  /\ bus' = log
  /\ runtime' = [runtime EXCEPT ![s] =
       ApplyAll(@, SubSeq(log, consumed[s] + 1, Len(log)))]
  /\ published' = [published EXCEPT ![s] = Len(runtime'[s].actions)]
  /\ consumed' = [consumed EXCEPT ![s] = Len(log)]
  /\ UNCHANGED <<stroke, minted>>

\* The frame seam: publish_action and publish_history_record for what the
\* session has of its own past the cursor, then sync_from_bus.
Frame(s) ==
  LET log == bus \o Unpublished(s) IN
  /\ published[s] < Len(runtime[s].actions) \/ consumed[s] < Len(bus)
  /\ bus' = log
  /\ runtime' = [runtime EXCEPT ![s] =
       ApplyAll(@, Foreign(s, SubSeq(log, consumed[s] + 1, Len(log))))]
  /\ published' = [published EXCEPT ![s] = Len(runtime[s].actions)]
  /\ consumed' = [consumed EXCEPT ![s] = Len(log)]
  /\ UNCHANGED <<stroke, minted>>

SyncNext ==
  \E s \in Session :
    \/ Frame(s)
    \/ \E l \in Layer :
         \/ Commit(s, l) \/ Undo(s, l) \/ Redo(s, l)
         \/ \E c \in Cell, v \in Content : Paint(s, l, c, v)

SyncSpec == SyncInit /\ [][SyncNext]_syncVars
-----------------------------------------------------------------------------
Records == [kind : {"stroke", "revert"}, id : 1 .. MaxActs, user : Session,
            layer : Layer, patches : Patches, reverts : 1 .. MaxActs]

SyncTypeOK ==
  /\ \A i \in DOMAIN bus : bus[i] \in Records
  /\ \A s \in Session :
       /\ published[s] \in 0 .. Len(runtime[s].actions)
       /\ consumed[s] \in 0 .. Len(bus)
       /\ runtime[s].canvas \in [Layer -> [Cell -> Content]]
       /\ stroke[s].layers = {} => stroke[s] = NoStroke
  /\ minted \in 0 .. MaxActs

Idle(s) ==
  /\ stroke[s] = NoStroke
  /\ Unpublished(s) = <<>> /\ Unread(s) = <<>>

\* Sessions that have exchanged everything hold the same document: the same
\* cells, and the same undo and redo stacks, so that the next undo of either
\* means the same action ("any number of sessions converge").
Converge ==
  \A s, t \in Session :
    Idle(s) /\ Idle(t) =>
      /\ runtime[s].canvas = runtime[t].canvas
      /\ runtime[s].applied = runtime[t].applied
      /\ runtime[s].undone = runtime[t].undone

\* No record is applied twice, and an action is on one of the stacks at most,
\* once: "re-applying would double their patches and stack entries".
OnceOnStacks(rt, l) ==
  LET both == rt.applied[l] \o rt.undone[l] IN
  \A i, j \in DOMAIN both : both[i] = both[j] => i = j

\* What is painted is what the applied stack says: the strokes in the stack,
\* painted in its order on an empty canvas.  Undo and redo in any order, own
\* or foreign, never leave paint that no undo can reach.  (And all is well-typed.)
Painted(rt, l) ==
  LET painted[n \in 0 .. Len(rt.applied[l])] ==
        IF n = 0 THEN Blank
        ELSE ApplyAfter(painted[n - 1], PatchesOf(rt, rt.applied[l][n]))
  IN  painted[Len(rt.applied[l])]

CanvasIsStack ==
  SyncTypeOK /\ \A s \in Session, l \in Layer :
    /\ OnceOnStacks(runtime[s], l)
    /\ l \notin stroke[s].layers => runtime[s].canvas[l] = Painted(runtime[s], l)

\* A stroke records what its user did since the press and nothing else, so
\* that "one undo = one whole committed stroke" takes back no other's work.
StrokeIsOwn ==
  [][\A s \in Session :
       LET new == runtime'[s].actions[Len(runtime'[s].actions)] IN
       (stroke[s] # NoStroke /\ stroke'[s] = NoStroke /\ minted' # minted)
         => DOMAIN new.patches \subseteq stroke[s].touched]_syncVars
=============================================================================
