--------------------------- MODULE DocumentStore ---------------------------
(***************************************************************************)
(* Documents on disk (domain/file/storage/storage.rs): a directory holds   *)
(* document.json, which carries a revision, and actions.jsonl, the log of  *)
(* records.  Strokes, undos and redos are appended to the log at once; a   *)
(* snapshot save writes both files, refuses when the revision or the       *)
(* number of records on disk is not the one the runtime accounts for, and  *)
(* the painter answers a refusal by loading what is on disk.  The callers  *)
(* are the command bar, the layers panel, the autosave tick, the session   *)
(* panel (main.rs, layers_runtime.rs) and session_document.rs.             *)
(*                                                                         *)
(* A painter is a process; several may work on the same directories.  What *)
(* a session brings is a runtime of the host's document and the records of *)
(* others.  A snapshot save is one step, unless the process dies in it:    *)
(* the saves of two processes are assumed not to overlap.  Structure is    *)
(* its record alone.  A conflicting autosave is logged and changes nothing.*)
(***************************************************************************)
EXTENDS DocumentRuntime

CONSTANTS Painters,    \* how many processes
          UserRoots,   \* how many directories the user saves to
          MaxActs,     \* bound: records
          MaxDocs,     \* bound: documents, fresh ones and those of a session
          MaxRev,      \* bound: revision of a document
          MaxCrashes,  \* bound: processes that die
          MaxSessions  \* bound: sessions hosted or joined

ASSUME StoreAssumption ==
  /\ \A n \in {Painters, UserRoots, MaxActs, MaxDocs, MaxRev, MaxCrashes, MaxSessions} : n \in Nat
  /\ Painters <= MaxDocs /\ 1 <= MaxRev

VARIABLES
  disk,     \* directory -> its two files
  painter,  \* process -> the state of the app
  minted, docs, crashes, sessions  \* counted, for ids and bounds

counters == <<minted, docs, crashes, sessions>>
storeVars == <<disk, painter, counters>>

Painter == 1 .. Painters

\* Directories: where the user saves, the shared-documents folder of a
\* document (painter_shared_document_paths), the vault folder of one.
User(n) == <<"user", n>>
Work(d) == <<"work", d>>
Vault(d) == <<"vault", d>>
Roots ==
  {User(n) : n \in 1 .. UserRoots} \cup {Work(d) : d \in 1 .. MaxDocs}
    \cup {Vault(d) : d \in 1 .. MaxDocs}
NoRoot == <<"none", 0>>

\* document.json (id 0: there is none) and actions.jsonl.
NoFiles == [id |-> 0, rev |-> 0, logged |-> FALSE, log |-> <<>>]

\* new_unsaved_document, as booted or by file:new.
Fresh(d) ==
  [rt |-> NewRuntime, doc |-> d, rev |-> 0, hosting |-> FALSE, net |-> "none",
   path |-> Work(d), root |-> NoRoot, vault |-> NoRoot]

StoreInit ==
  /\ disk = [r \in Roots |-> NoFiles]
  /\ painter = [p \in Painter |-> Fresh(p)]
  /\ minted = 0 /\ docs = Painters /\ crashes = 0 /\ sessions = 0
-----------------------------------------------------------------------------
(* The snapshot save.                                                      *)

\* Mutant: the records are not counted.
GuardsRevision(q, d) == q.hosting \/ (d.id # 0 => d.rev = q.rev)

\* The guards of save_shared_document_snapshot, off while the runtime hosts.
Guards(q, d) ==
  \/ q.hosting
  \/ /\ d.id # 0 => d.rev = q.rev
     /\ d.logged => Len(d.log) = Len(ActionsForFile(q.rt))

\* write_snapshot_files: what the painter and the directory hold after it.
Folded(q) == [q EXCEPT !.rt = FoldHistory(@), !.rev = @ + 1]

\* Mutant: the history is written whole.
FilesWhole(q) ==
  [id |-> q.doc, rev |-> q.rev, logged |-> TRUE, log |-> q.rt.actions]

Files(q) ==
  [id |-> q.doc, rev |-> q.rev, logged |-> TRUE, log |-> ActionsForFile(q.rt)]

\* reload_from_disk, load_document_from_root.
Loaded(q, d) ==
  [q EXCEPT !.rt = Replay(d.log), !.doc = d.id, !.rev = d.rev, !.hosting = FALSE]

\* recover_snapshot_conflict: without a document on disk there is nothing to
\* load, and the painter keeps what it has.
Recovered(q, d) == IF d.id = 0 THEN q ELSE Loaded(q, d)

Appended(d, r) == [d EXCEPT !.logged = TRUE, !.log = Append(@, r)]

\* Session-client mode: the host owns the saves.
Persists(q) == q.net # "client"

\* The frame after a change of document or directory retires the vault copy.
Retire(old, new) ==
  IF (new.doc # old.doc \/ new.root # old.root) /\ old.vault # NoRoot
  THEN [d |-> IF old.vault = new.root THEN {} ELSE {old.vault}, q |-> [new EXCEPT !.vault = NoRoot]]
  ELSE [d |-> {}, q |-> new]

\* The painter becomes `new`, the directory r holds `files`.
Becomes(p, new, r, files) ==
  LET retired == Retire(painter[p], new) IN
  /\ painter' = [painter EXCEPT ![p] = retired.q]
  /\ disk' = [x \in Roots |-> IF x \in retired.d THEN NoFiles
                             ELSE IF x = r THEN files ELSE disk[x]]

\* A guarded save to r, or the reload that answers its refusal; either way the
\* painter works in r from then on, and its document's directory is `root`.
SaveTo(p, q, r, root) ==
  IF Guards(q, disk[r])
  THEN /\ q.rev < MaxRev
       /\ Becomes(p, [Folded(q) EXCEPT !.path = r, !.root = root], r, Files(Folded(q)))
  ELSE Becomes(p, [Recovered(q, disk[r]) EXCEPT !.path = r, !.root = root], r, disk[r])
-----------------------------------------------------------------------------
(* Editing.                                                                *)

\* A record enters the history and, unless a session's host keeps it, the log.
Log(p, rt, r) ==
  LET q == painter[p] IN
  /\ painter' = [painter EXCEPT ![p].rt = rt]
  /\ disk' = IF Persists(q) THEN [disk EXCEPT ![q.path] = Appended(@, r)] ELSE disk

Mint == minted < MaxActs /\ minted' = minted + 1

\* commit_staged_paint_stroke.
PaintStroke(p, l, c, v) ==
  LET rt == painter[p].rt
      r == Stroke(minted + 1, p, l, CollectPatches(rt.canvas[l], [rt.canvas[l] EXCEPT ![c] = v]))
  IN
  /\ rt.canvas[l][c] # v
  /\ Mint
  /\ Log(p, ApplyActionRecord(rt, r), r)
  /\ UNCHANGED <<docs, crashes, sessions>>

\* apply_shared_history_action.
UndoStroke(p, l) ==
  LET rt == painter[p].rt
      x == TopApplied(rt, l)
      r == Revert(minted + 1, p, l, Inversed(PatchesOf(rt, x)), x)
  IN
  /\ rt.applied[l] # <<>>
  /\ Mint
  /\ Log(p, PushHistoryRecord(UndoTop(rt, l), r), r)
  /\ UNCHANGED <<docs, crashes, sessions>>

RedoStroke(p, l) ==
  LET rt == painter[p].rt
      x == TopUndone(rt, l)
      r == Revert(minted + 1, p, l, PatchesOf(rt, x), x)
  IN
  /\ rt.undone[l] # <<>>
  /\ Mint
  /\ Log(p, PushHistoryRecord(RedoTop(rt, l), r), r)
  /\ UNCHANGED <<docs, crashes, sessions>>

\* A record of another member of the session: it reaches the runtime and not
\* the log on disk.
ForeignStroke(p, l, c, v) ==
  LET rt == painter[p].rt
      r == Stroke(minted + 1, 0, l, CollectPatches(rt.canvas[l], [rt.canvas[l] EXCEPT ![c] = v]))
  IN
  /\ painter[p].net # "none"
  /\ rt.canvas[l][c] # v
  /\ Mint
  /\ painter' = [painter EXCEPT ![p].rt = ApplyActionRecord(@, r)]
  /\ UNCHANGED <<disk, docs, crashes, sessions>>

\* StructureSet: a record that paints nothing.
StructureRecord(p) == Stroke(minted + 1, p, CHOOSE l \in Layer : TRUE, <<>>)

\* A structure edit in the layers panel: the guarded save, and behind it the
\* record of the new structure, in the history and at the end of the log.
PanelEdit(p) ==
  LET q == painter[p]
      r == StructureRecord(p)
      pushed(x) == [x EXCEPT !.rt = PushHistoryRecord(@, r)]
  IN
  /\ Mint
  /\ IF ~Persists(q) THEN Becomes(p, pushed(q), q.path, disk[q.path])
     ELSE IF Guards(q, disk[q.path])
     THEN /\ q.rev < MaxRev
          /\ Becomes(p, pushed(Folded(q)), q.path, Appended(Files(Folded(q)), r))
     ELSE Becomes(p, Recovered(q, disk[q.path]), q.path, disk[q.path])
  /\ UNCHANGED <<docs, crashes, sessions>>
-----------------------------------------------------------------------------
(* The file menu, the autosave tick, the session panel.                    *)

\* Hosting goes on over another document: its structure is recorded in the
\* history, not in the log on disk (push_host_structure_record), and the new
\* runtime does not know that it hosts.
Swapped(q) ==
  IF q.net = "host" THEN [q EXCEPT !.rt = PushHistoryRecord(@, Stroke(minted + 1, 0, CHOOSE l \in Layer : TRUE, <<>>))]
  ELSE q

FileNew(p) ==
  LET q == painter[p] IN
  /\ docs < MaxDocs
  /\ docs' = docs + 1
  /\ IF q.net = "host" THEN Mint ELSE UNCHANGED minted
  /\ Becomes(p, Swapped([Fresh(docs + 1) EXCEPT !.net = q.net, !.vault = q.vault]),
             q.path, disk[q.path])
  /\ UNCHANGED <<crashes, sessions>>

FileOpen(p, r) ==
  LET q == painter[p] IN
  /\ disk[r].id # 0
  /\ IF q.net = "host" THEN Mint ELSE UNCHANGED minted
  /\ Becomes(p, Swapped([Loaded(q, disk[r]) EXCEPT !.path = r, !.root = r]), r, disk[r])
  /\ UNCHANGED <<docs, crashes, sessions>>

\* file:save of a document that has a directory (it is file:save-as else).
FileSave(p) ==
  LET q == painter[p] IN
  /\ q.root # NoRoot /\ Persists(q)
  /\ SaveTo(p, q, q.path, q.root)
  /\ UNCHANGED counters

\* file:save-as: whatever becomes of the save, the painter moves there.
FileSaveAs(p, r) ==
  LET q == painter[p] IN
  /\ IF Persists(q) THEN SaveTo(p, q, r, r)
     ELSE Becomes(p, [q EXCEPT !.path = r, !.root = r], r, disk[r])
  /\ UNCHANGED counters

\* tick_document_autosave: to the document's directory, or to the vault folder
\* that is minted for the document once.
AutosaveTarget(q) == IF q.root # NoRoot THEN q.root ELSE IF q.vault # NoRoot THEN q.vault ELSE Vault(q.doc)

Autosave(p) ==
  LET r == AutosaveTarget(painter[p])
      q == [painter[p] EXCEPT !.vault = IF @ = NoRoot /\ painter[p].root = NoRoot THEN r ELSE @]
  IN
  /\ Persists(q)
  /\ Guards(q, disk[r])
  /\ q.rev < MaxRev
  /\ Becomes(p, Folded(q), r, Files(Folded(q)))
  /\ UNCHANGED counters

HostSession(p) ==
  /\ painter[p].net = "none"
  /\ sessions < MaxSessions
  /\ sessions' = sessions + 1
  /\ painter' = [painter EXCEPT ![p].net = "host", ![p].hosting = TRUE]
  /\ UNCHANGED <<disk, minted, docs, crashes>>

\* apply_join_result: the runtime of the host's snapshot.  The directory the
\* user saves to is left as it was.
JoinSession(p, rev) ==
  LET q == painter[p] IN
  /\ q.net = "none"
  /\ sessions < MaxSessions /\ docs < MaxDocs
  /\ sessions' = sessions + 1 /\ docs' = docs + 1
  /\ Becomes(p, [q EXCEPT !.rt = NewRuntime, !.doc = docs + 1, !.rev = rev, !.hosting = FALSE,
                          !.net = "client", !.path = Work(docs + 1)],
             q.path, disk[q.path])
  /\ UNCHANGED <<minted, crashes>>

\* Mutant: the session is left without a save.
LeaveUnsaved(p) ==
  /\ painter[p].net # "none"
  /\ painter' = [painter EXCEPT ![p].net = "none", ![p].hosting = FALSE]
  /\ UNCHANGED <<disk, counters>>

\* LeaveRequested of a host or a client, and Ended: a save without guards.
LeaveSession(p) ==
  LET q == Folded(painter[p]) IN
  /\ painter[p].net # "none"
  /\ painter[p].rev < MaxRev
  /\ Becomes(p, [q EXCEPT !.net = "none", !.hosting = IF painter[p].net = "host" THEN FALSE ELSE @],
             q.path, Files(q))
  /\ UNCHANGED counters

\* The process dies and is started again, on a blank document.
Crash(p) ==
  /\ crashes < MaxCrashes /\ docs < MaxDocs
  /\ crashes' = crashes + 1 /\ docs' = docs + 1
  /\ painter' = [painter EXCEPT ![p] = Fresh(docs + 1)]
  /\ UNCHANGED <<disk, minted, sessions>>

\* It dies in a save, between the two files: document.json is the new one.
CrashInSave(p) ==
  LET q == painter[p] IN
  /\ crashes < MaxCrashes /\ docs < MaxDocs
  /\ q.root # NoRoot /\ Persists(q) /\ q.rev < MaxRev
  /\ Guards(q, disk[q.root])
  /\ crashes' = crashes + 1 /\ docs' = docs + 1
  /\ disk' = [disk EXCEPT ![q.root].id = q.doc, ![q.root].rev = q.rev + 1]
  /\ painter' = [painter EXCEPT ![p] = Fresh(docs + 1)]
  /\ UNCHANGED <<minted, sessions>>

StoreNext ==
  \E p \in Painter :
    \/ \E l \in Layer :
         \/ UndoStroke(p, l) \/ RedoStroke(p, l)
         \/ \E c \in Cell, v \in Content : PaintStroke(p, l, c, v) \/ ForeignStroke(p, l, c, v)
    \/ PanelEdit(p) \/ FileNew(p) \/ FileSave(p) \/ Autosave(p)
    \/ \E n \in 1 .. UserRoots : FileOpen(p, User(n)) \/ FileSaveAs(p, User(n))
    \/ HostSession(p) \/ LeaveSession(p)
    \/ \E rev \in 0 .. 1 : JoinSession(p, rev)
    \/ Crash(p) \/ CrashInSave(p)

StoreSpec == StoreInit /\ [][StoreNext]_storeVars
-----------------------------------------------------------------------------
StoreTypeOK ==
  /\ \A r \in Roots : disk[r].id \in 0 .. MaxDocs /\ disk[r].rev \in 0 .. MaxRev
  /\ \A r \in Roots : ~disk[r].logged => disk[r].log = <<>>
  /\ \A p \in Painter :
       /\ painter[p].doc \in 1 .. MaxDocs
       /\ painter[p].rev \in 0 .. MaxRev
       /\ painter[p].path \in Roots
       /\ painter[p].root \in Roots \cup {NoRoot}
       /\ painter[p].vault \in Roots \cup {NoRoot}
       /\ painter[p].net \in {"none", "host", "client"}
       /\ painter[p].rt.squashed \in 0 .. Len(painter[p].rt.actions)

\* What a runtime would write is what it shows: replaying the folded log gives
\* the canvas, however strokes, undos and redos lie across the fold.  (And all
\* is well-typed.)
FoldFaithful ==
  StoreTypeOK /\ \A p \in Painter :
    Replay(ActionsForFile(painter[p].rt)).canvas = painter[p].rt.canvas

\* When a painter that works alone or hosts passes the guards for the document
\* it has open, the log on disk is, record by record, the one it accounts for:
\* equal counts never hide "records this runtime never replayed".
GuardSound ==
  \A p \in Painter :
    LET q == painter[p] d == disk[q.path] IN
    (Persists(q) /\ ~q.hosting /\ d.id = q.doc /\ d.logged /\ Guards(q, d))
      => d.log = ActionsForFile(q.rt)

\* What a painter shows outside a session survives its death, whatever saves,
\* folds, crashes and sessions came before: opening its directory again shows
\* the same.  (With several painters one may have passed by in between.)
Alone(p) == \A o \in Painter \ {p} : painter[o].path # painter[p].path

Durable ==
  \A p \in Painter :
    LET q == painter[p] IN
    (q.net = "none" /\ Alone(p)) => Replay(disk[q.path].log).canvas = q.rt.canvas

\* The saves of a painter to the directory its document was saved to or opened
\* from are not refused when nobody else writes there: its own strokes, undos,
\* structure edits, autosaves and sessions are no conflict.
NoFalseConflict ==
  \A p \in Painter :
    LET q == painter[p] IN
    (q.net = "none" /\ q.root = q.path /\ Alone(p)) => Guards(q, disk[q.path])

\* The guards of a save let a painter's own pass, and none that would drop what
\* others wrote.
GuardExact == GuardSound /\ NoFalseConflict
=============================================================================
