----------------------------- MODULE SharedLog -----------------------------
(***************************************************************************)
(* What a hosted session promises, without messages: one ordered log of    *)
(* records about a document, and readers who come and go.  Who comes reads *)
(* the whole log; who stays reads every record of the others as it enters, *)
(* in the log's order, each once, and none of its own; another document    *)
(* sends all of them away.  SessionHost implements it.                     *)
(***************************************************************************)
EXTENDS Naturals, Sequences

CONSTANTS Reader,  \* who may read
          Record   \* each with the reader, or another, who made it: user_id

VARIABLES log,       \* the records, in the order that all agree on
          document,  \* which document the log is about
          view       \* reader -> the records it was given since it came

logVars == <<log, document, view>>

LogInit == log = <<>> /\ document = 0 /\ view = [u \in {} |-> <<>>]

Come(u) ==
  /\ view' = [w \in DOMAIN view \cup {u} |-> IF w = u THEN log ELSE view[w]]
  /\ UNCHANGED <<log, document>>

Leave(S) ==
  /\ view' = [w \in DOMAIN view \ S |-> view[w]]
  /\ UNCHANGED <<log, document>>

Enter(r) ==
  /\ \A i \in DOMAIN log : log[i] # r
  /\ log' = Append(log, r)
  /\ view' = [w \in DOMAIN view |-> IF w = r.user_id THEN view[w] ELSE Append(view[w], r)]
  /\ UNCHANGED document

Swap ==
  /\ document' = document + 1
  /\ log' \in Seq(Record)
  /\ view' = [u \in {} |-> <<>>]

LogNext ==
  \/ \E u \in Reader : Come(u)
  \/ \E S \in SUBSET Reader : Leave(S)
  \/ \E r \in Record : Enter(r)
  \/ Swap

LogSpec == LogInit /\ [][LogNext]_logVars
=============================================================================
