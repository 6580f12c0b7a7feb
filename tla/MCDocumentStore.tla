-------------------------- MODULE MCDocumentStore --------------------------
(* One or two painters over one or two directories of the user.            *)
EXTENDS DocumentStore
=============================================================================
