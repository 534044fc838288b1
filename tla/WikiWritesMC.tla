---------------------------- MODULE WikiWritesMC ----------------------------
(***************************************************************************)
(* An instance of WikiWrites for TLC: a page and an entry of the journal,  *)
(* a caller that writes and one that only reads.                           *)
(***************************************************************************)
EXTENDS WikiWrites

McPaths == <<"page", "entry">>
McKindOf == [page |-> "page", entry |-> "entry"]
McMaxVersions == [page |-> 2, entry |-> 1]

=============================================================================
