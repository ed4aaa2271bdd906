--------------------------- MODULE MCFileHandles ---------------------------
(***************************************************************************)
(* The two kinds of reconnected handles, a file or a connection: a file    *)
(* handle with one mode for each strategy (appending and reading at a      *)
(* position, rewriting a cached file, replaying a read), and a connection  *)
(* to a peer with two answers.                                             *)
(***************************************************************************)
EXTENDS FileHandles, Connections

MCKinds == {<<"Append", "Seek">>, <<"Write", "Cached">>, <<"Read", "Replay">>}

\* Bound: the table has a file or a connection, and so has all that is saved of it.
NoFile == handle = None /\ entry = None /\ saved = None /\ ~yielded /\ ~opened
NoConnection ==
  conn = Nothing /\ connEntry = Nothing /\ connSaved = Nothing /\ ~connYielded /\ ~connOpened
MCInit ==
  /\ Init /\ ConnInit
  /\ (content = <<>> /\ ~exists) \/ (~up /\ answer = "old")
MCNext ==
  \/ NoConnection /\ received = 0 /\ ~up /\ Next /\ UNCHANGED connVars
  \/ NoFile /\ content = <<>> /\ ~exists /\ ConnNext /\ UNCHANGED vars
MCSpec == MCInit /\ [][MCNext]_<<vars, connVars>>
=============================================================================
