---------------------------- MODULE Connections ----------------------------
(***************************************************************************)
(* One I/O handle of kind TcpStream or HttpConnection in the table of the  *)
(* root task, the peer it names, and what yields, snapshots, resumes and   *)
(* new processes do to both: the TCP and HTTP opcodes of src/vm.rs, Clone  *)
(* of src/io.rs, serialize_io_handle_snapshot and reconnect_handle of      *)
(* src/snapshot.rs.  The peer belongs to the environment: it may change    *)
(* its answer, be out of reach, and be reached while its answer is lost.   *)
(* Names that FileHandles has too are prefixed, so that one module can     *)
(* extend both.                                                            *)
(***************************************************************************)
EXTENDS Integers

CONSTANTS Answers,      \* what the peer may answer
          Payloads,     \* what the program may send
          MaxReceived,  \* bound: connections and requests that reach the peer
          Nothing       \* no handle, nothing sent or received, no snapshot

VARIABLES up,           \* whether the peer can be reached
          answer,       \* what it answers now
          received,     \* history: connections and requests that have reached it
          conn,         \* vm.handles[h], or Nothing
          connEntry,    \* task_registry[root].io_handles[h], or Nothing
          connYielded,  \* whether the status of the root is Yielded
          connOpened,   \* whether next_handle_id has passed h
          connSaved     \* the snapshot in a file, or Nothing

connVars == <<up, answer, received, conn, connEntry, connYielded, connOpened, connSaved>>
peer == <<up, answer>>
connMachine == <<connEntry, connYielded, connOpened, connSaved>>

\* A TcpStream has a stream or has lost it.  An HttpConnection never has one: what it sent
\* is Nothing for a GET and the body for a POST.
Tcp(stream, sent, got) == [kind |-> "Tcp", stream |-> stream, sent |-> sent, got |-> got]
Http(sent, got) == [kind |-> "Http", stream |-> FALSE, sent |-> sent, got |-> got]
Streaming(h) == h # Nothing /\ h.stream

ConnInit ==
  /\ up \in BOOLEAN /\ answer \in Answers /\ received = 0
  /\ conn = Nothing /\ connEntry = Nothing /\ connSaved = Nothing
  /\ connYielded = FALSE /\ connOpened = FALSE

PeerChanges ==
  /\ up' \in BOOLEAN /\ answer' \in Answers
  /\ UNCHANGED <<received, conn, connMachine>>
Reached(n) == received' = received + n /\ received' <= MaxReceived
-----------------------------------------------------------------------------
(* The opcodes.  One that fails with an IoError leaves the handles alone,   *)
(* whether or not what it sent has arrived.                                 *)

TcpConnect ==
  /\ ~connOpened /\ up /\ Reached(1)
  /\ conn' = Tcp(TRUE, Nothing, Nothing) /\ connOpened' = TRUE
  /\ UNCHANGED <<peer, connEntry, connYielded, connSaved>>
HttpCall(sent) ==
  /\ ~connOpened /\ up /\ Reached(1)
  /\ conn' = Http(sent, answer) /\ connOpened' = TRUE
  /\ UNCHANGED <<peer, connEntry, connYielded, connSaved>>
CallFails == up /\ Reached(1) /\ UNCHANGED <<peer, conn, connMachine>>

\* A handle without a stream is refused; a peer that has closed gives an empty answer.
TcpRead ==
  /\ Streaming(conn)
  /\ conn' = [conn EXCEPT !.got = IF up THEN answer ELSE ""]
  /\ UNCHANGED <<peer, received, connMachine>>
TcpWrite(data) ==
  /\ Streaming(conn) /\ up
  /\ conn' = [conn EXCEPT !.sent = data]
  /\ UNCHANGED <<peer, received, connMachine>>
\* close_handle asks for no kind.
TcpClose == conn # Nothing /\ conn' = Nothing /\ UNCHANGED <<peer, received, connMachine>>
-----------------------------------------------------------------------------
(* Snapshots.                                                              *)

\* Clone for IoHandle: a stream cannot be cloned.
ConnClone(h) == IF h = Nothing THEN Nothing ELSE [h EXCEPT !.stream = FALSE]

\* Mutant of ConnCaptured: the handle of the task once more in the global section.
ConnCapturedTwice(y, e) ==
  [hasTask |-> y, task |-> IF y THEN ConnClone(e) ELSE Nothing, global |-> ConnClone(conn)]
\* Snapshot::capture: the entry of a Yielded root, and of the VM's table what the entry
\* does not have.
ConnCaptured(y, e) ==
  [hasTask |-> y, task |-> IF y THEN ConnClone(e) ELSE Nothing,
   global |-> IF e = Nothing THEN ConnClone(conn) ELSE Nothing]
ConnSaving(sections, atYield) ==
  connSaved' = [hasTask |-> sections.hasTask, task |-> sections.task, global |-> sections.global,
                atYield |-> atYield]

ConnYield ==
  /\ connEntry' = ConnClone(conn) /\ connYielded' = TRUE
  /\ ConnSaving(ConnCaptured(TRUE, ConnClone(conn)), TRUE)
  /\ UNCHANGED <<peer, received, conn, connOpened>>
ConnCreateSnapshot ==
  /\ ConnSaving(ConnCaptured(connYielded, connEntry), FALSE)
  /\ UNCHANGED <<peer, received, conn, connEntry, connYielded, connOpened>>
ConnRestart ==
  /\ conn' = Nothing /\ connEntry' = Nothing /\ connYielded' = FALSE /\ connOpened' = FALSE
  /\ UNCHANGED <<peer, received, connSaved>>

\* reconnect_handle.  A stream connects again and forgets what it sent and got, although
\* the snapshot has both; an HTTP request is sent again, and its new answer kept, or the
\* old one when none comes.
ConnReconnect(s, works) ==
  IF s.kind = "Tcp" THEN Tcp(works, Nothing, Nothing)
  ELSE [s EXCEPT !.got = IF works THEN answer ELSE @]
ConnReconnected(s, works) == IF s = Nothing THEN Nothing ELSE ConnReconnect(s, works)

\* restore_task_tree puts the handle into the entry and a clone of it into the VM's table.
ForTheVm(h) == ConnClone(h)

\* VM::resume up to run(), which is not called after a failure.  That an answer differs is
\* in the report, which resume looks through for failures only and drops.
ConnResume(works) ==
  /\ connSaved # Nothing /\ (works => up)
  /\ \E arrived \in {works, up} :
       Reached(IF ~arrived THEN 0
               ELSE (IF connSaved.task = Nothing THEN 0 ELSE 1)
                    + (IF connSaved.global = Nothing THEN 0 ELSE 1))
  /\ connEntry' = IF connSaved.hasTask THEN ConnReconnected(connSaved.task, works) ELSE connEntry
  /\ conn' = IF connSaved.global # Nothing THEN ConnReconnected(connSaved.global, works)
             ELSE IF connSaved.hasTask THEN ForTheVm(ConnReconnected(connSaved.task, works))
             ELSE conn
  /\ connYielded' = (connYielded \/ connSaved.hasTask)
  /\ connOpened' = (connOpened \/ connSaved.global # Nothing)
  /\ UNCHANGED <<peer, connSaved>>
-----------------------------------------------------------------------------
ConnNext ==
  \/ PeerChanges
  \/ TcpConnect \/ TcpRead \/ TcpClose \/ CallFails
  \/ \E data \in Payloads : TcpWrite(data) \/ HttpCall(data)
  \/ HttpCall(Nothing)
  \/ ConnYield \/ ConnCreateSnapshot \/ ConnRestart
  \/ \E works \in BOOLEAN : ConnResume(works)

ConnSpec == ConnInit /\ [][ConnNext]_connVars
-----------------------------------------------------------------------------
\* io.rs, IoStrategy::Replay: "Re-issue the original request".  A resume sends the request
\* of a handle once, however often the handle was captured, cloned and restored before:
\* a POST takes effect once more with every resume, and never twice in one.
OneReplayPerResume ==
  [][(\E works \in BOOLEAN : ConnResume(works)) => received' <= received + 1]_connVars

-----------------------------------------------------------------------------
(* What the documents say of a connection after a Yield, checked against   *)
(* the code by a run of its own.                                           *)

\* PHASE3.md: a TcpStream that a Yield's snapshot has is restored by its strategy, Replay;
\* DESIGN.md: the program is reconnected automatically.  So a resume that connects to the
\* peer and reports no failure gives the program a stream.
StreamsRestored ==
  [][ConnResume(TRUE) /\ connSaved.atYield /\ connSaved.task # Nothing /\ connSaved.task.kind = "Tcp"
       => Streaming(conn')]_connVars
=============================================================================
