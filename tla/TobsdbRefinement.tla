--------------------------- MODULE TobsdbRefinement ---------------------------
(***************************************************************************)
(* The client of TobsdbClient seen through the refinement mapping onto the *)
(* promise of TobsdbSession.  The session's state is read off the client's: *)
(* a connection is stored when conn is not None, a call is busy at every   *)
(* await point, and the call and result records lose the connection       *)
(* number.  Sockets, servers and the dead flags have no counterpart: their  *)
(* steps are stutters of the session.                                       *)
(***************************************************************************)
EXTENDS TobsdbClient

\* The await points of TobsdbClient all show as a busy call.
SessionPc ==
    CASE pc = "idle"    -> "idle"
      [] pc = "crashed" -> "crashed"
      [] OTHER          -> "busy"

SessionCall == [kind |-> call.kind, op |-> call.op, id |-> call.id]

Session == INSTANCE TobsdbSession WITH
    open <- conn # NoConn,
    pc <- SessionPc,
    call <- SessionCall

\* The client implements the session's safety part: every step of the code
\* is a step of the promise or leaves it unchanged.  In particular every Ok
\* of query carries the answer to that query's request, the errors are the
\* ones its state allows, and only the decode of an answer aborts the task.
SessionSafety == Session!Spec

=============================================================================
