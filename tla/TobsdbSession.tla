---------------------------- MODULE TobsdbSession ----------------------------
(***************************************************************************)
(* What a Tobsdb client promises its caller (spec sections 4.1, 5 and 7),  *)
(* with the socket and the server left out.  The client holds a connection *)
(* or not (open).  The caller makes one call at a time.  A call is started *)
(* and later returns.  A query that returns Ok returns the answer to its   *)
(* own request (got = id).  An error is one of the kinds section 7 lists,  *)
(* and which kinds are possible depends on whether a connection is held:   *)
(* ConnFailed only before one is stored, QueryFailed and NoResponse only   *)
(* on one.  The caller may drop a call (its own timeout).  A query may      *)
(* abort the task while decoding its answer (the open issue of section     *)
(* 4.1, step 6); nothing else may abort it.                                *)
(***************************************************************************)
EXTENDS Naturals, TobsdbWrappers

CONSTANT MaxCalls   \* bound on the number of queries the caller makes

VARIABLES
    open,   \* a connection is stored
    pc,     \* "idle", "busy" (a call is in progress) or "crashed"
    call,   \* the call in progress, or the last one
    ret,    \* what the last call that returned gave back
    nreq    \* number of queries started (their ids)

svars == <<open, pc, call, ret, nreq>>

Init ==
    /\ open = FALSE
    /\ pc = "idle"
    /\ call = [kind |-> "none", op |-> "none", id |-> 0]
    /\ ret = [kind |-> "none", outcome |-> "ok", id |-> 0, got |-> 0]
    /\ nreq = 0

\* The call in progress returns outcome; an Ok query carries its own answer.
Finish(outcome) ==
    /\ pc' = "idle"
    /\ ret' = [kind |-> call.kind, outcome |-> outcome, id |-> call.id,
               got |-> IF call.kind = "query" /\ outcome = "ok" THEN call.id ELSE 0]

\* connect: Ok at once on a stored connection, otherwise a handshake.
Connect ==
    /\ pc = "idle"
    /\ \/ /\ open
          /\ ret' = [kind |-> "connect", outcome |-> "ok", id |-> 0, got |-> 0]
          /\ UNCHANGED <<pc, call>>
       \/ /\ ~open
          /\ pc' = "busy"
          /\ call' = [kind |-> "connect", op |-> "none", id |-> 0]
          /\ UNCHANGED ret
    /\ UNCHANGED <<open, nreq>>

\* One of the eight operations starts a query with the next id.
Query(a) ==
    /\ pc = "idle"
    /\ nreq < MaxCalls
    /\ nreq' = nreq + 1
    /\ call' = [kind |-> "query", op |-> a, id |-> nreq + 1]
    /\ pc' = "busy"
    /\ UNCHANGED <<open, ret>>

\* The handshake of a call succeeds and the connection is stored: connect
\* returns Ok, a query goes on with its request.
Opened ==
    /\ pc = "busy"
    /\ ~open
    /\ call.kind \in {"connect", "query"}
    /\ open' = TRUE
    /\ \/ call.kind = "connect" /\ Finish("ok")
       \/ call.kind = "query" /\ UNCHANGED <<pc, ret>>
    /\ UNCHANGED <<call, nreq>>

\* The errors a call may return, given whether a connection is stored.
Errors(kind, isOpen) ==
    CASE kind = "connect" -> IF isOpen THEN {} ELSE {"ConnFailed"}
      [] kind = "query"   -> IF isOpen THEN {"QueryFailed", "NoResponse"}
                                       ELSE {"ConnFailed"}
      [] OTHER            -> {}

\* The call fails with an error of its kind; the connection is kept.
Fail ==
    /\ pc = "busy"
    /\ \E e \in Errors(call.kind, open) : Finish(e)
    /\ UNCHANGED <<open, call, nreq>>

\* A query on a stored connection returns Ok with its own answer.
Answer ==
    /\ pc = "busy"
    /\ call.kind = "query"
    /\ open
    /\ Finish("ok")
    /\ UNCHANGED <<open, call, nreq>>

\* A query aborts the task while decoding what it read.
Abort ==
    /\ pc = "busy"
    /\ call.kind = "query"
    /\ open
    /\ pc' = "crashed"
    /\ UNCHANGED <<open, call, ret, nreq>>

\* disconnect: a no-op without a connection; otherwise the connection is
\* discarded at once and the close is awaited.
Disconnect ==
    /\ pc = "idle"
    /\ \/ /\ ~open
          /\ ret' = [kind |-> "disconnect", outcome |-> "ok", id |-> 0, got |-> 0]
          /\ UNCHANGED <<open, pc, call>>
       \/ /\ open
          /\ open' = FALSE
          /\ pc' = "busy"
          /\ call' = [kind |-> "disconnect", op |-> "none", id |-> 0]
          /\ UNCHANGED ret
    /\ UNCHANGED nreq

\* The close of disconnect completes; disconnect never fails.
Closed ==
    /\ pc = "busy"
    /\ call.kind = "disconnect"
    /\ Finish("ok")
    /\ UNCHANGED <<open, call, nreq>>

\* The caller drops a call at one of its awaits (its own timeout).
Cancel ==
    /\ pc = "busy"
    /\ Finish("cancelled")
    /\ UNCHANGED <<open, call, nreq>>

Next ==
    \/ Connect
    \/ \E a \in Actions : Query(a)
    \/ Opened
    \/ Fail
    \/ Answer
    \/ Abort
    \/ Disconnect
    \/ Closed
    \/ Cancel

\* A call in progress is not left pending forever.
Fairness == WF_svars(Opened \/ Fail \/ Answer \/ Abort \/ Closed)

Spec == Init /\ [][Next]_svars

FairSpec == Spec /\ Fairness

=============================================================================
