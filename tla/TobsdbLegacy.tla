----------------------------- MODULE TobsdbLegacy -----------------------------
(***************************************************************************)
(* The legacy client (client/rust/src/lib.rs), translated from its own     *)
(* source.  It has the state of the generic client (TobsdbClient) and the  *)
(* same environment, which is taken from that module.  Its query does not  *)
(* call connect itself but require_conn, which awaits connect and then     *)
(* checks conn.is_none(); its envelope follows the legacy wrapper table,   *)
(* where update_unqiue and update_many pass None for data.                 *)
(*                                                                         *)
(* Client is TobsdbClient instantiated with the legacy wrapper table and   *)
(* the identity on the variables: the property ImplementsClient says that  *)
(* every behaviour of the legacy client is one of the generic client.      *)
(***************************************************************************)
EXTENDS Naturals, Sequences, TobsdbWrappers

CONSTANTS
    Faults,     \* which environment failures may happen
    MaxCalls,   \* bound on the number of queries the caller makes
    MaxConns    \* bound on the number of successful handshakes

ASSUME FaultsAssumption == Faults \subseteq {"handshake", "close", "link", "timeout"}

ASSUME BoundsAssumption == MaxCalls \in Nat /\ MaxConns \in Nat

VARIABLES conn, nconns, srv, dead, toServer, toClient, pc, call, ret, nreq

vars == <<conn, nconns, srv, dead, toServer, toClient, pc, call, ret, nreq>>

Client == INSTANCE TobsdbRefinement WITH
    DataActions <- LegacyDataActions,
    WhereActions <- LegacyWhereActions

NoConn == Client!NoConn

\* The legacy TdbError enum.
TdbError == {"ConnFailed", "QueryFailed", "Disconnected", "NoResponse"}

\* The current call returns the error e.
Fail(e) == e \in TdbError /\ Client!Return(e, 0)

\* serde_json::from_str into TdbResponse (data: Option<Map>) or
\* TdbResponseMany (data: Option<Vec<Map>>).
Decodes(r, a) == r.data \in {"null", Client!Shape(a)}

\* The json! envelope of query, with data and where as the wrapper passes them.
\* The frame carries no request id: id is the identity of the request in the
\* model (the n-th query), as in TobsdbClient's Envelope.
Envelope(a, id) ==
    [id |-> id, action |-> a, data |-> a \in LegacyDataActions,
     where |-> a \in LegacyWhereActions]

\* Tobsdb::new: conn None.
Init == Client!Init

\* require_conn, once its connect().await has returned Ok with c stored:
\* Err(Disconnected) if conn is None, otherwise query goes on to the send.
RequireConn(c) ==
    IF c = NoConn THEN Fail("Disconnected") ELSE pc' = "sending" /\ UNCHANGED ret

\* Mutant of Connect: the "Already connected" early return is missing.
ConnectNoEarlyReturn ==
    /\ pc = "idle"
    /\ nconns < MaxConns
    /\ pc' = "connecting"
    /\ call' = [Client!NoCall EXCEPT !.kind = "connect"]
    /\ UNCHANGED <<conn, nconns, srv, dead, toServer, toClient, nreq, ret>>

\* connect: Ok(()) when a connection is stored, else await connect_async.
Connect ==
    /\ pc = "idle"
    /\ \/ /\ conn # NoConn
          /\ ret' = [kind |-> "connect", outcome |-> "ok", id |-> 0, got |-> 0]
          /\ UNCHANGED <<pc, call>>
       \/ /\ conn = NoConn
          /\ nconns < MaxConns
          /\ pc' = "connecting"
          /\ call' = [Client!NoCall EXCEPT !.kind = "connect"]
          /\ UNCHANGED ret
    /\ UNCHANGED <<conn, nconns, srv, dead, toServer, toClient, nreq>>

\* A wrapper calls query, which awaits require_conn, which awaits connect.
Query(a) ==
    /\ pc = "idle"
    /\ nreq < MaxCalls
    /\ conn # NoConn \/ nconns < MaxConns
    /\ nreq' = nreq + 1
    /\ call' = [kind |-> "query", op |-> a, id |-> nreq + 1, conn |-> NoConn]
    /\ IF conn = NoConn THEN pc' = "connecting" /\ UNCHANGED ret
                        ELSE RequireConn(conn)
    /\ UNCHANGED <<conn, nconns, srv, dead, toServer, toClient>>

\* connect_async returns Ok with no tdb-error header: conn is stored.
HandshakeOk ==
    /\ pc = "connecting"
    /\ LET c == nconns + 1 IN
         /\ nconns' = c
         /\ conn' = c
         /\ srv' = [srv EXCEPT ![c] = "open"]
         /\ \/ call.kind = "query" /\ RequireConn(c)
            \/ call.kind = "connect" /\ Client!Return("ok", 0)
    /\ UNCHANGED <<dead, toServer, toClient, call, nreq>>

\* connect_async fails or the tdb-error header is there: Err(ConnFailed).
HandshakeFail ==
    /\ "handshake" \in Faults
    /\ pc = "connecting"
    /\ Fail("ConnFailed")
    /\ UNCHANGED <<conn, nconns, srv, dead, toServer, toClient, call, nreq>>

\* conn.send(Message::from(query_data.to_string())).await.
Send ==
    /\ pc = "sending"
    /\ LET c == conn IN
       \/ /\ dead[c] \/ srv[c] = "gone"
          /\ dead' = [dead EXCEPT ![c] = TRUE]
          /\ Fail("QueryFailed")
          /\ UNCHANGED toServer
       \/ /\ ~dead[c]
          /\ toServer' = IF srv[c] = "open"
                         THEN [toServer EXCEPT ![c] = Append(@, Envelope(call.op, call.id))]
                         ELSE toServer
          /\ pc' = "awaiting"
          /\ UNCHANGED <<dead, ret>>
    /\ UNCHANGED <<conn, nconns, srv, toClient, call, nreq>>

\* if let Some(Ok(res)) = conn.next().await: into_text().unwrap() and
\* from_str(..).unwrap() on the frame (a Close frame's reason is not JSON);
\* Err(NoResponse) when the stream ends.
Receive ==
    /\ pc = "awaiting"
    /\ LET c == conn IN
       \/ /\ toClient[c] # <<>>
          /\ toClient' = [toClient EXCEPT ![c] = Tail(@)]
          /\ IF Decodes(Head(toClient[c]), call.op)
             THEN Client!Return("ok", Head(toClient[c]).for)
             ELSE pc' = "crashed" /\ UNCHANGED ret
          /\ UNCHANGED dead
       \/ /\ toClient[c] = <<>>
          /\ srv[c] = "closing"
          /\ pc' = "crashed"
          /\ UNCHANGED <<dead, toClient, ret>>
       \/ /\ toClient[c] = <<>>
          /\ srv[c] = "gone"
          /\ dead' = [dead EXCEPT ![c] = TRUE]
          /\ Fail("NoResponse")
          /\ UNCHANGED toClient
    /\ UNCHANGED <<conn, nconns, srv, toServer, call, nreq>>

\* disconnect: if let Some(conn) = self.conn.take(), await its close.
Disconnect ==
    /\ pc = "idle"
    /\ \/ /\ conn = NoConn
          /\ ret' = [kind |-> "disconnect", outcome |-> "ok", id |-> 0, got |-> 0]
          /\ UNCHANGED <<conn, pc, call>>
       \/ /\ conn # NoConn
          /\ conn' = NoConn
          /\ call' = [Client!NoCall EXCEPT !.kind = "disconnect", !.conn = conn]
          /\ pc' = "closing"
          /\ UNCHANGED ret
    /\ UNCHANGED <<nconns, srv, dead, toServer, toClient, nreq>>

\* conn.close(Some(CloseFrame { Normal, "Disconnect" })).await.unwrap().
CloseDone ==
    /\ pc = "closing"
    /\ LET c == call.conn IN
       \/ /\ dead[c] \/ srv[c] = "gone"
          /\ pc' = "crashed"
          /\ UNCHANGED <<srv, ret>>
       \/ /\ ~dead[c]
          /\ srv' = [srv EXCEPT ![c] = "gone"]
          /\ Client!Return("ok", 0)
    /\ UNCHANGED <<conn, nconns, dead, toServer, toClient, call, nreq>>

\* The client's steps, and the caller's timeout, the server and the link of
\* TobsdbClient.
Next ==
    \/ Connect
    \/ \E a \in Actions : Query(a)
    \/ HandshakeOk
    \/ HandshakeFail
    \/ Send
    \/ Receive
    \/ Client!Cancel
    \/ Disconnect
    \/ CloseDone
    \/ \E c \in Client!Conns :
          Client!ServerRespond(c) \/ Client!ServerClose(c) \/ Client!LinkFail(c)

Spec == Init /\ [][Next]_vars

-----------------------------------------------------------------------------

\* The legacy client, with require_conn in place of connect inside query,
\* takes only steps the generic client takes on the same state, given the
\* legacy wrapper table: the two source trees have the same lifecycle,
\* the same error on each failure and the same panics.
ImplementsClient == Client!Spec

\* Spec section 8: create/createMany send where = null, the find and delete
\* operations send data = null, the updates send both; checked on the
\* requests the legacy client's own query writes.
EnvelopeShape == Client!EnvelopeShape

=============================================================================
