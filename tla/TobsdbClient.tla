---------------------------- MODULE TobsdbClient ----------------------------
(***************************************************************************)
(* The Tobsdb client (tools/client/rust/src/lib.rs): one Tobsdb value with *)
(* its optional WebSocket connection, used by one caller that makes one    *)
(* call at a time (every method takes &mut self), and the environment the  *)
(* client talks to: the handshake, the TobsDB server answering requests in *)
(* order, the server closing the socket, and the link breaking.            *)
(*                                                                         *)
(* A connection is named by the number of the handshake that opened it.   *)
(* Per connection c the model keeps the two directions of the socket as   *)
(* FIFO sequences (toServer[c], toClient[c]), the server's side of it      *)
(* (srv[c]) and whether the client's WebSocketStream has already reported *)
(* a transport error on it (dead[c]).  A request carries a ghost id (the   *)
(* number of the call that sent it); the server echoes it in the response, *)
(* as __tdb_client_req_id__ is meant to be, though the client never reads  *)
(* it.                                                                     *)
(***************************************************************************)
EXTENDS Naturals, Sequences, TobsdbWrappers

CONSTANTS
    DataActions,    \* the wrappers that pass Some(data)
    WhereActions,   \* the wrappers that pass Some(where_constraint)
    Faults,         \* which environment failures may happen
    MaxCalls,       \* bound on the number of queries the caller makes
    MaxConns        \* bound on the number of successful handshakes

\* The failures the environment can produce: a failed handshake (transport
\* error or tdb-error header), the server closing the socket gracefully, the
\* link breaking, and the caller dropping a call at an await (a timeout).
FaultKinds == {"handshake", "close", "link", "timeout"}

ASSUME WrapperAssumption == DataActions \subseteq Actions /\ WhereActions \subseteq Actions

ASSUME FaultsAssumption == Faults \subseteq FaultKinds

ASSUME BoundsAssumption == MaxCalls \in Nat /\ MaxConns \in Nat

VARIABLES
    conn,       \* Tobsdb.conn: NoConn (None) or the connection it holds
    nconns,     \* number of connections opened so far
    srv,        \* srv[c]: the server's side of connection c
    dead,       \* dead[c]: the client's stream has reported an error on c
    toServer,   \* toServer[c]: request frames written and not yet read
    toClient,   \* toClient[c]: response frames written and not yet read
    pc,         \* where the caller's current call is suspended
    call,       \* the call in progress
    ret,        \* what the last call that returned gave back
    nreq        \* number of queries started so far (ghost request ids)

vars == <<conn, nconns, srv, dead, toServer, toClient, pc, call, ret, nreq>>

NoConn == 0

Conns == 1..MaxConns

\* Server side of a connection: not opened yet, open and answering, closed
\* by the server with a Close frame queued behind its responses, or gone
\* (link broken, or torn down by the client's close).
ServerStates == {"none", "open", "closing", "gone"}

\* What the caller's call is waiting on: connect_async, conn.send, conn.next
\* or conn.close; "crashed" is a panic of an unwrap(), which ends the task.
PCs == {"idle", "connecting", "sending", "awaiting", "closing", "crashed"}

CallKinds == {"none", "connect", "query", "disconnect"}

\* The data field a response carries: null, one record, a list of records.
Shapes == {"null", "one", "many"}

Shape(a) == IF a \in ManyActions THEN "many" ELSE "one"

\* The result of a call: Ok, one of the TdbError kinds, or dropped by the
\* caller before it returned.
Outcomes == {"ok", "ConnFailed", "QueryFailed", "Disconnected", "NoResponse",
             "cancelled"}

Request == [id : 1..MaxCalls, action : Actions, data : BOOLEAN, where : BOOLEAN]

Response == [for : 1..MaxCalls, data : Shapes]

CallRecords == [kind : CallKinds, op : Actions \cup {"none"}, id : 0..MaxCalls,
                conn : 0..MaxConns]

Results == [kind : CallKinds, outcome : Outcomes, id : 0..MaxCalls, got : 0..MaxCalls]

\* Mutant of Envelope: the json! envelope leaves out the "where" field.
EnvelopeNoWhere(a, id) == [id |-> id, action |-> a, data |-> a \in DataActions]

\* The JSON envelope query builds: {"action", "table", "data", "where"},
\* with None serialised as null.
Envelope(a, id) ==
    [id |-> id, action |-> a, data |-> a \in DataActions, where |-> a \in WhereActions]

\* Mutant of Decodes: data is decoded as a plain D, not an Option<D>, so a
\* null data field no longer decodes.
DecodesNoNull(r, a) == r.data = Shape(a)

\* serde_json::from_str::<TdbResponse<D>> or <TdbResponseMany<D>>: data is
\* an Option, so null always decodes; otherwise it must be a record for
\* TdbResponse and a list for TdbResponseMany.
Decodes(r, a) == r.data \in {"null", Shape(a)}

NoCall == [kind |-> "none", op |-> "none", id |-> 0, conn |-> NoConn]

-----------------------------------------------------------------------------

Init ==
    /\ conn = NoConn
    /\ nconns = 0
    /\ srv = [c \in Conns |-> "none"]
    /\ dead = [c \in Conns |-> FALSE]
    /\ toServer = [c \in Conns |-> <<>>]
    /\ toClient = [c \in Conns |-> <<>>]
    /\ pc = "idle"
    /\ call = NoCall
    /\ ret = [kind |-> "none", outcome |-> "ok", id |-> 0, got |-> 0]
    /\ nreq = 0

\* The current call returns outcome to the caller; got is the request id
\* the decoded response answered (0 when there is none).
Return(outcome, got) ==
    /\ pc' = "idle"
    /\ ret' = [kind |-> call.kind, outcome |-> outcome, id |-> call.id, got |-> got]

\* Tobsdb::connect called by the user: Ok(()) at once when a connection is
\* stored, otherwise await connect_async.
Connect ==
    /\ pc = "idle"
    /\ \/ /\ conn # NoConn
          /\ ret' = [kind |-> "connect", outcome |-> "ok", id |-> 0, got |-> 0]
          /\ UNCHANGED <<pc, call>>
       \/ /\ conn = NoConn
          /\ nconns < MaxConns
          /\ pc' = "connecting"
          /\ call' = [NoCall EXCEPT !.kind = "connect"]
          /\ UNCHANGED ret
    /\ UNCHANGED <<conn, nconns, srv, dead, toServer, toClient, nreq>>

\* A wrapper calls query(a, ...): query first awaits self.connect(), which
\* returns at once when a connection is stored.
Query(a) ==
    /\ pc = "idle"
    /\ nreq < MaxCalls
    /\ conn # NoConn \/ nconns < MaxConns
    /\ nreq' = nreq + 1
    /\ call' = [kind |-> "query", op |-> a, id |-> nreq + 1, conn |-> NoConn]
    /\ pc' = IF conn = NoConn THEN "connecting" ELSE "sending"
    /\ UNCHANGED <<conn, nconns, srv, dead, toServer, toClient, ret>>

\* connect_async succeeds with no tdb-error header: self.conn = Some(conn).
\* Inside query, the conn.is_none() check then passes and query goes on.
HandshakeOk ==
    /\ pc = "connecting"
    /\ LET c == nconns + 1 IN
         /\ nconns' = c
         /\ conn' = c
         /\ srv' = [srv EXCEPT ![c] = "open"]
    /\ \/ /\ call.kind = "query"
          /\ pc' = "sending"
          /\ UNCHANGED ret
       \/ /\ call.kind = "connect"
          /\ Return("ok", 0)
    /\ UNCHANGED <<dead, toServer, toClient, call, nreq>>

\* connect_async fails, or succeeds with a tdb-error header: Err(ConnFailed)
\* with self.conn left None; query passes the error on through `?`.
HandshakeFail ==
    /\ "handshake" \in Faults
    /\ pc = "connecting"
    /\ Return("ConnFailed", 0)
    /\ UNCHANGED <<conn, nconns, srv, dead, toServer, toClient, call, nreq>>

\* conn.send(Message::from(query_data.to_string())).await.  On a stream that
\* has already failed the send fails; on a socket the server has closed or
\* lost the frame may still be accepted by the transport and is then lost.
Send ==
    /\ pc = "sending"
    /\ LET c == conn IN
       \/ /\ dead[c]
          /\ Return("QueryFailed", 0)
          /\ UNCHANGED <<dead, toServer>>
       \/ /\ ~dead[c]
          /\ srv[c] = "open"
          /\ toServer' = [toServer EXCEPT ![c] = Append(@, Envelope(call.op, call.id))]
          /\ pc' = "awaiting"
          /\ UNCHANGED <<dead, ret>>
       \/ /\ ~dead[c]
          /\ srv[c] \in {"closing", "gone"}
          /\ pc' = "awaiting"
          /\ UNCHANGED <<dead, toServer, ret>>
       \/ /\ ~dead[c]
          /\ srv[c] = "gone"
          /\ dead' = [dead EXCEPT ![c] = TRUE]
          /\ Return("QueryFailed", 0)
          /\ UNCHANGED toServer
    /\ UNCHANGED <<conn, nconns, srv, toClient, call, nreq>>

\* Mutant of Receive: the response frame is read but left in the stream
\* (a peek instead of next()).
ReceivePeek ==
    /\ pc = "awaiting"
    /\ LET c == conn IN
       \/ /\ toClient[c] # <<>>
          /\ Decodes(Head(toClient[c]), call.op)
          /\ Return("ok", Head(toClient[c]).for)
          /\ UNCHANGED <<dead, toClient>>
       \/ /\ toClient[c] = <<>>
          /\ srv[c] = "gone"
          /\ dead' = [dead EXCEPT ![c] = TRUE]
          /\ Return("NoResponse", 0)
          /\ UNCHANGED toClient
    /\ UNCHANGED <<conn, nconns, srv, toServer, call, nreq>>

\* Mutant of Receive: the end of the stream (None or Some(Err)) is not
\* handled, so a query on a broken link waits for a frame forever.
ReceiveNoEof ==
    /\ pc = "awaiting"
    /\ LET c == conn IN
       \/ /\ toClient[c] # <<>>
          /\ toClient' = [toClient EXCEPT ![c] = Tail(@)]
          /\ Decodes(Head(toClient[c]), call.op)
          /\ Return("ok", Head(toClient[c]).for)
          /\ UNCHANGED dead
       \/ /\ toClient[c] = <<>>
          /\ srv[c] = "closing"
          /\ pc' = "crashed"
          /\ UNCHANGED <<dead, toClient, ret>>
    /\ UNCHANGED <<conn, nconns, srv, toServer, call, nreq>>

\* conn.next().await: the next frame of the stream, whatever it answers.
\* A text frame is decoded with from_str(..).unwrap(): a shape that does not
\* fit panics.  The server's Close frame comes out as Some(Ok(Close)); its
\* into_text() is the close reason, which is not JSON, and from_str(..)
\* .unwrap() panics.  A broken link ends the stream: Err(NoResponse).
Receive ==
    /\ pc = "awaiting"
    /\ LET c == conn IN
       \/ /\ toClient[c] # <<>>
          /\ toClient' = [toClient EXCEPT ![c] = Tail(@)]
          /\ \/ /\ Decodes(Head(toClient[c]), call.op)
                /\ Return("ok", Head(toClient[c]).for)
             \/ /\ ~Decodes(Head(toClient[c]), call.op)
                /\ pc' = "crashed"
                /\ UNCHANGED ret
          /\ UNCHANGED dead
       \/ /\ toClient[c] = <<>>
          /\ srv[c] = "closing"
          /\ pc' = "crashed"
          /\ UNCHANGED <<dead, toClient, ret>>
       \/ /\ toClient[c] = <<>>
          /\ srv[c] = "gone"
          /\ dead' = [dead EXCEPT ![c] = TRUE]
          /\ Return("NoResponse", 0)
          /\ UNCHANGED toClient
    /\ UNCHANGED <<conn, nconns, srv, toServer, call, nreq>>

\* The caller's own timeout drops the call's future at one of its awaits.
\* Nothing of the client is undone: a request already sent stays
\* outstanding.  A dropped send may already have fed the frame to the sink,
\* which writes it later; a dropped close drops the taken stream, and the
\* server sees its socket end.
Cancel ==
    /\ "timeout" \in Faults
    /\ pc \in {"connecting", "sending", "awaiting", "closing"}
    /\ Return("cancelled", 0)
    /\ \/ /\ pc \in {"connecting", "awaiting"}
          /\ UNCHANGED <<srv, toServer>>
       \/ /\ pc = "sending"
          /\ \E fed \in BOOLEAN :
               toServer' = IF fed /\ ~dead[conn] /\ srv[conn] = "open"
                           THEN [toServer EXCEPT ![conn] = Append(@, Envelope(call.op, call.id))]
                           ELSE toServer
          /\ UNCHANGED srv
       \/ /\ pc = "closing"
          /\ srv' = [srv EXCEPT ![call.conn] = "gone"]
          /\ toServer' = [toServer EXCEPT ![call.conn] = <<>>]
    /\ UNCHANGED <<conn, nconns, dead, toClient, call, nreq>>

\* Mutant of Disconnect: the connection is closed through as_mut() and
\* stays stored instead of being taken.
DisconnectNoTake ==
    /\ pc = "idle"
    /\ conn # NoConn
    /\ call' = [NoCall EXCEPT !.kind = "disconnect", !.conn = conn]
    /\ pc' = "closing"
    /\ UNCHANGED <<conn, nconns, srv, dead, toServer, toClient, nreq, ret>>

\* Tobsdb::disconnect: self.conn.take(), then await conn.close(..) on the
\* taken connection; a no-op when no connection is stored.
Disconnect ==
    /\ pc = "idle"
    /\ \/ /\ conn = NoConn
          /\ ret' = [kind |-> "disconnect", outcome |-> "ok", id |-> 0, got |-> 0]
          /\ UNCHANGED <<conn, pc, call>>
       \/ /\ conn # NoConn
          /\ conn' = NoConn
          /\ call' = [NoCall EXCEPT !.kind = "disconnect", !.conn = conn]
          /\ pc' = "closing"
          /\ UNCHANGED ret
    /\ UNCHANGED <<nconns, srv, dead, toServer, toClient, nreq>>

\* conn.close(Some(CloseFrame{Normal, "Disconnect"})).await.unwrap(): a
\* stream that has failed refuses the write and the unwrap panics; on a
\* lost link the write may fail too; otherwise the connection is torn down.
CloseDone ==
    /\ pc = "closing"
    /\ LET c == call.conn IN
       \/ /\ dead[c] \/ srv[c] = "gone"
          /\ pc' = "crashed"
          /\ UNCHANGED <<srv, ret>>
       \/ /\ ~dead[c]
          /\ srv' = [srv EXCEPT ![c] = "gone"]
          /\ Return("ok", 0)
    /\ UNCHANGED <<conn, nconns, dead, toServer, toClient, call, nreq>>

-----------------------------------------------------------------------------
(* The environment: the TobsDB server and the transport.                  *)

\* The server reads the next request of c and writes one response for it:
\* data null (an error status) or of the shape the action returns.
ServerRespond(c) ==
    /\ srv[c] = "open"
    /\ toServer[c] # <<>>
    /\ toServer' = [toServer EXCEPT ![c] = Tail(@)]
    /\ \E d \in {"null", Shape(Head(toServer[c]).action)} :
         toClient' = [toClient EXCEPT ![c] =
                        Append(@, [for |-> Head(toServer[c]).id, data |-> d])]
    /\ UNCHANGED <<conn, nconns, srv, dead, pc, call, ret, nreq>>

\* The server closes c: a Close frame follows its responses and requests it
\* has not read are dropped.
ServerClose(c) ==
    /\ "close" \in Faults
    /\ srv[c] = "open"
    /\ srv' = [srv EXCEPT ![c] = "closing"]
    /\ toServer' = [toServer EXCEPT ![c] = <<>>]
    /\ UNCHANGED <<conn, nconns, dead, toClient, pc, call, ret, nreq>>

\* The link of c breaks: frames in flight to the server are lost, those in
\* flight to the client may be lost, and the stream ends after them.
LinkFail(c) ==
    /\ "link" \in Faults
    /\ srv[c] \in {"open", "closing"}
    /\ srv' = [srv EXCEPT ![c] = "gone"]
    /\ toServer' = [toServer EXCEPT ![c] = <<>>]
    /\ \E keep \in BOOLEAN :
         toClient' = [toClient EXCEPT ![c] = IF keep THEN @ ELSE <<>>]
    /\ UNCHANGED <<conn, nconns, dead, pc, call, ret, nreq>>

-----------------------------------------------------------------------------

Next ==
    \/ Connect
    \/ \E a \in Actions : Query(a)
    \/ HandshakeOk
    \/ HandshakeFail
    \/ Send
    \/ Receive
    \/ Cancel
    \/ Disconnect
    \/ CloseDone
    \/ \E c \in Conns : ServerRespond(c) \/ ServerClose(c) \/ LinkFail(c)

\* The client's code runs on once what it awaits is ready, and the server
\* answers what it reads; the caller, the faults and the timeouts are not
\* fair: the caller may stop calling and a link need never break.
Fairness ==
    /\ WF_vars(HandshakeOk \/ HandshakeFail)
    /\ WF_vars(Send)
    /\ WF_vars(Receive)
    /\ WF_vars(CloseDone)
    /\ WF_vars(\E c \in Conns : ServerRespond(c))

Spec == Init /\ [][Next]_vars

FairSpec == Spec /\ Fairness

-----------------------------------------------------------------------------
(* Properties.                                                             *)

\* The type invariant, in two parts: the client's fields and the servers'
\* states, and the streams.
ScalarTypes ==
    /\ conn \in 0..MaxConns
    /\ nconns \in 0..MaxConns
    /\ srv \in [Conns -> ServerStates]
    /\ dead \in [Conns -> BOOLEAN]
    /\ pc \in PCs
    /\ call \in CallRecords
    /\ ret \in Results
    /\ nreq \in 0..MaxCalls

StreamTypes ==
    /\ toServer \in [Conns -> Seq(Request)]
    /\ toClient \in [Conns -> Seq(Response)]

TypeOK == ScalarTypes /\ StreamTypes

\* Frames outstanding on connection c: requests the server has not read and
\* responses the client has not read.
Outstanding(c) == Len(toServer[c]) + Len(toClient[c])

\* query pairs a request with "the next frame" of the stream, never with a
\* correlation id.  That is only right if the stored connection never holds
\* more than the one request of the call waiting in conn.next(), and nothing
\* at all between calls.
SingleOutstanding ==
    conn # NoConn => Outstanding(conn) <= IF pc = "awaiting" THEN 1 ELSE 0

\* Every Ok a query returns holds the response to the request that query
\* sent, not to an earlier one (query returns whatever frame comes next).
ResponseMatchesRequest ==
    (ret.kind = "query" /\ ret.outcome = "ok") => ret.got = ret.id

\* Every call the caller makes returns (or the task panics), provided the
\* server answers and the transport reports what happens to the link.
CallReturns == (pc \notin {"idle", "crashed"}) ~> (pc \in {"idle", "crashed"})

\* query never aborts the caller's task: spec section 8 says a transport
\* close before a response frame gives NoResponse, and section 4.1 step 6
\* calls the abort in from_str(..).unwrap() an open issue, not a contract.
QueryNeverPanics == ~(pc = "crashed" /\ call.kind = "query")

\* Spec section 4.1: disconnect discards the connection and never fails.
DisconnectNeverPanics == ~(pc = "crashed" /\ call.kind = "disconnect")

\* Spec section 8: create/createMany send where = null, the find and delete
\* operations send data = null, the updates send both.
EnvelopeShape ==
    \A c \in Conns : \A i \in 1..Len(toServer[c]) :
        /\ toServer[c][i].data = (toServer[c][i].action \in SpecDataActions)
        /\ toServer[c][i].where = (toServer[c][i].action \in SpecWhereActions)

=============================================================================
