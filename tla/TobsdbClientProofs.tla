------------------------- MODULE TobsdbClientProofs -------------------------
(***************************************************************************)
(* Proofs about TobsdbClient, for every value of its constants.            *)
(*                                                                         *)
(* TypeOK is not inductive: a step of HandshakeOk, Send or Receive is only *)
(* well typed if the call it continues was set up right, e.g. a handshake  *)
(* only starts when a connection number is left, and a query only sends or *)
(* waits on a stored connection.  TypeInv adds these facts (PcInv).        *)
(*                                                                         *)
(* ResponseMatchesRequest is not inductive either: it speaks only of the  *)
(* last result.  IInv adds what the wire looks like (WireInv): on the      *)
(* stored connection nothing is outstanding between calls and only the     *)
(* waiting call's own request or response while it waits; a fresh         *)
(* connection starts with empty streams; a server that no longer reads has *)
(* no unread requests.                                                     *)
(***************************************************************************)
EXTENDS TobsdbClient, SequenceTheorems, TLAPS

\* What the suspended call was set up with.
PcInv ==
    /\ call.kind = "query" => call.op \in Actions /\ call.id \in 1..MaxCalls
    /\ pc = "connecting" => nconns < MaxConns /\ call.kind \in {"connect", "query"}
    /\ pc \in {"sending", "awaiting"} => conn \in Conns /\ call.kind = "query"
    /\ pc = "closing" => call.conn \in Conns

TypeInv == TypeOK /\ PcInv

\* Connections are numbered in the order connect_async opens them: one with
\* a higher number than nconns has never been opened and has empty streams.
Fresh ==
    /\ \A c \in Conns : c > nconns =>
           srv[c] = "none" /\ toServer[c] = <<>> /\ toClient[c] = <<>>
    /\ conn <= nconns

\* A server that has closed or lost a connection reads nothing more from it.
Drained == \A c \in Conns : srv[c] \in {"closing", "gone"} => Len(toServer[c]) = 0

\* While disconnect waits in close(), self.conn is already None and the
\* taken connection has no unread requests.
ClosingInv ==
    pc = "closing" =>
        /\ conn = NoConn
        /\ call.kind = "disconnect"
        /\ call.conn <= nconns
        /\ Len(toServer[call.conn]) = 0

\* Every frame on the stored connection belongs to the current call.
Tagged ==
    conn # NoConn =>
        /\ \A i \in 1..Len(toServer[conn]) : toServer[conn][i].id = call.id
        /\ \A i \in 1..Len(toClient[conn]) : toClient[conn][i].for = call.id

WireInv == Fresh /\ Drained /\ ClosingInv /\ SingleOutstanding /\ Tagged

IInv == TypeInv /\ WireInv /\ ResponseMatchesRequest

-----------------------------------------------------------------------------
(* Type correctness.                                                       *)

\* The initial state, Tobsdb::new with conn: None, is well typed.
LEMMA TypeInvInit == Init => TypeInv
  BY BoundsAssumption DEF Init, TypeInv, TypeOK, ScalarTypes, StreamTypes, PcInv, NoConn, NoCall, Conns,
                          ServerStates, PCs, CallKinds, Outcomes, CallRecords,
                          Results

\* A result built from the current call is well typed.
LEMMA ResultType ==
  ASSUME ScalarTypes, NEW o \in Outcomes, NEW g \in 0..MaxCalls
  PROVE  [kind |-> call.kind, outcome |-> o, id |-> call.id, got |-> g] \in Results
  BY DEF ScalarTypes, CallRecords, Results

\* Tobsdb::connect called by the user.
LEMMA ConnectType == TypeInv /\ Connect => TypeInv'
<1> SUFFICES ASSUME TypeInv, Connect PROVE TypeInv'
  OBVIOUS
<1>0. ScalarTypes /\ StreamTypes /\ PcInv
  BY DEF TypeInv, TypeOK
<1>1. UNCHANGED <<conn, nconns, srv, dead, toServer, toClient, nreq>>
  BY DEF Connect
<1>2. \/ /\ conn # NoConn /\ UNCHANGED <<pc, call>>
         /\ ret' = [kind |-> "connect", outcome |-> "ok", id |-> 0, got |-> 0]
      \/ /\ conn = NoConn /\ nconns < MaxConns /\ pc' = "connecting"
         /\ call' = [kind |-> "connect", op |-> "none", id |-> 0, conn |-> NoConn]
         /\ UNCHANGED ret
  BY DEF Connect, NoCall
<1>3. ScalarTypes'
  BY <1>0, <1>1, <1>2, BoundsAssumption
     DEF ScalarTypes, PCs, CallRecords, Results, CallKinds, Outcomes, NoConn
<1>4. PcInv'
  BY <1>0, <1>1, <1>2 DEF PcInv
<1>5. QED
  BY <1>0, <1>1, <1>3, <1>4 DEF TypeInv, TypeOK, StreamTypes

\* A wrapper starts query(a, ...).
LEMMA QueryType == ASSUME TypeInv, NEW a \in Actions, Query(a) PROVE TypeInv'
<1>0. ScalarTypes /\ StreamTypes /\ PcInv
  BY DEF TypeInv, TypeOK
<1>1. UNCHANGED <<conn, nconns, srv, dead, toServer, toClient, ret>>
  BY DEF Query
<1>2. /\ pc = "idle" /\ nreq < MaxCalls /\ nreq' = nreq + 1
      /\ call' = [kind |-> "query", op |-> a, id |-> nreq + 1, conn |-> NoConn]
      /\ \/ conn = NoConn /\ nconns < MaxConns /\ pc' = "connecting"
         \/ conn # NoConn /\ pc' = "sending"
  BY DEF Query
<1>3. ScalarTypes'
  BY <1>0, <1>1, <1>2, BoundsAssumption
     DEF ScalarTypes, PCs, CallRecords, CallKinds, NoConn
<1>4. PcInv'
  BY <1>0, <1>1, <1>2, BoundsAssumption DEF PcInv, ScalarTypes, NoConn, Conns
<1>5. QED
  BY <1>0, <1>1, <1>3, <1>4 DEF TypeInv, TypeOK, StreamTypes

\* connect_async succeeds.
LEMMA HandshakeOkType == TypeInv /\ HandshakeOk => TypeInv'
<1> SUFFICES ASSUME TypeInv, HandshakeOk PROVE TypeInv'
  OBVIOUS
<1>0. ScalarTypes /\ StreamTypes /\ PcInv
  BY DEF TypeInv, TypeOK
<1>1. pc = "connecting" /\ nconns < MaxConns /\ call.kind \in {"connect", "query"}
  BY <1>0 DEF HandshakeOk, PcInv
<1>2. /\ nconns' = nconns + 1 /\ conn' = nconns + 1 /\ nconns + 1 \in Conns
      /\ srv' = [srv EXCEPT ![nconns + 1] = "open"]
  BY <1>0, <1>1, BoundsAssumption DEF HandshakeOk, ScalarTypes, Conns
<1>3. \/ pc' = "sending" /\ call.kind = "query" /\ ret' = ret
      \/ pc' = "idle"
         /\ ret' = [kind |-> call.kind, outcome |-> "ok", id |-> call.id, got |-> 0]
  BY DEF HandshakeOk, Return
<1>4. ret' \in Results
  <2>1. CASE ret' = ret
    BY <1>0, <2>1 DEF ScalarTypes
  <2>2. CASE ret' = [kind |-> call.kind, outcome |-> "ok", id |-> call.id, got |-> 0]
    <3>1. "ok" \in Outcomes /\ 0 \in 0..MaxCalls
      BY BoundsAssumption DEF Outcomes
    <3>2. QED
      BY <1>0, <2>2, <3>1, ResultType
  <2>3. QED
    BY <1>3, <2>1, <2>2
<1>5. UNCHANGED <<dead, toServer, toClient, call, nreq>>
  BY DEF HandshakeOk
<1>6. ScalarTypes'
  <2>1. srv' \in [Conns -> ServerStates]
    BY <1>0, <1>2 DEF ScalarTypes, ServerStates
  <2>2. pc' \in PCs /\ nconns' \in 0..MaxConns /\ conn' \in 0..MaxConns
    BY <1>2, <1>3 DEF PCs, Conns
  <2>3. QED
    BY <1>0, <1>4, <1>5, <2>1, <2>2 DEF ScalarTypes
<1>7. PcInv'
  BY <1>0, <1>1, <1>2, <1>3, <1>5 DEF PcInv
<1>8. QED
  BY <1>0, <1>5, <1>6, <1>7 DEF TypeInv, TypeOK, StreamTypes

\* The current call returns with o, changing nothing but pc and ret.
LEMMA ReturnOnlyType ==
  ASSUME TypeInv, NEW o \in Outcomes, Return(o, 0),
         UNCHANGED <<conn, nconns, srv, dead, toServer, toClient, call, nreq>>
  PROVE  TypeInv'
<1>0. ScalarTypes /\ StreamTypes /\ PcInv
  BY DEF TypeInv, TypeOK
<1>1. pc' = "idle" /\ ret' \in Results
  BY <1>0, ResultType, BoundsAssumption DEF Return
<1>2. ScalarTypes'
  BY <1>0, <1>1 DEF ScalarTypes, PCs
<1>3. PcInv'
  BY <1>0, <1>1 DEF PcInv
<1>4. QED
  BY <1>0, <1>2, <1>3 DEF TypeInv, TypeOK, StreamTypes

\* conn.send(..).await.
LEMMA SendType == TypeInv /\ Send => TypeInv'
<1> SUFFICES ASSUME TypeInv, Send PROVE TypeInv'
  OBVIOUS
<1>0. ScalarTypes /\ StreamTypes /\ PcInv
  BY DEF TypeInv, TypeOK
<1>1. pc = "sending" /\ conn \in Conns /\ call.op \in Actions /\ call.id \in 1..MaxCalls
  BY <1>0 DEF Send, PcInv
<1>2. UNCHANGED <<conn, nconns, srv, toClient, call, nreq>>
  BY DEF Send
<1>3. Append(toServer[conn], Envelope(call.op, call.id)) \in Seq(Request)
  <2>1. Envelope(call.op, call.id) \in Request
    BY <1>1, WrapperAssumption DEF Envelope, Request
  <2>2. QED
    BY <1>0, <1>1, <2>1, AppendProperties DEF StreamTypes
<1>4. \/ /\ toServer' = [toServer EXCEPT ![conn] =
                           Append(toServer[conn], Envelope(call.op, call.id))]
         /\ pc' = "awaiting" /\ UNCHANGED <<dead, ret>>
      \/ pc' = "awaiting" /\ UNCHANGED <<dead, toServer, ret>>
      \/ /\ dead' = [dead EXCEPT ![conn] = TRUE] \/ dead' = dead
         /\ UNCHANGED toServer
         /\ Return("QueryFailed", 0)
  BY DEF Send
<1>5. dead' \in [Conns -> BOOLEAN] /\ pc' \in PCs /\ ret' \in Results
  <2>1. "QueryFailed" \in Outcomes /\ 0 \in 0..MaxCalls
    BY BoundsAssumption DEF Outcomes
  <2>2. ASSUME Return("QueryFailed", 0) PROVE pc' \in PCs /\ ret' \in Results
    BY <1>0, <2>1, <2>2, ResultType DEF Return, PCs
  <2>3. dead' \in [Conns -> BOOLEAN]
    BY <1>0, <1>1, <1>4 DEF ScalarTypes
  <2>4. QED
    BY <1>0, <1>4, <2>2, <2>3 DEF ScalarTypes, PCs
<1>6. ScalarTypes'
  BY <1>0, <1>2, <1>5 DEF ScalarTypes
<1>7. StreamTypes'
  BY <1>0, <1>1, <1>2, <1>3, <1>4 DEF StreamTypes
<1>8. PcInv'
  BY <1>0, <1>1, <1>2, <1>4 DEF PcInv, Return
<1>9. QED
  BY <1>6, <1>7, <1>8 DEF TypeInv, TypeOK

\* conn.next().await.
LEMMA ReceiveType == TypeInv /\ Receive => TypeInv'
<1> SUFFICES ASSUME TypeInv, Receive PROVE TypeInv'
  OBVIOUS
<1>0. ScalarTypes /\ StreamTypes /\ PcInv
  BY DEF TypeInv, TypeOK
<1>1. pc = "awaiting" /\ conn \in Conns
  BY <1>0 DEF Receive, PcInv
<1>2. UNCHANGED <<conn, nconns, srv, toServer, call, nreq>>
  BY DEF Receive
<1>3. toClient[conn] \in Seq(Response)
  BY <1>0, <1>1 DEF StreamTypes
<1>4. ASSUME toClient[conn] # <<>>
      PROVE  Head(toClient[conn]).for \in 0..MaxCalls
             /\ Tail(toClient[conn]) \in Seq(Response)
  <2>1. Head(toClient[conn]) \in Response /\ Tail(toClient[conn]) \in Seq(Response)
    BY <1>3, <1>4, HeadTailProperties
  <2>2. QED
    BY <2>1 DEF Response
<1>5. \/ /\ toClient[conn] # <<>>
         /\ toClient' = [toClient EXCEPT ![conn] = Tail(toClient[conn])]
         /\ UNCHANGED dead
         /\ \/ Return("ok", Head(toClient[conn]).for)
            \/ pc' = "crashed" /\ UNCHANGED ret
      \/ /\ UNCHANGED <<dead, toClient, ret>>
         /\ pc' = "crashed"
      \/ /\ dead' = [dead EXCEPT ![conn] = TRUE]
         /\ UNCHANGED toClient
         /\ Return("NoResponse", 0)
  BY DEF Receive
<1>6. dead' \in [Conns -> BOOLEAN] /\ pc' \in PCs /\ ret' \in Results
  <2>1. "ok" \in Outcomes /\ "NoResponse" \in Outcomes /\ 0 \in 0..MaxCalls
    BY BoundsAssumption DEF Outcomes
  <2>2. ASSUME NEW o \in Outcomes, NEW g \in 0..MaxCalls, Return(o, g)
        PROVE  pc' \in PCs /\ ret' \in Results
    BY <1>0, <2>2, ResultType DEF Return, PCs
  <2>3. dead' \in [Conns -> BOOLEAN]
    BY <1>0, <1>1, <1>5 DEF ScalarTypes
  <2>4. ASSUME toClient[conn] # <<>>, Return("ok", Head(toClient[conn]).for)
        PROVE  pc' \in PCs /\ ret' \in Results
    BY <1>4, <2>1, <2>2, <2>4
  <2>5. ASSUME Return("NoResponse", 0) PROVE pc' \in PCs /\ ret' \in Results
    BY <2>1, <2>2, <2>5
  <2>6. QED
    BY <1>0, <1>5, <2>3, <2>4, <2>5 DEF ScalarTypes, PCs
<1>7. ScalarTypes'
  BY <1>0, <1>2, <1>6 DEF ScalarTypes
<1>8. StreamTypes'
  BY <1>0, <1>1, <1>2, <1>4, <1>5 DEF StreamTypes
<1>9. PcInv'
  BY <1>0, <1>2, <1>5 DEF PcInv, Return
<1>10. QED
  BY <1>7, <1>8, <1>9 DEF TypeInv, TypeOK

\* Tobsdb::disconnect.
LEMMA DisconnectType == TypeInv /\ Disconnect => TypeInv'
<1> SUFFICES ASSUME TypeInv, Disconnect PROVE TypeInv'
  OBVIOUS
<1>0. ScalarTypes /\ StreamTypes /\ PcInv
  BY DEF TypeInv, TypeOK
<1>1. UNCHANGED <<nconns, srv, dead, toServer, toClient, nreq>>
  BY DEF Disconnect
<1>2. \/ /\ UNCHANGED <<conn, pc, call>>
         /\ ret' = [kind |-> "disconnect", outcome |-> "ok", id |-> 0, got |-> 0]
      \/ /\ conn # NoConn /\ conn' = NoConn /\ pc' = "closing" /\ UNCHANGED ret
         /\ call' = [kind |-> "disconnect", op |-> "none", id |-> 0, conn |-> conn]
  BY DEF Disconnect, NoCall
<1>3. ScalarTypes'
  BY <1>0, <1>1, <1>2, BoundsAssumption
     DEF ScalarTypes, PCs, CallRecords, Results, CallKinds, Outcomes, NoConn
<1>4. PcInv'
  <2>1. CASE UNCHANGED <<conn, pc, call>>
    <3>1. conn' = conn /\ pc' = pc /\ call' = call /\ nconns' = nconns
      BY <1>1, <2>1
    <3>2. QED
      BY <1>0, <3>1 DEF PcInv
  <2>2. CASE /\ conn # NoConn /\ conn' = NoConn /\ pc' = "closing"
             /\ call' = [kind |-> "disconnect", op |-> "none", id |-> 0, conn |-> conn]
    <3>1. conn \in Conns
      BY <1>0, <2>2 DEF ScalarTypes, NoConn, Conns
    <3>2. QED
      BY <2>2, <3>1 DEF PcInv
  <2>3. QED
    BY <1>2, <2>1, <2>2
<1>5. QED
  BY <1>0, <1>1, <1>3, <1>4 DEF TypeInv, TypeOK, StreamTypes

\* conn.close(..).await.unwrap().
LEMMA CloseDoneType == TypeInv /\ CloseDone => TypeInv'
<1> SUFFICES ASSUME TypeInv, CloseDone PROVE TypeInv'
  OBVIOUS
<1>0. ScalarTypes /\ StreamTypes /\ PcInv
  BY DEF TypeInv, TypeOK
<1>1. pc = "closing" /\ call.conn \in Conns
  BY <1>0 DEF CloseDone, PcInv
<1>2. UNCHANGED <<conn, nconns, dead, toServer, toClient, call, nreq>>
  BY DEF CloseDone
<1>3. \/ pc' = "crashed" /\ UNCHANGED <<srv, ret>>
      \/ srv' = [srv EXCEPT ![call.conn] = "gone"] /\ Return("ok", 0)
  BY DEF CloseDone
<1>4. srv' \in [Conns -> ServerStates] /\ pc' \in PCs /\ ret' \in Results
  BY <1>0, <1>3, ResultType, BoundsAssumption
     DEF ScalarTypes, Return, PCs, Outcomes, ServerStates
<1>5. ScalarTypes'
  BY <1>0, <1>2, <1>4 DEF ScalarTypes
<1>6. PcInv'
  BY <1>0, <1>2, <1>3 DEF PcInv, Return
<1>7. QED
  BY <1>0, <1>2, <1>5, <1>6 DEF TypeInv, TypeOK, StreamTypes

\* The server answers a request.
LEMMA ServerRespondType ==
  ASSUME TypeInv, NEW c \in Conns, ServerRespond(c) PROVE TypeInv'
<1>0. ScalarTypes /\ StreamTypes /\ PcInv
  BY DEF TypeInv, TypeOK
<1>1. toServer[c] # <<>> /\ toServer[c] \in Seq(Request) /\ toClient[c] \in Seq(Response)
  BY <1>0 DEF ServerRespond, StreamTypes
<1>2. Head(toServer[c]) \in Request /\ Tail(toServer[c]) \in Seq(Request)
  BY <1>1, HeadTailProperties
<1>3. \A d \in {"null", Shape(Head(toServer[c]).action)} :
        Append(toClient[c], [for |-> Head(toServer[c]).id, data |-> d])
          \in Seq(Response)
  <2>1. \A d \in {"null", Shape(Head(toServer[c]).action)} :
          [for |-> Head(toServer[c]).id, data |-> d] \in Response
    BY <1>2 DEF Request, Response, Shapes, Shape
  <2>2. QED
    BY <1>1, <2>1, AppendProperties
<1>4. StreamTypes'
  BY <1>0, <1>2, <1>3 DEF ServerRespond, StreamTypes
<1>5. UNCHANGED <<conn, nconns, srv, dead, pc, call, ret, nreq>>
  BY DEF ServerRespond
<1>6. QED
  BY <1>0, <1>4, <1>5 DEF TypeInv, TypeOK, ScalarTypes, PcInv

\* The server closes a connection.
LEMMA ServerCloseType ==
  ASSUME TypeInv, NEW c \in Conns, ServerClose(c) PROVE TypeInv'
<1>0. ScalarTypes /\ StreamTypes /\ PcInv
  BY DEF TypeInv, TypeOK
<1>1. UNCHANGED <<conn, nconns, dead, toClient, pc, call, ret, nreq>>
  BY DEF ServerClose
<1>2. srv' = [srv EXCEPT ![c] = "closing"] /\ toServer' = [toServer EXCEPT ![c] = <<>>]
  BY DEF ServerClose
<1>3. srv' \in [Conns -> ServerStates]
  BY <1>0, <1>2 DEF ScalarTypes, ServerStates
<1>4. StreamTypes'
  BY <1>0, <1>1, <1>2 DEF StreamTypes
<1>5. QED
  BY <1>0, <1>1, <1>3, <1>4 DEF TypeInv, TypeOK, ScalarTypes, PcInv

\* The link of a connection breaks.
LEMMA LinkFailType ==
  ASSUME TypeInv, NEW c \in Conns, LinkFail(c) PROVE TypeInv'
<1>0. ScalarTypes /\ StreamTypes /\ PcInv
  BY DEF TypeInv, TypeOK
<1>1. UNCHANGED <<conn, nconns, dead, pc, call, ret, nreq>>
  BY DEF LinkFail
<1>2. srv' = [srv EXCEPT ![c] = "gone"] /\ toServer' = [toServer EXCEPT ![c] = <<>>]
  BY DEF LinkFail
<1>3. PICK keep \in BOOLEAN :
        toClient' = [toClient EXCEPT ![c] = IF keep THEN toClient[c] ELSE <<>>]
  BY DEF LinkFail
<1>4. srv' \in [Conns -> ServerStates]
  BY <1>0, <1>2 DEF ScalarTypes, ServerStates
<1>5. StreamTypes'
  BY <1>0, <1>2, <1>3 DEF StreamTypes
<1>6. QED
  BY <1>0, <1>1, <1>4, <1>5 DEF TypeInv, TypeOK, ScalarTypes, PcInv

\* The caller's timeout drops the call at one of its awaits.
LEMMA CancelType == TypeInv /\ Cancel => TypeInv'
<1> SUFFICES ASSUME TypeInv, Cancel PROVE TypeInv'
  OBVIOUS
<1>0. ScalarTypes /\ StreamTypes /\ PcInv
  BY DEF TypeInv, TypeOK
<1>1. pc' = "idle" /\ ret' \in Results
  <2>1. "cancelled" \in Outcomes /\ 0 \in 0..MaxCalls
    BY BoundsAssumption DEF Outcomes
  <2>2. QED
    BY <1>0, <2>1, ResultType DEF Cancel, Return
<1>2. UNCHANGED <<conn, nconns, dead, toClient, call, nreq>>
  BY DEF Cancel
<1>3. CASE pc \in {"connecting", "awaiting"}
  <2>1. UNCHANGED <<srv, toServer>>
    BY <1>3 DEF Cancel
  <2>2. QED
    BY <1>0, <1>1, <1>2, <2>1 DEF TypeInv, TypeOK, ScalarTypes, StreamTypes, PcInv, PCs
<1>4. CASE pc = "sending"
  <2>1. conn \in Conns /\ call.op \in Actions /\ call.id \in 1..MaxCalls
    BY <1>0, <1>4 DEF PcInv
  <2>2. Append(toServer[conn], Envelope(call.op, call.id)) \in Seq(Request)
    <3>1. Envelope(call.op, call.id) \in Request
      BY <2>1, WrapperAssumption DEF Envelope, Request
    <3>2. QED
      BY <1>0, <2>1, <3>1, AppendProperties DEF StreamTypes
  <2>3. UNCHANGED srv
        /\ \/ toServer' = toServer
           \/ toServer' = [toServer EXCEPT ![conn] =
                             Append(toServer[conn], Envelope(call.op, call.id))]
    BY <1>4 DEF Cancel
  <2>4. StreamTypes'
    BY <1>0, <1>2, <2>1, <2>2, <2>3 DEF StreamTypes
  <2>5. QED
    BY <1>0, <1>1, <1>2, <2>3, <2>4 DEF TypeInv, TypeOK, ScalarTypes, PcInv, PCs
<1>5. CASE pc = "closing"
  <2>1. call.conn \in Conns
    BY <1>0, <1>5 DEF PcInv
  <2>2. srv' = [srv EXCEPT ![call.conn] = "gone"]
        /\ toServer' = [toServer EXCEPT ![call.conn] = <<>>]
    BY <1>5 DEF Cancel
  <2>3. srv' \in [Conns -> ServerStates]
    BY <1>0, <2>2 DEF ScalarTypes, ServerStates
  <2>4. StreamTypes'
    BY <1>0, <1>2, <2>1, <2>2, EmptySeq DEF StreamTypes
  <2>5. QED
    BY <1>0, <1>1, <1>2, <2>3, <2>4 DEF TypeInv, TypeOK, ScalarTypes, PcInv, PCs
<1>6. QED
  BY <1>3, <1>4, <1>5 DEF Cancel

\* Every step of the client and of its environment keeps TypeInv.
LEMMA TypeInvStep == TypeInv /\ [Next]_vars => TypeInv'
<1> SUFFICES ASSUME TypeInv, [Next]_vars PROVE TypeInv'
  OBVIOUS
<1>1. CASE Connect
  BY <1>1, ConnectType
<1>2. CASE \E a \in Actions : Query(a)
  BY <1>2, QueryType
<1>3. CASE HandshakeOk
  BY <1>3, HandshakeOkType
<1>4. CASE HandshakeFail
  <2>1. "ConnFailed" \in Outcomes
    BY DEF Outcomes
  <2>2. QED
    BY <1>4, <2>1, ReturnOnlyType DEF HandshakeFail
<1>5. CASE Send
  BY <1>5, SendType
<1>6. CASE Receive
  BY <1>6, ReceiveType
<1>7. CASE Cancel
  BY <1>7, CancelType
<1>8. CASE Disconnect
  BY <1>8, DisconnectType
<1>9. CASE CloseDone
  BY <1>9, CloseDoneType
<1>10. CASE \E c \in Conns : ServerRespond(c)
  BY <1>10, ServerRespondType
<1>11. CASE \E c \in Conns : ServerClose(c) \/ LinkFail(c)
  BY <1>11, ServerCloseType, LinkFailType
<1>12. CASE UNCHANGED vars
  BY <1>12 DEF vars, TypeInv, TypeOK, ScalarTypes, StreamTypes, PcInv
<1>13. QED
  BY <1>1, <1>2, <1>3, <1>4, <1>5, <1>6, <1>7, <1>8, <1>9, <1>10, <1>11,
     <1>12 DEF Next

\* The type invariant holds in every state of every behaviour.
THEOREM TypeCorrect == Spec => []TypeOK
<1>1. TypeInv => TypeOK
  BY DEF TypeInv
<1>2. QED
  BY <1>1, TypeInvInit, TypeInvStep, PTL DEF Spec

-----------------------------------------------------------------------------
(* Responses match requests while no call is cancelled.                    *)

\* The parts of IInv, named.
LEMMA IInvParts ==
  IInv => /\ TypeOK /\ ScalarTypes /\ StreamTypes /\ PcInv
          /\ Fresh /\ Drained /\ ClosingInv /\ SingleOutstanding /\ Tagged
          /\ ResponseMatchesRequest
  BY DEF IInv, TypeInv, TypeOK, WireInv

\* The streams of a connection have lengths in Nat.
LEMMA StreamLen ==
  ASSUME StreamTypes, NEW c \in Conns
  PROVE  Len(toServer[c]) \in Nat /\ Len(toClient[c]) \in Nat
  BY LenProperties DEF StreamTypes

\* A server's answer moves one frame from one stream to the other: the
\* number of frames in flight stays the same.
LEMMA MoveKeepsCount ==
  ASSUME NEW s \in Seq(Request), s # <<>>, NEW t \in Seq(Response),
         NEW r \in Response, NEW k \in Nat, Len(s) + Len(t) <= k
  PROVE  Len(Tail(s)) + Len(Append(t, r)) <= k
<1>1. Len(s) \in Nat \ {0} /\ Len(t) \in Nat
  BY EmptySeq, LenProperties
<1>2. Len(Tail(s)) = Len(s) - 1 /\ Len(Append(t, r)) = Len(t) + 1
  BY HeadTailProperties, AppendProperties
<1>3. QED
  BY <1>1, <1>2

\* Dropping the frames to the server, and maybe those to the client, does
\* not add to the frames in flight.
LEMMA DropKeepsCount ==
  ASSUME NEW s \in Seq(Request), NEW t \in Seq(Response), NEW t2 \in {t, <<>>},
         NEW k \in Nat, Len(s) + Len(t) <= k
  PROVE  Len(<<>>) + Len(t2) <= k
  BY LenProperties, EmptySeq

\* The rest of a stream of requests tagged with id is tagged with id.
LEMMA TailTagged ==
  ASSUME NEW s \in Seq(Request), s # <<>>, NEW id,
         \A i \in 1..Len(s) : s[i].id = id
  PROVE  /\ Head(s).id = id
         /\ \A i \in 1..Len(Tail(s)) : Tail(s)[i].id = id
<1>1. Len(s) \in Nat \ {0}
  BY EmptySeq
<1>2. Head(s) = s[1]
  OBVIOUS
<1>3. QED
  BY <1>1, <1>2, HeadTailProperties

\* A response for id appended to a stream of responses for id.
LEMMA AppendTagged ==
  ASSUME NEW t \in Seq(Response), NEW r \in Response, NEW id, r.for = id,
         \A i \in 1..Len(t) : t[i].for = id
  PROVE  \A i \in 1..Len(Append(t, r)) : Append(t, r)[i].for = id
  BY AppendProperties, LenProperties

\* Tobsdb::new: nothing is connected and no stream holds a frame.
LEMMA IInvInit == Init => IInv
<1> SUFFICES ASSUME Init PROVE IInv
  OBVIOUS
<1>1. TypeInv
  BY TypeInvInit
<1>2. WireInv
  BY DEF Init, WireInv, Fresh, Drained, ClosingInv, SingleOutstanding, Tagged,
         NoConn
<1>3. ResponseMatchesRequest
  BY DEF Init, ResponseMatchesRequest
<1>4. QED
  BY <1>1, <1>2, <1>3 DEF IInv

\* connect: a no-op on a stored connection, or a handshake on none.
LEMMA ConnectWire == IInv /\ Connect => WireInv' /\ ResponseMatchesRequest'
<1> SUFFICES ASSUME IInv, Connect PROVE WireInv' /\ ResponseMatchesRequest'
  OBVIOUS
<1>0. Fresh /\ Drained /\ ClosingInv /\ SingleOutstanding /\ Tagged
      /\ ResponseMatchesRequest
  BY IInvParts
<1>1. UNCHANGED <<conn, nconns, srv, dead, toServer, toClient, nreq>>
  BY DEF Connect
<1>2. /\ pc = "idle" /\ pc' \in {"idle", "connecting"}
      /\ conn # NoConn => call' = call
      /\ ret' = ret \/ ret'.kind = "connect"
  BY DEF Connect
<1>3. Fresh' /\ Drained'
  BY <1>0, <1>1 DEF Fresh, Drained
<1>4. ClosingInv'
  BY <1>2 DEF ClosingInv
<1>5. SingleOutstanding'
  BY <1>0, <1>1, <1>2 DEF SingleOutstanding, Outstanding
<1>6. Tagged'
  BY <1>0, <1>1, <1>2 DEF Tagged
<1>7. ResponseMatchesRequest'
  BY <1>0, <1>2 DEF ResponseMatchesRequest
<1>8. QED
  BY <1>3, <1>4, <1>5, <1>6, <1>7 DEF WireInv

\* query: between calls the stored connection is idle, so the new request
\* id tags no frame yet.
LEMMA QueryWire ==
  ASSUME IInv, NEW a \in Actions, Query(a) PROVE WireInv' /\ ResponseMatchesRequest'
<1>0. StreamTypes /\ ScalarTypes /\ Fresh /\ Drained /\ ClosingInv
      /\ SingleOutstanding /\ Tagged /\ ResponseMatchesRequest
  BY IInvParts
<1>1. UNCHANGED <<conn, nconns, srv, dead, toServer, toClient, ret>>
  BY DEF Query
<1>2. pc = "idle" /\ pc' \in {"connecting", "sending"}
  BY DEF Query
<1>3. conn # NoConn => Len(toServer[conn]) = 0 /\ Len(toClient[conn]) = 0
  <2> SUFFICES ASSUME conn # NoConn PROVE Len(toServer[conn]) = 0 /\ Len(toClient[conn]) = 0
    OBVIOUS
  <2>1. conn \in Conns
    BY <1>0 DEF ScalarTypes, NoConn, Conns
  <2>2. Len(toServer[conn]) \in Nat /\ Len(toClient[conn]) \in Nat
    BY <1>0, <2>1, StreamLen
  <2>3. Outstanding(conn) <= 0
    BY <1>0, <1>2 DEF SingleOutstanding
  <2>4. QED
    BY <1>0, <2>1, <2>3 DEF Outstanding, StreamTypes
<1>4. Fresh' /\ Drained'
  BY <1>0, <1>1 DEF Fresh, Drained
<1>5. ClosingInv'
  BY <1>2 DEF ClosingInv
<1>6. SingleOutstanding'
  BY <1>0, <1>1, <1>2, <1>3 DEF SingleOutstanding, Outstanding, StreamTypes
<1>7. Tagged'
  BY <1>1, <1>3 DEF Tagged
<1>8. ResponseMatchesRequest'
  BY <1>0, <1>1 DEF ResponseMatchesRequest
<1>9. QED
  BY <1>4, <1>5, <1>6, <1>7, <1>8 DEF WireInv

\* connect_async succeeds: the new connection is fresh, so nothing on it
\* is outstanding.
LEMMA HandshakeOkWire == IInv /\ HandshakeOk => WireInv' /\ ResponseMatchesRequest'
<1> SUFFICES ASSUME IInv, HandshakeOk PROVE WireInv' /\ ResponseMatchesRequest'
  OBVIOUS
<1>0. StreamTypes /\ ScalarTypes /\ PcInv /\ Fresh /\ Drained /\ ClosingInv
      /\ SingleOutstanding /\ Tagged /\ ResponseMatchesRequest
  BY IInvParts
<1>1. UNCHANGED <<dead, toServer, toClient, call, nreq>>
  BY DEF HandshakeOk
<1>2. /\ pc = "connecting" /\ nconns + 1 \in Conns
      /\ nconns' = nconns + 1 /\ conn' = nconns + 1
      /\ srv' = [srv EXCEPT ![nconns + 1] = "open"]
  BY <1>0, BoundsAssumption DEF HandshakeOk, PcInv, ScalarTypes, Conns
<1>3. \/ pc' = "sending" /\ ret' = ret
      \/ pc' = "idle" /\ ret'.kind = "connect"
  BY DEF HandshakeOk, Return
<1>4. toServer[nconns + 1] = <<>> /\ toClient[nconns + 1] = <<>>
  BY <1>0, <1>2 DEF Fresh, ScalarTypes
<1>5. Fresh'
  BY <1>0, <1>1, <1>2 DEF Fresh, ScalarTypes, Conns
<1>6. Drained'
  BY <1>0, <1>1, <1>2 DEF Drained, ScalarTypes
<1>7. ClosingInv'
  BY <1>3 DEF ClosingInv
<1>8. SingleOutstanding'
  BY <1>1, <1>2, <1>4 DEF SingleOutstanding, Outstanding, NoConn
<1>9. Tagged'
  BY <1>1, <1>2, <1>4 DEF Tagged
<1>10. ResponseMatchesRequest'
  BY <1>0, <1>3 DEF ResponseMatchesRequest
<1>11. QED
  BY <1>5, <1>6, <1>7, <1>8, <1>9, <1>10 DEF WireInv

\* Outside conn.next() the stored connection has nothing outstanding.
LEMMA IdleStreams ==
  ASSUME IInv, pc # "awaiting", conn # NoConn
  PROVE  /\ conn \in Conns
         /\ Len(toServer[conn]) = 0 /\ Len(toClient[conn]) = 0
<1>0. StreamTypes /\ ScalarTypes /\ SingleOutstanding
  BY IInvParts
<1>1. conn \in Conns
  BY <1>0 DEF ScalarTypes, NoConn, Conns
<1>2. Len(toServer[conn]) \in Nat /\ Len(toClient[conn]) \in Nat
  BY <1>0, <1>1, StreamLen
<1>3. Outstanding(conn) <= 0
  BY <1>0 DEF SingleOutstanding
<1>4. QED
  BY <1>0, <1>1, <1>3 DEF Outstanding, StreamTypes

\* A call returns an error, changing nothing the wire invariant reads but
\* pc and ret.
LEMMA ErrorReturnWire ==
  ASSUME IInv, NEW o \in Outcomes \ {"ok"}, Return(o, 0), pc # "closing",
         conn # NoConn => Len(toServer[conn]) = 0 /\ Len(toClient[conn]) = 0,
         UNCHANGED <<conn, nconns, srv, toServer, toClient, call>>
  PROVE  WireInv' /\ ResponseMatchesRequest'
<1>0. StreamTypes /\ Fresh /\ Drained /\ ClosingInv /\ Tagged
  BY IInvParts
<1>1. pc' = "idle" /\ ret'.outcome = o
  BY DEF Return
<1>2. Fresh' /\ Drained' /\ ClosingInv'
  BY <1>0, <1>1 DEF Fresh, Drained, ClosingInv
<1>3. SingleOutstanding'
  BY <1>0, <1>1 DEF SingleOutstanding, Outstanding, StreamTypes
<1>4. Tagged'
  BY <1>0 DEF Tagged
<1>5. ResponseMatchesRequest'
  BY <1>1 DEF ResponseMatchesRequest
<1>6. QED
  BY <1>2, <1>3, <1>4, <1>5 DEF WireInv

\* A connection attempt fails.
LEMMA HandshakeFailWire == IInv /\ HandshakeFail => WireInv' /\ ResponseMatchesRequest'
<1> SUFFICES ASSUME IInv, HandshakeFail PROVE WireInv' /\ ResponseMatchesRequest'
  OBVIOUS
<1>1. pc = "connecting" /\ Return("ConnFailed", 0)
      /\ UNCHANGED <<conn, nconns, srv, toServer, toClient, call>>
  BY DEF HandshakeFail
<1>2. conn # NoConn => Len(toServer[conn]) = 0 /\ Len(toClient[conn]) = 0
  BY <1>1, IdleStreams
<1>3. "ConnFailed" \in Outcomes \ {"ok"}
  BY DEF Outcomes
<1>4. QED
  BY <1>1, <1>2, <1>3, ErrorReturnWire

\* Send: the call's one request goes onto the idle stored connection.
LEMMA SendWire == IInv /\ Send => WireInv' /\ ResponseMatchesRequest'
<1> SUFFICES ASSUME IInv, Send PROVE WireInv' /\ ResponseMatchesRequest'
  OBVIOUS
<1>0. StreamTypes /\ ScalarTypes /\ PcInv /\ Fresh /\ Drained /\ ClosingInv
      /\ Tagged /\ ResponseMatchesRequest
  BY IInvParts
<1>1. pc = "sending" /\ conn \in Conns /\ conn # NoConn
  BY <1>0 DEF Send, PcInv, Conns, NoConn
<1>2. UNCHANGED <<conn, nconns, srv, toClient, call, nreq>>
  BY DEF Send
<1>3. Len(toServer[conn]) = 0 /\ Len(toClient[conn]) = 0
  BY <1>1, IdleStreams
<1>4. "QueryFailed" \in Outcomes \ {"ok"}
  BY DEF Outcomes
<1>5. CASE Return("QueryFailed", 0) /\ UNCHANGED toServer
  BY <1>1, <1>2, <1>3, <1>4, <1>5, ErrorReturnWire
<1>6. CASE /\ srv[conn] = "open"
           /\ toServer' = [toServer EXCEPT ![conn] =
                            Append(toServer[conn], Envelope(call.op, call.id))]
           /\ pc' = "awaiting" /\ ret' = ret
  <2> DEFINE e == Envelope(call.op, call.id)
  <2>1. e \in Request /\ e.id = call.id
    BY <1>0, <1>1, WrapperAssumption DEF Envelope, Request, PcInv
  <2>2. /\ Len(toServer'[conn]) = 1
        /\ toServer'[conn][1] = e
        /\ \A c \in Conns \ {conn} : toServer'[c] = toServer[c]
    BY <1>0, <1>1, <1>3, <1>6, <2>1, AppendProperties DEF StreamTypes
  <2>3. conn <= nconns /\ srv[conn] = "open"
    BY <1>0, <1>6 DEF Fresh
  <2>4. Fresh'
    BY <1>0, <1>2, <2>2, <2>3 DEF Fresh
  <2>5. Drained'
    BY <1>0, <1>2, <2>2, <2>3 DEF Drained
  <2>6. ClosingInv'
    BY <1>6 DEF ClosingInv
  <2>7. SingleOutstanding'
    BY <1>2, <1>3, <1>6, <2>2 DEF SingleOutstanding, Outstanding
  <2>8. Tagged'
    BY <1>2, <1>3, <2>1, <2>2 DEF Tagged
  <2>9. ResponseMatchesRequest'
    BY <1>0, <1>6 DEF ResponseMatchesRequest
  <2>10. QED
    BY <2>4, <2>5, <2>6, <2>7, <2>8, <2>9 DEF WireInv
<1>7. CASE pc' = "awaiting" /\ UNCHANGED <<toServer, ret>>
  <2>1. Fresh' /\ Drained' /\ ClosingInv'
    BY <1>0, <1>2, <1>7 DEF Fresh, Drained, ClosingInv
  <2>2. SingleOutstanding'
    BY <1>2, <1>3, <1>7 DEF SingleOutstanding, Outstanding
  <2>3. Tagged'
    BY <1>2, <1>3, <1>7 DEF Tagged
  <2>4. ResponseMatchesRequest'
    BY <1>0, <1>7 DEF ResponseMatchesRequest
  <2>5. QED
    BY <2>1, <2>2, <2>3, <2>4 DEF WireInv
<1>8. QED
  BY <1>5, <1>6, <1>7 DEF Send

\* conn.next(): the frame read is the response to the call's own request.
LEMMA ReceiveWire == IInv /\ Receive => WireInv' /\ ResponseMatchesRequest'
<1> SUFFICES ASSUME IInv, Receive PROVE WireInv' /\ ResponseMatchesRequest'
  OBVIOUS
<1>0. StreamTypes /\ ScalarTypes /\ PcInv /\ Fresh /\ Drained /\ ClosingInv
      /\ SingleOutstanding /\ Tagged /\ ResponseMatchesRequest
  BY IInvParts
<1>1. pc = "awaiting" /\ conn \in Conns /\ conn # NoConn
  BY <1>0 DEF Receive, PcInv, Conns, NoConn
<1>2. UNCHANGED <<conn, nconns, srv, toServer, call, nreq>>
  BY DEF Receive
<1>3. Len(toServer[conn]) + Len(toClient[conn]) <= 1
  BY <1>0, <1>1 DEF SingleOutstanding, Outstanding
<1>4. CASE /\ toClient[conn] # <<>>
           /\ toClient' = [toClient EXCEPT ![conn] = Tail(toClient[conn])]
           /\ \/ Return("ok", Head(toClient[conn]).for)
              \/ pc' = "crashed" /\ ret' = ret
  <2>1. /\ Len(toServer[conn]) = 0 /\ Len(toClient[conn]) = 1
        /\ Len(toClient'[conn]) = 0
        /\ \A c \in Conns \ {conn} : toClient'[c] = toClient[c]
    <3>1. Len(toClient[conn]) \in Nat \ {0} /\ Len(toServer[conn]) \in Nat
      BY <1>0, <1>1, <1>4, EmptySeq, StreamLen DEF StreamTypes
    <3>2. Len(Tail(toClient[conn])) = Len(toClient[conn]) - 1
      BY <1>0, <1>1, <1>4, HeadTailProperties DEF StreamTypes
    <3>3. QED
      BY <1>0, <1>1, <1>3, <1>4, <3>1, <3>2 DEF StreamTypes
  <2>2. Head(toClient[conn]).for = call.id
    BY <1>0, <1>1, <2>1 DEF Tagged
  <2>3. Fresh' /\ Drained'
    BY <1>0, <1>2, <1>4, <2>1 DEF Fresh, Drained
  <2>4. ClosingInv'
    BY <1>4 DEF ClosingInv, Return
  <2>5. SingleOutstanding' /\ Tagged'
    BY <1>2, <2>1 DEF SingleOutstanding, Outstanding, Tagged
  <2>6. ResponseMatchesRequest'
    BY <1>0, <1>4, <2>2 DEF ResponseMatchesRequest, Return
  <2>7. QED
    BY <2>3, <2>4, <2>5, <2>6 DEF WireInv
<1>5. CASE /\ toClient[conn] = <<>>
           /\ srv[conn] \in {"closing", "gone"}
           /\ UNCHANGED toClient
           /\ \/ pc' = "crashed" /\ ret' = ret
              \/ Return("NoResponse", 0)
  <2>1. Len(toServer[conn]) = 0 /\ Len(toClient[conn]) = 0
    BY <1>0, <1>1, <1>5 DEF Drained
  <2>2. Fresh' /\ Drained'
    BY <1>0, <1>2, <1>5 DEF Fresh, Drained
  <2>3. ClosingInv'
    BY <1>5 DEF ClosingInv, Return
  <2>4. SingleOutstanding' /\ Tagged'
    BY <1>2, <1>5, <2>1 DEF SingleOutstanding, Outstanding, Tagged
  <2>5. ResponseMatchesRequest'
    BY <1>0, <1>5 DEF ResponseMatchesRequest, Return
  <2>6. QED
    BY <2>2, <2>3, <2>4, <2>5 DEF WireInv
<1>6. QED
  BY <1>4, <1>5 DEF Receive

\* disconnect: self.conn.take() leaves the taken connection idle.
LEMMA DisconnectWire == IInv /\ Disconnect => WireInv' /\ ResponseMatchesRequest'
<1> SUFFICES ASSUME IInv, Disconnect PROVE WireInv' /\ ResponseMatchesRequest'
  OBVIOUS
<1>0. StreamTypes /\ ScalarTypes /\ Fresh /\ Drained /\ ClosingInv
      /\ SingleOutstanding /\ Tagged /\ ResponseMatchesRequest
  BY IInvParts
<1>1. pc = "idle" /\ UNCHANGED <<nconns, srv, toServer, toClient>>
  BY DEF Disconnect
<1>2. CASE UNCHANGED <<conn, pc, call>> /\ ret'.kind = "disconnect"
  <2>1. Fresh' /\ Drained' /\ ClosingInv'
    BY <1>0, <1>1, <1>2 DEF Fresh, Drained, ClosingInv
  <2>2. SingleOutstanding' /\ Tagged'
    BY <1>0, <1>1, <1>2 DEF SingleOutstanding, Outstanding, Tagged
  <2>3. ResponseMatchesRequest'
    BY <1>2 DEF ResponseMatchesRequest
  <2>4. QED
    BY <2>1, <2>2, <2>3 DEF WireInv
<1>3. CASE /\ conn # NoConn /\ conn' = NoConn /\ pc' = "closing" /\ ret' = ret
           /\ call' = [kind |-> "disconnect", op |-> "none", id |-> 0, conn |-> conn]
  <2>1. conn \in Conns /\ Len(toServer[conn]) = 0
    BY <1>1, <1>3, IdleStreams
  <2>2. Fresh'
    BY <1>0, <1>1, <1>3 DEF Fresh, ScalarTypes, NoConn
  <2>3. Drained'
    BY <1>0, <1>1 DEF Drained
  <2>4. ClosingInv'
    BY <1>0, <1>1, <1>3, <2>1 DEF ClosingInv, Fresh
  <2>5. SingleOutstanding' /\ Tagged'
    BY <1>3 DEF SingleOutstanding, Tagged
  <2>6. ResponseMatchesRequest'
    BY <1>0, <1>3 DEF ResponseMatchesRequest
  <2>7. QED
    BY <2>2, <2>3, <2>4, <2>5, <2>6 DEF WireInv
<1>4. \/ /\ UNCHANGED <<conn, pc, call>>
         /\ ret' = [kind |-> "disconnect", outcome |-> "ok", id |-> 0, got |-> 0]
      \/ /\ conn # NoConn /\ conn' = NoConn /\ pc' = "closing" /\ ret' = ret
         /\ call' = [kind |-> "disconnect", op |-> "none", id |-> 0, conn |-> conn]
  BY DEF Disconnect, NoCall
<1>5. QED
  BY <1>2, <1>3, <1>4

\* close(): the server's end goes away with no request left unread.
LEMMA CloseDoneWire == IInv /\ CloseDone => WireInv' /\ ResponseMatchesRequest'
<1> SUFFICES ASSUME IInv, CloseDone PROVE WireInv' /\ ResponseMatchesRequest'
  OBVIOUS
<1>0. StreamTypes /\ ScalarTypes /\ PcInv /\ Fresh /\ Drained /\ ClosingInv
      /\ ResponseMatchesRequest
  BY IInvParts
<1>1. /\ pc = "closing" /\ conn = NoConn /\ call.kind = "disconnect"
      /\ call.conn \in Conns /\ call.conn <= nconns /\ Len(toServer[call.conn]) = 0
  BY <1>0 DEF CloseDone, ClosingInv, PcInv
<1>2. UNCHANGED <<conn, nconns, toServer, toClient, call>>
  BY DEF CloseDone
<1>3. \/ pc' = "crashed" /\ UNCHANGED <<srv, ret>>
      \/ srv' = [srv EXCEPT ![call.conn] = "gone"] /\ Return("ok", 0)
  BY DEF CloseDone
<1>4. pc' # "closing" /\ srv' \in [Conns -> ServerStates]
      /\ \A c \in Conns \ {call.conn} : srv'[c] = srv[c]
  BY <1>0, <1>1, <1>3 DEF Return, ScalarTypes, ServerStates
<1>5. Fresh'
  BY <1>0, <1>1, <1>2, <1>4 DEF Fresh, ScalarTypes, Conns
<1>6. Drained'
  BY <1>0, <1>1, <1>2, <1>4 DEF Drained
<1>7. ClosingInv'
  BY <1>4 DEF ClosingInv
<1>8. SingleOutstanding' /\ Tagged'
  BY <1>1, <1>2 DEF SingleOutstanding, Tagged
<1>9. ResponseMatchesRequest'
  BY <1>0, <1>1, <1>3 DEF ResponseMatchesRequest, Return
<1>10. QED
  BY <1>5, <1>6, <1>7, <1>8, <1>9 DEF WireInv

\* The server answers the head request of c: a request moves from one
\* stream of c to the other, tagged with the same id.
LEMMA ServerRespondWire ==
  ASSUME IInv, NEW c \in Conns, ServerRespond(c)
  PROVE  WireInv' /\ ResponseMatchesRequest'
<1>0. StreamTypes /\ ScalarTypes /\ PcInv /\ Fresh /\ Drained /\ ClosingInv
      /\ SingleOutstanding /\ Tagged /\ ResponseMatchesRequest
  BY IInvParts
<1>1. UNCHANGED <<conn, nconns, srv, pc, call, ret>>
  BY DEF ServerRespond
<1>2. PICK d \in {"null", Shape(Head(toServer[c]).action)} :
        /\ srv[c] = "open" /\ toServer[c] # <<>>
        /\ toServer' = [toServer EXCEPT ![c] = Tail(toServer[c])]
        /\ toClient' = [toClient EXCEPT ![c] =
                          Append(toClient[c], [for |-> Head(toServer[c]).id, data |-> d])]
  BY DEF ServerRespond
<1> DEFINE ts == toServer[c]
           tc == toClient[c]
           r == [for |-> Head(ts).id, data |-> d]
<1>3. ts \in Seq(Request) /\ tc \in Seq(Response) /\ ts # <<>> /\ Len(ts) # 0
  BY <1>0, <1>2, EmptySeq DEF StreamTypes
<1>4. r \in Response /\ r.for = Head(ts).id
  <2>1. Head(ts) \in Request
    BY <1>3, HeadTailProperties
  <2>2. QED
    BY <1>2, <2>1 DEF Request, Response, Shapes, Shape
<1>5. /\ toServer'[c] = Tail(ts) /\ toClient'[c] = Append(tc, r)
      /\ \A e \in Conns \ {c} : toServer'[e] = toServer[e] /\ toClient'[e] = toClient[e]
  BY <1>0, <1>2 DEF StreamTypes
<1>6. /\ c \in 1..MaxConns /\ nconns \in 0..MaxConns /\ c <= nconns
      /\ conn # NoConn => conn \in Conns
  BY <1>0, <1>2 DEF Fresh, Conns, ScalarTypes, NoConn
<1>7. Fresh'
  BY <1>0, <1>1, <1>5, <1>6 DEF Fresh, Conns
<1>8. Drained'
  BY <1>0, <1>1, <1>2, <1>5 DEF Drained
<1>9. ClosingInv'
  <2> SUFFICES ASSUME pc' = "closing" PROVE ClosingInv'
    BY DEF ClosingInv
  <2>1. call.conn \in Conns /\ Len(toServer[call.conn]) = 0
    BY <1>0, <1>1 DEF PcInv, ClosingInv
  <2>2. call.conn # c
    BY <1>3, <2>1
  <2>3. QED
    BY <1>0, <1>1, <1>5, <2>1, <2>2 DEF ClosingInv
<1>10. SingleOutstanding'
  <2>1. CASE c = conn
    <3>0. conn # NoConn
      BY <1>6, <2>1 DEF NoConn
    <3>a. Outstanding(conn) <= (IF pc = "awaiting" THEN 1 ELSE 0)
      BY <1>0, <3>0 DEF SingleOutstanding
    <3>1. Len(ts) + Len(tc) <= (IF pc = "awaiting" THEN 1 ELSE 0)
      BY <3>a, <2>1, Zenon DEF Outstanding
    <3>2. Len(Tail(ts)) + Len(Append(tc, r)) <= (IF pc = "awaiting" THEN 1 ELSE 0)
      BY <1>3, <1>4, <3>1, MoveKeepsCount
    <3>3. QED
      BY <1>1, <1>5, <2>1, <3>2, Zenon DEF SingleOutstanding, Outstanding
  <2>2. CASE c # conn
    BY <1>0, <1>1, <1>5, <1>6, <2>2, Zenon DEF SingleOutstanding, Outstanding
  <2>3. QED
    BY <2>1, <2>2
<1>11. Tagged'
  <2>1. CASE c = conn
    <3>1. /\ \A i \in 1..Len(ts) : ts[i].id = call.id
          /\ \A i \in 1..Len(tc) : tc[i].for = call.id
      BY <1>0, <1>6, <2>1 DEF Tagged, NoConn
    <3>2. Head(ts).id = call.id /\ \A i \in 1..Len(Tail(ts)) : Tail(ts)[i].id = call.id
      BY <1>3, <3>1, TailTagged
    <3>3. \A i \in 1..Len(Append(tc, r)) : Append(tc, r)[i].for = call.id
      BY <1>3, <1>4, <3>1, <3>2, AppendTagged
    <3>4. QED
      BY <1>1, <1>5, <2>1, <3>2, <3>3, Zenon DEF Tagged
  <2>2. CASE c # conn
    BY <1>0, <1>1, <1>5, <1>6, <2>2, Zenon DEF Tagged
  <2>3. QED
    BY <2>1, <2>2
<1>12. ResponseMatchesRequest'
  BY <1>0, <1>1 DEF ResponseMatchesRequest
<1>13. QED
  BY <1>7, <1>8, <1>9, <1>10, <1>11, <1>12 DEF WireInv

\* The server closes c, or the link of c breaks: the requests in flight to
\* the server are dropped, and on a broken link the responses may be too.
LEMMA ServerFaultWire ==
  ASSUME IInv, NEW c \in Conns, ServerClose(c) \/ LinkFail(c)
  PROVE  WireInv' /\ ResponseMatchesRequest'
<1>0. StreamTypes /\ ScalarTypes /\ PcInv /\ Fresh /\ Drained /\ ClosingInv
      /\ SingleOutstanding /\ Tagged /\ ResponseMatchesRequest
  BY IInvParts
<1>1. UNCHANGED <<conn, nconns, pc, call, ret>>
  BY DEF ServerClose, LinkFail
<1>2. /\ srv[c] \in {"open", "closing"}
      /\ srv' = [srv EXCEPT ![c] = "closing"] \/ srv' = [srv EXCEPT ![c] = "gone"]
      /\ toServer' = [toServer EXCEPT ![c] = <<>>]
      /\ toClient' = toClient \/ toClient' = [toClient EXCEPT ![c] = <<>>]
  <2>1. ASSUME LinkFail(c)
        PROVE  toClient' = toClient \/ toClient' = [toClient EXCEPT ![c] = <<>>]
    <3>1. PICK keep \in BOOLEAN :
            toClient' = [toClient EXCEPT ![c] = IF keep THEN toClient[c] ELSE <<>>]
      BY <2>1 DEF LinkFail
    <3>2. QED
      BY <1>0, <3>1 DEF StreamTypes
  <2>2. QED
    BY <2>1 DEF ServerClose, LinkFail
<1> DEFINE ts == toServer[c]
           tc == toClient[c]
<1>3. /\ ts \in Seq(Request) /\ tc \in Seq(Response)
      /\ toServer'[c] = <<>> /\ toClient'[c] \in {tc, <<>>}
      /\ \A e \in Conns \ {c} : toServer'[e] = toServer[e] /\ toClient'[e] = toClient[e]
      /\ \A e \in Conns \ {c} : srv'[e] = srv[e]
      /\ srv'[c] \in {"closing", "gone"}
  BY <1>0, <1>2 DEF StreamTypes, ScalarTypes
<1>4. /\ c \in 1..MaxConns /\ nconns \in 0..MaxConns /\ c <= nconns
      /\ conn # NoConn => conn \in Conns
  BY <1>0, <1>2 DEF Fresh, Conns, ScalarTypes, NoConn
<1>5. Fresh'
  BY <1>0, <1>1, <1>3, <1>4 DEF Fresh, Conns
<1>6. Drained'
  <2>1. Len(toServer'[c]) = 0
    BY <1>3, EmptySeq
  <2>2. QED
    BY <1>0, <1>3, <2>1 DEF Drained
<1>7. ClosingInv'
  <2> SUFFICES ASSUME pc' = "closing" PROVE ClosingInv'
    BY DEF ClosingInv
  <2>1. call.conn \in Conns /\ Len(toServer[call.conn]) = 0
    BY <1>0, <1>1 DEF PcInv, ClosingInv
  <2>2. Len(toServer'[call.conn]) = 0
    BY <1>3, <2>1, EmptySeq
  <2>3. QED
    BY <1>0, <1>1, <2>2 DEF ClosingInv
<1>8. SingleOutstanding'
  <2>1. CASE c = conn
    <3>0. conn # NoConn
      BY <1>4, <2>1 DEF NoConn
    <3>a. Outstanding(conn) <= (IF pc = "awaiting" THEN 1 ELSE 0)
      BY <1>0, <3>0 DEF SingleOutstanding
    <3>1. Len(ts) + Len(tc) <= (IF pc = "awaiting" THEN 1 ELSE 0)
      BY <3>a, <2>1, Zenon DEF Outstanding
    <3>2. \A t2 \in {tc, <<>>} :
            Len(<<>>) + Len(t2) <= (IF pc = "awaiting" THEN 1 ELSE 0)
      BY <1>3, <3>1, DropKeepsCount
    <3>3. QED
      BY <1>1, <1>3, <2>1, <3>2, Zenon DEF SingleOutstanding, Outstanding
  <2>2. CASE c # conn
    BY <1>0, <1>1, <1>3, <1>4, <2>2, Zenon DEF SingleOutstanding, Outstanding
  <2>3. QED
    BY <2>1, <2>2
<1>9. Tagged'
  <2>1. CASE c = conn
    <3>1. \A i \in 1..Len(tc) : tc[i].for = call.id
      BY <1>0, <1>4, <2>1 DEF Tagged, NoConn
    <3>2. /\ \A i \in 1..Len(toServer'[c]) : toServer'[c][i].id = call.id
          /\ \A i \in 1..Len(toClient'[c]) : toClient'[c][i].for = call.id
      BY <1>3, <3>1, EmptySeq
    <3>3. QED
      BY <1>1, <2>1, <3>2, Zenon DEF Tagged
  <2>2. CASE c # conn
    BY <1>0, <1>1, <1>3, <1>4, <2>2, Zenon DEF Tagged
  <2>3. QED
    BY <2>1, <2>2
<1>10. ResponseMatchesRequest'
  BY <1>0, <1>1 DEF ResponseMatchesRequest
<1>11. QED
  BY <1>5, <1>6, <1>7, <1>8, <1>9, <1>10 DEF WireInv

\* With no caller-side timeout, every step keeps IInv.
LEMMA IInvStep ==
  ASSUME "timeout" \notin Faults
  PROVE  IInv /\ [Next]_vars => IInv'
<1> SUFFICES ASSUME IInv, [Next]_vars PROVE IInv'
  OBVIOUS
<1>1. TypeInv'
  BY TypeInvStep DEF IInv
<1>2. WireInv' /\ ResponseMatchesRequest'
  <2>1. CASE Connect
    BY <2>1, ConnectWire
  <2>2. CASE \E a \in Actions : Query(a)
    BY <2>2, QueryWire
  <2>3. CASE HandshakeOk
    BY <2>3, HandshakeOkWire
  <2>4. CASE HandshakeFail
    BY <2>4, HandshakeFailWire
  <2>5. CASE Send
    BY <2>5, SendWire
  <2>6. CASE Receive
    BY <2>6, ReceiveWire
  <2>7. CASE Cancel
    BY <2>7 DEF Cancel
  <2>8. CASE Disconnect
    BY <2>8, DisconnectWire
  <2>9. CASE CloseDone
    BY <2>9, CloseDoneWire
  <2>10. CASE \E c \in Conns : ServerRespond(c)
    BY <2>10, ServerRespondWire
  <2>11. CASE \E c \in Conns : ServerClose(c) \/ LinkFail(c)
    BY <2>11, ServerFaultWire
  <2>12. CASE UNCHANGED vars
    BY <2>12 DEF vars, IInv, WireInv, Fresh, Drained, ClosingInv, SingleOutstanding,
       Outstanding, Tagged, ResponseMatchesRequest
  <2>13. QED
    BY <2>1, <2>2, <2>3, <2>4, <2>5, <2>6, <2>7, <2>8, <2>9, <2>10, <2>11,
       <2>12 DEF Next
<1>3. QED
  BY <1>1, <1>2 DEF IInv

\* When no caller abandons a query (no timeout around query), every Ok that
\* query returns carries the response to the request it sent: the frame
\* conn.next() reads is always the caller's own, though no id pairs them.
THEOREM ResponsesMatch ==
  ASSUME "timeout" \notin Faults
  PROVE  Spec => []ResponseMatchesRequest
<1>1. IInv => ResponseMatchesRequest
  BY DEF IInv
<1>2. QED
  BY <1>1, IInvInit, IInvStep, PTL DEF Spec

\* Under the same condition the stored connection never holds more than the
\* one request or response of the call waiting in conn.next().
THEOREM OneOutstanding ==
  ASSUME "timeout" \notin Faults
  PROVE  Spec => []SingleOutstanding
<1>1. IInv => SingleOutstanding
  BY DEF IInv, WireInv
<1>2. QED
  BY <1>1, IInvInit, IInvStep, PTL DEF Spec

-----------------------------------------------------------------------------
(* A handshake only starts while no connection is stored.                 *)

\* connect_async only runs when self.conn is None.
ConnInv == pc = "connecting" => conn = NoConn

\* Every step keeps ConnInv, timeouts included.
LEMMA ConnInvStep == ConnInv /\ [Next]_vars => ConnInv'
<1> SUFFICES ASSUME ConnInv, [Next]_vars PROVE ConnInv'
  OBVIOUS
<1>1. CASE Connect
  BY <1>1 DEF Connect, ConnInv
<1>2. CASE \E a \in Actions : Query(a)
  BY <1>2 DEF Query, ConnInv
<1>3. CASE HandshakeOk \/ HandshakeFail \/ Cancel \/ Send \/ Receive \/ CloseDone
  BY <1>3 DEF HandshakeOk, HandshakeFail, Cancel, Send, Receive, CloseDone,
     Return, ConnInv
<1>4. CASE Disconnect
  BY <1>4 DEF Disconnect, ConnInv
<1>5. CASE \E c \in Conns : ServerRespond(c) \/ ServerClose(c) \/ LinkFail(c)
  BY <1>5 DEF ServerRespond, ServerClose, LinkFail, ConnInv
<1>6. CASE UNCHANGED vars
  BY <1>6 DEF vars, ConnInv
<1>7. QED
  BY <1>1, <1>2, <1>3, <1>4, <1>5, <1>6 DEF Next

=============================================================================
