-------------------------- MODULE TobsdbPanicProofs --------------------------
(***************************************************************************)
(* When the client's unwraps cannot panic, for every value of the          *)
(* constants.  Findings 2, 5 and 3 show query and disconnect panicking;   *)
(* the theorems here show that those are the only ways:                    *)
(*   - a query panics only if the server may send a Close frame or the     *)
(*     caller may time out a call (a stale answer of the other shape);     *)
(*   - disconnect panics only if a link may break.                         *)
(*                                                                         *)
(* Neither property is inductive.  For query, every frame on the stored    *)
(* connection must be one the waiting call's decode accepts (Shaped), which *)
(* rests on the wire invariant IInv of TobsdbClientProofs, and no server   *)
(* end may be closing.  For disconnect, a connection whose server end is   *)
(* gone, or whose stream has failed, must never be the one close() is      *)
(* called on: the only steps that end a server's side without a broken     *)
(* link are the close of disconnect and a dropped close, both on a         *)
(* connection that is no longer stored (GoneTaken).                        *)
(***************************************************************************)
EXTENDS TobsdbClientProofs

\* No server has sent a Close frame.
NoClosing == \A c \in Conns : srv[c] # "closing"

\* Every request on the stored connection is for the current call's action,
\* and every response on it decodes as that action's response type.
Shaped ==
    conn # NoConn =>
        /\ \A i \in 1..Len(toServer[conn]) : toServer[conn][i].action = call.op
        /\ \A i \in 1..Len(toClient[conn]) : Decodes(toClient[conn][i], call.op)

QInv == IInv /\ NoClosing /\ Shaped /\ QueryNeverPanics

\* Connections are numbered in the order they open.
Unopened ==
    /\ \A c \in Conns : c > nconns => srv[c] = "none"
    /\ conn <= nconns

\* tungstenite marks a stream failed only once its server end is gone.
DeadGone == \A c \in Conns : dead[c] => srv[c] = "gone"

\* A connection whose server end is gone is not the stored one.
GoneTaken == \A c \in Conns : srv[c] = "gone" => c # conn

\* While close() runs, the taken connection is an opened one whose server
\* end is not gone.
CloseTarget ==
    pc = "closing" =>
        /\ conn = NoConn
        /\ call.conn <= nconns
        /\ srv[call.conn] # "gone"

DRest == Unopened /\ DeadGone /\ GoneTaken /\ CloseTarget /\ DisconnectNeverPanics

DInv == TypeInv /\ DRest


-----------------------------------------------------------------------------
(* disconnect never panics without a broken link.                         *)

\* Tobsdb::new: nothing opened, nothing gone.
LEMMA DInvInit == Init => DInv
<1> SUFFICES ASSUME Init PROVE DInv
  OBVIOUS
<1>1. TypeInv
  BY TypeInvInit
<1>2. QED
  BY <1>1 DEF Init, DInv, DRest, Unopened, DeadGone, GoneTaken, CloseTarget,
     DisconnectNeverPanics, NoConn, Conns

\* The parts of DInv the steps read.
LEMMA DInvParts ==
  DInv => /\ ScalarTypes /\ PcInv /\ Unopened /\ DeadGone /\ GoneTaken
          /\ CloseTarget /\ DisconnectNeverPanics
  BY DEF DInv, DRest, TypeInv, TypeOK

\* Without a broken link every step keeps DInv, caller timeouts included.
LEMMA DInvStep ==
  ASSUME "link" \notin Faults
  PROVE  DInv /\ [Next]_vars => DInv'
<1> SUFFICES ASSUME DInv, [Next]_vars PROVE DInv'
  OBVIOUS
<1>0. ScalarTypes /\ PcInv /\ Unopened /\ DeadGone /\ GoneTaken /\ CloseTarget
      /\ DisconnectNeverPanics
  BY DInvParts
<1>1. TypeInv'
  BY TypeInvStep DEF DInv
<1> USE DEF DRest, Unopened, DeadGone, GoneTaken, CloseTarget, DisconnectNeverPanics
<1>2. CASE Connect
  BY <1>0, <1>1, <1>2 DEF Connect, DInv
<1>3. CASE \E a \in Actions : Query(a)
  BY <1>0, <1>1, <1>3 DEF Query, DInv
<1>4. CASE HandshakeOk
  <2>1. nconns' = nconns + 1 /\ conn' = nconns + 1 /\ nconns + 1 \in Conns
        /\ srv[nconns + 1] = "none" /\ srv' = [srv EXCEPT ![nconns + 1] = "open"]
        /\ pc' # "closing" /\ pc' # "crashed" /\ dead' = dead
    BY <1>0, <1>4, BoundsAssumption DEF HandshakeOk, Return, PcInv, ScalarTypes, Conns
  <2>2. DRest'
    BY <1>0, <2>1 DEF ScalarTypes, Conns
  <2>3. QED
    BY <1>1, <2>2 DEF DInv
<1>5. CASE HandshakeFail
  BY <1>0, <1>1, <1>5 DEF HandshakeFail, Return, DInv
<1>6. CASE Send
  <2>1. conn \in Conns /\ srv[conn] # "gone" /\ ~dead[conn]
    BY <1>0, <1>6 DEF Send, PcInv
  <2>2. dead' = dead /\ pc' # "closing" /\ pc' # "crashed"
        /\ UNCHANGED <<conn, nconns, srv, call>>
    BY <1>6, <2>1 DEF Send, Return
  <2>3. QED
    BY <1>0, <1>1, <2>2 DEF DInv
<1>7. CASE Receive
  <2>1. conn \in Conns /\ srv[conn] # "gone" /\ call.kind = "query"
    BY <1>0, <1>7 DEF Receive, PcInv
  <2>2. dead' = dead /\ pc' # "closing" /\ UNCHANGED <<conn, nconns, srv, call>>
    BY <1>7, <2>1 DEF Receive, Return
  <2>3. QED
    BY <1>0, <1>1, <2>1, <2>2 DEF DInv
<1>8. CASE Cancel
  <2>1. pc' = "idle" /\ UNCHANGED <<conn, nconns, dead, call>>
    BY <1>8 DEF Cancel, Return
  <2>2. CASE pc = "closing"
    <3>1. srv' = [srv EXCEPT ![call.conn] = "gone"] /\ call.conn \in Conns
          /\ conn = NoConn
      BY <1>0, <1>8, <2>2 DEF Cancel, PcInv
    <3>2. QED
      BY <1>0, <1>1, <2>1, <2>2, <3>1 DEF DInv, NoConn, Conns, ScalarTypes
  <2>3. CASE pc # "closing"
    <3>1. srv' = srv
      BY <1>8, <2>3 DEF Cancel
    <3>2. QED
      BY <1>0, <1>1, <2>1, <3>1 DEF DInv
  <2>4. QED
    BY <2>2, <2>3
<1>9. CASE Disconnect
  <2>1. CASE conn = NoConn
    BY <1>0, <1>1, <1>9, <2>1 DEF Disconnect, DInv
  <2>2. CASE conn # NoConn
    <3>1. conn' = NoConn /\ pc' = "closing" /\ call'.conn = conn
          /\ UNCHANGED <<nconns, srv, dead>>
      BY <1>9, <2>2 DEF Disconnect, NoCall
    <3>2. conn \in Conns
      BY <1>0, <2>2 DEF ScalarTypes, NoConn, Conns
    <3>3. QED
      BY <1>0, <1>1, <3>1, <3>2 DEF DInv, NoConn, Conns, ScalarTypes
  <2>3. QED
    BY <2>1, <2>2
<1>10. CASE CloseDone
  <2>1. call.conn \in Conns /\ ~dead[call.conn] /\ srv[call.conn] # "gone"
        /\ conn = NoConn /\ call.conn <= nconns
    BY <1>0, <1>10 DEF CloseDone, PcInv
  <2>2. srv' = [srv EXCEPT ![call.conn] = "gone"] /\ pc' = "idle"
        /\ UNCHANGED <<conn, nconns, dead, call>>
    BY <1>10, <2>1 DEF CloseDone, Return
  <2>3. QED
    BY <1>0, <1>1, <2>1, <2>2 DEF DInv, NoConn, Conns, ScalarTypes
<1>11. CASE \E c \in Conns : ServerRespond(c) \/ ServerClose(c) \/ LinkFail(c)
  <2>1. PICK c \in Conns : ServerRespond(c) \/ ServerClose(c)
    BY <1>11 DEF LinkFail
  <2>2. UNCHANGED <<conn, nconns, dead, pc, call>>
    BY <2>1 DEF ServerRespond, ServerClose
  <2>3. CASE srv' = srv
    BY <1>0, <1>1, <2>2, <2>3 DEF DInv
  <2>4. CASE srv' # srv
    <3>1. srv[c] = "open" /\ srv' = [srv EXCEPT ![c] = "closing"]
      BY <2>1, <2>4 DEF ServerRespond, ServerClose
    <3>2. ~dead[c] /\ c <= nconns
      BY <1>0, <3>1 DEF ScalarTypes, Conns
    <3>3. QED
      BY <1>0, <1>1, <2>2, <3>1, <3>2 DEF DInv, ScalarTypes
  <2>5. QED
    BY <2>3, <2>4
<1>12. CASE UNCHANGED vars
  BY <1>0, <1>1, <1>12 DEF vars, DInv
<1>13. QED
  BY <1>2, <1>3, <1>4, <1>5, <1>6, <1>7, <1>8, <1>9, <1>10, <1>11, <1>12 DEF Next

\* Spec section 4.1 says disconnect discards the connection and never
\* fails.  Unless a link may break, close().await.unwrap() in disconnect
\* never panics, whatever else fails and with callers that time out:
\* finding 3 (the panic after a broken link) is the only way it fails.
THEOREM DisconnectSafe ==
  ASSUME "link" \notin Faults
  PROVE  Spec => []DisconnectNeverPanics
<1>1. DInv => DisconnectNeverPanics
  BY DEF DInv, DRest
<1>2. QED
  BY <1>1, DInvInit, DInvStep, PTL DEF Spec


-----------------------------------------------------------------------------
(* A query never panics without server closes and caller timeouts.        *)

\* A connection with at most one frame in flight and a frame in one of its
\* streams has exactly that frame and none in the other.
LEMMA OneFrame ==
  ASSUME NEW x \in Nat, NEW y \in Nat, NEW k \in {0, 1}, x # 0,
         x + y <= k \/ y + x <= k
  PROVE  x = 1 /\ y = 0
  OBVIOUS

\* The parts of QInv the steps read.
LEMMA QInvParts ==
  QInv => /\ IInv /\ StreamTypes /\ ScalarTypes /\ PcInv /\ Fresh /\ ClosingInv
          /\ SingleOutstanding /\ NoClosing /\ Shaped /\ QueryNeverPanics
  BY IInvParts DEF QInv

\* Tobsdb::new: nothing is stored and no server has closed.
LEMMA QInvInit == Init => QInv
<1> SUFFICES ASSUME Init PROVE QInv
  OBVIOUS
<1>1. IInv
  BY IInvInit
<1>2. QED
  BY <1>1 DEF Init, QInv, NoClosing, Shaped, QueryNeverPanics, NoConn

\* The steps that leave the stored connection, its streams and the call
\* alone keep Shaped.
LEMMA ShapedUnchanged ==
  ASSUME Shaped, UNCHANGED <<conn, toServer, toClient, call>>
  PROVE  Shaped'
  BY DEF Shaped

\* Without a server close, no server end is ever closing: only ServerClose
\* sets it.
LEMMA NoClosingStep ==
  ASSUME "close" \notin Faults, NoClosing, ScalarTypes, [Next]_vars
  PROVE  NoClosing'
<1>1. CASE \E c \in Conns : LinkFail(c)
  BY <1>1 DEF LinkFail, NoClosing, ScalarTypes
<1>2. CASE Cancel \/ CloseDone \/ HandshakeOk
  BY <1>2 DEF Cancel, CloseDone, HandshakeOk, NoClosing, ScalarTypes
<1>3. CASE ~(\E c \in Conns : LinkFail(c)) /\ ~(Cancel \/ CloseDone \/ HandshakeOk)
  <2>1. srv' = srv
    BY <1>3 DEF Next, vars, Connect, Query, HandshakeFail, Send, Receive, Disconnect,
       ServerRespond, ServerClose
  <2>2. QED
    BY <2>1 DEF NoClosing
<1>4. QED
  BY <1>1, <1>2, <1>3

\* Without a server close and without caller timeouts, every step keeps QInv.
LEMMA QInvStep ==
  ASSUME "close" \notin Faults, "timeout" \notin Faults
  PROVE  QInv /\ [Next]_vars => QInv'
<1> SUFFICES ASSUME QInv, [Next]_vars PROVE QInv'
  OBVIOUS
<1>0. IInv /\ StreamTypes /\ ScalarTypes /\ PcInv /\ Fresh /\ ClosingInv
      /\ SingleOutstanding /\ NoClosing /\ Shaped /\ QueryNeverPanics
  BY QInvParts
<1>1. IInv' /\ NoClosing'
  BY <1>0, IInvStep, NoClosingStep
<1>2. Shaped' /\ QueryNeverPanics'
  <2>1. CASE Connect
    <3>1. UNCHANGED <<conn, toServer, toClient>> /\ pc' \in {"idle", "connecting"}
          /\ (conn # NoConn => call' = call)
      BY <2>1 DEF Connect
    <3>2. QED
      BY <1>0, <3>1 DEF Shaped, QueryNeverPanics
  <2>2. CASE \E a \in Actions : Query(a)
    <3>1. UNCHANGED <<conn, toServer, toClient>> /\ pc' \in {"connecting", "sending"}
          /\ pc = "idle"
      BY <2>2 DEF Query
    <3>2. conn # NoConn => Len(toServer[conn]) = 0 /\ Len(toClient[conn]) = 0
      BY <1>0, <3>1, IdleStreams
    <3>3. QED
      BY <3>1, <3>2 DEF Shaped, QueryNeverPanics
  <2>3. CASE HandshakeOk
    <3>1. /\ nconns + 1 \in Conns /\ conn' = nconns + 1
          /\ UNCHANGED <<toServer, toClient>> /\ pc' \in {"sending", "idle"}
      BY <1>0, <2>3, BoundsAssumption DEF HandshakeOk, Return, PcInv, ScalarTypes, Conns
    <3>2. toServer[nconns + 1] = <<>> /\ toClient[nconns + 1] = <<>>
      BY <1>0, <3>1 DEF Fresh, ScalarTypes
    <3>3. QED
      BY <3>1, <3>2 DEF Shaped, QueryNeverPanics
  <2>4. CASE HandshakeFail
    BY <1>0, <2>4, ShapedUnchanged DEF HandshakeFail, Return, QueryNeverPanics
  <2>5. CASE Send
    <3>1. pc = "sending" /\ conn \in Conns /\ conn # NoConn
          /\ UNCHANGED <<conn, toClient, call>> /\ pc' \in {"awaiting", "idle"}
      BY <1>0, <2>5 DEF Send, Return, PcInv, Conns, NoConn
    <3>2. Len(toServer[conn]) = 0 /\ Len(toClient[conn]) = 0
      BY <1>0, <3>1, IdleStreams
    <3>3. \/ toServer' = toServer
          \/ toServer' = [toServer EXCEPT ![conn] =
                           Append(toServer[conn], Envelope(call.op, call.id))]
      BY <2>5 DEF Send
    <3>4. CASE toServer' = toServer
      BY <1>0, <3>1, <3>4 DEF Shaped, QueryNeverPanics
    <3>5. CASE toServer' # toServer
      <4>1. toServer'[conn] = Append(toServer[conn], Envelope(call.op, call.id))
        BY <1>0, <3>1, <3>3, <3>5 DEF StreamTypes
      <4>2. Len(toServer'[conn]) = 1 /\ toServer'[conn][1].action = call.op
        BY <1>0, <3>1, <3>2, <4>1, AppendProperties DEF StreamTypes, Envelope
      <4>3. QED
        BY <3>1, <3>2, <4>2 DEF Shaped, QueryNeverPanics
    <3>6. QED
      BY <3>3, <3>4, <3>5
  <2>6. CASE Receive
    <3>1. pc = "awaiting" /\ conn \in Conns /\ conn # NoConn
          /\ UNCHANGED <<conn, toServer, call>> /\ srv[conn] # "closing"
      BY <1>0, <2>6 DEF Receive, PcInv, Conns, NoConn, NoClosing
    <3>2. CASE toClient[conn] # <<>>
      <4>1. Len(toClient[conn]) = 1 /\ Len(toServer[conn]) = 0
        <5>1. Len(toClient[conn]) \in Nat \ {0} /\ Len(toServer[conn]) \in Nat
          BY <1>0, <3>1, <3>2, EmptySeq, StreamLen DEF StreamTypes
        <5>2. Len(toServer[conn]) + Len(toClient[conn]) <= 1
          BY <1>0, <3>1 DEF SingleOutstanding, Outstanding
        <5>3. QED
          BY <5>1, <5>2, OneFrame
      <4>2. Decodes(Head(toClient[conn]), call.op)
        BY <1>0, <3>1, <4>1 DEF Shaped
      <4>3. toClient' = [toClient EXCEPT ![conn] = Tail(toClient[conn])]
            /\ pc' = "idle"
        BY <2>6, <3>1, <3>2, <4>2 DEF Receive, Return
      <4>4. Len(toClient'[conn]) = 0
        BY <1>0, <3>1, <3>2, <4>1, <4>3, HeadTailProperties DEF StreamTypes
      <4>5. QED
        BY <3>1, <4>1, <4>3, <4>4 DEF Shaped, QueryNeverPanics
    <3>3. CASE toClient[conn] = <<>>
      <4>1. UNCHANGED toClient /\ pc' = "idle"
        BY <2>6, <3>1, <3>3 DEF Receive, Return
      <4>2. QED
        BY <1>0, <3>1, <4>1 DEF Shaped, QueryNeverPanics
    <3>4. QED
      BY <3>2, <3>3
  <2>7. CASE Cancel
    BY <2>7 DEF Cancel
  <2>8. CASE Disconnect
    <3>1. UNCHANGED <<toServer, toClient>> /\ pc' \in {"idle", "closing"}
          /\ (conn' = NoConn \/ UNCHANGED <<conn, call>>)
      BY <2>8 DEF Disconnect
    <3>2. QED
      BY <1>0, <3>1 DEF Shaped, QueryNeverPanics
  <2>9. CASE CloseDone
    <3>1. call.kind = "disconnect"
      BY <1>0, <2>9 DEF CloseDone, ClosingInv
    <3>2. UNCHANGED <<conn, toServer, toClient, call>>
      BY <2>9 DEF CloseDone
    <3>3. QED
      BY <1>0, <3>1, <3>2, ShapedUnchanged DEF QueryNeverPanics
  <2>10. CASE \E c \in Conns : ServerRespond(c)
    <3>1. PICK c \in Conns : ServerRespond(c)
      BY <2>10
    <3>2. UNCHANGED <<conn, pc, call>>
      BY <3>1 DEF ServerRespond
    <3>3. CASE c # conn
      <4>1. toServer'[conn] = toServer[conn] /\ toClient'[conn] = toClient[conn]
        BY <1>0, <3>1, <3>3 DEF ServerRespond, StreamTypes
      <4>2. QED
        BY <1>0, <3>2, <4>1 DEF Shaped, QueryNeverPanics
    <3>4. CASE c = conn
      <4>1. toServer[c] # <<>> /\ Len(toServer[c]) = 1 /\ Len(toClient[c]) = 0
        <5>1. toServer[conn] # <<>>
          BY <3>1, <3>4 DEF ServerRespond
        <5>2. Len(toServer[conn]) \in Nat \ {0} /\ Len(toClient[conn]) \in Nat
          BY <1>0, <3>4, <5>1, EmptySeq, StreamLen DEF StreamTypes
        <5>3. conn # NoConn
          BY <3>4 DEF Conns, NoConn
        <5>4. Len(toServer[conn]) + Len(toClient[conn])
                <= (IF pc = "awaiting" THEN 1 ELSE 0)
          BY <1>0, <5>3 DEF SingleOutstanding, Outstanding
        <5>5. (IF pc = "awaiting" THEN 1 ELSE 0) \in {0, 1}
          OBVIOUS
        <5>6. Len(toServer[conn]) = 1 /\ Len(toClient[conn]) = 0
          BY <5>2, <5>4, <5>5, OneFrame
        <5>7. QED
          BY <3>4, <5>1, <5>6
      <4>2. Head(toServer[c]).action = call.op
        BY <1>0, <3>4, <4>1 DEF Shaped, Conns, NoConn
      <4>3. PICK d \in {"null", Shape(call.op)} :
              toClient' = [toClient EXCEPT ![c] =
                             Append(toClient[c], [for |-> Head(toServer[c]).id, data |-> d])]
        BY <3>1, <4>2 DEF ServerRespond
      <4>4. toServer' = [toServer EXCEPT ![c] = Tail(toServer[c])]
        BY <3>1 DEF ServerRespond
      <4>5. Len(toServer'[c]) = 0
        BY <1>0, <4>1, <4>4, HeadTailProperties DEF StreamTypes
      <4>6. Len(toClient'[c]) = 1 /\ Decodes(toClient'[c][1], call.op)
        BY <1>0, <4>1, <4>3, AppendProperties DEF StreamTypes, Decodes
      <4>7. Shaped'
        BY <3>2, <3>4, <4>5, <4>6 DEF Shaped
      <4>8. QED
        BY <1>0, <3>2, <4>7 DEF QueryNeverPanics
    <3>5. QED
      BY <3>3, <3>4
  <2>11. CASE \E c \in Conns : ServerClose(c) \/ LinkFail(c)
    <3>1. PICK c \in Conns : LinkFail(c)
      BY <2>11 DEF ServerClose
    <3>2. UNCHANGED <<conn, pc, call>>
      BY <3>1 DEF LinkFail
    <3>3. toServer'[conn] \in {toServer[conn], <<>>}
          /\ toClient'[conn] \in {toClient[conn], <<>>}
      BY <1>0, <3>1 DEF LinkFail, StreamTypes
    <3>4. QED
      BY <1>0, <3>2, <3>3 DEF Shaped, QueryNeverPanics
  <2>12. CASE UNCHANGED vars
    BY <1>0, <2>12, ShapedUnchanged DEF vars, QueryNeverPanics
  <2>13. QED
    BY <2>1, <2>2, <2>3, <2>4, <2>5, <2>6, <2>7, <2>8, <2>9, <2>10, <2>11,
       <2>12 DEF Next
<1>3. QED
  BY <1>1, <1>2 DEF QInv

\* Spec section 8 says a query whose transport closes before a response
\* fails with NoResponse and never aborts the caller.  If the server never
\* sends a Close frame and no caller times out a call, the unwraps of
\* into_text() and from_str(..) in query never panic, whatever links break:
\* every frame conn.next() yields is the answer to the waiting query, of a
\* shape its response type decodes.  Findings 2 and 5 are the only ways a
\* query aborts.
THEOREM QuerySafe ==
  ASSUME "close" \notin Faults, "timeout" \notin Faults
  PROVE  Spec => []QueryNeverPanics
<1>1. QInv => QueryNeverPanics
  BY DEF QInv
<1>2. QED
  BY <1>1, QInvInit, QInvStep, PTL DEF Spec

=============================================================================
