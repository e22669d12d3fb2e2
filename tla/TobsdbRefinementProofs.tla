----------------------- MODULE TobsdbRefinementProofs -----------------------
(***************************************************************************)
(* Proof that TobsdbClient implements the promise of TobsdbSession under   *)
(* the mapping of TobsdbRefinement, when no caller drops a call and no     *)
(* link breaks.                                                            *)
(*                                                                         *)
(* A step of the client maps to a step of the session or to a stutter.     *)
(* Three facts that do not hold of every state are needed:                 *)
(*   - Tagged (from IInv): the frame query reads on the stored connection   *)
(*     answers the query's own request, so an Ok has got = id;             *)
(*   - ConnInv: a handshake only runs while conn is None, so the session   *)
(*     was not open when Opened or ConnFailed is the step;                 *)
(*   - NoLinkInv: without broken links no stream is dead and the           *)
(*     connection disconnect closes is not gone, so close().await.unwrap() *)
(*     does not panic, which the session forbids.                          *)
(***************************************************************************)
EXTENDS TobsdbRefinement, TobsdbClientProofs

\* Without broken links: no stream has failed, and neither the stored
\* connection nor the one disconnect is closing has been torn down.
NoLinkInv ==
    /\ \A c \in Conns : ~dead[c]
    /\ conn # NoConn => srv[conn] # "gone"
    /\ pc = "closing" => srv[call.conn] # "gone"

LEMMA NoLinkInvInit == Init => NoLinkInv
BY DEF Init, NoLinkInv, NoConn

\* Every step keeps NoLinkInv when links do not break and no call is dropped.
LEMMA NoLinkInvStep ==
  ASSUME "link" \notin Faults, "timeout" \notin Faults
  PROVE  IInv /\ NoLinkInv /\ [Next]_vars => NoLinkInv'
<1> SUFFICES ASSUME IInv, NoLinkInv, [Next]_vars PROVE NoLinkInv'
  OBVIOUS
<1>0. TypeOK /\ PcInv
  BY DEF IInv, TypeInv
<1>1. CASE Connect
  BY <1>1 DEF Connect, NoLinkInv
<1>2. CASE \E a \in Actions : Query(a)
  BY <1>2 DEF Query, NoLinkInv
<1>3. CASE HandshakeOk
  <2>1. nconns + 1 \in Conns
    BY <1>3, <1>0, BoundsAssumption DEF HandshakeOk, PcInv, TypeOK, ScalarTypes, Conns
  <2>2. srv' = [srv EXCEPT ![nconns + 1] = "open"] /\ conn' = nconns + 1
    BY <1>3 DEF HandshakeOk
  <2>3. pc' # "closing"
    BY <1>3 DEF HandshakeOk, Return
  <2>4. dead' = dead
    BY <1>3 DEF HandshakeOk
  <2>5. conn' # NoConn => srv'[conn'] # "gone"
    BY <2>1, <2>2, <1>0 DEF TypeOK, ScalarTypes
  <2>6. QED
    BY <2>3, <2>4, <2>5 DEF NoLinkInv
<1>4. CASE HandshakeFail \/ Cancel
  BY <1>4 DEF HandshakeFail, Cancel, Return, NoLinkInv
<1>5. CASE Send
  <2>1. conn \in Conns
    BY <1>5, <1>0 DEF Send, PcInv
  <2>2. srv[conn] # "gone" /\ ~dead[conn]
    BY <2>1 DEF NoLinkInv, NoConn, Conns
  <2>3. dead' = dead /\ UNCHANGED <<conn, srv>>
    BY <1>5, <2>2 DEF Send
  <2>4. pc' # "closing"
    BY <1>5 DEF Send, Return
  <2>5. QED
    BY <2>3, <2>4 DEF NoLinkInv
<1>6. CASE Receive
  <2>1. conn \in Conns
    BY <1>6, <1>0 DEF Receive, PcInv
  <2>2. srv[conn] # "gone"
    BY <2>1 DEF NoLinkInv, NoConn, Conns
  <2>3. dead' = dead /\ UNCHANGED <<conn, srv>>
    BY <1>6, <2>2 DEF Receive
  <2>4. pc' # "closing"
    BY <1>6 DEF Receive, Return
  <2>5. QED
    BY <2>3, <2>4 DEF NoLinkInv
<1>7. CASE Disconnect
  <2>1. CASE conn = NoConn
    BY <1>7, <2>1 DEF Disconnect, NoLinkInv
  <2>2. CASE conn # NoConn
    <3>1. conn' = NoConn /\ call'.conn = conn /\ UNCHANGED <<srv, dead>>
      BY <1>7, <2>2 DEF Disconnect, NoCall
    <3>2. QED
      BY <2>2, <3>1 DEF NoLinkInv
  <2>3. QED
    BY <2>1, <2>2
<1>8. CASE CloseDone
  <2>1. conn = NoConn
    BY <1>8 DEF CloseDone, IInv, WireInv, ClosingInv
  <2>2. UNCHANGED <<conn, dead>> /\ pc' # "closing"
    BY <1>8 DEF CloseDone, Return
  <2>3. QED
    BY <2>1, <2>2 DEF NoLinkInv
<1>9. CASE \E c \in Conns : ServerRespond(c) \/ ServerClose(c)
  <2>1. PICK c \in Conns : ServerRespond(c) \/ ServerClose(c)
    BY <1>9
  <2>2. UNCHANGED <<conn, dead, pc, call>>
    BY <2>1 DEF ServerRespond, ServerClose
  <2>3. \A d \in Conns : srv'[d] = "gone" => srv[d] = "gone"
    BY <2>1, <1>0 DEF ServerRespond, ServerClose, TypeOK, ScalarTypes
  <2>4. conn # NoConn => conn \in Conns
    BY <1>0 DEF TypeOK, ScalarTypes, NoConn, Conns
  <2>5. QED
    BY <2>2, <2>3, <2>4, <1>0 DEF NoLinkInv, PcInv
<1>10. CASE \E c \in Conns : LinkFail(c)
  BY <1>10 DEF LinkFail
<1>11. CASE UNCHANGED vars
  BY <1>11 DEF vars, NoLinkInv
<1>12. QED
  BY <1>1, <1>2, <1>3, <1>4, <1>5, <1>6, <1>7, <1>8, <1>9, <1>10, <1>11 DEF Next


-----------------------------------------------------------------------------
(* Every step of the client is a step of the session or a stutter.         *)

\* The client's own steps: each one is the session step named in its case.
LEMMA ClientRefines ==
  ASSUME IInv, ConnInv, NoLinkInv, Next
  PROVE  [Session!Next]_Session!svars
<1> USE DEF Session!svars
<1>0. TypeOK /\ PcInv
  BY DEF IInv, TypeInv
<1>1. CASE Connect
  <2>1. CASE conn # NoConn
    <3>1. Session!Connect
      BY <1>1, <2>1 DEF Connect, Session!Connect, SessionPc, SessionCall
    <3>2. QED
      BY <3>1 DEF Session!Next
  <2>2. CASE conn = NoConn
    <3>1. Session!Connect
      BY <1>1, <2>2 DEF Connect, Session!Connect, SessionPc, SessionCall, NoCall
    <3>2. QED
      BY <3>1 DEF Session!Next
  <2>3. QED
    BY <2>1, <2>2
<1>2. CASE \E a \in Actions : Query(a)
  <2>1. PICK a \in Actions : Query(a)
    BY <1>2
  <2>2. Session!Query(a)
    BY <2>1 DEF Query, Session!Query, SessionPc, SessionCall
  <2>3. QED
    BY <2>2 DEF Session!Next, Session!Actions, Actions
<1>3. CASE HandshakeOk
  <2>1. conn = NoConn /\ nconns + 1 # NoConn
    BY <1>3, <1>0 DEF HandshakeOk, ConnInv, TypeOK, ScalarTypes, NoConn
  <2>2. call.kind \in {"connect", "query"}
    BY <1>3, <1>0 DEF HandshakeOk, PcInv
  <2>3. Session!Opened
    BY <1>3, <2>1, <2>2 DEF HandshakeOk, Return, Session!Opened, Session!Finish,
       SessionPc, SessionCall
  <2>4. QED
    BY <2>3 DEF Session!Next
<1>4. CASE HandshakeFail
  <2>1. conn = NoConn
    BY <1>4 DEF HandshakeFail, ConnInv
  <2>2. call.kind \in {"connect", "query"}
    BY <1>4, <1>0 DEF HandshakeFail, PcInv
  <2>3. "ConnFailed" \in Session!Errors(call.kind, conn # NoConn)
    BY <2>1, <2>2 DEF Session!Errors
  <2>4. Session!Fail
    BY <1>4, <2>3 DEF HandshakeFail, Return, Session!Fail, Session!Finish,
       SessionPc, SessionCall
  <2>5. QED
    BY <2>4 DEF Session!Next
<1>5. CASE Send
  <2>1. conn \in Conns /\ call.kind = "query"
    BY <1>5, <1>0 DEF Send, PcInv
  <2>2. conn # NoConn
    BY <2>1 DEF Conns, NoConn
  <2>3. "QueryFailed" \in Session!Errors(call.kind, conn # NoConn)
    BY <2>1, <2>2 DEF Session!Errors
  <2>4. CASE pc' = "awaiting"
    <3>1. UNCHANGED <<conn, call, ret, nreq>>
      BY <1>5, <2>4 DEF Send, Return
    <3>2. QED
      BY <1>5, <2>4, <3>1 DEF Send, SessionPc, SessionCall
  <2>5. CASE pc' # "awaiting"
    <3>1. Return("QueryFailed", 0) /\ UNCHANGED <<conn, call, nreq>>
      BY <1>5, <2>5 DEF Send
    <3>2. Session!Fail
      BY <1>5, <2>3, <3>1 DEF Send, Return, Session!Fail, Session!Finish,
         SessionPc, SessionCall
    <3>3. QED
      BY <3>2 DEF Session!Next
  <2>6. QED
    BY <2>4, <2>5
<1>6. CASE Receive
  <2>1. conn \in Conns /\ call.kind = "query"
    BY <1>6, <1>0 DEF Receive, PcInv
  <2>2. conn # NoConn
    BY <2>1 DEF Conns, NoConn
  <2>3. UNCHANGED <<conn, call, nreq>>
    BY <1>6 DEF Receive
  <2>4. CASE pc' = "crashed"
    <3>0. pc = "awaiting" /\ UNCHANGED ret
      BY <1>6, <2>4 DEF Receive, Return
    <3>1. Session!Abort
      BY <2>1, <2>2, <2>3, <2>4, <3>0 DEF Session!Abort, SessionPc, SessionCall
    <3>2. QED
      BY <3>1 DEF Session!Next
  <2>5. CASE pc' # "crashed" /\ toClient[conn] # <<>>
    <3>1. toClient[conn] \in Seq(Response)
      BY <2>1, <1>0 DEF TypeOK, StreamTypes
    <3>2. Head(toClient[conn]).for = call.id
      BY <2>2, <2>5, <3>1 DEF IInv, WireInv, Tagged
    <3>3. Return("ok", Head(toClient[conn]).for)
      BY <1>6, <2>4, <2>5 DEF Receive
    <3>4. Session!Answer
      BY <2>1, <2>2, <2>3, <3>2, <3>3, <1>6 DEF Receive, Return, Session!Answer,
         Session!Finish, SessionPc, SessionCall
    <3>5. QED
      BY <3>4 DEF Session!Next
  <2>6. CASE pc' # "crashed" /\ toClient[conn] = <<>>
    <3>1. Return("NoResponse", 0)
      BY <1>6, <2>6 DEF Receive
    <3>2. "NoResponse" \in Session!Errors(call.kind, conn # NoConn)
      BY <2>1, <2>2 DEF Session!Errors
    <3>3. Session!Fail
      BY <1>6, <2>3, <3>1, <3>2 DEF Receive, Return, Session!Fail, Session!Finish,
         SessionPc, SessionCall
    <3>4. QED
      BY <3>3 DEF Session!Next
  <2>7. QED
    BY <2>4, <2>5, <2>6
<1>7. CASE Cancel
  <2>1. Session!Cancel
    BY <1>7 DEF Cancel, Return, Session!Cancel, Session!Finish, SessionPc, SessionCall
  <2>2. QED
    BY <2>1 DEF Session!Next
<1>8. CASE Disconnect
  <2>1. CASE conn = NoConn
    <3>1. Session!Disconnect
      BY <1>8, <2>1 DEF Disconnect, Session!Disconnect, SessionPc, SessionCall
    <3>2. QED
      BY <3>1 DEF Session!Next
  <2>2. CASE conn # NoConn
    <3>1. Session!Disconnect
      BY <1>8, <2>2 DEF Disconnect, Session!Disconnect, SessionPc, SessionCall, NoCall
    <3>2. QED
      BY <3>1 DEF Session!Next
  <2>3. QED
    BY <2>1, <2>2
<1>9. CASE CloseDone
  <2>1. call.conn \in Conns /\ call.kind = "disconnect"
    BY <1>9, <1>0 DEF CloseDone, PcInv, IInv, WireInv, ClosingInv
  <2>2. ~dead[call.conn] /\ srv[call.conn] # "gone"
    BY <1>9, <2>1 DEF CloseDone, NoLinkInv
  <2>3. Return("ok", 0) /\ UNCHANGED <<conn, call, nreq>>
    BY <1>9, <2>2 DEF CloseDone
  <2>4. Session!Closed
    BY <1>9, <2>1, <2>3 DEF CloseDone, Return, Session!Closed, Session!Finish,
       SessionPc, SessionCall
  <2>5. QED
    BY <2>4 DEF Session!Next
<1>10. CASE \E c \in Conns : ServerRespond(c) \/ ServerClose(c) \/ LinkFail(c)
  <2>1. UNCHANGED <<conn, pc, call, ret, nreq>>
    BY <1>10 DEF ServerRespond, ServerClose, LinkFail
  <2>2. QED
    BY <2>1 DEF SessionPc, SessionCall
<1>11. QED
  BY <1>1, <1>2, <1>3, <1>4, <1>5, <1>6, <1>7, <1>8, <1>9, <1>10 DEF Next

\* A stuttering step of the client is one of the session too.
LEMMA StutterRefines ==
  ASSUME UNCHANGED vars
  PROVE  UNCHANGED Session!svars
BY DEF vars, Session!svars, SessionPc, SessionCall

\* The initial state of the client, new() with conn: None, is the session's.
LEMMA InitRefines == Init => Session!Init
BY DEF Init, Session!Init, SessionPc, SessionCall, NoCall, NoConn

\* The generic client keeps the promise of the session, as long as no
\* caller drops a call with a timeout (a stale response would then be
\* returned as the next query's Ok) and no link breaks (disconnect's
\* close().await.unwrap() would then panic).
THEOREM Implements ==
  ASSUME "timeout" \notin Faults, "link" \notin Faults
  PROVE  Spec => SessionSafety
<1>1. Init => IInv /\ ConnInv /\ NoLinkInv
  BY IInvInit, NoLinkInvInit DEF Init, ConnInv
<1>2. IInv /\ ConnInv /\ NoLinkInv /\ [Next]_vars => (IInv /\ ConnInv /\ NoLinkInv)'
  BY IInvStep, ConnInvStep, NoLinkInvStep
<1>3. IInv /\ ConnInv /\ NoLinkInv /\ [Next]_vars => [Session!Next]_Session!svars
  BY ClientRefines, StutterRefines
<1>4. QED
  BY <1>1, <1>2, <1>3, InitRefines, PTL DEF Spec, SessionSafety, Session!Spec

=============================================================================
