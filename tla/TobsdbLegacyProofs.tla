-------------------------- MODULE TobsdbLegacyProofs --------------------------
(***************************************************************************)
(* Proof that the legacy client implements the generic one: every step of *)
(* TobsdbLegacy is a step of TobsdbClient (with the legacy wrapper table)  *)
(* on the same variables.  Most steps are the generic ones written from    *)
(* the other source tree.  Three need a fact about the state:              *)
(*   - require_conn after a handshake: the new connection nconns + 1 is    *)
(*     not None, so the Disconnected branch is not taken;                  *)
(*   - a send on a failed stream: marking it failed again changes nothing, *)
(*     which needs conn to be a connection and dead a function on them.  *)
(* LInv collects these facts.                                              *)
(***************************************************************************)
EXTENDS TobsdbLegacy, TLAPS

Conns == Client!Conns

\* The counters are in range, a handshake runs only while a connection
\* number is left, and a query sends and waits on a stored connection.
LInv ==
    /\ nconns \in 0..MaxConns
    /\ conn \in 0..MaxConns
    /\ dead \in [Conns -> BOOLEAN]
    /\ srv \in [Conns -> Client!ServerStates]
    /\ pc = "connecting" => nconns < MaxConns
    /\ pc \in {"sending", "awaiting"} => conn \in Conns
    /\ conn \in Conns => srv[conn] # "none"

LEMMA LInvInit == Init => LInv
BY BoundsAssumption DEF Init, Client!Init, LInv, Conns, Client!Conns, Client!NoConn,
   Client!ServerStates


\* Every step of the legacy client keeps LInv.
LEMMA LInvStep == LInv /\ [Next]_vars => LInv'
<1> SUFFICES ASSUME LInv, [Next]_vars PROVE LInv'
  OBVIOUS
<1> USE DEF LInv, Conns, Client!Conns, NoConn, Client!NoConn
<1>1. CASE Connect
  BY <1>1 DEF Connect
<1>2. CASE \E a \in Actions : Query(a)
  BY <1>2 DEF Query, RequireConn, Fail, Client!Return
<1>3. CASE HandshakeOk
  <2>1. nconns + 1 \in Conns /\ nconns + 1 # NoConn
    BY <1>3, BoundsAssumption DEF HandshakeOk
  <2>2. conn' = nconns + 1 /\ nconns' = nconns + 1 /\ dead' = dead
        /\ srv' = [srv EXCEPT ![nconns + 1] = "open"]
        /\ pc' \in {"sending", "idle"}
    BY <1>3, <2>1 DEF HandshakeOk, RequireConn, Client!Return
  <2>3. QED
    BY <2>1, <2>2, BoundsAssumption DEF Client!ServerStates
<1>4. CASE HandshakeFail
  BY <1>4 DEF HandshakeFail, Fail, Client!Return
<1>12. CASE Client!Cancel
  <2>1. UNCHANGED <<conn, nconns, dead>> /\ pc' = "idle"
    BY <1>12 DEF Client!Cancel, Client!Return
  <2>2. srv' = srv \/ srv' = [srv EXCEPT ![call.conn] = "gone"]
    BY <1>12 DEF Client!Cancel
  <2>3. QED
    BY <2>1, <2>2 DEF Client!ServerStates
<1>5. CASE Send
  BY <1>5 DEF Send, Fail, Client!Return
<1>6. CASE Receive
  BY <1>6 DEF Receive, Fail, Client!Return
<1>7. CASE Disconnect
  BY <1>7, BoundsAssumption DEF Disconnect
<1>8. CASE CloseDone
  BY <1>8 DEF CloseDone, Client!Return, Client!ServerStates
<1>9. CASE \E c \in Client!Conns :
           Client!ServerRespond(c) \/ Client!ServerClose(c) \/ Client!LinkFail(c)
  <2>1. PICK c \in Client!Conns :
          Client!ServerRespond(c) \/ Client!ServerClose(c) \/ Client!LinkFail(c)
    BY <1>9
  <2>2. UNCHANGED <<conn, nconns, dead, pc>>
    BY <2>1 DEF Client!ServerRespond, Client!ServerClose, Client!LinkFail
  <2>3. srv' = srv \/ srv' = [srv EXCEPT ![c] = "closing"]
                  \/ srv' = [srv EXCEPT ![c] = "gone"]
    BY <2>1 DEF Client!ServerRespond, Client!ServerClose, Client!LinkFail
  <2>4. QED
    BY <2>1, <2>2, <2>3 DEF Client!ServerStates
<1>10. CASE UNCHANGED vars
  BY <1>10 DEF vars
<1>11. QED
  BY <1>1, <1>2, <1>3, <1>4, <1>5, <1>6, <1>7, <1>8, <1>9, <1>10, <1>12 DEF Next

\* Every step of the legacy client's code is the step of the generic
\* client's code at the same await point.
LEMMA LegacyStep == LInv /\ Next => Client!Next
<1> SUFFICES ASSUME LInv, Next PROVE Client!Next
  OBVIOUS
<1> USE DEF NoConn
<1>1. CASE Connect
  BY <1>1 DEF Connect, Client!Connect, Client!Next
<1>2. CASE \E a \in Actions : Query(a)
  <2>1. PICK a \in Actions : Query(a)
    BY <1>2
  <2>2. pc' = (IF conn = Client!NoConn THEN "connecting" ELSE "sending")
        /\ UNCHANGED ret
    BY <2>1 DEF Query, RequireConn
  <2>3. Client!Query(a)
    BY <2>1, <2>2 DEF Query, Client!Query
  <2>4. QED
    BY <2>3 DEF Client!Next, Client!Actions, Actions
<1>3. CASE HandshakeOk
  <2>1. nconns + 1 # Client!NoConn
    BY BoundsAssumption DEF LInv, Client!NoConn
  <2>2. \/ call.kind = "query" /\ pc' = "sending" /\ UNCHANGED ret
        \/ call.kind = "connect" /\ Client!Return("ok", 0)
    BY <1>3, <2>1 DEF HandshakeOk, RequireConn
  <2>3. Client!HandshakeOk
    BY <1>3, <2>2 DEF HandshakeOk, Client!HandshakeOk
  <2>4. QED
    BY <2>3 DEF Client!Next
<1>4. CASE HandshakeFail
  BY <1>4 DEF HandshakeFail, Fail, Client!HandshakeFail, Client!Next
<1>5. CASE Send
  <2> DEFINE c == conn
  <2>1. c \in Conns /\ dead \in [Conns -> BOOLEAN]
        /\ srv[c] \in {"open", "closing", "gone"}
    BY <1>5 DEF Send, LInv, Client!ServerStates
  <2>2. CASE dead[c]
    <3>1. dead' = dead /\ Client!Return("QueryFailed", 0)
          /\ UNCHANGED <<toServer, conn, nconns, srv, toClient, call, nreq>>
      BY <1>5, <2>1, <2>2 DEF Send, Fail
    <3>2. Client!Send
      BY <1>5, <2>2, <3>1 DEF Send, Client!Send
    <3>3. QED
      BY <3>2 DEF Client!Next
  <2>3. CASE ~dead[c] /\ srv[c] = "open"
    <3>1. Client!Send
      BY <1>5, <2>3 DEF Send, Client!Send, Envelope, Client!Envelope, Fail
    <3>2. QED
      BY <3>1 DEF Client!Next
  <2>4. CASE ~dead[c] /\ srv[c] \in {"closing", "gone"}
    <3>1. Client!Send
      BY <1>5, <2>4 DEF Send, Client!Send, Fail
    <3>2. QED
      BY <3>1 DEF Client!Next
  <2>5. QED
    BY <2>1, <2>2, <2>3, <2>4
<1>6. CASE Receive
  <2>1. Client!Receive
    BY <1>6 DEF Receive, Client!Receive, Decodes, Client!Decodes, Fail
  <2>2. QED
    BY <2>1 DEF Client!Next
<1>7. CASE Client!Cancel
  BY <1>7 DEF Client!Next
<1>8. CASE Disconnect
  BY <1>8 DEF Disconnect, Client!Disconnect, Client!Next
<1>9. CASE CloseDone
  BY <1>9 DEF CloseDone, Client!CloseDone, Client!Next
<1>10. CASE \E c \in Client!Conns :
           Client!ServerRespond(c) \/ Client!ServerClose(c) \/ Client!LinkFail(c)
  BY <1>10 DEF Client!Next
<1>11. QED
  BY <1>1, <1>2, <1>3, <1>4, <1>5, <1>6, <1>7, <1>8, <1>9, <1>10 DEF Next

\* The legacy client implements the generic client with the legacy wrapper
\* table, for every fault set and bound: require_conn in place of connect,
\* and the legacy send and receive, take the same steps.  What is proved of
\* TobsdbClient for every wrapper table therefore holds of the legacy
\* client too.
THEOREM LegacyImplements == Spec => ImplementsClient
<1>1. Init => Client!Init
  BY DEF Init
<1>2. LInv /\ [Next]_vars => [Client!Next]_Client!vars
  BY LegacyStep DEF vars, Client!vars
<1>3. QED
  BY <1>1, <1>2, LInvInit, LInvStep, PTL DEF Spec, ImplementsClient, Client!Spec


-----------------------------------------------------------------------------
(* What is proved of the generic client, carried over to the legacy one.  *)

Proved == INSTANCE TobsdbPanicProofs WITH
    DataActions <- LegacyDataActions,
    WhereActions <- LegacyWhereActions

\* The assumptions of TobsdbClient hold with the legacy wrapper table.
LEMMA LegacyAssumptions ==
  /\ MaxCalls \in Nat /\ MaxConns \in Nat
  /\ Faults \subseteq Proved!FaultKinds
  /\ LegacyDataActions \subseteq Proved!Actions
  /\ LegacyWhereActions \subseteq Proved!Actions
  BY BoundsAssumption, FaultsAssumption DEF Proved!FaultKinds, LegacyDataActions,
     LegacyWhereActions, Proved!Actions, Actions

\* The instance's specification is the legacy client's Client!Spec: both
\* are TobsdbClient with the legacy wrapper table.
LEMMA SameSpec == Proved!Spec <=> Client!Spec
  BY DEF Proved!Spec, Client!Spec, Proved!Init, Client!Init, Proved!Next, Client!Next,
     Proved!vars, Client!vars, Proved!Connect, Client!Connect, Proved!Query, Client!Query,
     Proved!HandshakeOk, Client!HandshakeOk, Proved!HandshakeFail, Client!HandshakeFail,
     Proved!Send, Client!Send, Proved!Receive, Client!Receive, Proved!Cancel, Client!Cancel,
     Proved!Disconnect, Client!Disconnect, Proved!CloseDone, Client!CloseDone,
     Proved!ServerRespond, Client!ServerRespond, Proved!ServerClose, Client!ServerClose,
     Proved!LinkFail, Client!LinkFail, Proved!Return, Client!Return, Proved!NoCall,
     Client!NoCall, Proved!Envelope, Client!Envelope, Proved!Decodes, Client!Decodes,
     Proved!Shape, Client!Shape, Proved!NoConn, Client!NoConn, Proved!Conns, Client!Conns,
     Proved!Actions, Client!Actions, Proved!ManyActions, Client!ManyActions

\* The properties of the instance are those of Client.
LEMMA SameProperties ==
  /\ Proved!TypeOK <=> Client!TypeOK
  /\ Proved!ResponseMatchesRequest <=> Client!ResponseMatchesRequest
  /\ Proved!SingleOutstanding <=> Client!SingleOutstanding
  /\ Proved!QueryNeverPanics <=> Client!QueryNeverPanics
  /\ Proved!DisconnectNeverPanics <=> Client!DisconnectNeverPanics
  BY DEF Proved!TypeOK, Client!TypeOK, Proved!ScalarTypes, Client!ScalarTypes,
     Proved!StreamTypes, Client!StreamTypes, Proved!Conns, Client!Conns,
     Proved!ServerStates, Client!ServerStates, Proved!PCs, Client!PCs,
     Proved!CallRecords, Client!CallRecords, Proved!CallKinds, Client!CallKinds,
     Proved!Results, Client!Results, Proved!Outcomes, Client!Outcomes,
     Proved!Request, Client!Request, Proved!Response, Client!Response,
     Proved!Shapes, Client!Shapes, Proved!Actions, Client!Actions,
     Proved!ResponseMatchesRequest, Client!ResponseMatchesRequest,
     Proved!SingleOutstanding, Client!SingleOutstanding, Proved!Outstanding,
     Client!Outstanding, Proved!NoConn, Client!NoConn,
     Proved!vars, Client!vars,
     Proved!QueryNeverPanics, Client!QueryNeverPanics,
     Proved!DisconnectNeverPanics, Client!DisconnectNeverPanics

\* The same equalities hold in every state of a behaviour.
LEMMA AlwaysSameProperties ==
  /\ [](Proved!TypeOK <=> Client!TypeOK)
  /\ [](Proved!ResponseMatchesRequest <=> Client!ResponseMatchesRequest)
  /\ [](Proved!SingleOutstanding <=> Client!SingleOutstanding)
  /\ [](Proved!QueryNeverPanics <=> Client!QueryNeverPanics)
  /\ [](Proved!DisconnectNeverPanics <=> Client!DisconnectNeverPanics)
  BY SameProperties, PTL

\* Every reachable state of the legacy client is well typed.
THEOREM LegacyTypeCorrect == Spec => []Client!TypeOK
<1>1. Proved!Spec => []Proved!TypeOK
  BY LegacyAssumptions, Proved!TypeCorrect
<1>2. Spec => Proved!Spec
  BY SameSpec, LegacyImplements DEF ImplementsClient
<1>3. QED
  BY <1>1, <1>2, AlwaysSameProperties, PTL

\* Without caller timeouts, every Ok the legacy query returns is the
\* response to its own request, and the stored connection holds at most the
\* one frame of the waiting query: require_conn changes nothing of finding 1.
THEOREM LegacyResponsesMatch ==
  ASSUME "timeout" \notin Faults
  PROVE  Spec => [](Client!ResponseMatchesRequest /\ Client!SingleOutstanding)
<1>1. Proved!Spec => []Proved!ResponseMatchesRequest
  BY LegacyAssumptions, Proved!ResponsesMatch
<1>2. Proved!Spec => []Proved!SingleOutstanding
  BY LegacyAssumptions, Proved!OneOutstanding
<1>3. Spec => Proved!Spec
  BY SameSpec, LegacyImplements DEF ImplementsClient
<1>4. QED
  BY <1>1, <1>2, <1>3, AlwaysSameProperties, PTL

\* The legacy query's unwraps panic only on a server Close frame or after a
\* caller timeout, and its disconnect's unwrap only after a broken link: the
\* legacy client has the panics of findings 2, 3 and 5 exactly as the generic one.
THEOREM LegacyPanicFree ==
  /\ "close" \notin Faults /\ "timeout" \notin Faults => (Spec => []Client!QueryNeverPanics)
  /\ "link" \notin Faults => (Spec => []Client!DisconnectNeverPanics)
<1>1. Spec => Proved!Spec
  BY SameSpec, LegacyImplements DEF ImplementsClient
<1>2. ASSUME "close" \notin Faults, "timeout" \notin Faults
      PROVE  Spec => []Client!QueryNeverPanics
  <2>1. Proved!Spec => []Proved!QueryNeverPanics
    BY <1>2, LegacyAssumptions, Proved!QuerySafe
  <2>2. QED
    BY <1>1, <2>1, AlwaysSameProperties, PTL
<1>3. ASSUME "link" \notin Faults
      PROVE  Spec => []Client!DisconnectNeverPanics
  <2>1. Proved!Spec => []Proved!DisconnectNeverPanics
    BY <1>3, LegacyAssumptions, Proved!DisconnectSafe
  <2>2. QED
    BY <1>1, <2>1, AlwaysSameProperties, PTL
<1>4. QED
  BY <1>2, <1>3


\* What is proved of the generic client's refinement of the session, for
\* the legacy client.
Refined == INSTANCE TobsdbRefinementProofs WITH
    DataActions <- LegacyDataActions,
    WhereActions <- LegacyWhereActions

\* The instance's specification is the legacy client's as well.
LEMMA SameRefinedSpec == Refined!Spec <=> Client!Spec
  BY DEF Refined!Spec, Client!Spec, Refined!Init, Client!Init, Refined!Next, Client!Next,
     Refined!vars, Client!vars, Refined!Connect, Client!Connect, Refined!Query, Client!Query,
     Refined!HandshakeOk, Client!HandshakeOk, Refined!HandshakeFail, Client!HandshakeFail,
     Refined!Send, Client!Send, Refined!Receive, Client!Receive, Refined!Cancel, Client!Cancel,
     Refined!Disconnect, Client!Disconnect, Refined!CloseDone, Client!CloseDone,
     Refined!ServerRespond, Client!ServerRespond, Refined!ServerClose, Client!ServerClose,
     Refined!LinkFail, Client!LinkFail, Refined!Return, Client!Return, Refined!NoCall,
     Client!NoCall, Refined!Envelope, Client!Envelope, Refined!Decodes, Client!Decodes,
     Refined!Shape, Client!Shape, Refined!NoConn, Client!NoConn, Refined!Conns, Client!Conns,
     Refined!Actions, Client!Actions, Refined!ManyActions, Client!ManyActions

\* The legacy client keeps the promise of TobsdbSession under the same two
\* conditions as the generic one: no caller timeout and no broken link.
\* Its calls start and return, its queries' Oks answer their own requests
\* and its errors are the ones the session allows in each state.
THEOREM LegacyImplementsSession ==
  ASSUME "timeout" \notin Faults, "link" \notin Faults
  PROVE  Spec => Refined!SessionSafety
<1>1. Refined!Spec => Refined!SessionSafety
  BY LegacyAssumptions, Refined!Implements DEF Refined!FaultKinds, Proved!FaultKinds,
     Refined!Actions, Proved!Actions
<1>2. QED
  BY <1>1, SameRefinedSpec, LegacyImplements DEF ImplementsClient

=============================================================================
