------------------------ MODULE TobsdbEnvelopeProofs ------------------------
(***************************************************************************)
(* The requests on the wire have the data and where fields of the wrapper *)
(* table: query writes Envelope(a, id), and nothing else ever puts a frame *)
(* into toServer.  The other steps keep a stream, drop its head (the       *)
(* server reads it) or empty it (a close or a broken link).  For the       *)
(* generic client's table, which is the one spec section 8 documents, this *)
(* is EnvelopeShape; the legacy table violates it (finding 4).             *)
(***************************************************************************)
EXTENDS TobsdbClientProofs

\* A request whose fields are the ones the table gives its action.
FromTable(r) ==
    /\ r.data = (r.action \in DataActions)
    /\ r.where = (r.action \in WhereActions)

\* Every request in flight to a server was built from the wrapper table.
EnvInv == \A c \in Conns : \A i \in 1..Len(toServer[c]) : FromTable(toServer[c][i])

LEMMA EnvInvInit == Init => EnvInv
BY EmptySeq DEF Init, EnvInv

\* The four ways a step changes a request stream keep EnvInv.
LEMMA EmptiedEnv ==
  ASSUME TypeOK, EnvInv, NEW c \in Conns,
         toServer' = [toServer EXCEPT ![c] = <<>>]
  PROVE  EnvInv'
BY EmptySeq DEF EnvInv, TypeOK, StreamTypes

LEMMA TailEnv ==
  ASSUME TypeOK, EnvInv, NEW c \in Conns, toServer[c] # <<>>,
         toServer' = [toServer EXCEPT ![c] = Tail(@)]
  PROVE  EnvInv'
<1>1. toServer[c] \in Seq(Request)
  BY DEF TypeOK, StreamTypes
<1>2. /\ Len(Tail(toServer[c])) = Len(toServer[c]) - 1
      /\ \A i \in 1..Len(Tail(toServer[c])) : Tail(toServer[c])[i] = toServer[c][i + 1]
  BY <1>1, HeadTailProperties
<1>3. toServer'[c] = Tail(toServer[c])
  BY DEF TypeOK, StreamTypes
<1>4. \A i \in 1..Len(toServer'[c]) : FromTable(toServer'[c][i])
  <2> SUFFICES ASSUME NEW i \in 1..Len(toServer'[c]) PROVE FromTable(toServer'[c][i])
    OBVIOUS
  <2>0. Len(toServer[c]) \in Nat
    BY <1>1, LenProperties
  <2>1. i \in 1..Len(Tail(toServer[c]))
    BY <1>3
  <2>2. i + 1 \in 1..Len(toServer[c])
    BY <2>0, <2>1, <1>2
  <2>3. toServer'[c][i] = toServer[c][i + 1]
    BY <2>1, <1>2, <1>3
  <2>4. QED
    BY <2>2, <2>3 DEF EnvInv
<1>5. \A d \in Conns \ {c} : toServer'[d] = toServer[d]
  BY DEF TypeOK, StreamTypes
<1>6. QED
  BY <1>4, <1>5 DEF EnvInv

LEMMA AppendEnv ==
  ASSUME TypeOK, EnvInv, NEW c \in Conns, NEW a, NEW id,
         toServer' = [toServer EXCEPT ![c] = Append(@, Envelope(a, id))]
  PROVE  EnvInv'
<1>1. toServer[c] \in Seq(Request)
  BY DEF TypeOK, StreamTypes
<1>2. FromTable(Envelope(a, id))
  BY DEF FromTable, Envelope
<1>3. /\ Len(Append(toServer[c], Envelope(a, id))) = Len(toServer[c]) + 1
      /\ \A i \in 1..Len(toServer[c]) :
           Append(toServer[c], Envelope(a, id))[i] = toServer[c][i]
      /\ Append(toServer[c], Envelope(a, id))[Len(toServer[c]) + 1] = Envelope(a, id)
  BY <1>1, AppendProperties
<1>4. QED
  BY <1>1, <1>2, <1>3 DEF EnvInv, TypeOK, StreamTypes

LEMMA EnvInvStep == TypeInv /\ EnvInv /\ [Next]_vars => EnvInv'
<1> SUFFICES ASSUME TypeInv, EnvInv, [Next]_vars PROVE EnvInv'
  OBVIOUS
<1>0. TypeOK
  BY DEF TypeInv
<1>1. CASE toServer' = toServer
  BY <1>1 DEF EnvInv
<1>2. CASE Connect
  BY <1>2, <1>1 DEF Connect
<1>3. ASSUME NEW a \in Actions, Query(a) PROVE EnvInv'
  BY <1>3, <1>1 DEF Query
<1>4. CASE HandshakeOk
  BY <1>4, <1>1 DEF HandshakeOk
<1>5. CASE HandshakeFail
  BY <1>5, <1>1 DEF HandshakeFail
<1>6. CASE Send
  <2>1. conn \in Conns
    BY <1>6 DEF Send, TypeInv, PcInv
  <2>2. QED
    BY <1>6, <2>1, <1>0, <1>1, AppendEnv DEF Send
<1>7. CASE Receive
  BY <1>7, <1>1 DEF Receive
<1>8. CASE Cancel
  <2>1. CASE pc \in {"connecting", "awaiting"}
    BY <1>8, <2>1, <1>1 DEF Cancel
  <2>2. CASE pc = "sending"
    <3>1. conn \in Conns
      BY <2>2 DEF TypeInv, PcInv
    <3>2. QED
      BY <1>8, <2>2, <3>1, <1>0, <1>1, AppendEnv DEF Cancel
  <2>3. CASE pc = "closing"
    <3>1. call.conn \in Conns
      BY <2>3 DEF TypeInv, PcInv
    <3>2. QED
      BY <1>8, <2>3, <3>1, <1>0, EmptiedEnv DEF Cancel
  <2>4. QED
    BY <1>8, <2>1, <2>2, <2>3 DEF Cancel
<1>9. CASE Disconnect
  BY <1>9, <1>1 DEF Disconnect
<1>10. CASE CloseDone
  BY <1>10, <1>1 DEF CloseDone
<1>11. ASSUME NEW c \in Conns, ServerRespond(c) PROVE EnvInv'
  BY <1>11, <1>0, TailEnv DEF ServerRespond
<1>12. ASSUME NEW c \in Conns, ServerClose(c) \/ LinkFail(c) PROVE EnvInv'
  BY <1>12, <1>0, EmptiedEnv DEF ServerClose, LinkFail
<1>13. CASE UNCHANGED vars
  BY <1>13, <1>1 DEF vars
<1>14. QED
  BY <1>2, <1>3, <1>4, <1>5, <1>6, <1>7, <1>8, <1>9, <1>10, <1>11, <1>12, <1>13
  DEF Next

\* Every request the client writes, whatever the faults and bounds, has the
\* data and where fields its wrapper passes to query (Envelope).
LEMMA EnvelopeFollowsTable == Spec => []EnvInv
<1>1. Init => TypeInv /\ EnvInv
  BY TypeInvInit, EnvInvInit
<1>2. TypeInv /\ EnvInv /\ [Next]_vars => (TypeInv /\ EnvInv)'
  BY TypeInvStep, EnvInvStep
<1>3. QED
  BY <1>1, <1>2, PTL DEF Spec

\* Spec section 8: with the generic client's wrapper table (tools/client
\* create .. delete_many), every request on the wire carries data exactly
\* for create, createMany and the updates, and where exactly for the find,
\* update and delete operations, whatever the faults and bounds.
THEOREM GenericEnvelope ==
  ASSUME DataActions = GenericDataActions, WhereActions = GenericWhereActions
  PROVE  Spec => []EnvelopeShape
<1>1. EnvInv => EnvelopeShape
  BY DEF EnvInv, FromTable, EnvelopeShape, GenericDataActions, GenericWhereActions,
     SpecDataActions, SpecWhereActions
<1>2. QED
  BY <1>1, EnvelopeFollowsTable, PTL

=============================================================================
