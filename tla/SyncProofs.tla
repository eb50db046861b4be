----------------------------- MODULE SyncProofs -----------------------------
(***************************************************************************)
(* Theorems about Sync for every value of its constants.                   *)
(***************************************************************************)
EXTENDS SyncProperties, SequenceTheorems, TLAPS

-----------------------------------------------------------------------------
(* What the operators of the store return *)

\* A set assigns leaves that the value object gives, and answers a result code.
LEMMA SetOutcomesType ==
    ASSUME NEW d \in Decl, NEW c \in ContentType, NEW out \in SetOutcomes(d, c)
    PROVE  out.assigned \subseteq Given(c) /\ out.result \in Results
<1>1. \A f \in Field : LeafResult(d, c, f) \in Results
  BY DEF LeafResult, Results
<1>2. Given(c) \subseteq Field
  BY DEF Given
<1> QED
  BY <1>1, <1>2 DEF SetOutcomes, Results

\* Assigning given leaves to a value yields a value.
LEMMA AssignType ==
    ASSUME NEW v \in VarValue, NEW c \in ContentType, NEW S \in SUBSET Given(c)
    PROVE  Assign(v, c, S) \in VarValue
<1>1. \A f \in S : c.leaf[f].data \in Datum
  BY DEF Given, ContentType
<1> QED
  BY <1>1 DEF Assign, VarValue

\* A payload item that variable n accepts becomes a datum.
LEMMA ConvertedType ==
    ASSUME decl \in [Name -> Decl \cup {NoDecl}], NEW n \in Initialized,
           NEW item \in JsonItem, Accepts(n, item)
    PROVE  Converted(n, item) \in Datum
<1>1. decl[n] \in Decl /\ decl[n].kind = "basic"
  BY DEF Initialized, Accepts
<1>2. decl[n].leaf[Self].type \in Datatype
  BY <1>1, StoreAssumption
<1> QED
  BY <1>2, StoreAssumption DEF Converted, JsonItem

\* A frame built from the dirty variables is a frame.
LEMMA OutboundType ==
    ASSUME StoreTypeOK
    PROVE  Outbound \in Frame
BY DEF StoreTypeOK, Outbound, OutboundSddl, OutboundVars, Frame, OutVars

\* So is the handshake.
LEMMA HandshakeType == Handshake \in Frame
BY DEF Handshake, Frame, OutVars

-----------------------------------------------------------------------------
(* What the parts of a step do to the types *)

\* The application's calls keep the store typed.
LEMMA AppCallType ==
    ASSUME StoreTypeOK, AppCall
    PROVE  StoreTypeOK'
<1> USE DEF StoreTypeOK
<1>1. ASSUME NEW d \in Decl, InitVar(d) PROVE StoreTypeOK'
  <2>1. d.name \in Name
    BY StoreAssumption DEF DeclType
  <2> QED BY <1>1, <2>1 DEF InitVar, MarkDirty, Results
<1>2. ASSUME NEW n \in Name, NEW h \in Handle, SetVar(n, h) PROVE StoreTypeOK'
  <2> DEFINE d == decl[n]
             c == Content[h]
  <2>1. d \in Decl /\ c \in ContentType
    BY <1>2, StoreAssumption DEF SetVar
  <2>2. PICK out \in SetOutcomes(d, c) :
            /\ value' = [value EXCEPT ![n] = Assign(value[n], c, out.assigned)]
            /\ result' = out.result
    BY <1>2 DEF SetVar
  <2>3. out.assigned \subseteq Given(c) /\ out.result \in Results
    BY <2>1, SetOutcomesType
  <2>4. Assign(value[n], c, out.assigned) \in VarValue
    BY <2>1, <2>3, AssignType
  <2> QED BY <1>2, <2>2, <2>3, <2>4 DEF SetVar, MarkDirty
<1>3. ASSUME NEW n \in Name, NEW h \in Handle, SetVarInput(n, h) PROVE StoreTypeOK'
  BY <1>3 DEF SetVarInput, Results
<1>4. ASSUME NEW n \in Watched, OnChange(n) PROVE StoreTypeOK'
  BY <1>4, StoreAssumption DEF OnChange, Results
<1>5. ASSUME NEW r \in Results, Refuse(r) PROVE StoreTypeOK'
  BY <1>5 DEF Refuse
<1>6. CASE \E r \in Results : Refuse(r)
  BY <1>5, <1>6
<1> QED
  BY <1>1, <1>2, <1>3, <1>4, <1>6
     DEF AppCall, InitVarAgain, InitVarTuple, SetVarUsed, SetVarMissing,
         OnChangeMissing, Results

\* So does an incoming payload.
LEMMA ProcessPayloadType ==
    ASSUME StoreTypeOK, NEW p \in Inbound, NEW applied \in Applicable(p),
           ProcessPayload(p, applied)
    PROVE  StoreTypeOK'
<1> DEFINE named == {n \in Initialized : p[n] # NoValue}
           good == {n \in named : Accepts(n, p[n])}
           Update(n) == [value[n] EXCEPT ![Self] = Converted(n, p[n])]
<1>0. applied \subseteq good
  BY DEF Applicable
<1>1. /\ value'  = [n \in Name |-> IF n \in applied THEN Update(n) ELSE value[n]]
      /\ agreed' = [n \in Name |-> IF n \in applied THEN Update(n) ELSE agreed[n]]
      /\ UNCHANGED <<decl, sddlDirty, dirtyVars, dirty, callbacks,
                     used, result, sddlSent>>
  BY DEF ProcessPayload
<1>2. \A n \in good : Update(n) \in VarValue
  <2> TAKE n \in good
  <2>1. p[n] \in JsonItem /\ n \in Initialized /\ Accepts(n, p[n])
    BY CloudServerAssumption DEF InVars, Initialized
  <2>2. Converted(n, p[n]) \in Datum
    BY <2>1, ConvertedType DEF StoreTypeOK
  <2> QED BY <2>1, <2>2 DEF StoreTypeOK, VarValue, Initialized
<1> HIDE DEF Update, good
<1> QED
  BY <1>0, <1>1, <1>2 DEF StoreTypeOK

\* A write to the socket leaves the socket well typed.
LEMMA WriteType ==
    ASSUME WebSocketTypeOK, NEW frame \in Frame, Write(frame)
    PROVE  WebSocketTypeOK'
<1>1. Append(up, frame) \in Seq(Frame)
  BY AppendProperties DEF WebSocketTypeOK
<1> QED
  BY <1>1 DEF WebSocketTypeOK, Write, Transmit, wsVars

\* The callbacks of libwebsockets, and the network's loss of a connection.
LEMMA CallbackType ==
    ASSUME WebSocketTypeOK,
           Established \/ ConnectionError \/ Closed \/ Writeable \/ ReceiveFrame \/ NetDrop
    PROVE  WebSocketTypeOK'
<1> USE DEF WebSocketTypeOK, Link
<1>1. CASE Established BY <1>1 DEF Established
<1>2. CASE ConnectionError BY <1>2 DEF ConnectionError
<1>3. CASE Closed
  BY <1>3 DEF Closed
<1>4. CASE Writeable BY <1>4 DEF Writeable
<1>5. CASE ReceiveFrame
  <2>1. Tail(down) \in Seq(Inbound)
    BY <1>5, HeadTailProperties DEF ReceiveFrame
  <2> QED BY <1>5, <2>1 DEF ReceiveFrame
<1>6. CASE NetDrop
  <2>1. \A i \in 0..Len(up) : SubSeq(up, 1, i) \in Seq(Frame)
    <3> TAKE i \in 0..Len(up)
    <3>1. i \in Int /\ \A j \in 1..i : up[j] \in Frame
      BY LenProperties, ElementOfSeq
    <3> QED BY <3>1, SubSeqProperties
  <2>2. \A i \in 0..Len(down) : SubSeq(down, 1, i) \in Seq(Inbound)
    <3> TAKE i \in 0..Len(down)
    <3>1. i \in Int /\ \A j \in 1..i : down[j] \in Inbound
      BY LenProperties, ElementOfSeq
    <3> QED BY <3>1, SubSeqProperties
  <2> QED BY <1>6, <2>1, <2>2 DEF NetDrop
<1> QED BY <1>1, <1>2, <1>3, <1>4, <1>5, <1>6

\* The server reads a frame and keeps its copy well typed.
LEMMA ServerReceiveType ==
    ASSUME WebSocketTypeOK, ServerTypeOK, ServerReceive
    PROVE  WebSocketTypeOK' /\ ServerTypeOK'
<1>1. Head(up) \in Frame /\ Tail(up) \in Seq(Frame)
  BY HeadTailProperties DEF WebSocketTypeOK, ServerReceive
<1>2. WebSocketTypeOK'
  BY <1>1 DEF WebSocketTypeOK, ServerReceive
<1>3. ASSUME NEW n \in Name, Head(up).vars[n] # NoValue
      PROVE  Reported(n, Head(up).vars[n]) \in VarValue
  BY <1>1, <1>3 DEF Reported, Frame, OutVars, VarValue, ServerTypeOK
<1>4. ServerTypeOK'
  BY <1>3 DEF ServerTypeOK, ServerReceive
<1> QED BY <1>2, <1>4

\* The server sends a payload and keeps its copy well typed.
LEMMA ServerSendType ==
    ASSUME WebSocketTypeOK, ServerTypeOK, NEW p \in Inbound, ServerSend(p)
    PROVE  WebSocketTypeOK' /\ ServerTypeOK'
<1>1. Append(down, p) \in Seq(Inbound)
  BY AppendProperties DEF WebSocketTypeOK
<1>2. WebSocketTypeOK'
  BY <1>1 DEF WebSocketTypeOK, ServerSend
<1>3. \A n \in Name : p[n] # NoValue => p[n].data \in Datum
  BY CloudServerAssumption DEF InVars, JsonItem
<1>4. cloud' \in [Name -> VarValue]
  BY <1>3, StoreAssumption DEF ServerSend, ServerTypeOK, VarValue
<1>5. sent' \in 0..MaxInbound /\ shaken' \in BOOLEAN /\ diverged' \subseteq Name
  BY CloudServerAssumption DEF ServerSend, ServerTypeOK
<1> QED BY <1>2, <1>4, <1>5 DEF ServerTypeOK

-----------------------------------------------------------------------------
(* Type correctness *)

\* The initial state of a context is well typed.
LEMMA InitType == Init => TypeOK
<1> SUFFICES ASSUME Init PROVE TypeOK
  OBVIOUS
<1>1. StoreTypeOK
  BY DEF Init, StoreInit, StoreTypeOK, Unset, VarValue, Results
<1>2. WebSocketTypeOK
  BY EmptySeq DEF Init, WebSocketInit, WebSocketTypeOK, Link
<1>3. ServerTypeOK
  <2>1. Unset \in VarValue
    BY DEF Unset, VarValue
  <2>2. cloud \in [Name -> VarValue]
    BY <2>1 DEF Init, ServerInit
  <2>3. sent \in 0..MaxInbound
    BY CloudServerAssumption DEF Init, ServerInit
  <2>4. shaken \in BOOLEAN /\ diverged \subseteq Name
    BY DEF Init, ServerInit
  <2> QED BY <2>2, <2>3, <2>4 DEF ServerTypeOK
<1>4. ControlTypeOK
  BY SyncAssumption DEF Init, ControlTypeOK, PC, OptKey, Protocol, DefaultOpts
<1> QED BY <1>1, <1>2, <1>3, <1>4 DEF TypeOK

\* Every step keeps the types.
LEMMA StepType == TypeOK /\ [Next]_vars => TypeOK'
<1> SUFFICES ASSUME TypeOK, [Next]_vars PROVE TypeOK'
  OBVIOUS
<1> USE DEF TypeOK
<1>a. ASSUME UNCHANGED storeVars PROVE StoreTypeOK'
  BY <1>a DEF storeVars, StoreTypeOK
<1>b. ASSUME UNCHANGED wsVars PROVE WebSocketTypeOK'
  BY <1>b DEF wsVars, WebSocketTypeOK
<1>c. ASSUME UNCHANGED serverVars PROVE ServerTypeOK'
  BY <1>c DEF serverVars, ServerTypeOK
<1>d. ASSUME UNCHANGED <<pc, opts>> PROVE ControlTypeOK'
  BY <1>d DEF ControlTypeOK
<1>e. ASSUME StoreKept, result' \in Results PROVE StoreTypeOK'
  BY <1>e DEF StoreKept, StoreTypeOK
<1>f. \A r \in {"none", "SUCCESS", "CONNECTION_FAILED"} : r \in Results
  BY DEF Results
<1>1. CASE App
  BY <1>1, <1>b, <1>c, <1>d, AppCallType DEF App
<1>2. CASE SetOpt
  <2>1. StoreTypeOK'
    BY <1>2, <1>f DEF SetOpt, StoreTypeOK
  <2>2. ControlTypeOK'
    BY <1>2, SyncAssumption DEF SetOpt, ControlTypeOK
  <2> QED BY <1>2, <2>1, <2>2, <1>b, <1>c DEF SetOpt
<1>3. CASE SyncConnected
  BY <1>3, <1>b, <1>c, <1>e, <1>f DEF SyncConnected, Continue, ControlTypeOK, PC
<1>4. CASE SyncConnects
  BY <1>4, <1>c, <1>e, <1>f
     DEF SyncConnects, ConnectStarted, Continue, WebSocketTypeOK, Link, ControlTypeOK,
         PC, InService
<1>5. CASE SyncConnectFails
  BY <1>5, <1>c, <1>e, <1>f
     DEF SyncConnectFails, ConnectNoContext, ConnectRefused, Return,
         WebSocketTypeOK, ControlTypeOK, PC
<1>6. CASE ServiceReturn
  BY <1>6, <1>b, <1>c, <1>e, <1>f
     DEF ServiceReturn, Continue, Return, ControlTypeOK, PC, InService
<1>7. CASE ConnectionCallback
  BY <1>7, <1>a, <1>c, <1>d, CallbackType DEF ConnectionCallback
<1>8. CASE WriteableCallback
  BY <1>8, <1>a, <1>c, <1>d, CallbackType DEF WriteableCallback
<1>9. CASE ReceiveCallback
  <2>1. Head(down) \in Inbound
    BY <1>9, HeadTailProperties DEF ReceiveCallback, ReceiveFrame, WebSocketTypeOK
  <2>2. StoreTypeOK'
    BY <1>9, <2>1, ProcessPayloadType DEF ReceiveCallback
  <2>3. ServerTypeOK'
    BY <1>9 DEF ReceiveCallback, ServerTypeOK
  <2> QED BY <1>9, <2>2, <2>3, <1>d, CallbackType DEF ReceiveCallback
<1>10. CASE HandshakeSend
  BY <1>10, <1>c, <1>e, <1>f, HandshakeType, WriteType
     DEF HandshakeSend, Continue, ControlTypeOK, PC, InService
<1>11. CASE HandshakeWait
  BY <1>11, <1>b, <1>c, <1>e, <1>f DEF HandshakeWait, Continue, ControlTypeOK, PC, InService
<1>12. CASE PushNothing
  BY <1>12, <1>b, <1>c, <1>e, <1>f
     DEF PushNothing, AfterPush, Continue, Return, ControlTypeOK, PC, InService
<1>13. CASE PushFails
  <2>1. SendResult \in Results
    BY DEF SendResult, Results
  <2>2. StoreTypeOK'
    BY <1>13, <2>1 DEF PushFails, GenOutbound, Return, StoreTypeOK
  <2> QED BY <1>13, <2>2, <1>b, <1>c DEF PushFails, Return, ControlTypeOK, PC
<1>14. CASE Push
  <2>1. StoreTypeOK'
    BY <1>14, <1>f
       DEF Push, GenOutbound, ClearDirty, AfterPush, Continue, Return, OutboundSddl, StoreTypeOK
  <2>2. WebSocketTypeOK'
    BY <1>14, <1>b, OutboundType, WriteType DEF Push
  <2>3. ControlTypeOK'
    BY <1>14 DEF Push, AfterPush, Continue, Return, ControlTypeOK, PC, InService
  <2>4. ServerTypeOK'
    BY <1>14 DEF Push, ServerTypeOK
  <2> QED BY <2>1, <2>2, <2>3, <2>4
<1>15. CASE Network
  BY <1>15, <1>a, <1>c, <1>d, CallbackType DEF Network
<1>16. CASE Server
  BY <1>16, <1>a, <1>d, ServerReceiveType, ServerSendType DEF Server
<1>17. CASE UNCHANGED vars
  BY <1>17, <1>a, <1>b, <1>c, <1>d DEF vars
<1> QED
  BY <1>1, <1>2, <1>3, <1>4, <1>5, <1>6, <1>7, <1>8, <1>9, <1>10, <1>11, <1>12,
     <1>13, <1>14, <1>15, <1>16, <1>17 DEF Next

\* Every variable keeps its type, for any set of declarations, values, payloads,
\* option settings and faults (all of the modelled code).
THEOREM TypeCorrect == Spec => []TypeOK
<1> QED BY InitType, StepType, PTL DEF Spec

-----------------------------------------------------------------------------
(* The dirty flags *)

\* A new context has nothing queued and nothing owed.
LEMMA InitQueue == Init => QueueInv
BY DEF Init, StoreInit, QueueInv, DirtyNamesDeclared, SddlOwedIsQueued,
       UnreportedChangeIsQueued

\* The application's calls queue every variable they may have changed.
LEMMA AppCallQueue ==
    ASSUME StoreTypeOK, QueueInv, AppCall, pc' # "tail"
    PROVE  QueueInv'
<1> USE DEF QueueInv, DirtyNamesDeclared, SddlOwedIsQueued, UnreportedChangeIsQueued,
            Initialized
<1>1. ASSUME NEW d \in Decl, InitVar(d) PROVE QueueInv'
  <2>1. d.name \in Name /\ d # NoDecl
    BY StoreAssumption DEF DeclType
  <2>2. DirtyNamesDeclared'
    BY <1>1, <2>1 DEF InitVar, MarkDirty, StoreTypeOK
  <2> QED BY <1>1, <2>1, <2>2 DEF InitVar, MarkDirty
<1>2. ASSUME NEW n \in Name, NEW h \in Handle, SetVar(n, h) PROVE QueueInv'
  <2>1. \A m \in Name \ {n} : value'[m] = value[m]
    BY <1>2 DEF SetVar, StoreTypeOK
  <2> QED BY <1>2, <2>1 DEF SetVar, MarkDirty
<1>3. ASSUME UNCHANGED <<decl, value, sddlDirty, dirtyVars, dirty, agreed>> PROVE QueueInv'
  BY <1>3
<1> QED
  BY <1>1, <1>2, <1>3
     DEF AppCall, Refuse, InitVarAgain, InitVarTuple, SetVarUsed, SetVarMissing,
         SetVarInput, OnChange, OnChangeMissing

\* A payload changes a value and what was agreed on together.
LEMMA ProcessPayloadQueue ==
    ASSUME StoreTypeOK, QueueInv, NEW p, NEW applied, ProcessPayload(p, applied),
           pc' = pc
    PROVE  QueueInv'
<1>1. \A n \in Name : value'[n] = agreed'[n] \/ (value'[n] = value[n] /\ agreed'[n] = agreed[n])
  BY DEF ProcessPayload
<1>2. UNCHANGED <<decl, sddlDirty, dirtyVars, dirty>>
  BY DEF ProcessPayload
<1> QED
  BY <1>1, <1>2 DEF QueueInv, DirtyNamesDeclared, SddlOwedIsQueued,
                    UnreportedChangeIsQueued, Initialized

\* No step forgets a change: calls queue, payloads agree, pushes take all or nothing.
LEMMA StepQueue == TypeOK /\ QueueInv /\ [Next]_vars => QueueInv'
<1> SUFFICES ASSUME TypeOK, QueueInv, [Next]_vars PROVE QueueInv'
  OBVIOUS
<1> USE DEF TypeOK
<1>a. ASSUME UNCHANGED <<decl, value, sddlDirty, dirtyVars, dirty, agreed>>,
             pc' = "tail" => pc = "tail" \/ ~dirty
      PROVE  QueueInv'
  BY <1>a DEF QueueInv, DirtyNamesDeclared, SddlOwedIsQueued, UnreportedChangeIsQueued,
              Initialized
<1>1. CASE App
  <2>1. pc' # "tail"
    BY <1>1 DEF App
  <2> QED BY <1>1, <2>1, AppCallQueue DEF App
<1>2. CASE SetOpt \/ SyncConnected \/ SyncConnects \/ SyncConnectFails
  BY <1>2, <1>a DEF SetOpt, SyncConnected, SyncConnects, SyncConnectFails, StoreKept,
                    Continue, Return
<1>3. CASE ServiceReturn \/ HandshakeSend \/ HandshakeWait \/ PushNothing
  BY <1>3, <1>a DEF ServiceReturn, HandshakeSend, HandshakeWait, PushNothing, AfterPush,
                    StoreKept, Continue, Return
<1>4. CASE ConnectionCallback \/ WriteableCallback \/ Network \/ Server \/ UNCHANGED vars
  BY <1>4, <1>a DEF ConnectionCallback, WriteableCallback, Network, Server, vars, storeVars
<1>5. CASE ReceiveCallback
  BY <1>5, ProcessPayloadQueue DEF ReceiveCallback
<1>6. CASE PushFails
  BY <1>6 DEF PushFails, GenOutbound, Return, QueueInv, DirtyNamesDeclared,
              SddlOwedIsQueued, UnreportedChangeIsQueued, Initialized
<1>7. CASE Push
  <2>1. sddlDirty' = {}
    BY <1>7 DEF Push, GenOutbound, OutboundSddl, QueueInv, SddlOwedIsQueued
  <2>2. \A n \in Name : value'[n] = agreed'[n]
    BY <1>7 DEF Push, QueueInv, UnreportedChangeIsQueued
  <2> QED
    BY <1>7, <2>1, <2>2 DEF Push, ClearDirty, QueueInv, DirtyNamesDeclared,
                            SddlOwedIsQueued, UnreportedChangeIsQueued
<1> QED BY <1>1, <1>2, <1>3, <1>4, <1>5, <1>6, <1>7 DEF Next

\* The dirty set names declared variables only, holds every declaration that is
\* still owed and every change that is not reported, in any interleaving of
\* application calls, syncs, payloads and faults.
THEOREM QueueCorrect ==
    Spec => [](DirtyNamesDeclared /\ SddlOwedIsQueued /\ UnreportedChangeIsQueued)
<1>1. QueueInv => DirtyNamesDeclared /\ SddlOwedIsQueued /\ UnreportedChangeIsQueued
  BY DEF QueueInv
<1> QED BY <1>1, InitType, StepType, InitQueue, StepQueue, PTL DEF Spec

\* Whoever looks up a dirty name finds a variable (st_sync.c:154-158), however calls
\* that were refused, syncs and payloads follow each other.
THEOREM NamesCorrect == Spec => []DirtyNamesDeclared
BY QueueCorrect, PTL

\* A declaration whose flag is up is part of the next push: no order of pushes,
\* sent or failed, leaves an SDDL flag up that no push would look at.
THEOREM SddlCorrect == Spec => []SddlOwedIsQueued
BY QueueCorrect, PTL

\* The step that answers success follows a push that left no value behind.
LEMMA StepSuccess ==
    ASSUME TypeOK, QueueInv, [Next]_vars, pc # "idle", pc' = "idle", result' = "SUCCESS"
    PROVE  value' = agreed' /\ dirtyVars' = {}
<1>a. ASSUME StoreKept, ~dirty PROVE value' = agreed' /\ dirtyVars' = {}
  <2>1. \A n \in Name : value[n] = agreed[n]
    BY <1>a DEF QueueInv, UnreportedChangeIsQueued
  <2>2. value = agreed
    BY <2>1 DEF TypeOK, StoreTypeOK
  <2> QED BY <1>a, <2>2 DEF StoreKept, QueueInv, UnreportedChangeIsQueued
<1>1. CASE ServiceReturn
  BY <1>1, <1>a DEF ServiceReturn, Continue, QueueInv
<1>2. CASE PushNothing
  BY <1>2, <1>a DEF PushNothing
<1>3. CASE Push
  <2>1. dirtyVars' = {}
    BY <1>3 DEF Push, ClearDirty
  <2>2. \A n \in Name : value'[n] = agreed'[n]
    BY <1>3 DEF Push, QueueInv, UnreportedChangeIsQueued
  <2>3. value' \in [Name -> VarValue] /\ agreed' \in [Name -> VarValue]
    BY StepType DEF TypeOK, StoreTypeOK
  <2> QED BY <2>1, <2>2, <2>3
<1>4. CASE PushFails
  BY <1>4 DEF PushFails, Return
<1> QED
  BY <1>1, <1>2, <1>3, <1>4
     DEF Next, vars, App, SetOpt, SyncConnected, SyncConnects, SyncConnectFails,
         ConnectionCallback, WriteableCallback, ReceiveCallback, HandshakeSend,
         HandshakeWait, Network, Server, Continue

\* CANOPY_SUCCESS from canopy_sync() always means that every value set so far was
\* handed to the transport, and none is queued for a later push.
THEOREM SuccessCorrect == Spec => SuccessMeansReported
<1>1. TypeOK /\ QueueInv /\ [Next]_vars =>
        [pc # "idle" /\ pc' = "idle" /\ result' = "SUCCESS"
           => value' = agreed' /\ dirtyVars' = {}]_vars
  BY StepSuccess
<1> QED
  BY <1>1, InitType, StepType, InitQueue, StepQueue, PTL DEF Spec, SuccessMeansReported

-----------------------------------------------------------------------------
(* The connection *)

\* No step loses the context or the callback of a handle.
LEMMA StepConnection == ConnectionInv /\ [Next]_vars => ConnectionInv'
<1> SUFFICES ASSUME ConnectionInv, [Next]_vars PROVE ConnectionInv'
  OBVIOUS
<1> USE DEF ConnectionInv, InService
<1>a. ASSUME UNCHANGED <<wsCtx, handle, cbRecv, pc, opts>> PROVE ConnectionInv'
  BY <1>a
<1>1. CASE App
  BY <1>1, <1>a DEF App, wsVars
<1>2. CASE SetOpt
  BY <1>2 DEF SetOpt, wsVars
<1>3. CASE SyncConnected
  BY <1>3 DEF SyncConnected, SyncNeedsConnection, IsConnected, Continue, wsVars
<1>4. CASE SyncConnects
  BY <1>4 DEF SyncConnects, ConnectStarted, Continue
<1>5. CASE SyncConnectFails
  BY <1>5 DEF SyncConnectFails, SyncNeedsConnection, IsConnected, ConnectNoContext,
              ConnectRefused, Return
<1>6. CASE ServiceReturn
  BY <1>6 DEF ServiceReturn, Continue, Return, wsVars
<1>7. CASE ConnectionCallback \/ WriteableCallback \/ ReceiveCallback
  BY <1>7, <1>a DEF ConnectionCallback, WriteableCallback, ReceiveCallback, Established,
                    ConnectionError, Closed, Writeable, ReceiveFrame
<1>8. CASE HandshakeSend
  BY <1>8 DEF HandshakeSend, Write, Continue, wsVars
<1>9. CASE HandshakeWait
  BY <1>9 DEF HandshakeWait, Continue, wsVars
<1>10. CASE PushNothing
  BY <1>10 DEF PushNothing, AfterPush, Continue, Return, wsVars
<1>11. CASE PushFails
  BY <1>11 DEF PushFails, Return, wsVars
<1>12. CASE Push
  BY <1>12 DEF Push, Write, AfterPush, Continue, Return, wsVars
<1>13. CASE Network \/ Server
  BY <1>13, <1>a DEF Network, Server, NetDrop, ServerReceive, ServerSend
<1>14. CASE UNCHANGED vars
  BY <1>14, <1>a DEF vars, wsVars
<1> QED
  BY <1>1, <1>2, <1>3, <1>4, <1>5, <1>6, <1>7, <1>8, <1>9, <1>10, <1>11, <1>12,
     <1>13, <1>14 DEF Next

\* The websocket is never serviced without a context, a connection object and
\* the receive callback, whatever options the application changes between syncs.
THEOREM ContextCorrect == Spec => []ServiceHasContext
<1>1. Init => ConnectionInv
  BY DEF Init, WebSocketInit, ConnectionInv, InService
<1>2. ConnectionInv => ServiceHasContext
  BY DEF ConnectionInv, ServiceHasContext
<1> QED BY <1>1, <1>2, StepConnection, PTL DEF Spec

-----------------------------------------------------------------------------
(* Flow control *)

\* A prefix of a sequence of frames or payloads.
LEMMA PrefixProperties ==
    ASSUME NEW S, NEW s \in Seq(S), NEW i \in 0..Len(s)
    PROVE  /\ SubSeq(s, 1, i) \in Seq(S)
           /\ Len(SubSeq(s, 1, i)) = i
           /\ \A j \in 1..i : SubSeq(s, 1, i)[j] = s[j]
<1>1. i \in Int /\ \A j \in 1..i : s[j] \in S
  BY LenProperties, ElementOfSeq
<1> QED BY <1>1, SubSeqProperties

\* A write uses up the flag and asks for it back.
LEMMA WriteFlow ==
    ASSUME WebSocketTypeOK, FlowInv, NEW frame \in Frame, Write(frame)
    PROVE  FlowInv'
<1>1. CASE ~writeReady
  BY <1>1 DEF Write, wsVars, FlowInv, FlowControl
<1>2. CASE writeReady /\ link = "open"
  <2>1. Len(up') = Len(up) + 1
    BY <1>2, AppendProperties DEF Write, Transmit, WebSocketTypeOK
  <2>2. Len(up) \in Nat /\ Len(up) < MaxInFlight
    BY <1>2, LenProperties DEF FlowInv, FlowControl, WebSocketTypeOK
  <2>3. Len(up') <= MaxInFlight
    BY <2>1, <2>2, WebSocketAssumption
  <2>4. link' = "open" /\ ~writeReady' /\ wantWrite' /\ handle' = handle
    BY <1>2 DEF Write
  <2> QED BY <1>2, <2>3, <2>4 DEF FlowInv, FlowControl
<1>3. CASE writeReady /\ link # "open"
  BY <1>3 DEF Write, Transmit, FlowInv, FlowControl
<1> QED BY <1>1, <1>2, <1>3 DEF WebSocketTypeOK

\* Every step respects the room in the send buffer.
LEMMA StepFlow == TypeOK /\ FlowInv /\ [Next]_vars => FlowInv'
<1> SUFFICES ASSUME TypeOK, FlowInv, [Next]_vars PROVE FlowInv'
  OBVIOUS
<1> USE DEF TypeOK, FlowInv, FlowControl
<1>a. ASSUME UNCHANGED <<handle, writeReady, link, wantWrite, up>> PROVE FlowInv'
  BY <1>a
<1>1. CASE App \/ SetOpt \/ SyncConnected \/ ServiceReturn \/ HandshakeWait
           \/ PushNothing \/ PushFails \/ UNCHANGED vars
  BY <1>1, <1>a DEF App, SetOpt, SyncConnected, ServiceReturn, HandshakeWait,
                    PushNothing, PushFails, vars, wsVars
<1>2. CASE SyncConnects
  BY <1>2, WebSocketAssumption
     DEF SyncConnects, ConnectStarted, SyncNeedsConnection, IsConnected, WebSocketTypeOK
<1>3. CASE SyncConnectFails
  BY <1>3, <1>a DEF SyncConnectFails, ConnectNoContext, ConnectRefused
<1>4. CASE ConnectionCallback
  BY <1>4, WebSocketAssumption, EmptySeq
     DEF ConnectionCallback, Established, ConnectionError, Closed
<1>5. CASE WriteableCallback
  BY <1>5 DEF WriteableCallback, Writeable
<1>6. CASE ReceiveCallback
  BY <1>6, <1>a DEF ReceiveCallback, ReceiveFrame
<1>7. CASE HandshakeSend
  BY <1>7, HandshakeType, WriteFlow DEF HandshakeSend
<1>8. CASE Push
  BY <1>8, <1>a, OutboundType, WriteFlow DEF Push, wsVars
<1>9. CASE Network
  <2>1. PICK i \in 0..Len(up) : up' = SubSeq(up, 1, i)
    BY <1>9 DEF Network, NetDrop
  <2>2. Len(up') <= Len(up) /\ Len(up') \in Nat /\ Len(up) \in Nat
    BY <2>1, PrefixProperties, LenProperties DEF WebSocketTypeOK
  <2>3. Len(up') <= MaxInFlight
    BY <2>2, WebSocketAssumption
  <2> QED BY <1>9, <2>3 DEF Network, NetDrop
<1>10. CASE Server
  <2>1. CASE ServerReceive
    <3>1. up # <<>> /\ Len(up') = Len(up) - 1 /\ Len(up) \in Nat
      BY <2>1, HeadTailProperties, LenProperties DEF ServerReceive, WebSocketTypeOK
    <3>2. UNCHANGED <<handle, writeReady, link, wantWrite>>
      BY <2>1 DEF ServerReceive
    <3> QED BY <3>1, <3>2, WebSocketAssumption
  <2>2. CASE \E p \in Inbound : ServerSend(p)
    BY <2>2, <1>a DEF ServerSend
  <2> QED BY <1>10, <2>1, <2>2 DEF Server
<1> QED
  BY <1>1, <1>2, <1>3, <1>4, <1>5, <1>6, <1>7, <1>8, <1>9, <1>10 DEF Next

\* Before the first connection nothing is in flight.
LEMMA InitFlow == Init => FlowInv
BY WebSocketAssumption, EmptySeq DEF Init, WebSocketInit, FlowInv, FlowControl

\* No write overruns the send buffer and no writer waits unannounced, for a
\* buffer of any size.
THEOREM FlowCorrect == Spec => []FlowControl
<1>1. FlowInv => FlowControl
  BY DEF FlowInv
<1> QED BY <1>1, InitType, StepType, InitFlow, StepFlow, PTL DEF Spec

-----------------------------------------------------------------------------
(* The handshake comes first *)

\* No report overtakes the handshake, and a lost tail does not uncover one.
LEMMA StepHandshake ==
    TypeOK /\ FlowInv /\ HandshakeInv /\ [Next]_vars => HandshakeInv'
<1> SUFFICES ASSUME TypeOK, FlowInv, HandshakeInv, [Next]_vars PROVE HandshakeInv'
  OBVIOUS
<1> USE DEF TypeOK, HandshakeInv, HandshakeFirst, BeforeHandshake
<1>u. up \in Seq(Frame) /\ Len(up) \in Nat
  BY LenProperties DEF WebSocketTypeOK
<1>a. ASSUME UNCHANGED <<up, link, shaken>>,
             pc' \in BeforeHandshake => pc \in BeforeHandshake,
             pc \in BeforeHandshake => pc' \in BeforeHandshake
      PROVE  HandshakeInv'
  BY <1>a
<1>1. CASE App \/ SetOpt \/ UNCHANGED vars
  BY <1>1, <1>a DEF App, SetOpt, vars, wsVars, serverVars
<1>2. CASE SyncConnected \/ SyncConnectFails \/ ServiceReturn \/ HandshakeWait
  BY <1>2, <1>a DEF SyncConnected, SyncConnectFails, ConnectNoContext, ConnectRefused,
                    ServiceReturn, HandshakeWait, Continue, Return, InService, wsVars,
                    serverVars
<1>3. CASE PushNothing \/ PushFails
  BY <1>3, <1>a DEF PushNothing, PushFails, AfterPush, Continue, Return, wsVars, serverVars
<1>4. CASE SyncConnects
  <2>1. up' = <<>> /\ link' = "connecting" /\ pc' = "service1"
    BY <1>4 DEF SyncConnects, ConnectStarted, SyncNeedsConnection, IsConnected, Continue,
                FlowInv
  <2> QED BY <2>1, EmptySeq
<1>5. CASE ConnectionCallback
  BY <1>5 DEF ConnectionCallback, Established, ConnectionError, Closed, serverVars
<1>6. CASE WriteableCallback \/ ReceiveCallback
  BY <1>6, <1>a DEF WriteableCallback, ReceiveCallback, Writeable, ReceiveFrame, serverVars
<1>7. CASE HandshakeSend
  <2>1. up = <<>> /\ writeReady /\ link # "connecting" /\ pc' = "handshakeSent"
    BY <1>7 DEF HandshakeSend, CanWrite, Continue, FlowInv
  <2>2. link' = link /\ shaken' = shaken
    BY <1>7, <2>1 DEF HandshakeSend, Write, serverVars
  <2>3. up' = IF link = "open" THEN Append(up, Handshake) ELSE up
    BY <1>7, <2>1 DEF HandshakeSend, Write, Transmit
  <2>4. CASE link = "open"
    <3>1. Len(up') = 1 /\ up'[1].kind = "handshake"
      BY <2>1, <2>3, <2>4, <1>u, HandshakeType, AppendProperties, EmptySeq DEF Handshake
    <3> QED BY <2>1, <2>2, <3>1
  <2>5. CASE link # "open"
    BY <2>1, <2>2, <2>3, <2>5, EmptySeq
  <2> QED BY <2>4, <2>5
<1>8. CASE Push
  <2>1. pc \notin BeforeHandshake /\ pc' \notin BeforeHandshake /\ shaken' = shaken
        /\ link # "connecting"
    BY <1>8 DEF Push, AfterPush, Continue, Return, serverVars
  <2>2. CASE up' = up
    BY <1>8, <2>1, <2>2 DEF Push, Write, wsVars
  <2>3. CASE link = "open" /\ up' = Append(up, Outbound)
    <3>1. /\ Len(up') = Len(up) + 1
          /\ \A i \in 1..Len(up) : up'[i] = up[i]
      BY <2>3, <1>u, OutboundType, AppendProperties
    <3>2. shaken \/ \E j \in 1..Len(up) : up[j].kind = "handshake"
      BY <2>1, <2>3
    <3>3. shaken' \/ \E j \in 1..Len(up) : up'[j].kind = "handshake"
      BY <2>1, <3>1, <3>2
    <3>4. HandshakeFirst'
      <4> SUFFICES ASSUME NEW i \in 1..Len(up'), up'[i].kind = "vars", ~shaken'
                   PROVE  \E j \in 1..(i - 1) : up'[j].kind = "handshake"
        OBVIOUS
      <4>1. CASE i = Len(up) + 1
        BY <3>3, <4>1, <1>u
      <4>2. CASE i \in 1..Len(up)
        <5>1. PICK j \in 1..(i - 1) : up[j].kind = "handshake"
          BY <2>1, <3>1, <4>2
        <5>2. j \in 1..Len(up)
          BY <4>2, <1>u
        <5> QED BY <3>1, <5>1, <5>2
      <4> QED BY <3>1, <4>1, <4>2, <1>u
    <3>5. shaken' \/ \E j \in 1..Len(up') : up'[j].kind = "handshake"
      BY <3>1, <3>3, <1>u
    <3>6. link' = link
      BY <1>8 DEF Push, Write, wsVars
    <3> QED BY <2>1, <3>4, <3>5, <3>6
  <2> QED BY <1>8, <2>2, <2>3 DEF Push, Write, Transmit, wsVars
<1>9. CASE Network
  <2>1. PICK i \in 0..Len(up) : up' = SubSeq(up, 1, i)
    BY <1>9 DEF Network, NetDrop
  <2>2. Len(up') = i /\ \A j \in 1..i : up'[j] = up[j]
    BY <2>1, <1>u, PrefixProperties
  <2>3. shaken' = shaken /\ pc' = pc /\ link' = "dropped"
    BY <1>9 DEF Network, NetDrop, serverVars
  <2>4. HandshakeFirst'
    <3> SUFFICES ASSUME NEW k \in 1..i, up[k].kind = "vars", ~shaken
                 PROVE  \E j \in 1..(k - 1) : up'[j].kind = "handshake"
      BY <2>2, <2>3
    <3>1. k \in 1..Len(up)
      BY <1>u
    <3>2. PICK j \in 1..(k - 1) : up[j].kind = "handshake"
      BY <3>1
    <3>3. j \in 1..i
      BY <1>u
    <3> QED BY <2>2, <3>2, <3>3
  <2>5. pc \in BeforeHandshake => up' = <<>>
    <3> SUFFICES ASSUME up = <<>> PROVE up' = <<>>
      OBVIOUS
    <3>1. i = 0
      BY EmptySeq
    <3> QED BY <2>1, <3>1, SubSeqEmpty
  <2> QED BY <2>3, <2>4, <2>5
<1>10. CASE Server
  <2>1. CASE ServerReceive
    <3>1. /\ up # <<>> /\ Len(up') = Len(up) - 1
          /\ \A i \in 1..Len(up') : up'[i] = up[i + 1]
          /\ up[1] = Head(up)
      BY <2>1, <1>u, HeadTailProperties DEF ServerReceive
    <3>2. UNCHANGED <<pc, link>> /\ pc \notin BeforeHandshake
      BY <1>10, <2>1, <3>1 DEF Server, ServerReceive
    <3>3. CASE shaken' = TRUE
      BY <3>2, <3>3
    <3>4. CASE up[1].kind = "vars" /\ shaken' = shaken
      <4>1. 1 \in 1..Len(up)
        BY <3>1, <1>u, EmptySeq
      <4>2. shaken
        BY <3>4, <4>1
      <4> QED BY <3>2, <3>4, <4>2
    <3> QED BY <2>1, <3>1, <3>3, <3>4 DEF ServerReceive
  <2>2. CASE \E p \in Inbound : ServerSend(p)
    BY <1>10, <2>2, <1>a DEF Server, ServerSend
  <2> QED BY <1>10, <2>1, <2>2 DEF Server
<1> QED
  BY <1>1, <1>2, <1>3, <1>4, <1>5, <1>6, <1>7, <1>8, <1>9, <1>10 DEF Next

\* Before the first connection there is no frame to misattribute.
LEMMA InitHandshake == Init => HandshakeInv
BY EmptySeq DEF Init, WebSocketInit, HandshakeInv, HandshakeFirst, BeforeHandshake

\* The server never reads a report it cannot attribute to the device.
THEOREM HandshakeCorrect == Spec => []HandshakeFirst
<1>1. HandshakeInv => HandshakeFirst
  BY DEF HandshakeInv
<1> QED
  BY <1>1, InitType, StepType, InitFlow, StepFlow, InitHandshake, StepHandshake, PTL
     DEF Spec

-----------------------------------------------------------------------------
(* The store implements the abstract mirror *)

\* A new context is a mirror with nothing pending.
LEMMA InitMirror == Init => Mirror!Init
<1> SUFFICES ASSUME Init PROVE Mirror!Init
  OBVIOUS
<1>1. Unset \in VarValue
  BY DEF Unset, VarValue
<1> QED BY <1>1 DEF Init, StoreInit, Mirror!Init

\* A step that leaves values, dirty names and agreed values alone is a stutter.
LEMMA AppCallMirror ==
    ASSUME StoreTypeOK, StoreTypeOK', AppCall
    PROVE  [Mirror!Next]_Mirror!vars
<1>1. ASSUME NEW d \in Decl, InitVar(d) PROVE Mirror!Touch(d.name) /\ d.name \in Name
  <2>1. d.name \in Name
    BY StoreAssumption DEF DeclType
  <2>2. value' = value /\ value \in [Name -> VarValue]
    BY <1>1 DEF InitVar, StoreTypeOK
  <2> QED BY <1>1, <2>1, <2>2 DEF Mirror!Touch, InitVar, MarkDirty
<1>2. ASSUME NEW n \in Name, NEW h \in Handle, SetVar(n, h) PROVE Mirror!Touch(n)
  <2>1. PICK v : value' = [value EXCEPT ![n] = v]
    BY <1>2 DEF SetVar
  <2>2. \A m \in Name \ {n} : value'[m] = value[m]
    BY <2>1 DEF StoreTypeOK
  <2> QED BY <1>2, <2>2 DEF Mirror!Touch, SetVar, MarkDirty, StoreTypeOK
<1>3. ASSUME UNCHANGED <<value, dirtyVars, agreed>> PROVE UNCHANGED Mirror!vars
  BY <1>3 DEF Mirror!vars
<1> QED
  BY <1>1, <1>2, <1>3
     DEF Mirror!Next, AppCall, Refuse, InitVarAgain, InitVarTuple, SetVarUsed,
         SetVarMissing, SetVarInput, OnChange, OnChangeMissing

\* A received payload, applied in part or in full, is absorbed on both sides.
LEMMA ProcessPayloadMirror ==
    ASSUME StoreTypeOK, StoreTypeOK', NEW p, NEW applied, ProcessPayload(p, applied)
    PROVE  Mirror!Next
<1>1. /\ \A n \in Name : \/ value'[n] = value[n] /\ agreed'[n] = agreed[n]
                         \/ value'[n] = agreed'[n]
      /\ dirtyVars' = dirtyVars
  <2> DEFINE Update(n) == [value[n] EXCEPT ![Self] = Converted(n, p[n])]
  <2>1. /\ value'  = [n \in Name |-> IF n \in applied THEN Update(n) ELSE value[n]]
        /\ agreed' = [n \in Name |-> IF n \in applied THEN Update(n) ELSE agreed[n]]
        /\ dirtyVars' = dirtyVars
    BY DEF ProcessPayload
  <2> HIDE DEF Update
  <2> QED BY <2>1
<1> QED BY <1>1 DEF Mirror!Next, Mirror!Absorb, StoreTypeOK

\* Every step of the system is a step of the mirror, or leaves it alone.
LEMMA StepMirror == TypeOK /\ [Next]_vars => [Mirror!Next]_Mirror!vars
<1> SUFFICES ASSUME TypeOK, [Next]_vars PROVE [Mirror!Next]_Mirror!vars
  OBVIOUS
<1>t. StoreTypeOK /\ StoreTypeOK' /\ WebSocketTypeOK
  BY StepType DEF TypeOK
<1>a. ASSUME UNCHANGED <<value, dirtyVars, agreed>> PROVE UNCHANGED Mirror!vars
  BY <1>a DEF Mirror!vars
<1>1. CASE App
  BY <1>1, <1>t, AppCallMirror DEF App
<1>2. CASE SetOpt \/ SyncConnected \/ SyncConnects \/ SyncConnectFails \/ ServiceReturn
           \/ HandshakeSend \/ HandshakeWait \/ PushNothing \/ PushFails
  BY <1>2, <1>a DEF SetOpt, SyncConnected, SyncConnects, SyncConnectFails, ServiceReturn,
                    HandshakeSend, HandshakeWait, PushNothing, PushFails, StoreKept
<1>3. CASE ConnectionCallback \/ WriteableCallback \/ Network \/ Server \/ UNCHANGED vars
  BY <1>3, <1>a DEF ConnectionCallback, WriteableCallback, Network, Server, vars, storeVars
<1>4. CASE ReceiveCallback
  BY <1>4, <1>t, ProcessPayloadMirror DEF ReceiveCallback
<1>5. CASE Push
  BY <1>5 DEF Push, ClearDirty, Mirror!Publish, Mirror!Next
<1> QED BY <1>1, <1>2, <1>3, <1>4, <1>5 DEF Next

\* The variable store, as the whole system drives it, behaves as the abstract
\* mirror: changes become pending, all pending ones are published in one step,
\* and incoming values are absorbed on both sides.
THEOREM MirrorCorrect == Spec => StoreImplementsMirror
<1> QED
  BY InitMirror, InitType, StepType, StepMirror, PTL
     DEF Spec, StoreImplementsMirror, Mirror!Spec

-----------------------------------------------------------------------------
(* What is stored in a leaf, and who put it there *)

\* A set assigns only leaves that are declared and not inbound.
LEMMA SetOutcomesGood ==
    ASSUME NEW d \in Decl, NEW c \in ContentType, NEW out \in SetOutcomes(d, c),
           NEW f \in out.assigned
    PROVE  d.leaf[f] # NoLeaf /\ d.leaf[f].dir # "in"
<1>1. LeafResult(d, c, f) = "SUCCESS"
  BY DEF SetOutcomes
<1>2. ASSUME d.leaf[f] = NoLeaf PROVE LeafResult(d, c, f) # "SUCCESS"
  BY <1>2 DEF LeafResult
<1>3. ASSUME d.leaf[f] # NoLeaf, d.leaf[f].dir = "in" PROVE LeafResult(d, c, f) # "SUCCESS"
  BY <1>3 DEF LeafResult
<1> QED BY <1>1, <1>2, <1>3

\* What a set changes.
LEMMA SetVarEffect ==
    ASSUME StoreTypeOK, NEW n \in Name, NEW h \in Handle, SetVar(n, h),
           NEW m \in Name, NEW f \in Field, value'[m][f] # value[m][f]
    PROVE  /\ m = n /\ m \in Initialized
           /\ decl[n].leaf[f] # NoLeaf /\ decl[n].leaf[f].dir # "in"
<1> DEFINE d == decl[n]
           c == Content[h]
<1>1. d \in Decl /\ c \in ContentType
  BY StoreAssumption DEF SetVar, StoreTypeOK
<1>2. PICK out \in SetOutcomes(d, c) :
          value' = [value EXCEPT ![n] = Assign(value[n], c, out.assigned)]
  BY DEF SetVar
<1>3. m = n /\ f \in out.assigned
  BY <1>2 DEF Assign, StoreTypeOK
<1>4. n \in Initialized
  BY DEF SetVar, Initialized
<1>5. d.leaf[f] # NoLeaf /\ d.leaf[f].dir # "in"
  BY <1>1, <1>3, SetOutcomesGood
<1> QED BY <1>3, <1>4, <1>5

\* What a payload changes: the one leaf of a basic variable.
LEMMA ProcessPayloadEffect ==
    ASSUME StoreTypeOK, NEW p \in Inbound, NEW applied \in Applicable(p),
           ProcessPayload(p, applied), NEW n \in Name, NEW f \in Field, value'[n][f] # value[n][f]
    PROVE  n \in Initialized /\ f = Self /\ decl[n] \in Decl /\ decl[n].kind = "basic"
<1> DEFINE named == {m \in Initialized : p[m] # NoValue}
           good == {m \in named : Accepts(m, p[m])}
           Update(m) == [value[m] EXCEPT ![Self] = Converted(m, p[m])]
<1>0. applied \subseteq good
  BY DEF Applicable
<1>1. value' = [m \in Name |-> IF m \in applied THEN Update(m) ELSE value[m]]
  BY DEF ProcessPayload
<1>2. n \in applied
  <2> HIDE DEF Update, good
  <2> QED BY <1>1
<1>3. value'[n] = Update(n)
  BY <1>1, <1>2
<1>4. f = Self
  BY <1>3 DEF StoreTypeOK, VarValue
<1>5. n \in Initialized /\ decl[n].kind = "basic"
  BY <1>0, <1>2 DEF Accepts
<1> QED BY <1>4, <1>5 DEF Initialized, StoreTypeOK

\* The steps that change values at all.
LEMMA ValueSteps ==
    ASSUME TypeOK, [Next]_vars
    PROVE  \/ value' = value
           \/ \E n \in Name, h \in Handle : SetVar(n, h)
           \/ \E p \in Inbound : \E applied \in Applicable(p) :
                ProcessPayload(p, applied) /\ down # <<>> /\ down' = Tail(down)
<1>1. CASE App
  BY <1>1 DEF App, AppCall, Refuse, InitVar, InitVarAgain, InitVarTuple, SetVarUsed,
              SetVarMissing, SetVarInput, OnChange, OnChangeMissing
<1>2. CASE ReceiveCallback
  <2>1. Head(down) \in Inbound
    BY <1>2, HeadTailProperties DEF ReceiveCallback, ReceiveFrame, TypeOK, WebSocketTypeOK
  <2> QED BY <1>2, <2>1 DEF ReceiveCallback, ReceiveFrame
<1>3. CASE ~App /\ ~ReceiveCallback
  BY <1>3 DEF Next, vars, storeVars, SetOpt, SyncConnected, SyncConnects, SyncConnectFails,
              ServiceReturn, ConnectionCallback, WriteableCallback, HandshakeSend,
              HandshakeWait, PushNothing, PushFails, Push, Network, Server, StoreKept
<1> QED BY <1>1, <1>2, <1>3

\* A declaration is never replaced.
LEMMA DeclSteps ==
    ASSUME TypeOK, [Next]_vars, NEW n \in Initialized
    PROVE  decl'[n] = decl[n]
<1>1. ASSUME NEW d \in Decl, InitVar(d) PROVE decl'[n] = decl[n]
  BY <1>1 DEF InitVar, Initialized, TypeOK, StoreTypeOK
<1>2. CASE App
  BY <1>1, <1>2 DEF App, AppCall, Refuse, SetVar, InitVarAgain, InitVarTuple, SetVarUsed,
                    SetVarMissing, SetVarInput, OnChange, OnChangeMissing
<1>3. CASE ReceiveCallback
  BY <1>3 DEF ReceiveCallback, ProcessPayload
<1>4. CASE ~App /\ ~ReceiveCallback
  BY <1>4 DEF Next, vars, storeVars, SetOpt, SyncConnected, SyncConnects, SyncConnectFails,
              ServiceReturn, ConnectionCallback, WriteableCallback, HandshakeSend,
              HandshakeWait, PushNothing, PushFails, Push, Network, Server, StoreKept
<1> QED BY <1>2, <1>3, <1>4

\* Sets and payloads write declared leaves, and declarations stay.
LEMMA StepLeaf == TypeOK /\ LeafInv /\ [Next]_vars => LeafInv'
<1> SUFFICES ASSUME TypeOK, LeafInv, [Next]_vars,
                    NEW n \in Name, NEW f \in Field, value'[n][f] # NoValue
             PROVE  decl'[n] # NoDecl /\ decl'[n].leaf[f] # NoLeaf
  BY DEF LeafInv, Initialized
<1>1. n \in Initialized /\ decl[n].leaf[f] # NoLeaf
  <2>1. CASE value'[n][f] = value[n][f]
    BY <2>1 DEF LeafInv
  <2>2. CASE value'[n][f] # value[n][f]
    <3>1. ASSUME NEW m \in Name, NEW h \in Handle, SetVar(m, h)
          PROVE  n \in Initialized /\ decl[n].leaf[f] # NoLeaf
      <4>1. m = n /\ n \in Initialized /\ decl[m].leaf[f] # NoLeaf
        <5>1. StoreTypeOK
          BY DEF TypeOK
        <5> QED BY <2>2, <3>1, <5>1, SetVarEffect
      <4> QED BY <4>1
    <3>2. ASSUME NEW p \in Inbound, NEW applied \in Applicable(p),
                 ProcessPayload(p, applied)
          PROVE  n \in Initialized /\ decl[n].leaf[f] # NoLeaf
      <4>1. n \in Initialized /\ f = Self /\ decl[n] \in Decl /\ decl[n].kind = "basic"
        BY <2>2, <3>2, ProcessPayloadEffect DEF TypeOK
      <4>2. decl[n].leaf[Self] \in LeafDecl
        BY <4>1, StoreAssumption DEF LeafDecl, DeclType
      <4> QED BY <4>1, <4>2, StoreAssumption
    <3> QED BY <2>2, <3>1, <3>2, ValueSteps
  <2> QED BY <2>1, <2>2
<1>2. decl'[n] = decl[n]
  BY <1>1, DeclSteps
<1> QED BY <1>1, <1>2 DEF Initialized

\* Nothing has a value at first.
LEMMA InitLeaf == Init => LeafInv
BY DEF Init, StoreInit, Unset, LeafInv

\* A step that changes an inbound leaf takes a payload from the wire.
LEMMA StepInboundLeaf ==
    ASSUME TypeOK, [Next]_vars, NEW n \in Name, NEW f \in Field,
           value[n][f] # value'[n][f], decl[n].leaf[f].dir = "in"
    PROVE  down' # down
<1>1. ASSUME NEW m \in Name, NEW h \in Handle, SetVar(m, h) PROVE FALSE
  BY <1>1, SetVarEffect DEF TypeOK
<1>2. down # <<>> /\ down' = Tail(down)
  BY <1>1, ValueSteps
<1>3. Len(down') = Len(down) - 1 /\ Len(down) \in Nat
  BY <1>2, HeadTailProperties, LenProperties DEF TypeOK, WebSocketTypeOK
<1> QED BY <1>3

\* The application cannot change an inbound leaf, not even inside a struct it may set.
THEOREM InboundLeafCorrect == Spec => InboundLeafOnlyByCloud
<1>1. TypeOK /\ [Next]_vars =>
        [\A n \in Name, f \in Field :
           /\ value[n][f] # value'[n][f]
           /\ decl[n].leaf[f].dir = "in"
           => down' # down]_vars
  BY StepInboundLeaf
<1> QED BY <1>1, InitType, StepType, PTL DEF Spec, InboundLeafOnlyByCloud

\* A push that goes out goes to the log or to the websocket.
LEMMA PushProtocol ==
    ASSUME TypeOK, Push
    PROVE  opts.send = "NOOP" \/ IsWs(opts.send)
<1>1. SendResult = "SUCCESS" /\ opts.send \in Protocol \cup {"unset"}
  BY DEF Push, TypeOK, ControlTypeOK, OptKey
<1>2. ASSUME opts.send = "unset" PROVE FALSE
  BY <1>1, <1>2 DEF SendResult, IsHttp, IsWs
<1>3. ASSUME IsHttp(opts.send) PROVE FALSE
  BY <1>1, <1>3 DEF SendResult, IsHttp, IsWs
<1>4. ASSUME opts.send = "other" PROVE FALSE
  BY <1>1, <1>4 DEF SendResult, IsHttp, IsWs
<1> QED BY <1>1, <1>2, <1>3, <1>4 DEF Protocol, IsHttp, IsWs

\* To an open websocket it is the last frame written.
LEMMA PushWrites ==
    ASSUME TypeOK, Push, IsWs(opts.send), link = "open"
    PROVE  Len(up') = Len(up) + 1 /\ up'[Len(up')] = Outbound
<1>1. CanWrite
  <2>1. ASSUME ~CanWrite PROVE FALSE
    BY <2>1 DEF Push, SendResult, IsWs, IsHttp
  <2> QED BY <2>1
<1>2. up' = Append(up, Outbound)
  BY <1>1 DEF Push, Write, Transmit, CanWrite
<1> QED BY <1>2, OutboundType, AppendProperties DEF TypeOK, WebSocketTypeOK

\* The step that takes a name off the queue is the push of its present value.
LEMMA StepDequeued ==
    ASSUME TypeOK, LeafInv, QueueInv, [Next]_vars, NEW n \in dirtyVars \ dirtyVars'
    PROVE  /\ opts.send = "NOOP" \/ IsWs(opts.send)
           /\ IsWs(opts.send) /\ link = "open" =>
                /\ Len(up') = Len(up) + 1
                /\ value[n] # Unset => up'[Len(up')].vars[n] = value[n]
<1>1. Push
  <2>1. CASE App
    BY <2>1 DEF App, AppCall, MarkDirty, Refuse, SetVar, InitVar, InitVarAgain, InitVarTuple,
                SetVarUsed, SetVarMissing, SetVarInput, OnChange, OnChangeMissing
  <2>2. CASE ReceiveCallback
    BY <2>2 DEF ReceiveCallback, ProcessPayload
  <2>3. CASE ~App /\ ~ReceiveCallback /\ ~Push
    BY <2>3 DEF Next, vars, storeVars, SetOpt, SyncConnected, SyncConnects,
                SyncConnectFails, ServiceReturn, ConnectionCallback, WriteableCallback,
                HandshakeSend, HandshakeWait, PushNothing, PushFails, Network, Server,
                StoreKept
  <2> QED BY <2>1, <2>2, <2>3
<1>3. opts.send = "NOOP" \/ IsWs(opts.send)
  BY <1>1, PushProtocol
<1>4. ASSUME IsWs(opts.send), link = "open"
      PROVE  /\ Len(up') = Len(up) + 1
             /\ value[n] # Unset => up'[Len(up')].vars[n] = value[n]
  <2>3. Len(up') = Len(up) + 1 /\ up'[Len(up')] = Outbound
    BY <1>1, <1>4, PushWrites
  <2>4. n \in Name /\ n \in Initialized /\ decl[n] \in Decl
    BY DEF TypeOK, StoreTypeOK, QueueInv, DirtyNamesDeclared, Initialized
  <2>5. ASSUME value[n] # Unset PROVE HasValue(n)
    <3>1. PICK f \in Field : value[n][f] # NoValue
      BY <2>4, <2>5 DEF Unset, TypeOK, StoreTypeOK, VarValue
    <3>2. decl[n].leaf[f] # NoLeaf
      BY <2>4, <3>1 DEF LeafInv
    <3>3. decl[n].kind = "basic" => f = Self
      BY <2>4, <3>2, StoreAssumption
    <3> QED BY <3>1, <3>3 DEF HasValue
  <2>6. value[n] # Unset => Outbound.vars[n] = value[n]
    BY <2>4, <2>5 DEF Outbound, OutboundVars
  <2> QED BY <2>3, <2>6
<1> QED BY <1>3, <1>4

\* A change leaves the queue only inside the frame that carries its present value.
THEOREM DequeueCorrect == Spec => DequeuedOnlyWhenSent
<1>1. TypeOK /\ LeafInv /\ QueueInv /\ [Next]_vars =>
        [\A n \in dirtyVars \ dirtyVars' :
           /\ opts.send = "NOOP" \/ IsWs(opts.send)
           /\ IsWs(opts.send) /\ link = "open" =>
                /\ Len(up') = Len(up) + 1
                /\ value[n] # Unset => up'[Len(up')].vars[n] = value[n]]_vars
  BY StepDequeued
<1> QED
  BY <1>1, InitType, StepType, InitLeaf, StepLeaf, InitQueue, StepQueue, PTL
     DEF Spec, DequeuedOnlyWhenSent

\* The step that takes an SDDL flag down is a push, and either returns its failure
\* or has the declaration in its frame.
LEMMA StepSddlCleared ==
    ASSUME TypeOK, QueueInv, [Next]_vars, NEW n \in sddlDirty \ sddlDirty'
    PROVE  \/ pc' = "idle" /\ result' # "SUCCESS"
           \/ /\ opts.send = "NOOP" \/ IsWs(opts.send)
              /\ IsWs(opts.send) /\ link = "open" =>
                   Len(up') = Len(up) + 1 /\ n \in up'[Len(up')].sddl
<1>1. Push \/ PushFails
  <2>1. CASE App
    BY <2>1 DEF App, AppCall, Refuse, SetVar, InitVar, InitVarAgain, InitVarTuple,
                SetVarUsed, SetVarMissing, SetVarInput, OnChange, OnChangeMissing
  <2>2. CASE ReceiveCallback
    BY <2>2 DEF ReceiveCallback, ProcessPayload
  <2>3. CASE ~App /\ ~ReceiveCallback /\ ~Push /\ ~PushFails
    BY <2>3 DEF Next, vars, storeVars, SetOpt, SyncConnected, SyncConnects,
                SyncConnectFails, ServiceReturn, ConnectionCallback, WriteableCallback,
                HandshakeSend, HandshakeWait, PushNothing, Network, Server, StoreKept
  <2> QED BY <2>1, <2>2, <2>3
<1>2. CASE PushFails
  BY <1>2 DEF PushFails, Return
<1>3. CASE Push
  <2>1. opts.send = "NOOP" \/ IsWs(opts.send)
    BY <1>3, PushProtocol
  <2>2. ASSUME IsWs(opts.send), link = "open"
        PROVE  Len(up') = Len(up) + 1 /\ up'[Len(up')] = Outbound
    BY <1>3, <2>2, PushWrites
  <2>3. n \in Outbound.sddl
    BY DEF Outbound, OutboundSddl, QueueInv, SddlOwedIsQueued
  <2> QED BY <2>1, <2>2, <2>3
<1> QED BY <1>1, <1>2, <1>3

\* A declaration stops being due only when it is in the frame that was written, or
\* when the application is told that the push failed.
THEOREM SddlSentCorrect == Spec => SddlClearedOnlyWhenSent
<1>1. TypeOK /\ QueueInv /\ [Next]_vars =>
        [\A n \in sddlDirty \ sddlDirty' :
           \/ pc' = "idle" /\ result' # "SUCCESS"
           \/ /\ opts.send = "NOOP" \/ IsWs(opts.send)
              /\ IsWs(opts.send) /\ link = "open" =>
                   Len(up') = Len(up) + 1 /\ n \in up'[Len(up')].sddl]_vars
  BY StepSddlCleared
<1> QED
  BY <1>1, InitType, StepType, InitQueue, StepQueue, PTL
     DEF Spec, SddlClearedOnlyWhenSent
=============================================================================
