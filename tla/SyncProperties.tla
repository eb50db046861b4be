--------------------------- MODULE SyncProperties ---------------------------
(***************************************************************************)
(* What is claimed of Sync: the invariants, action properties and liveness *)
(* properties that hold, and the statements of the repository's own        *)
(* documentation, comments and tests that the code contradicts.            *)
(***************************************************************************)
EXTENDS Sync

-----------------------------------------------------------------------------
(* Types *)

Frame == [kind : {"handshake", "vars"}, sddl : SUBSET Name, vars : OutVars]

StoreTypeOK ==
    /\ decl \in [Name -> Decl \cup {NoDecl}]
    /\ value \in [Name -> VarValue]
    /\ agreed \in [Name -> VarValue]
    /\ sddlDirty \subseteq Name /\ dirtyVars \subseteq Name
    /\ callbacks \subseteq Name
    /\ sddlSent \subseteq Name /\ used \subseteq Handle
    /\ dirty \in BOOLEAN /\ result \in Results

WebSocketTypeOK ==
    /\ wsCtx \in BOOLEAN /\ handle \in BOOLEAN /\ writeReady \in BOOLEAN
    /\ cbRecv \in BOOLEAN /\ wantWrite \in BOOLEAN /\ link \in Link
    /\ up \in Seq(Frame) /\ down \in Seq(Inbound)

ServerTypeOK ==
    /\ shaken \in BOOLEAN /\ cloud \in [Name -> VarValue] /\ sent \in 0..MaxInbound
    /\ diverged \subseteq Name

ControlTypeOK == pc \in PC /\ opts \in [OptKey -> Protocol \cup {"unset"}]

\* Every variable has its type (the structures of st_cloudvar_internal.h:40-140,
\* STWebSocket_t, and the place in st_sync). It is the base of every proof.
TypeOK == StoreTypeOK /\ WebSocketTypeOK /\ ServerTypeOK /\ ControlTypeOK

-----------------------------------------------------------------------------
(* The variables and their dirty flags *)

\* st_cloudvar_system_dirty_var() looks a dirty name up and its caller uses the
\* answer without a test (st_sync.c:154-158): no name is dirty unless declared.
DirtyNamesDeclared == dirtyVars \subseteq Initialized

\* A declaration is only ever sent for a variable of the dirty set: a variable
\* whose SDDL flag is up is in it (st_sync.c:152-170). A flag that is down need
\* not mean that the declaration was sent: see UnsentSddlIsDirty.
SddlOwedIsQueued == sddlDirty \subseteq dirtyVars

\* However calls, partly failed assignments, syncs and incoming payloads
\* interleave, a variable whose value differs from the one that last crossed
\* the wire is due for the next push, and the push will not be skipped.
UnreportedChangeIsQueued ==
    /\ \A n \in Name : value[n] # agreed[n] => n \in dirtyVars
    /\ dirtyVars # {} => dirty

\* The three above, and what makes them inductive: a push that went out left
\* nothing dirty behind for the last service call to disturb.
QueueInv ==
    /\ DirtyNamesDeclared
    /\ SddlOwedIsQueued
    /\ UnreportedChangeIsQueued
    /\ pc = "tail" => ~dirty

\* A sync that answers CANOPY_SUCCESS has handed every value over: none differs
\* from the one that last crossed the wire, none is queued (st_sync.c:262-273).
\* It says nothing of declarations, which an earlier failed push may have lost:
\* see SddlClearedOnlyWhenSent and UnsentSddlIsDirty.
SuccessMeansReported ==
    [][pc # "idle" /\ pc' = "idle" /\ result' = "SUCCESS"
         => value' = agreed' /\ dirtyVars' = {}]_vars

\* An SDDL flag goes down in a push that puts the declaration into the frame it
\* writes, or in one whose failure canopy_sync() returns to the application; never
\* in a push that then goes on as if it had been sent (st_sync.c:159-170, 269).
SddlClearedOnlyWhenSent ==
    [][\A n \in sddlDirty \ sddlDirty' :
         \/ pc' = "idle" /\ result' # "SUCCESS"
         \/ /\ opts.send = "NOOP" \/ IsWs(opts.send)
            /\ IsWs(opts.send) /\ link = "open" =>
                 Len(up') = Len(up) + 1 /\ n \in up'[Len(up')].sddl]_vars

\* A variable leaves the dirty set only in a step that hands its present value
\* to the transport: to a healthy websocket it is the last frame written.
DequeuedOnlyWhenSent ==
    [][\A n \in dirtyVars \ dirtyVars' :
         /\ opts.send = "NOOP" \/ IsWs(opts.send)
         /\ IsWs(opts.send) /\ link = "open" =>
              /\ Len(up') = Len(up) + 1
              /\ value[n] # Unset => up'[Len(up')].vars[n] = value[n]]_vars

\* What that rests on: a value is only ever stored in a leaf of the declaration,
\* so a basic variable that holds anything "has a value".
LeafInv == \A n \in Name, f \in Field :
    value[n][f] # NoValue => n \in Initialized /\ decl[n].leaf[f] # NoLeaf

\* "Only the cloud can change this Cloud Variable's value" (docs/sddl_ver_0_9_0.md:125)
\* of inbound leaves, also those of a struct the application may set: they change
\* only while a payload is being received.
InboundLeafOnlyByCloud ==
    [][\A n \in Name, f \in Field :
         /\ value[n][f] # value'[n][f]
         /\ decl[n].leaf[f].dir = "in"
         => down' # down]_vars

Mirror == INSTANCE CloudMirror WITH
            local <- value, pending <- dirtyVars, published <- agreed,
            Val <- VarValue

\* Whatever the options and the network do, the store behaves as the abstract
\* mirror of a variable set promises.
StoreImplementsMirror == Mirror!Spec

\* Neither end of the wire has anything for the other about variable n.
AtRest(n) ==
    /\ link = "open" /\ n \notin dirtyVars
    /\ ~ReportInFlight(n) /\ ~PayloadInFlight(n)

\* The two copies of a variable at rest agree, up to the conversion of what the
\* cloud sent, but for the exchanges that diverged records: reports and payloads
\* without a time that cross (st_sync.c:173), refused items, pushes to the log.
\* In particular no report is lost on a connection that lives (st_websocket.c:213).
CopiesAgree ==
    \A n \in Initialized \ diverged : AtRest(n) =>
        \A f \in Field : value[n][f] # NoValue =>
            \/ value[n][f] = cloud[n][f]
            \/ /\ cloud[n][f] # NoValue
               /\ value[n][f] = Cast[<<decl[n].leaf[f].type, cloud[n][f]>>]

-----------------------------------------------------------------------------
(* The websocket *)

\* libwebsocket_service(), and the callbacks it runs, find a context, a
\* connection and a receive callback (st_websocket.c:190-193).
ServiceHasContext == pc \in InService => wsCtx /\ handle /\ cbRecv

\* What makes it inductive: a handle comes with its context and its callback, and
\* no step of a sync over the websocket is reached without a handle.
ConnectionInv ==
    /\ handle => wsCtx /\ cbRecv
    /\ pc \in InService \cup {"handshake"} => handle
    /\ pc = "push" /\ IsWs(opts.recv) => handle

\* Flow control: the write-ready flag is up only while the send buffer has room
\* for the frame it admits, and a flag that is down is asked back for, so that
\* no write overruns the buffer and no writer is forgotten (st_websocket.c:195-221).
FlowControl ==
    /\ Len(up) <= MaxInFlight
    /\ link = "open" /\ writeReady => Len(up) < MaxInFlight
    /\ link = "open" /\ ~writeReady => wantWrite

\* What makes it inductive: nothing is written before the connection is up.
FlowInv ==
    /\ FlowControl
    /\ ~handle => link = "none"
    /\ link \in {"none", "connecting"} => ~writeReady /\ up = <<>>

\* The server can attribute every report: whenever it is about to read variables,
\* in the sync that connected or any later one, the handshake came before them
\* (st_sync.c:237-257).
HandshakeFirst ==
    \A i \in 1..Len(up) : up[i].kind = "vars" =>
        shaken \/ \E j \in 1..(i - 1) : up[j].kind = "handshake"

BeforeHandshake == {"service1", "service2", "handshake", "handshakeWait"}

\* What makes it inductive: on a live connection that st_sync is done setting up
\* the handshake has been read or is on its way.
HandshakeInv ==
    /\ HandshakeFirst
    /\ pc \in BeforeHandshake => up = <<>>
    /\ link = "connecting" => pc \in BeforeHandshake
    /\ link = "open" /\ pc \notin BeforeHandshake =>
          shaken \/ \E j \in 1..Len(up) : up[j].kind = "handshake"

-----------------------------------------------------------------------------
(* Liveness *)

\* The code never blocks outside libwebsocket_service, which returns by its
\* timeout; a callback that stays due is delivered if service is called again
\* and again; the server reads what it is sent.
Fairness ==
    /\ WF_vars(HandshakeSend \/ HandshakeWait \/ PushNothing \/ PushFails \/ Push)
    /\ WF_vars(ServiceReturn)
    /\ SF_vars(ConnectionCallback)
    /\ SF_vars(WriteableCallback)
    /\ SF_vars(ReceiveCallback)
    /\ WF_vars(ServerReceive /\ UNCHANGED <<storeVars, pc, opts>>)

\* The main loop of every test and example calls canopy_sync() over and over.
KeepsSyncing == WF_vars(SyncConnected \/ SyncConnects \/ SyncConnectFails)

FairSpec == Spec /\ Fairness
SyncingSpec == FairSpec /\ KeepsSyncing

\* canopy_sync() returns: the handshake loop, which has no exit of its own
\* (st_sync.c:248-252), ends once the connection is up.
SyncReturns == pc # "idle" ~> pc = "idle"

\* "The next time canopy_sync(...) is called, the Cloud Variable's value will be
\* reported to the cloud server" (canopy.h:536-538): what the device sets gets to
\* the cloud, and stays, for a variable that only the device changes.
ReportArrives ==
    <>[](\A n \in Initialized : decl[n].dir = "out" =>
           \A f \in Field : value[n][f] # NoValue => cloud[n][f] = value[n][f])

-----------------------------------------------------------------------------
(* Statements of the repository that the code contradicts. Each is checked *)
(* by a run of its own that shows the behaviour.                           *)

\* st_sync.c:156-157, "If the variable's configuration hasn't been sent yet, or
\* is dirty, send it": a declaration not sent so far is still to be sent.
UnsentSddlIsDirty == Initialized \ sddlSent \subseteq sddlDirty

\* st_sync.c:212, "Initiate websocket connection if necessary": a sync that is to
\* receive over the websocket, and begins when the connection is known closed,
\* does not go straight on to the push.
ReconnectsIfNecessary ==
    [][pc = "idle" /\ pc' = "push" /\ IsWs(opts.recv) => link # "closed"]_vars

\* canopy.h:286-292, CANOPY_SYNC_TIMEOUT_MS bounds the time canopy_sync() blocks:
\* it returns also when the connection cannot be made.
SyncTimesOut == pc # "idle" ~> pc = "idle"

\* docs/sddl_ver_0_9_0.md:125 of an inbound variable, "Only the cloud can change
\* this Cloud Variable's value": the cloud's copy changes by its own doing only.
CloudOwnsInbound ==
    [][\A n \in Initialized :
         decl[n].dir = "in" /\ cloud'[n] # cloud[n] => sent' # sent]_vars

\* The same promise as ReportArrives, where a service call may end before
\* the socket turned writeable: the next sync tries to write without servicing it.
WriteReadyReturns ==
    \A n \in Name : n \in dirtyVars ~> n \notin dirtyVars
=============================================================================
