-------------------------------- MODULE Sync --------------------------------
(***************************************************************************)
(* st_sync() (src/src/sync/st_sync.c) and the application that calls it,   *)
(* composed with the Cloud Variables, the websocket and the server.        *)
(*                                                                         *)
(* The library is single threaded: while st_sync() runs, the only things   *)
(* that interleave with it are the network, the server, and the websocket  *)
(* callbacks, which run while it waits in libwebsocket_service().          *)
(***************************************************************************)
EXTENDS CloudServer

CONSTANTS
    EnvOpts,       \* options given by the environment, over the defaults
    Settings,      \* the [key, to] pairs the application passes to canopy_set_opt
    PromptService  \* libwebsocket_service returns only once no callback is due

\* The environment's values go through atoi and any int can be given: "other".
Protocol == {"NOOP", "HTTP", "HTTPS", "WS", "WSS", "other"}
OptKey == {"recv", "send"}
IsWs(p) == p \in {"WS", "WSS"}
IsHttp(p) == p \in {"HTTP", "HTTPS"}

\* st_options_new_default sets the receive protocol and not the send protocol.
DefaultOpts == [recv |-> "WSS", send |-> "unset"]

ASSUME SyncAssumption ==
    /\ EnvOpts \in UNION {[S -> Protocol] : S \in SUBSET OptKey}
    /\ Settings \subseteq [key : OptKey, to : Protocol]
    /\ PromptService \in BOOLEAN

VARIABLES
    pc,    \* where st_sync() is; "idle" when the application runs
    opts   \* the two protocol options

vars == <<storeVars, wsVars, serverVars, pc, opts>>

\* The five calls of libwebsocket_service, in the order of the code.
InService == {"service1", "service2", "handshakeWait", "handshakeSent", "tail"}
PC == {"idle", "handshake", "push"} \cup InService

Init ==
    /\ StoreInit
    /\ WebSocketInit
    /\ ServerInit
    /\ pc = "idle"
    /\ opts = [k \in OptKey |-> IF k \in DOMAIN EnvOpts THEN EnvOpts[k]
                                ELSE DefaultOpts[k]]

-----------------------------------------------------------------------------
(* The application, between syncs *)

AppCall ==
    \/ \E d \in Decl : InitVar(d) \/ InitVarAgain(d) \/ InitVarTuple(d)
    \/ \E n \in Name, h \in Handle :
         SetVar(n, h) \/ SetVarMissing(n, h) \/ SetVarInput(n, h)
    \/ \E h \in Handle : SetVarUsed(h)
    \/ \E n \in Watched : OnChange(n) \/ OnChangeMissing(n)

App ==
    /\ pc = "idle"
    /\ AppCall
    /\ UNCHANGED <<wsVars, serverVars, pc, opts>>

SetOpt_StoresKey ==
    /\ pc = "idle"
    /\ \E s \in Settings : opts' = [opts EXCEPT ![s.key] = s.key]
    /\ result' = "SUCCESS"
    /\ UNCHANGED <<decl, value, sddlDirty, dirtyVars, dirty, callbacks,
                   used, agreed, sddlSent, wsVars, serverVars, pc>>

\* canopy_set_opt, one option at a time.
SetOpt ==
    /\ pc = "idle"
    /\ \E s \in Settings : opts' = [opts EXCEPT ![s.key] = s.to]
    /\ result' = "SUCCESS"
    /\ UNCHANGED <<decl, value, sddlDirty, dirtyVars, dirty, callbacks,
                   used, agreed, sddlSent, wsVars, serverVars, pc>>

-----------------------------------------------------------------------------
(* st_sync: connecting *)

StoreKept == UNCHANGED <<decl, value, sddlDirty, dirtyVars, dirty, callbacks,
                         used, agreed, sddlSent>>

\* The call enters, and returns, with the variables untouched.
Return(r) == pc' = "idle" /\ result' = r
Continue(next) == pc' = next /\ result' = "none"

SyncNeedsConnection == IsWs(opts.recv) /\ ~IsConnected

SyncConnected ==
    /\ pc = "idle"
    /\ ~SyncNeedsConnection
    /\ Continue("push")
    /\ StoreKept
    /\ UNCHANGED <<wsVars, serverVars, opts>>

SyncConnects ==
    /\ pc = "idle"
    /\ SyncNeedsConnection
    /\ ConnectStarted
    /\ Continue("service1")
    /\ StoreKept
    /\ UNCHANGED <<serverVars, opts>>

SyncConnectFails ==
    /\ pc = "idle"
    /\ SyncNeedsConnection
    /\ ConnectNoContext \/ ConnectRefused
    /\ Return("CONNECTION_FAILED")
    /\ StoreKept
    /\ UNCHANGED <<serverVars, opts>>

-----------------------------------------------------------------------------
(* st_sync: inside libwebsocket_service *)

\* Each service call ends, after its timeout at the latest, whatever it did.
ServiceReturn ==
    /\ pc \in InService
    /\ PromptService => ~CallbackDue
    /\ \/ pc = "service1" /\ Continue("service2")
       \/ pc \in {"service2", "handshakeWait"} /\ Continue("handshake")
       \/ pc = "handshakeSent" /\ Continue("push")
       \/ pc = "tail" /\ Return("SUCCESS")
    /\ StoreKept
    /\ UNCHANGED <<wsVars, serverVars, opts>>

ConnectionCallback ==
    /\ pc \in InService
    /\ Established \/ ConnectionError \/ Closed
    /\ UNCHANGED <<storeVars, serverVars, pc, opts>>

WriteableCallback ==
    /\ pc \in InService
    /\ Writeable
    /\ UNCHANGED <<storeVars, serverVars, pc, opts>>

\* _handle_ws_recv drops the result of _process_payload.
ReceiveCallback ==
    /\ pc \in InService
    /\ ReceiveFrame
    /\ \E applied \in Applicable(Head(down)) :
          /\ ProcessPayload(Head(down), applied)
          /\ diverged' = diverged \cup {n \in Name \ applied : Head(down)[n] # NoValue}
    /\ UNCHANGED <<shaken, cloud, sent, pc, opts>>

-----------------------------------------------------------------------------
(* st_sync: the handshake *)

Handshake == [kind |-> "handshake", sddl |-> {}, vars |-> [n \in Name |-> NoValue]]

HandshakeSend ==
    /\ pc = "handshake"
    /\ CanWrite
    /\ Write(Handshake)
    /\ Continue("handshakeSent")
    /\ StoreKept
    /\ UNCHANGED <<serverVars, opts>>

HandshakeWait_GivesUp ==
    /\ pc = "handshake"
    /\ ~CanWrite
    /\ Continue("push")
    /\ StoreKept
    /\ UNCHANGED <<wsVars, serverVars, opts>>

HandshakeWait ==
    /\ pc = "handshake"
    /\ ~CanWrite
    /\ Continue("handshakeWait")
    /\ StoreKept
    /\ UNCHANGED <<wsVars, serverVars, opts>>

-----------------------------------------------------------------------------
(* st_sync: the push *)

\* _gen_outbound_payload: reading the dirty variables clears their SDDL flags.
OutboundSddl == dirtyVars \cap sddlDirty
Outbound == [kind |-> "vars", sddl |-> OutboundSddl, vars |-> OutboundVars]
GenOutbound_KeepsFlags == UNCHANGED sddlDirty
GenOutbound == sddlDirty' = sddlDirty \ OutboundSddl

SendResult_NoReadyCheck ==
    CASE opts.send = "unset" -> "MISSING_REQUIRED_OPTION"
      [] IsHttp(opts.send) \/ opts.send = "other" -> "PROTOCOL_NOT_SUPPORTED"
      [] IsWs(opts.send) /\ ~IsConnected -> "CONNECTION_FAILED"
      [] OTHER -> "SUCCESS"

\* _send_payload answers before it sends anything.
SendResult ==
    CASE opts.send = "unset" -> "MISSING_REQUIRED_OPTION"
      [] IsHttp(opts.send) \/ opts.send = "other" -> "PROTOCOL_NOT_SUPPORTED"
      [] IsWs(opts.send) /\ ~CanWrite -> "CONNECTION_FAILED"
      [] OTHER -> "SUCCESS"

AfterPush_AlwaysServices == Continue("tail")
AfterPush_NeverServices == Return("SUCCESS")

\* The websocket is serviced once more when it is the receive protocol.
AfterPush == IF IsWs(opts.recv) THEN Continue("tail") ELSE Return("SUCCESS")

PushNothing ==
    /\ pc = "push"
    /\ ~dirty
    /\ AfterPush
    /\ StoreKept
    /\ UNCHANGED <<wsVars, serverVars, opts>>

PushFails_ClearsFirst ==
    /\ pc = "push" /\ dirty /\ SendResult # "SUCCESS"
    /\ GenOutbound
    /\ ClearDirty
    /\ Return(SendResult)
    /\ UNCHANGED <<decl, value, callbacks, used, agreed, sddlSent,
                   wsVars, serverVars, opts>>

PushFails_Unnoticed ==
    /\ pc = "push" /\ dirty /\ SendResult # "SUCCESS"
    /\ GenOutbound
    /\ ClearDirty
    /\ AfterPush
    /\ UNCHANGED <<decl, value, callbacks, used, agreed, sddlSent,
                   wsVars, serverVars, opts>>

PushFails ==
    /\ pc = "push"
    /\ dirty
    /\ SendResult # "SUCCESS"
    /\ GenOutbound
    /\ Return(SendResult)
    /\ UNCHANGED <<decl, value, dirtyVars, dirty, callbacks, used,
                   agreed, sddlSent, wsVars, serverVars, opts>>

Push ==
    /\ pc = "push"
    /\ dirty
    /\ SendResult = "SUCCESS"
    /\ GenOutbound
    /\ IF IsWs(opts.send) THEN Write(Outbound) ELSE UNCHANGED wsVars
    /\ ClearDirty
    /\ agreed' = [n \in Name |-> IF n \in dirtyVars THEN value[n] ELSE agreed[n]]
    /\ sddlSent' = sddlSent \cup OutboundSddl
    /\ diverged' = {n \in Name : IF OutboundVars[n] # NoValue
                                 THEN ~IsWs(opts.send) \/ PayloadInFlight(n)
                                 ELSE n \in diverged}
    /\ AfterPush
    /\ UNCHANGED <<decl, value, callbacks, used, shaken, cloud, sent, opts>>

-----------------------------------------------------------------------------
(* The world outside the device *)

Network ==
    /\ NetDrop
    /\ UNCHANGED <<storeVars, serverVars, pc, opts>>

Server ==
    /\ ServerReceive \/ \E p \in Inbound : ServerSend(p)
    /\ UNCHANGED <<storeVars, pc, opts>>

Next ==
    \/ App \/ SetOpt
    \/ SyncConnected \/ SyncConnects \/ SyncConnectFails
    \/ ServiceReturn
    \/ ConnectionCallback \/ WriteableCallback \/ ReceiveCallback
    \/ HandshakeSend \/ HandshakeWait
    \/ PushNothing \/ PushFails \/ Push
    \/ Network \/ Server

Spec == Init /\ [][Next]_vars
=============================================================================
