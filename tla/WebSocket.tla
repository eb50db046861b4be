------------------------------ MODULE WebSocket ------------------------------
(***************************************************************************)
(* The STWebSocket object (src/src/websocket/st_websocket.c) and, as far   *)
(* as its callbacks observe it, the libwebsockets connection underneath.   *)
(* libwebsockets is single threaded: a callback runs only while the device *)
(* is inside libwebsocket_service().                                       *)
(***************************************************************************)
EXTENDS Integers, Sequences

CONSTANTS
    Faults,      \* which network faults may happen
    MaxInFlight  \* frames the socket's send buffer holds

FaultKind == {"noContext", "refused", "connectError", "drop"}

ASSUME WebSocketAssumption ==
    /\ Faults \subseteq FaultKind
    /\ MaxInFlight \in Nat \ {0}

VARIABLES
    wsCtx,       \* ws->ws_ctx # NULL
    handle,      \* ws->ws # NULL
    writeReady,  \* ws->ws_write_ready
    cbRecv,      \* ws->cb_recv is set
    link,        \* what libwebsockets knows of the connection
    wantWrite,   \* a WRITEABLE callback has been requested
    up, down     \* frames on their way to the server and to the device

wsVars == <<wsCtx, handle, writeReady, cbRecv, link, wantWrite, up, down>>

\* "dropped": the peer is gone and the library has not told; "closed": it has.
Link == {"none", "connecting", "open", "dropped", "closed"}

WebSocketInit ==
    /\ wsCtx = FALSE /\ handle = FALSE /\ writeReady = FALSE /\ cbRecv = FALSE
    /\ link = "none" /\ wantWrite = FALSE
    /\ up = <<>> /\ down = <<>>

\* st_websocket_is_connected only asks whether there is a handle.
IsConnected == handle
CanWrite == IsConnected /\ writeReady

-----------------------------------------------------------------------------
(* st_websocket_connect: its three ways out. The caller installs the       *)
(* receive callback right after the one that succeeds.                     *)

ConnectNoContext ==
    /\ "noContext" \in Faults
    /\ wsCtx' = FALSE
    /\ UNCHANGED <<handle, writeReady, cbRecv, link, wantWrite, up, down>>

ConnectRefused ==
    /\ "refused" \in Faults
    /\ wsCtx' = TRUE
    /\ UNCHANGED <<handle, writeReady, cbRecv, link, wantWrite, up, down>>

ConnectStarted ==
    /\ wsCtx' = TRUE
    /\ handle' = TRUE
    /\ wantWrite' = TRUE
    /\ link' = "connecting"
    /\ cbRecv' = TRUE
    /\ UNCHANGED <<writeReady, up, down>>

-----------------------------------------------------------------------------
(* st_websocket_write *)

\* A write to a connection that is no longer there is lost without a trace.
Transmit(frame) == up' = IF link = "open" THEN Append(up, frame) ELSE up

Write_StaysReady(frame) ==
    /\ Transmit(frame)
    /\ wantWrite' = TRUE
    /\ UNCHANGED <<wsCtx, handle, writeReady, cbRecv, link, down>>

\* "Fails silently" when the socket is not ready for a frame.
Write(frame) ==
    IF writeReady
    THEN /\ Transmit(frame)
         /\ writeReady' = FALSE
         /\ wantWrite' = TRUE
         /\ UNCHANGED <<wsCtx, handle, cbRecv, link, down>>
    ELSE UNCHANGED wsVars

-----------------------------------------------------------------------------
(* _ws_callback *)

Established ==
    /\ link = "connecting"
    /\ link' = "open"
    /\ wantWrite' = TRUE
    /\ UNCHANGED <<wsCtx, handle, writeReady, cbRecv, up, down>>

\* The callback answers -1: libwebsockets frees the connection, ws->ws stays.
ConnectionError ==
    /\ "connectError" \in Faults
    /\ link = "connecting"
    /\ link' = "closed"
    /\ UNCHANGED <<wsCtx, handle, writeReady, cbRecv, wantWrite, up, down>>

Closed ==
    /\ link = "dropped"
    /\ link' = "closed"
    /\ down' = <<>>
    /\ UNCHANGED <<wsCtx, handle, writeReady, cbRecv, wantWrite, up>>

Writeable_NoFlag ==
    /\ link = "open" /\ wantWrite /\ Len(up) < MaxInFlight
    /\ wantWrite' = FALSE
    /\ UNCHANGED <<wsCtx, handle, writeReady, cbRecv, link, up, down>>

\* libwebsockets reports the socket writeable once per request, when its
\* send buffer has room.
Writeable ==
    /\ link = "open"
    /\ wantWrite
    /\ Len(up) < MaxInFlight
    /\ writeReady' = TRUE
    /\ wantWrite' = FALSE
    /\ UNCHANGED <<wsCtx, handle, cbRecv, link, up, down>>

\* The connection's half of a RECEIVE; the payload goes to the callback.
ReceiveFrame ==
    /\ link \in {"open", "dropped"}
    /\ cbRecv
    /\ down # <<>>
    /\ down' = Tail(down)
    /\ UNCHANGED <<wsCtx, handle, writeReady, cbRecv, link, wantWrite, up>>

\* A callback other than the report of a failure is due.
CallbackDue ==
    \/ link = "connecting"
    \/ link = "open" /\ wantWrite /\ Len(up) < MaxInFlight
    \/ link \in {"open", "dropped"} /\ down # <<>>

-----------------------------------------------------------------------------
(* The network loses the connection: each direction keeps some prefix of   *)
(* what was in flight.                                                     *)
NetDrop ==
    /\ "drop" \in Faults
    /\ link = "open"
    /\ link' = "dropped"
    /\ \E i \in 0..Len(up) : up' = SubSeq(up, 1, i)
    /\ \E i \in 0..Len(down) : down' = SubSeq(down, 1, i)
    /\ UNCHANGED <<wsCtx, handle, writeReady, cbRecv, wantWrite>>
=============================================================================
