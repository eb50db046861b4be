----------------------------- MODULE CloudServer -----------------------------
(***************************************************************************)
(* The cloud server at the other end of the websocket, external to the     *)
(* repository: modelled from the frames that src/src/sync/st_sync.c writes *)
(* and the payloads that its _process_payload() reads.                     *)
(***************************************************************************)
EXTENDS CloudVarSystem, WebSocket

CONSTANTS
    Inbound,    \* the "vars" objects the server may send
    MaxInbound  \* bound: how many payloads it sends

ASSUME CloudServerAssumption ==
    /\ Inbound \subseteq InVars
    /\ MaxInbound \in Nat

VARIABLES
    shaken,     \* the device has identified itself
    cloud,      \* the server's copy of every variable
    sent,       \* payloads sent so far
    diverged    \* history: variables whose last exchange need not have left both
                \* copies alike: it crossed another, was refused, or only logged

serverVars == <<shaken, cloud, sent, diverged>>

ReportInFlight(n) == \E i \in 1..Len(up) : up[i].vars[n] # NoValue
PayloadInFlight(n) == \E i \in 1..Len(down) : down[i][n] # NoValue

ServerInit ==
    /\ shaken = FALSE
    /\ cloud = [n \in Name |-> Unset]
    /\ sent = 0
    /\ diverged = {}

\* A reported value replaces the server's copy, leaf by leaf.
Reported(n, v) == [f \in Field |-> IF v[f] = NoValue THEN cloud[n][f] ELSE v[f]]

ServerReceive ==
    /\ up # <<>>
    /\ up' = Tail(up)
    /\ LET frame == Head(up) IN
         \/ /\ frame.kind = "handshake"
            /\ shaken' = TRUE
            /\ UNCHANGED cloud
         \/ /\ frame.kind = "vars"
            /\ cloud' = [n \in Name |-> IF shaken /\ frame.vars[n] # NoValue
                                        THEN Reported(n, frame.vars[n])
                                        ELSE cloud[n]]
            /\ UNCHANGED shaken
    /\ UNCHANGED <<wsCtx, handle, writeReady, cbRecv, link, wantWrite, down, sent,
                   diverged>>

\* The cloud side changes some variables and tells the device.
ServerSend(p) ==
    /\ link = "open" /\ shaken
    /\ sent < MaxInbound
    /\ sent' = sent + 1
    /\ down' = Append(down, p)
    /\ cloud' = [n \in Name |-> IF p[n] # NoValue /\ p[n].kind # "object"
                                THEN [cloud[n] EXCEPT ![Self] = p[n].data]
                                ELSE cloud[n]]
    /\ diverged' = {n \in Name : IF p[n] # NoValue THEN ReportInFlight(n)
                                                  ELSE n \in diverged}
    /\ UNCHANGED <<wsCtx, handle, writeReady, cbRecv, link, wantWrite, up, shaken>>
=============================================================================
