----------------------------- MODULE MCContexts -----------------------------
(***************************************************************************)
(* Small instances of Contexts and of OnceEvery for TLC. The two have      *)
(* nothing in common, so a behaviour is one of either: "part" says which,  *)
(* and the other one rests.                                                *)
(***************************************************************************)
EXTENDS ContextsProperties, OnceEvery

VARIABLE part

allVars == <<vars, timerVars, part>>

Env == [LOG_PAYLOADS |-> [text |-> "true", atoi |-> 0],
        LOG_LEVEL |-> [text |-> "6", atoi |-> 6]]
DeviceEnv == [CLOUD_SERVER |-> [text |-> "localhost", atoi |-> 0],
              VAR_SEND_PROTOCOL |-> [text |-> "WSS", atoi |-> 0]]

Arg(o, x) == [opt |-> o, to |-> x]
GlobalLists ==
    { <<Arg("LOG_FILE", "other.log"), Arg("LOG_PAYLOADS", TRUE)>>,
      <<Arg("LOG_LEVEL", 5), Arg("NO_OPTION", 0), Arg("LOG_ENABLED", FALSE)>> }
ContextLists ==
    { <<Arg("VAR_RECV_PROTOCOL", 0), Arg("NO_OPTION", 0), Arg("VAR_SEND_PROTOCOL", 3)>> }
Failures == Allocation

MCInit ==
    /\ part \in {"contexts", "timer"}
    /\ Init
    /\ TimerInit
    /\ part = "contexts" => curtime = 0

MCNext ==
    /\ UNCHANGED part
    /\ \/ part = "contexts" /\ Next /\ UNCHANGED timerVars
       \/ part = "timer" /\ TimerNext /\ UNCHANGED vars

MCSpec == MCInit /\ [][MCNext]_allVars
=============================================================================
