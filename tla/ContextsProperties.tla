------------------------- MODULE ContextsProperties -------------------------
(***************************************************************************)
(* What is claimed of contexts, global options and the logger. A claim     *)
(* that fails once two threads meet says so: what it needs is that nobody  *)
(* touches the global state while another thread is in _global_init or     *)
(* canopy_set_global_opt. Creating contexts later needs no such care.      *)
(***************************************************************************)
EXTENDS Contexts

Answer == {"none", "SUCCESS", "INVALID_OPT", "OUT_OF_MEMORY", "NULL", "context"}
ProgramCounter == Configuring \cup
    {"idle", "global", "trace", "context", "ctx options", "ws", "cloudvars", "fail"}
Calls == {"none", "canopy_init_context", "canopy_set_global_opt"}

IsContext(c) ==
    /\ DOMAIN c = {"options", "ws", "cloudvars"}
    /\ c.options = Null \/ DOMAIN c.options = DOMAIN ContextDefault
    /\ c.ws \in BOOLEAN /\ c.cloudvars \in BOOLEAN

GlobalTypes ==
    /\ initialized \in BOOLEAN
    /\ options \in GlobalOptions \cup {Null}

LoggerTypes ==
    /\ logger \in Thread \cup {Null} /\ registered \in Thread \cup {Null}
    /\ loggers \in [Thread -> Logger \cup {Null}]
    /\ level \in 0..5
    /\ \A u \in {logger, registered} \ {Null} : loggers[u] # Null

ContextTypes ==
    /\ DOMAIN context = Thread
    /\ \A t \in Thread : context[t] = Null \/ IsContext(context[t])

ThreadTypes ==
    /\ pc \in [Thread -> ProgramCounter] /\ call \in [Thread -> Calls]
    /\ first \in [Thread -> BOOLEAN] /\ args \in [Thread -> GlobalArgs \cup {<<>>}]
    /\ answer \in Answer /\ calls \in 0..MaxCalls

HistoryTypes ==
    /\ crashed \in BOOLEAN /\ overlapped \in BOOLEAN
    /\ unchecked \in BOOLEAN
    /\ told \in GlobalOptions \cup {Null}

\* Every variable has its type (_Global_t, CanopyContext_t, STLogger_t).
TypeOK == GlobalTypes /\ LoggerTypes /\ ContextTypes /\ ThreadTypes /\ HistoryTypes

\* Once the flag is up, the global state is complete and the logger that options are
\* applied to is the one that RedLog calls (canopy.c:61-84, st_log.c:70).
GlobalsReady ==
    initialized /\ ~overlapped =>
        options # Null /\ logger # Null /\ registered = logger

\* A context whose websocket could not be allocated, about to be synced over one.
LacksWebSocket(t) ==
    /\ pc[t] = "idle" /\ context[t] # Null /\ ~context[t].ws
    /\ AsksWebSocket(context[t].options)

\* No null or freed pointer is followed and no assertion fails, whichever allocations
\* fail and however often _global_init is tried again, but for four causes: threads
\* met, one of the two allocations failed that nobody checks (st_cloudvar_system.c:22,
\* st_log.c:84), or a context is synced whose missing websocket the wrong test let
\* pass (canopy.c:131).
CrashHasCause ==
    crashed => overlapped \/ unchecked \/ \E t \in Thread : LacksWebSocket(t)

Shows(l, lev) ==
    /\ l.enabled = told.LOG_ENABLED
    /\ unchecked \/ l.filename = told.LOG_FILE
    /\ lev = told.LOG_LEVEL

\* While nobody is configuring, and unless threads met, the logger is on or off, writes
\* to the file and lets pass the severity that the last configuration asked for which
\* was not refused. A refused canopy_set_global_opt, though it stores options, alters
\* nothing of that, nor does a severity that does not exist alter the one in force
\* (canopy.c:69-82, 163-190). The name of the file may be lost (st_log.c:84).
LoggerFollowsOptions ==
    /\ initialized /\ ~overlapped
    /\ \A t \in Thread : pc[t] \notin Configuring
    => Shows(loggers[registered], level)

\* "This may be called multiple times to create multiple contexts" (canopy.h:331): a
\* later context leaves the global options, the logger and other threads' contexts
\* as they are.
LaterContextsAlterNothing ==
    [][initialized /\ ~overlapped' =>
         \A t \in Thread :
            call[t] = "canopy_init_context" /\ pc'[t] # pc[t] =>
               /\ UNCHANGED <<globalVars, registered, level>>
               /\ \A u \in Thread \ {t} : context'[u] = context[u]]_vars

\* A context is handed out with its options, from the environment over the defaults
\* (canopy.h:334), and its variables; a call that fails leaves no part of one behind.
\* Only the websocket may be missing: its test looks at the options (canopy.c:131).
Whole(c) ==
    /\ c.options = LoadFromEnv(ContextDefault, ContextEnv)
    /\ c.cloudvars
    /\ c.ws \/ "websocket" \in MayFail
ContextsWhole ==
    [][\A t \in Thread :
         pc[t] # "idle" /\ pc'[t] = "idle" /\ call[t] = "canopy_init_context" =>
           IF answer' = "context" THEN Whole(context'[t])
           ELSE answer' = "NULL" /\ context'[t] = Null]_vars

-----------------------------------------------------------------------------
(* A statement of the code that it contradicts itself, checked by a run of *)
(* its own that shows the behaviour.                                       *)

\* st_websocket.c:108, "assert(ws)": a context that canopy_init_context handed out has
\* the websocket that its syncs ask.
SyncHasWebSocket == crashed => overlapped \/ unchecked
=============================================================================
