------------------------------ MODULE Contexts ------------------------------
(***************************************************************************)
(* The life of contexts and of the process-wide state they share: the      *)
(* global options and the logger (canopy.c:36-212, st_log.c). Threads call *)
(* the API; a step is a statement of _global_init, canopy_init_context or  *)
(* canopy_set_global_opt that reads or writes what threads share. Nothing  *)
(* in the library locks.                                                   *)
(***************************************************************************)
EXTENDS Options

CONSTANTS
    Thread,
    Null,
    GlobalArgs,     \* argument lists of canopy_set_global_opt
    ContextArgs,    \* argument lists of canopy_set_opt
    MayFail,        \* the allocations that may fail
    MaxCalls        \* bound: calls that go through _global_init

Allocation == {"global options", "logger", "filename", "context", "options",
               "websocket", "variables"}

Logger == [enabled : BOOLEAN, filename : FileName \cup {Null, "freed"},
           send_payloads : BOOLEAN]
NewLogger == [enabled |-> FALSE, filename |-> Null, send_payloads |-> FALSE]
NewContext == [options |-> Null, ws |-> FALSE, cloudvars |-> FALSE]

ASSUME ContextsAssumption ==
    /\ MayFail \subseteq Allocation /\ MaxCalls \in Nat
    /\ Null \notin FileName \cup GlobalOptions \cup Logger \cup Thread
    /\ "freed" \notin FileName /\ Null # "freed"
    /\ \A args \in GlobalArgs : Extend(GlobalDefault, args) \in GlobalOptions

VARIABLES
    initialized, options, logger,   \* _global
    loggers,    \* loggers[t]: the STLogger_t that thread t has allocated
    registered, \* RedLog: the logger that its callback is given,
    level,      \* and the least severity it lets pass
    context,    \* context[t]: the context that thread t creates or owns
    pc, call, first, args,  \* each thread's call
    calls,      \* how many there were
    answer,     \* what the last call that returned was answered
    crashed,    \* undefined behaviour was met, or a false assertion
    overlapped, \* history: a thread met another one that was configuring
    unchecked,  \* history: an allocation failed and nobody looked
    told        \* history: the options of the last configuration not refused, with
                \* the severity that was in force if theirs does not exist

globalVars == <<initialized, options, logger>>
logVars == <<loggers, registered, level>>
threadVars == <<pc, call, first, args, calls, answer>>
historyVars == <<overlapped, unchecked, told>>
vars == <<globalVars, logVars, context, threadVars, crashed, historyVars>>

\* Where a thread is between the first write to what is shared and the last.
Configuring == {"options", "env", "logger", "store", "enabled", "free", "filename",
                "level", "payloads", "flag", "extend"}
Others(t) == \E u \in Thread \ {t} : pc[u] \in Configuring

Init ==
    /\ initialized = FALSE /\ options = Null /\ logger = Null
    /\ loggers = [t \in Thread |-> Null] /\ registered = Null /\ level = 0
    /\ context = [t \in Thread |-> Null]
    /\ pc = [t \in Thread |-> "idle"] /\ call = [t \in Thread |-> "none"]
    /\ first = [t \in Thread |-> FALSE] /\ args = [t \in Thread |-> <<>>]
    /\ calls = 0 /\ answer = "none"
    /\ crashed = FALSE /\ overlapped = FALSE /\ unchecked = FALSE
    /\ told = Null

Goto(t, l) ==
    /\ pc' = [pc EXCEPT ![t] = l]
    /\ UNCHANGED <<call, first, args, calls, answer>>

Return(t, r) ==
    /\ pc' = [pc EXCEPT ![t] = "idle"]
    /\ call' = [call EXCEPT ![t] = "none"]
    /\ first' = [first EXCEPT ![t] = FALSE]
    /\ args' = [args EXCEPT ![t] = <<>>]
    /\ answer' = r
    /\ UNCHANGED calls

\* A null or freed pointer is followed, where the process may do anything, or an
\* assertion fails: it ends here.
Crash ==
    /\ crashed' = TRUE
    /\ UNCHANGED <<globalVars, logVars, context, threadVars, unchecked, told>>

Meets(t, touches) == overlapped' = (overlapped \/ (touches /\ Others(t)))

-----------------------------------------------------------------------------
(* The calls begin; all of them may log first.                             *)

Begin(t, name, list) ==
    /\ pc[t] = "idle" /\ calls < MaxCalls
    /\ pc' = [pc EXCEPT ![t] = "global"]
    /\ call' = [call EXCEPT ![t] = name]
    /\ args' = [args EXCEPT ![t] = list]
    /\ calls' = calls + 1 /\ answer' = "none"
    /\ UNCHANGED <<globalVars, logVars, context, first, crashed, historyVars>>

InitContext(t) == context[t] = Null /\ Begin(t, "canopy_init_context", <<>>)
SetGlobalOpt(t, list) == Begin(t, "canopy_set_global_opt", list)

\* canopy_set_opt: the caller's own context.
SetOpt(t, list) ==
    /\ pc[t] = "idle" /\ context[t] # Null
    /\ context' = [context EXCEPT ![t].options = Extend(@, list)]
    /\ answer' = ExtendResult(context[t].options, list)
    /\ UNCHANGED <<globalVars, logVars, pc, call, first, args, calls, crashed, historyVars>>

ShutdownContext(t) ==
    /\ pc[t] = "idle" /\ context[t] # Null
    /\ context' = [context EXCEPT ![t] = Null]
    /\ answer' = "SUCCESS"
    /\ UNCHANGED <<globalVars, logVars, pc, call, first, args, calls, crashed, historyVars>>

-----------------------------------------------------------------------------
(* _global_init                                                            *)

TestInitialized_Early(t) ==
    /\ pc[t] = "global"
    /\ pc' = [pc EXCEPT ![t] = IF initialized THEN "trace" ELSE "options"]
    /\ first' = [first EXCEPT ![t] = ~initialized]
    /\ initialized' = TRUE
    /\ Meets(t, ~initialized)
    /\ UNCHANGED <<options, logger, logVars, context, call, args, calls, answer, crashed,
                   unchecked, told>>

\* Both callers of _global_init go on to log a trace message.
TestInitialized_Never(t) ==
    /\ pc[t] = "global"
    /\ first' = [first EXCEPT ![t] = TRUE]
    /\ pc' = [pc EXCEPT ![t] = "options"]
    /\ Meets(t, TRUE)
    /\ UNCHANGED <<globalVars, logVars, context, call, args, calls, answer, crashed,
                   unchecked, told>>

TestInitialized(t) ==
    /\ pc[t] = "global"
    /\ pc' = [pc EXCEPT ![t] = IF initialized THEN "trace" ELSE "options"]
    /\ first' = [first EXCEPT ![t] = ~initialized]
    /\ Meets(t, ~initialized)
    /\ UNCHANGED <<globalVars, logVars, context, call, args, calls, answer, crashed,
                   unchecked, told>>

\* What either caller answers when memory is short.
OutOfMemory(t) ==
    Return(t, IF call[t] = "canopy_init_context" THEN "NULL" ELSE "OUT_OF_MEMORY")

NewGlobalOptions_Unchecked(t) ==
    /\ pc[t] = "options"
    /\ options' \in {GlobalDefault} \cup {x \in {Null} : "global options" \in MayFail}
    /\ Goto(t, "env")
    /\ UNCHANGED <<initialized, logger, logVars, context, crashed, historyVars>>

NewGlobalOptions(t) ==
    /\ pc[t] = "options"
    /\ \/ options' = GlobalDefault /\ Goto(t, "env")
       \/ "global options" \in MayFail /\ options' = Null /\ OutOfMemory(t)
    /\ UNCHANGED <<initialized, logger, logVars, context, crashed, historyVars>>

\* What the logger is to do once it is told of o.
InForce(o) == [o EXCEPT !.LOG_LEVEL = IF @ \in 0..5 THEN @ ELSE level]

LoadGlobalEnv(t) ==
    /\ pc[t] = "env" /\ options # Null
    /\ options' = LoadFromEnv(options, GlobalEnv)
    /\ told' = InForce(options')
    /\ Goto(t, "logger")
    /\ UNCHANGED <<initialized, logger, logVars, context, crashed, overlapped, unchecked>>

LogInit_RegistersFirst(t) ==
    /\ pc[t] = "logger"
    /\ registered' = t
    /\ \/ /\ loggers' = [loggers EXCEPT ![t] = NewLogger]
          /\ Goto(t, "store")
          /\ UNCHANGED logger
       \/ /\ "logger" \in MayFail
          /\ logger' = Null
          /\ OutOfMemory(t)
          /\ UNCHANGED loggers
    /\ UNCHANGED <<initialized, options, level, context, crashed, historyVars>>

\* st_log_init: it registers the logger before _global knows of it.
LogInit(t) ==
    /\ pc[t] = "logger"
    /\ \/ /\ loggers' = [loggers EXCEPT ![t] = NewLogger]
          /\ registered' = t
          /\ Goto(t, "store")
          /\ UNCHANGED logger
       \/ /\ "logger" \in MayFail
          /\ logger' = Null
          /\ OutOfMemory(t)
          /\ UNCHANGED <<loggers, registered>>
    /\ UNCHANGED <<initialized, options, level, context, crashed, historyVars>>

StoreLogger(t) ==
    /\ pc[t] = "store"
    /\ logger' = t
    /\ Goto(t, "enabled")
    /\ UNCHANGED <<initialized, options, logVars, context, crashed, historyVars>>

-----------------------------------------------------------------------------
(* Setting up the logger, from _global_init and from canopy_set_global_opt *)

\* Each of the setters reads both pointers again.
ToLogger(t, here, field, x, there) ==
    /\ pc[t] = here /\ options # Null /\ logger # Null
    /\ loggers' = [loggers EXCEPT ![logger][field] = x]
    /\ Goto(t, there)
    /\ UNCHANGED <<globalVars, registered, level, context, crashed, overlapped, told>>

SetEnabled(t) ==
    /\ ToLogger(t, "enabled", "enabled", options.LOG_ENABLED, "free")
    /\ UNCHANGED unchecked

\* st_log_set_filename: free, then strdup, whose failure neither caller looks at.
FreeFilename(t) ==
    /\ logger # Null => loggers[logger].filename # "freed"
    /\ ToLogger(t, "free", "filename",
                IF loggers[logger].filename = Null THEN Null ELSE "freed", "filename")
    /\ UNCHANGED unchecked

SetFilename(t) ==
    \/ /\ ToLogger(t, "filename", "filename", options.LOG_FILE, "level")
       /\ UNCHANGED unchecked
    \/ /\ "filename" \in MayFail
       /\ ToLogger(t, "filename", "filename", Null, "level")
       /\ unchecked' = TRUE

SetLevel_OffByOne(t) ==
    /\ pc[t] = "level" /\ options # Null
    /\ level' = IF options.LOG_LEVEL \in 0..4 THEN options.LOG_LEVEL ELSE level
    /\ Goto(t, "payloads")
    /\ UNCHANGED <<globalVars, loggers, registered, context, crashed, historyVars>>

\* st_log_set_level: a level that does not exist is refused, and nobody looks.
SetLevel(t) ==
    /\ pc[t] = "level" /\ options # Null
    /\ level' = IF options.LOG_LEVEL \in 0..5 THEN options.LOG_LEVEL ELSE level
    /\ Goto(t, "payloads")
    /\ UNCHANGED <<globalVars, loggers, registered, context, crashed, historyVars>>

\* st_log_set_payload_logging, and the end of _global_init or of the call.
SetPayloads(t) ==
    /\ pc[t] = "payloads" /\ options # Null /\ logger # Null
    /\ loggers' = [loggers EXCEPT ![logger].send_payloads = options.LOG_PAYLOADS]
    /\ IF first[t] THEN Goto(t, "flag") ELSE Return(t, "SUCCESS")
    /\ UNCHANGED <<globalVars, registered, level, context, crashed, historyVars>>

SetInitialized(t) ==
    /\ pc[t] = "flag"
    /\ initialized' = TRUE
    /\ pc' = [pc EXCEPT ![t] = "trace"]
    /\ first' = [first EXCEPT ![t] = FALSE]
    /\ UNCHANGED <<options, logger, logVars, context, call, args, calls, answer, crashed, historyVars>>

\* A null or freed pointer on the way: another thread is at work here, too.
ConfigureCrashes(t) ==
    /\ \/ pc[t] \in {"env", "enabled", "free", "filename", "level", "payloads", "extend"}
          /\ options = Null
       \/ pc[t] \in {"enabled", "free", "filename", "payloads"} /\ logger = Null
       \/ pc[t] = "free" /\ logger # Null /\ loggers[logger].filename = "freed"
    /\ Crash
    /\ UNCHANGED overlapped

-----------------------------------------------------------------------------
(* Logging                                                                 *)

Passes(severity) ==
    registered # Null /\ severity >= level /\ loggers[registered].enabled

NoFile == loggers[registered].filename \in {Null, "freed"}

\* _log: fopen of a name that is not there is undefined.
Logged(severity) == Passes(severity) => ~NoFile

AfterTrace(t) ==
    IF call[t] = "canopy_init_context" THEN Goto(t, "context") ELSE Goto(t, "extend")

\* The trace message of canopy_init_context and canopy_set_global_opt.
Trace(t) ==
    /\ pc[t] = "trace"
    /\ Logged(0)
    /\ AfterTrace(t)
    /\ Meets(t, level = 0)
    /\ UNCHANGED <<globalVars, logVars, context, crashed, unchecked, told>>

\* Any other call on a context logs, at any severity.
Message(t, severity) ==
    /\ pc[t] = "idle" /\ context[t] # Null
    /\ Logged(severity)
    /\ Meets(t, severity >= level)
    /\ UNCHANGED <<globalVars, logVars, context, threadVars, crashed, unchecked, told>>

LogCrashes(t, severity) ==
    /\ Passes(severity) /\ NoFile
    /\ Crash
    /\ Meets(t, TRUE)

TraceCrashes(t) == pc[t] = "trace" /\ LogCrashes(t, 0)
MessageCrashes(t, severity) ==
    pc[t] = "idle" /\ context[t] # Null /\ LogCrashes(t, severity)

-----------------------------------------------------------------------------
(* The rest of canopy_set_global_opt and of canopy_init_context            *)

\* What was stored before an argument that is no option stays; the logger is not told.
ExtendGlobalOptions(t) ==
    /\ pc[t] = "extend" /\ options # Null
    /\ options' = Extend(options, args[t])
    /\ IF ExtendResult(options, args[t]) = "SUCCESS"
       THEN Goto(t, "enabled") /\ told' = InForce(options')
       ELSE Return(t, "INVALID_OPT") /\ UNCHANGED told
    /\ Meets(t, TRUE)
    /\ UNCHANGED <<initialized, logger, logVars, context, crashed, unchecked>>

\* One allocation of canopy_init_context: it goes on, or it goes where the code
\* takes a failure.
Allocate(t, here, what, made, there, missed, otherwise) ==
    /\ pc[t] = here
    /\ \/ context' = [context EXCEPT ![t] = made] /\ Goto(t, there)
       \/ what \in MayFail /\ context' = [context EXCEPT ![t] = missed] /\ Goto(t, otherwise)
    /\ UNCHANGED <<globalVars, logVars, crashed, historyVars>>

AllocateContext(t) ==
    Allocate(t, "context", "context", NewContext, "ctx options", Null, "fail")

AllocateOptions_Unchecked(t) ==
    Allocate(t, "ctx options", "options",
             [context[t] EXCEPT !.options = LoadFromEnv(ContextDefault, ContextEnv)],
             "ws", context[t], "ws")

AllocateOptions(t) ==
    Allocate(t, "ctx options", "options",
             [context[t] EXCEPT !.options = LoadFromEnv(ContextDefault, ContextEnv)],
             "ws", context[t], "fail")

\* The test that follows looks at ctx->options again.
AllocateWebSocket(t) ==
    Allocate(t, "ws", "websocket", [context[t] EXCEPT !.ws = TRUE], "cloudvars",
             context[t], "cloudvars")

CreateCloudVars(t) ==
    /\ pc[t] = "cloudvars"
    /\ context' = [context EXCEPT ![t].cloudvars = TRUE]
    /\ Return(t, "context")
    /\ UNCHANGED <<globalVars, logVars, crashed, historyVars>>

\* st_cloudvar_system_new writes through what calloc returned.
CloudVarsCrash(t) ==
    /\ pc[t] = "cloudvars" /\ "variables" \in MayFail
    /\ crashed' = TRUE /\ unchecked' = TRUE
    /\ UNCHANGED <<globalVars, logVars, context, threadVars, overlapped, told>>

\* canopy_shutdown_context frees the parts there are.
FailContext(t) ==
    /\ pc[t] = "fail"
    /\ context' = [context EXCEPT ![t] = Null]
    /\ Return(t, "NULL")
    /\ UNCHANGED <<globalVars, logVars, crashed, historyVars>>

-----------------------------------------------------------------------------
(* canopy_sync, as far as it meets a part of the context that may be missing *)

\* st_sync asks the websocket whether it is connected if that is how it receives, or
\* sends what is to be sent.
WebSocketProtocol == {3, 4}
AsksWebSocket(o) ==
    /\ o.CLOUD_SERVER # NotSet
    /\ {o.VAR_RECV_PROTOCOL, o.VAR_SEND_PROTOCOL} \cap WebSocketProtocol # {}

\* assert(ws) of st_websocket_is_connected.
SyncCrashes(t) ==
    /\ pc[t] = "idle" /\ context[t] # Null /\ ~context[t].ws
    /\ AsksWebSocket(context[t].options)
    /\ Crash
    /\ UNCHANGED overlapped

-----------------------------------------------------------------------------

Step(t) ==
    \/ TestInitialized(t) \/ NewGlobalOptions(t) \/ LoadGlobalEnv(t)
    \/ LogInit(t) \/ StoreLogger(t)
    \/ SetEnabled(t) \/ FreeFilename(t) \/ SetFilename(t) \/ SetLevel(t) \/ SetPayloads(t)
    \/ SetInitialized(t) \/ ConfigureCrashes(t)
    \/ Trace(t) \/ TraceCrashes(t) \/ ExtendGlobalOptions(t)
    \/ AllocateContext(t) \/ AllocateOptions(t) \/ AllocateWebSocket(t)
    \/ CreateCloudVars(t) \/ CloudVarsCrash(t) \/ FailContext(t)

Call(t) ==
    \/ InitContext(t)
    \/ \E list \in GlobalArgs : SetGlobalOpt(t, list)
    \/ \E list \in ContextArgs : SetOpt(t, list)
    \/ ShutdownContext(t)
    \/ \E severity \in 0..5 : Message(t, severity) \/ MessageCrashes(t, severity)
    \/ SyncCrashes(t)

Next ==
    /\ ~crashed
    /\ \E t \in Thread : Step(t) \/ Call(t)

Spec == Init /\ [][Next]_vars
=============================================================================
