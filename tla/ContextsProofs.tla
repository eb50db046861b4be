--------------------------- MODULE ContextsProofs ---------------------------
(***************************************************************************)
(* Theorems about Contexts for every value of its constants: any number of *)
(* threads, any argument lists, any allocations that may fail.             *)
(***************************************************************************)
EXTENDS ContextsProperties, TLAPS

(* The inductive invariants *)

\* From the first write to what is shared to the last; "extend" has not written yet.
Writing == Configuring \ {"extend"}
Creating == {"context", "ctx options", "ws", "cloudvars", "fail"}
Registered == {"store", "enabled", "free", "filename", "level", "payloads", "flag"}
Stored == Registered \ {"store"}

\* Each thread is where its call can be: _global_init runs with "first" up, and what
\* is written without it is written by canopy_set_global_opt.
InOrder(t) ==
    /\ pc[t] = "idle" <=> call[t] = "none"
    /\ pc[t] \in Creating => call[t] = "canopy_init_context"
    /\ pc[t] = "extend" => call[t] = "canopy_set_global_opt"
    /\ first[t] => pc[t] \in Writing
    /\ pc[t] \in {"options", "env", "logger", "store", "flag"} => first[t]
    /\ pc[t] \in Writing /\ ~first[t] => call[t] = "canopy_set_global_opt"
ThreadsInOrder == \A t \in Thread : InOrder(t)

\* What st_log_init returned to _global_init.
LoggerAllocated == \A t \in Thread : pc[t] = "store" => loggers[t] # Null

\* How far canopy_init_context got is how much of the context there is.
FromEnv == LoadFromEnv(ContextDefault, ContextEnv)
Made(ws, cloudvars) == [options |-> FromEnv, ws |-> ws, cloudvars |-> cloudvars]
AsFarAs(t) ==
    /\ call[t] = "canopy_init_context" /\ pc[t] \notin Creating \ {"context"} =>
          context[t] = Null
    /\ pc[t] = "ctx options" => context[t] = NewContext
    /\ pc[t] = "ws" => context[t] = Made(FALSE, FALSE)
    /\ pc[t] = "cloudvars" =>
          \/ context[t] = Made(TRUE, FALSE)
          \/ context[t] = Made(FALSE, FALSE) /\ "websocket" \in MayFail
    /\ pc[t] \notin {"ctx options", "fail"} /\ context[t] # Null =>
          DOMAIN context[t].options = DOMAIN ContextDefault
ContextsAsFarAs == \A t \in Thread : AsFarAs(t)

\* As long as no two threads met, one thread writes at most, and _global_init is
\* what runs exactly as long as it has not been run to its end.
OneWrites ==
    /\ \A t, u \in Thread : pc[t] \in Writing /\ pc[u] \in Writing => t = u
    /\ \A t \in Thread : pc[t] \in Writing => (first[t] <=> ~initialized)
    /\ \A t \in Thread : pc[t] \in {"trace", "extend"} => initialized

\* What exists of the global state, by how far the thread that writes it is.
GlobalsAsFarAs ==
    /\ initialized => options # Null /\ logger # Null /\ registered = logger
    /\ ~initialized /\ (\A t \in Thread : pc[t] \notin Registered) => registered = Null
    /\ \A t \in Thread :
          /\ pc[t] \in Writing \ {"options"} => options # Null
          /\ pc[t] = "store" => registered = t /\ loggers[t] = NewLogger
          /\ pc[t] \in Stored => logger # Null /\ registered = logger

\* If nobody but t writes, the name that RedLog opens is one, the options that t has to
\* tell the logger are those of a configuration not refused, and the logger has what t
\* has told it so far.
LoggerAt(t) ==
    /\ registered # Null /\ pc[t] # "filename" =>
          /\ loggers[registered].filename # "freed"
          /\ initialized => unchecked \/ loggers[registered].filename # Null
    /\ pc[t] \in Writing \ {"options", "env"} =>
          told.LOG_ENABLED = options.LOG_ENABLED /\ told.LOG_FILE = options.LOG_FILE
    /\ pc[t] \in {"logger", "store", "enabled", "free", "filename", "level"} =>
          told.LOG_LEVEL = InForce(options).LOG_LEVEL
    /\ pc[t] \in {"free", "filename", "level", "payloads", "flag"} =>
          loggers[registered].enabled = told.LOG_ENABLED
    /\ pc[t] \in {"level", "payloads", "flag"} =>
          unchecked \/ loggers[registered].filename = told.LOG_FILE
    /\ pc[t] \in {"payloads", "flag"} => level = told.LOG_LEVEL
    /\ initialized /\ pc[t] \notin Writing => Shows(loggers[registered], level)
LoggerAsFarAs ==
    \A t \in Thread : (\A u \in Thread \ {t} : pc[u] \notin Writing) => LoggerAt(t)

Alone == ~overlapped => OneWrites /\ GlobalsAsFarAs /\ LoggerAsFarAs
-----------------------------------------------------------------------------
(* What the operators on options return *)

\* Where no option is stored the old value stays, where one is it is the last argument
\* for it: the same for every object with the same options.
LEMMA ExtendAgrees ==
    ASSUME NEW base \in GlobalOptions, NEW list
    PROVE  /\ DOMAIN Extend(base, list) = DOMAIN GlobalDefault
           /\ Extend(base, list) = [opt \in DOMAIN base |-> Extend(base, list)[opt]]
           /\ \A opt \in DOMAIN GlobalDefault :
                 Extend(base, list)[opt] \in {base[opt], Extend(GlobalDefault, list)[opt]}
<1>1. DOMAIN base = DOMAIN GlobalDefault
  BY DEF GlobalOptions, GlobalDefault
<1>2. Invalid(base, list) = Invalid(GlobalDefault, list)
  BY <1>1 DEF Invalid
<1> QED
  BY <1>1, <1>2 DEF Extend

\* st_global_options_new_default yields global options.
LEMMA DefaultType == GlobalDefault \in GlobalOptions
BY OptionsAssumption DEF GlobalDefault, GlobalOptions

\* Extending global options yields global options (st_global_options_extend_varargs).
LEMMA ExtendType ==
    ASSUME NEW base \in GlobalOptions, NEW list \in GlobalArgs \cup {<<>>}
    PROVE  Extend(base, list) \in GlobalOptions
<1> DEFINE made == Extend(base, list)
           given == Extend(GlobalDefault, list)
<1>1. given \in GlobalOptions
  <2>1. CASE list \in GlobalArgs
    BY <2>1, ContextsAssumption
  <2>2. CASE list = <<>>
    <3>1. given = GlobalDefault
      BY <2>2 DEF Extend, GlobalDefault
    <3> QED
      BY <3>1, DefaultType
  <2> QED
    BY <2>1, <2>2
<1>2. /\ made = [opt \in DOMAIN base |-> made[opt]]
      /\ \A opt \in DOMAIN GlobalDefault : made[opt] \in {base[opt], given[opt]}
  BY ExtendAgrees
<1> HIDE DEF made, given
<1> SUFFICES made \in GlobalOptions
  BY DEF made
<1> QED
  BY <1>1, <1>2 DEF GlobalOptions, GlobalDefault

\* So does the environment (st_global_options_load_from_env).
LEMMA LoadType ==
    ASSUME NEW base \in GlobalOptions
    PROVE  LoadFromEnv(base, GlobalEnv) \in GlobalOptions
<1> DEFINE made == LoadFromEnv(base, GlobalEnv)
           given == LoadFromEnv(GlobalDefault, GlobalEnv)
<1>1. given \in GlobalOptions
  BY OptionsAssumption
<1>2. /\ made = [opt \in DOMAIN base |-> made[opt]]
      /\ \A opt \in DOMAIN base : made[opt] \in {base[opt], given[opt]}
  BY DEF LoadFromEnv, GlobalOptions, GlobalDefault
<1> HIDE DEF made, given
<1> SUFFICES made \in GlobalOptions
  BY DEF made
<1> QED
  BY <1>1, <1>2 DEF GlobalOptions

\* What the logger is to do is options, and theirs but for the severity.
LEMMA InForceType ==
    ASSUME NEW o \in GlobalOptions, level \in 0..5
    PROVE  /\ InForce(o) \in GlobalOptions
           /\ InForce(o).LOG_ENABLED = o.LOG_ENABLED /\ InForce(o).LOG_FILE = o.LOG_FILE
           /\ InForce(o).LOG_LEVEL = IF o.LOG_LEVEL \in 0..5 THEN o.LOG_LEVEL ELSE level
BY DEF InForce, GlobalOptions

-----------------------------------------------------------------------------
(* Types *)

\* What a step does to the threads is to move one on or to return from its call.
LEMMA GotoTypes ==
    ASSUME ThreadTypes, NEW t \in Thread, NEW l \in ProgramCounter, Goto(t, l)
    PROVE  ThreadTypes' /\ pc' = [pc EXCEPT ![t] = l]
BY DEF Goto, ThreadTypes

\* Returning from a call leaves the threads typed.
LEMMA ReturnTypes ==
    ASSUME ThreadTypes, NEW t \in Thread, NEW r \in Answer, Return(t, r)
    PROVE  ThreadTypes' /\ pc' = [pc EXCEPT ![t] = "idle"]
BY DEF Return, ThreadTypes, ProgramCounter, Calls

\* So does giving up for want of memory.
LEMMA OutOfMemoryTypes ==
    ASSUME ThreadTypes, NEW t \in Thread, OutOfMemory(t)
    PROVE  ThreadTypes' /\ pc' = [pc EXCEPT ![t] = "idle"]
<1>1. (IF call[t] = "canopy_init_context" THEN "NULL" ELSE "OUT_OF_MEMORY") \in Answer
  BY DEF Answer
<1> QED
  BY <1>1, ReturnTypes DEF OutOfMemory

\* Every setter of the logger leaves it a logger, whichever thread it belongs to.
LEMMA ToLoggerTypes ==
    ASSUME GlobalTypes, LoggerTypes, ThreadTypes, LoggerAllocated, NEW t \in Thread,
           NEW here, NEW field, NEW x, NEW there \in ProgramCounter \ {"store"},
           \A l \in Logger : [l EXCEPT ![field] = x] \in Logger,
           ToLogger(t, here, field, x, there)
    PROVE  LoggerTypes' /\ ThreadTypes' /\ LoggerAllocated'
<1>1. ThreadTypes' /\ pc' = [pc EXCEPT ![t] = there]
  BY GotoTypes DEF ToLogger
<1>2. logger \in Thread /\ loggers[logger] \in Logger
  BY DEF ToLogger, LoggerTypes
<1>3. loggers' = [loggers EXCEPT ![logger] = [loggers[logger] EXCEPT ![field] = x]]
  BY DEF ToLogger
<1>4. UNCHANGED <<logger, registered, level>>
  BY DEF ToLogger, globalVars
<1>5. [loggers[logger] EXCEPT ![field] = x] \in Logger
  BY <1>2
<1> DEFINE new == [loggers[logger] EXCEPT ![field] = x]
<1>6. loggers' = [loggers EXCEPT ![logger] = new] /\ new \in Logger /\ new # Null
  BY <1>3, <1>5, ContextsAssumption
<1> HIDE DEF new
<1>7. LoggerTypes'
  BY <1>2, <1>4, <1>6 DEF LoggerTypes
<1>8. LoggerAllocated'
  BY <1>1, <1>2, <1>6 DEF LoggerAllocated, LoggerTypes, ThreadTypes
<1> QED
  BY <1>1, <1>7, <1>8

\* Types, apart from those of the contexts, which take how far each thread is.
Typed == GlobalTypes /\ LoggerTypes /\ ThreadTypes /\ HistoryTypes /\ LoggerAllocated

\* Before any call everything has its type.
LEMMA InitTyped == Init => Typed
<1> SUFFICES ASSUME Init PROVE Typed
  OBVIOUS
<1>1. ThreadTypes
  BY ContextsAssumption DEF Init, ThreadTypes, ProgramCounter, Calls, Answer
<1>2. GlobalTypes /\ HistoryTypes
  BY DEF Init, GlobalTypes, HistoryTypes
<1>3. LoggerTypes
  BY DEF Init, LoggerTypes
<1>4. LoggerAllocated
  BY DEF Init, LoggerAllocated
<1> QED
  BY <1>1, <1>2, <1>3, <1>4 DEF Typed

\* Every statement of a thread keeps the types.
LEMMA StepTyped ==
    ASSUME Typed, NEW t \in Thread, Step(t)
    PROVE  Typed'
<1> USE ContextsAssumption
    DEF Typed, GlobalTypes, LoggerTypes, HistoryTypes, LoggerAllocated, globalVars,
        logVars, historyVars, Meets
<1>1. CASE TestInitialized(t)
  BY <1>1 DEF TestInitialized, ThreadTypes, ProgramCounter, Configuring
<1>2. CASE NewGlobalOptions(t)
  <2>1. ThreadTypes' /\ \E l \in {"env", "idle"} : pc' = [pc EXCEPT ![t] = l]
    BY <1>2, GotoTypes, OutOfMemoryTypes DEF NewGlobalOptions, ProgramCounter, Configuring
  <2>2. /\ options' \in GlobalOptions \cup {Null}
        /\ UNCHANGED <<initialized, logger, logVars, crashed, historyVars>>
    BY <1>2, DefaultType DEF NewGlobalOptions
  <2>3. LoggerAllocated'
    BY <2>1, <2>2 DEF ThreadTypes
  <2> QED
    BY <2>1, <2>2, <2>3
<1>3. CASE LoadGlobalEnv(t)
  <2>1. ThreadTypes' /\ pc' = [pc EXCEPT ![t] = "logger"]
    BY <1>3, GotoTypes DEF LoadGlobalEnv, ProgramCounter, Configuring
  <2>2. options' \in GlobalOptions /\ told' \in GlobalOptions
    BY <1>3, LoadType, InForceType DEF LoadGlobalEnv
  <2> QED
    BY <1>3, <2>1, <2>2 DEF LoadGlobalEnv, ThreadTypes
<1>4. CASE LogInit(t)
  <2>1. NewLogger \in Logger
    BY DEF NewLogger, Logger
  <2>2. ThreadTypes'
    BY <1>4, GotoTypes, OutOfMemoryTypes DEF LogInit, ProgramCounter, Configuring
  <2>3. CASE loggers' = [loggers EXCEPT ![t] = NewLogger] /\ registered' = t
             /\ Goto(t, "store") /\ UNCHANGED logger
    <3>1. pc' = [pc EXCEPT ![t] = "store"]
      BY <2>3 DEF Goto
    <3> QED
      BY <1>4, <2>1, <2>2, <2>3, <3>1 DEF LogInit, ThreadTypes
  <2>4. CASE logger' = Null /\ OutOfMemory(t) /\ UNCHANGED <<loggers, registered>>
    <3>1. pc' = [pc EXCEPT ![t] = "idle"]
      BY <2>4, OutOfMemoryTypes
    <3> QED
      BY <1>4, <2>2, <2>4, <3>1 DEF LogInit, ThreadTypes
  <2> QED
    BY <1>4, <2>3, <2>4 DEF LogInit
<1>5. CASE StoreLogger(t)
  <2>1. ThreadTypes' /\ pc' = [pc EXCEPT ![t] = "enabled"]
    BY <1>5, GotoTypes DEF StoreLogger, ProgramCounter, Configuring
  <2> QED
    BY <1>5, <2>1 DEF StoreLogger, ThreadTypes
<1>6. CASE SetEnabled(t)
  <2>1. \A l \in Logger : [l EXCEPT !["enabled"] = options.LOG_ENABLED] \in Logger
    BY <1>6 DEF SetEnabled, ToLogger, Logger, GlobalOptions
  <2>2. LoggerTypes' /\ ThreadTypes' /\ LoggerAllocated'
    BY <1>6, <2>1, ToLoggerTypes DEF SetEnabled, ProgramCounter, Configuring
  <2> QED
    BY <1>6, <2>2 DEF SetEnabled, ToLogger
<1>7. CASE FreeFilename(t)
  <2> DEFINE x == IF loggers[logger].filename = Null THEN Null ELSE "freed"
  <2>1. \A l \in Logger : [l EXCEPT !["filename"] = x] \in Logger
    BY DEF Logger
  <2>2. LoggerTypes' /\ ThreadTypes' /\ LoggerAllocated'
    BY <1>7, <2>1, ToLoggerTypes DEF FreeFilename, ProgramCounter, Configuring
  <2> QED
    BY <1>7, <2>2 DEF FreeFilename, ToLogger
<1>8. CASE SetFilename(t)
  <2>1. /\ \A l \in Logger : [l EXCEPT !["filename"] = options.LOG_FILE] \in Logger
        /\ \A l \in Logger : [l EXCEPT !["filename"] = Null] \in Logger
    BY <1>8 DEF SetFilename, ToLogger, Logger, GlobalOptions
  <2>2. LoggerTypes' /\ ThreadTypes' /\ LoggerAllocated'
    BY <1>8, <2>1, ToLoggerTypes DEF SetFilename, ProgramCounter, Configuring
  <2> QED
    BY <1>8, <2>2 DEF SetFilename, ToLogger
<1>9. CASE SetLevel(t)
  <2>1. ThreadTypes' /\ pc' = [pc EXCEPT ![t] = "payloads"]
    BY <1>9, GotoTypes DEF SetLevel, ProgramCounter, Configuring
  <2> QED
    BY <1>9, <2>1 DEF SetLevel, ThreadTypes
<1>10. CASE SetPayloads(t)
  <2>1. ThreadTypes' /\ \E l \in {"flag", "idle"} : pc' = [pc EXCEPT ![t] = l]
    BY <1>10, GotoTypes, ReturnTypes
       DEF SetPayloads, ProgramCounter, Configuring, Answer
  <2> DEFINE new == [loggers[logger] EXCEPT !.send_payloads = options.LOG_PAYLOADS]
  <2>2. loggers' = [loggers EXCEPT ![logger] = new] /\ logger # Null
    BY <1>10 DEF SetPayloads
  <2>3. new \in Logger
    BY <1>10 DEF SetPayloads, Logger, GlobalOptions
  <2> HIDE DEF new
  <2>4. new # Null
    BY <2>3
  <2>5. LoggerTypes'
    BY <1>10, <2>2, <2>3, <2>4 DEF SetPayloads
  <2>6. LoggerAllocated'
    BY <2>1, <2>2, <2>4 DEF ThreadTypes
  <2> QED
    BY <1>10, <2>1, <2>5, <2>6 DEF SetPayloads
<1>11. CASE SetInitialized(t)
  BY <1>11 DEF SetInitialized, ThreadTypes, ProgramCounter
<1>12. CASE ConfigureCrashes(t)
  BY <1>12 DEF ConfigureCrashes, Crash, threadVars, ThreadTypes
<1>13. CASE TraceCrashes(t)
  BY <1>13 DEF TraceCrashes, LogCrashes, Crash, threadVars, ThreadTypes
<1>14. CASE Trace(t)
  <2>1. ThreadTypes' /\ \E l \in {"context", "extend"} : pc' = [pc EXCEPT ![t] = l]
    BY <1>14, GotoTypes DEF Trace, AfterTrace, ProgramCounter, Configuring
  <2> QED
    BY <1>14, <2>1 DEF Trace, ThreadTypes
<1>15. CASE ExtendGlobalOptions(t)
  <2>1. ThreadTypes' /\ \E l \in {"enabled", "idle"} : pc' = [pc EXCEPT ![t] = l]
    BY <1>15, GotoTypes, ReturnTypes
       DEF ExtendGlobalOptions, ProgramCounter, Configuring, Answer
  <2>2. options' \in GlobalOptions /\ told' \in GlobalOptions \cup {Null}
    BY <1>15, ExtendType, InForceType DEF ExtendGlobalOptions, ThreadTypes
  <2> QED
    BY <1>15, <2>1, <2>2 DEF ExtendGlobalOptions, ThreadTypes
<1>16. CASE \/ AllocateContext(t) \/ AllocateOptions(t) \/ AllocateWebSocket(t)
  <2>1. \E l \in {"ctx options", "ws", "cloudvars", "fail"} : Goto(t, l)
    BY <1>16 DEF AllocateContext, AllocateOptions, AllocateWebSocket, Allocate
  <2>2. ThreadTypes' /\ \E l \in {"ctx options", "ws", "cloudvars", "fail"} :
                           pc' = [pc EXCEPT ![t] = l]
    BY <2>1, GotoTypes DEF ProgramCounter
  <2>3. UNCHANGED <<globalVars, logVars, crashed, historyVars>>
    BY <1>16 DEF AllocateContext, AllocateOptions, AllocateWebSocket, Allocate
  <2>4. LoggerAllocated'
    BY <2>2, <2>3 DEF ThreadTypes
  <2> QED
    BY <2>2, <2>3, <2>4
<1>17. CASE CreateCloudVars(t) \/ FailContext(t)
  <2>1. ThreadTypes' /\ pc' = [pc EXCEPT ![t] = "idle"]
    BY <1>17, ReturnTypes DEF CreateCloudVars, FailContext, Answer
  <2> QED
    BY <1>17, <2>1 DEF CreateCloudVars, FailContext, ThreadTypes
<1>18. CASE CloudVarsCrash(t)
  BY <1>18 DEF CloudVarsCrash, threadVars, ThreadTypes
<1> QED
  BY <1>1, <1>2, <1>3, <1>4, <1>5, <1>6, <1>7, <1>8, <1>9, <1>10, <1>11, <1>12, <1>13,
     <1>14, <1>15, <1>16, <1>17, <1>18 DEF Step

\* So does the beginning of a call.
LEMMA CallTyped ==
    ASSUME Typed, NEW t \in Thread, Call(t)
    PROVE  Typed'
<1> USE DEF Typed, GlobalTypes, LoggerTypes, HistoryTypes, LoggerAllocated, globalVars,
            logVars, historyVars
<1>1. ASSUME NEW name \in Calls, NEW list \in GlobalArgs \cup {<<>>}, Begin(t, name, list)
      PROVE  Typed'
  <2>1. ThreadTypes'
    <3>1. calls' \in 0..MaxCalls
      BY <1>1, ContextsAssumption DEF Begin, ThreadTypes
    <3>2. pc' \in [Thread -> ProgramCounter]
      BY <1>1 DEF Begin, ThreadTypes, ProgramCounter
    <3> QED
      BY <1>1, <3>1, <3>2 DEF Begin, ThreadTypes, Answer
  <2> QED
    BY <1>1, <2>1 DEF Begin, ThreadTypes
<1>2. CASE InitContext(t)
  BY <1>1, <1>2 DEF InitContext, Calls
<1>3. ASSUME NEW list \in GlobalArgs, SetGlobalOpt(t, list) PROVE Typed'
  BY <1>1, <1>3 DEF SetGlobalOpt, Calls
<1>4. ASSUME NEW list \in ContextArgs, SetOpt(t, list) PROVE Typed'
  BY <1>4 DEF SetOpt, ThreadTypes, ExtendResult, Answer
<1>5. CASE ShutdownContext(t)
  BY <1>5 DEF ShutdownContext, ThreadTypes, Answer
<1>6. ASSUME NEW severity \in 0..5, Message(t, severity) \/ MessageCrashes(t, severity)
      PROVE  Typed'
  BY <1>6 DEF Message, MessageCrashes, LogCrashes, Crash, Meets, threadVars, ThreadTypes
<1>7. CASE SyncCrashes(t)
  BY <1>7 DEF SyncCrashes, Passes, Crash, Meets, threadVars, ThreadTypes
<1> QED
  BY <1>2, <1>3, <1>4, <1>5, <1>6, <1>7 DEF Call

-----------------------------------------------------------------------------
(* Where each thread is in its call *)

\* Idle threads are in order.
LEMMA InitInOrder == Init => ThreadsInOrder
BY DEF Init, ThreadsInOrder, InOrder, Writing, Creating, Configuring

\* A thread moves on, to a place that is in order for its call.
LEMMA GotoInOrder ==
    ASSUME ThreadTypes, ThreadsInOrder, NEW t \in Thread, pc[t] # "idle",
           NEW l \in ProgramCounter \ {"idle"}, Goto(t, l),
           l \in Creating => call[t] = "canopy_init_context",
           l = "extend" => call[t] = "canopy_set_global_opt",
           first[t] => l \in Writing,
           l \in {"options", "env", "logger", "store", "flag"} => first[t],
           l \in Writing /\ ~first[t] => call[t] = "canopy_set_global_opt"
    PROVE  ThreadsInOrder'
<1>1. /\ pc' = [pc EXCEPT ![t] = l]
      /\ UNCHANGED <<call, first>>
  BY DEF Goto
<1>2. \A u \in Thread \ {t} : InOrder(u)'
  BY <1>1 DEF ThreadTypes, ThreadsInOrder, InOrder
<1>3. InOrder(t)'
  BY <1>1 DEF ThreadTypes, ThreadsInOrder, InOrder
<1> QED
  BY <1>2, <1>3 DEF ThreadsInOrder

\* A thread that returns is idle, and in order.
LEMMA ReturnInOrder ==
    ASSUME ThreadTypes, ThreadsInOrder, NEW t \in Thread, NEW r, Return(t, r)
    PROVE  ThreadsInOrder'
BY DEF Return, ThreadTypes, ThreadsInOrder, InOrder, Writing, Creating, Configuring

\* Every statement leaves its thread at a place that is in order.
LEMMA StepInOrder ==
    ASSUME ThreadTypes, ThreadsInOrder, NEW t \in Thread, Step(t)
    PROVE  ThreadsInOrder'
<1> USE DEF Writing, Creating, Configuring
<1>0. InOrder(t) /\ \A l \in Configuring \cup Creating \cup {"trace"} :
                        l \in ProgramCounter \ {"idle"}
  BY DEF ThreadsInOrder, ProgramCounter
<1>1. CASE TestInitialized(t)
  BY <1>1 DEF TestInitialized, ThreadTypes, ThreadsInOrder, InOrder
<1>2. CASE NewGlobalOptions(t)
  BY <1>0, <1>2, GotoInOrder, ReturnInOrder DEF NewGlobalOptions, OutOfMemory, InOrder
<1>3. CASE LoadGlobalEnv(t)
  BY <1>0, <1>3, GotoInOrder DEF LoadGlobalEnv, InOrder
<1>4. CASE LogInit(t)
  BY <1>0, <1>4, GotoInOrder, ReturnInOrder DEF LogInit, OutOfMemory, InOrder
<1>5. CASE StoreLogger(t)
  BY <1>0, <1>5, GotoInOrder DEF StoreLogger, InOrder
<1>6. CASE SetEnabled(t)
  BY <1>0, <1>6, GotoInOrder DEF SetEnabled, ToLogger, InOrder
<1>7. CASE FreeFilename(t)
  BY <1>0, <1>7, GotoInOrder DEF FreeFilename, ToLogger, InOrder
<1>8. CASE SetFilename(t)
  BY <1>0, <1>8, GotoInOrder DEF SetFilename, ToLogger, InOrder
<1>9. CASE SetLevel(t)
  BY <1>0, <1>9, GotoInOrder DEF SetLevel, InOrder
<1>10. CASE SetPayloads(t)
  BY <1>0, <1>10, GotoInOrder, ReturnInOrder DEF SetPayloads, InOrder
<1>11. CASE SetInitialized(t)
  BY <1>0, <1>11 DEF SetInitialized, ThreadTypes, ThreadsInOrder, InOrder
<1>12. CASE ConfigureCrashes(t) \/ TraceCrashes(t) \/ CloudVarsCrash(t)
  BY <1>12 DEF ConfigureCrashes, TraceCrashes, LogCrashes, Crash, CloudVarsCrash,
               threadVars, ThreadsInOrder, InOrder
<1>13. CASE Trace(t)
  <2>1. call[t] \in {"canopy_init_context", "canopy_set_global_opt"}
    BY <1>0, <1>13 DEF Trace, InOrder, ThreadTypes, Calls
  <2> QED
    BY <1>0, <1>13, <2>1, GotoInOrder DEF Trace, AfterTrace, InOrder
<1>14. CASE ExtendGlobalOptions(t)
  BY <1>0, <1>14, GotoInOrder, ReturnInOrder DEF ExtendGlobalOptions, InOrder
<1>15. CASE AllocateContext(t) \/ AllocateOptions(t) \/ AllocateWebSocket(t)
  BY <1>0, <1>15, GotoInOrder
     DEF AllocateContext, AllocateOptions, AllocateWebSocket, Allocate, InOrder
<1>16. CASE CreateCloudVars(t) \/ FailContext(t)
  BY <1>16, ReturnInOrder DEF CreateCloudVars, FailContext
<1> QED
  BY <1>1, <1>2, <1>3, <1>4, <1>5, <1>6, <1>7, <1>8, <1>9, <1>10, <1>11, <1>12, <1>13,
     <1>14, <1>15, <1>16 DEF Step

\* So does the beginning of a call.
LEMMA CallInOrder ==
    ASSUME ThreadTypes, ThreadsInOrder, NEW t \in Thread, Call(t)
    PROVE  ThreadsInOrder'
<1> USE DEF ThreadsInOrder, InOrder
<1>1. ASSUME NEW name \in Calls \ {"none"}, NEW list, Begin(t, name, list)
      PROVE  ThreadsInOrder'
  BY <1>1 DEF Begin, ThreadTypes, Writing, Creating, Configuring
<1>2. CASE InitContext(t)
  BY <1>1, <1>2 DEF InitContext, Calls
<1>3. ASSUME NEW list \in GlobalArgs, SetGlobalOpt(t, list) PROVE ThreadsInOrder'
  BY <1>1, <1>3 DEF SetGlobalOpt, Calls
<1>4. ASSUME NEW list \in ContextArgs, SetOpt(t, list) PROVE ThreadsInOrder'
  BY <1>4 DEF SetOpt
<1>5. CASE ShutdownContext(t)
  BY <1>5 DEF ShutdownContext
<1>6. ASSUME NEW severity \in 0..5, Message(t, severity) \/ MessageCrashes(t, severity)
      PROVE  ThreadsInOrder'
  BY <1>6 DEF Message, MessageCrashes, LogCrashes, Crash, threadVars
<1>7. CASE SyncCrashes(t)
  BY <1>7 DEF SyncCrashes, Crash, threadVars
<1> QED
  BY <1>2, <1>3, <1>4, <1>5, <1>6, <1>7 DEF Call

-----------------------------------------------------------------------------
(* How far each context is *)

ContextsInOrder == ContextTypes /\ ContextsAsFarAs

\* At first there are no contexts.
LEMMA InitContexts == Init => ContextsInOrder
BY DEF Init, ContextsInOrder, ContextTypes, ContextsAsFarAs, AsFarAs, Creating

\* What canopy_init_context puts together is a context, at every point.
LEMMA MadeIsContext ==
    /\ IsContext(NewContext)
    /\ \A w, v \in BOOLEAN : IsContext(Made(w, v))
    /\ DOMAIN FromEnv = DOMAIN ContextDefault
    /\ [NewContext EXCEPT !.options = FromEnv] = Made(FALSE, FALSE)
    /\ [Made(FALSE, FALSE) EXCEPT !.ws = TRUE] = Made(TRUE, FALSE)
    /\ \A w \in BOOLEAN : [Made(w, FALSE) EXCEPT !.cloudvars = TRUE] = Made(w, TRUE)
    /\ \A w, v \in BOOLEAN : Made(w, v).options = FromEnv
<1>1. DOMAIN FromEnv = DOMAIN ContextDefault
  BY DEF FromEnv, LoadFromEnv
<1>2. IsContext(NewContext)
  BY DEF IsContext, NewContext
<1>3. \A w, v \in BOOLEAN : IsContext(Made(w, v))
  BY <1>1 DEF IsContext, Made
<1>4. ASSUME NEW c, c = NewContext, NEW d, d = [c EXCEPT !.options = FromEnv]
      PROVE  d = Made(FALSE, FALSE)
  BY <1>4 DEF NewContext, Made
<1>5. ASSUME NEW c, c = Made(FALSE, FALSE), NEW d, d = [c EXCEPT !.ws = TRUE]
      PROVE  d = Made(TRUE, FALSE)
  BY <1>5 DEF Made
<1>6. ASSUME NEW w \in BOOLEAN, NEW c, c = Made(w, FALSE),
             NEW d, d = [c EXCEPT !.cloudvars = TRUE]
      PROVE  d = Made(w, TRUE)
  BY <1>6 DEF Made
<1>7. \A w, v \in BOOLEAN : Made(w, v).options = FromEnv
  BY DEF Made
<1> QED
  BY <1>1, <1>2, <1>3, <1>4, <1>5, <1>6, <1>7

\* A step of a thread leaves the others where they are, and their contexts.
LEMMA StepIsOwn ==
    ASSUME ThreadTypes, ContextTypes, NEW t \in Thread, Step(t) \/ Call(t)
    PROVE  /\ DOMAIN context' = Thread
           /\ \A u \in Thread \ {t} :
                 /\ pc'[u] = pc[u] /\ call'[u] = call[u]
                 /\ first'[u] = first[u] /\ context'[u] = context[u]
<1> USE DEF ThreadTypes, ContextTypes, Goto, Return, threadVars
<1>1. CASE TestInitialized(t) \/ NewGlobalOptions(t) \/ LoadGlobalEnv(t)
  BY <1>1 DEF TestInitialized, NewGlobalOptions, LoadGlobalEnv, OutOfMemory
<1>2. CASE LogInit(t) \/ StoreLogger(t) \/ SetLevel(t) \/ SetPayloads(t)
  BY <1>2 DEF LogInit, StoreLogger, SetLevel, SetPayloads, OutOfMemory
<1>3. CASE SetEnabled(t) \/ FreeFilename(t) \/ SetFilename(t)
  BY <1>3 DEF SetEnabled, FreeFilename, SetFilename, ToLogger
<1>4. CASE SetInitialized(t) \/ ConfigureCrashes(t) \/ TraceCrashes(t) \/ CloudVarsCrash(t)
  BY <1>4 DEF SetInitialized, ConfigureCrashes, TraceCrashes, CloudVarsCrash, LogCrashes,
              Crash
<1>5. CASE Trace(t) \/ ExtendGlobalOptions(t)
  BY <1>5 DEF Trace, AfterTrace, ExtendGlobalOptions
<1>6. CASE AllocateContext(t) \/ AllocateOptions(t) \/ AllocateWebSocket(t)
  BY <1>6 DEF AllocateContext, AllocateOptions, AllocateWebSocket, Allocate
<1>7. CASE CreateCloudVars(t) \/ FailContext(t)
  BY <1>7 DEF CreateCloudVars, FailContext
<1>8. CASE Call(t)
  BY <1>8 DEF Call, InitContext, SetGlobalOpt, Begin, SetOpt, ShutdownContext, Message,
              MessageCrashes, SyncCrashes, LogCrashes, Crash
<1> QED
  BY <1>1, <1>2, <1>3, <1>4, <1>5, <1>6, <1>7, <1>8 DEF Step

\* What there is of the context of a thread that was not at work on it.
InOrderContext(t) == (context[t] = Null \/ IsContext(context[t])) /\ AsFarAs(t)

\* A thread makes its own context as far as it is, and leaves those of others alone.
LEMMA StepContexts ==
    ASSUME ThreadTypes, ThreadsInOrder, ContextsInOrder, NEW t \in Thread,
           Step(t) \/ Call(t)
    PROVE  ContextsInOrder'
<1> DEFINE same == context'[t] = context[t] /\ call'[t] = call[t]
<1>1. \A u \in Thread : InOrder(u) /\ InOrderContext(u)
  BY DEF ThreadsInOrder, ContextsInOrder, ContextTypes, ContextsAsFarAs, InOrderContext
<1>2. /\ DOMAIN context' = Thread
      /\ \A u \in Thread \ {t} :
            pc'[u] = pc[u] /\ call'[u] = call[u] /\ context'[u] = context[u]
  BY StepIsOwn DEF ContextsInOrder
<1>3. ASSUME NEW u \in Thread \ {t} PROVE InOrderContext(u)'
  <2>1. /\ pc'[u] = pc[u] /\ call'[u] = call[u] /\ context'[u] = context[u]
        /\ InOrderContext(u)
    BY <1>1, <1>2
  <2>2. IsContext(context[u]) => IsContext(context[u])'
    BY <2>1 DEF IsContext
  <2>3. AsFarAs(u)'
    BY <2>1, Zenon DEF AsFarAs, InOrderContext
  <2> QED
    BY <2>1, <2>2, <2>3 DEF InOrderContext
<1>4. DOMAIN context = Thread
  BY DEF ContextsInOrder, ContextTypes
<1>5. InOrderContext(t)'
  <2> USE <1>1, <1>4 DEF Writing, Creating, Configuring, ThreadTypes
  <2>1. CASE same /\ pc[t] \notin {"ctx options", "ws", "cloudvars", "fail"}
             /\ pc'[t] \notin {"ctx options", "ws", "cloudvars", "fail"}
    BY <2>1 DEF InOrderContext, AsFarAs
  <2>2. CASE /\ context'[t] = context[t] /\ pc[t] \notin {"ctx options", "fail"}
             /\ pc'[t] = "idle" /\ call'[t] # "canopy_init_context"
    BY <2>2 DEF InOrderContext, AsFarAs
  <2>3. CASE \/ TestInitialized(t) \/ LoadGlobalEnv(t) \/ StoreLogger(t) \/ SetLevel(t)
             \/ SetEnabled(t) \/ FreeFilename(t) \/ SetFilename(t) \/ SetInitialized(t)
    BY <2>1, <2>3
       DEF TestInitialized, LoadGlobalEnv, StoreLogger, SetLevel, SetEnabled,
           FreeFilename, SetFilename, SetInitialized, ToLogger, Goto
  <2>4. CASE \/ NewGlobalOptions(t) \/ LogInit(t) \/ SetPayloads(t)
             \/ ExtendGlobalOptions(t)
    BY <2>1, <2>2, <2>4
       DEF NewGlobalOptions, LogInit, SetPayloads, ExtendGlobalOptions, OutOfMemory,
           Goto, Return
  <2>5. CASE Trace(t)
    BY <2>1, <2>5 DEF Trace, AfterTrace, Goto
  <2>6. CASE ConfigureCrashes(t) \/ TraceCrashes(t) \/ CloudVarsCrash(t)
    BY <2>6 DEF ConfigureCrashes, TraceCrashes, CloudVarsCrash, LogCrashes, Crash,
                threadVars, InOrderContext, AsFarAs
  <2>7. CASE AllocateContext(t)
    <3>1. InOrder(t) /\ call'[t] = "canopy_init_context"
      BY <2>7 DEF AllocateContext, Allocate, Goto, InOrder
    <3>2. CASE context'[t] = NewContext /\ pc'[t] = "ctx options"
      BY <3>1, <3>2, MadeIsContext DEF InOrderContext, AsFarAs
    <3>3. CASE context'[t] = Null /\ pc'[t] = "fail"
      BY <3>3 DEF InOrderContext, AsFarAs
    <3> QED
      BY <2>7, <3>2, <3>3 DEF AllocateContext, Allocate, Goto
  <2>8. CASE AllocateOptions(t)
    <3>1. context[t] = NewContext /\ pc[t] = "ctx options"
      BY <2>8 DEF AllocateOptions, Allocate, InOrderContext, AsFarAs
    <3>2. CASE context'[t] = Made(FALSE, FALSE) /\ pc'[t] = "ws"
      BY <3>2, MadeIsContext DEF InOrderContext, AsFarAs
    <3>3. CASE context'[t] = NewContext /\ pc'[t] = "fail"
      BY <3>3, MadeIsContext DEF InOrderContext, AsFarAs
    <3> QED
      BY <2>8, <3>1, <3>2, <3>3, MadeIsContext DEF AllocateOptions, Allocate, Goto, FromEnv
  <2>9. CASE AllocateWebSocket(t)
    <3>1. context[t] = Made(FALSE, FALSE) /\ pc[t] = "ws"
      BY <2>9 DEF AllocateWebSocket, Allocate, InOrderContext, AsFarAs
    <3>2. /\ pc'[t] = "cloudvars"
          /\ \/ context'[t] = Made(TRUE, FALSE)
             \/ context'[t] = Made(FALSE, FALSE) /\ "websocket" \in MayFail
      BY <2>9, <3>1, MadeIsContext DEF AllocateWebSocket, Allocate, Goto
    <3>3. IsContext(context'[t]) /\ DOMAIN context'[t].options = DOMAIN ContextDefault
      BY <3>2, MadeIsContext
    <3>4. AsFarAs(t)'
      BY <3>2, <3>3 DEF AsFarAs
    <3> QED
      BY <3>3, <3>4 DEF InOrderContext, IsContext
  <2>10. CASE CreateCloudVars(t)
    <3>1. \E w \in BOOLEAN : context[t] = Made(w, FALSE)
      BY <2>10 DEF CreateCloudVars, InOrderContext, AsFarAs
    <3>2. /\ \E w \in BOOLEAN : context'[t] = Made(w, TRUE)
          /\ pc'[t] = "idle" /\ call'[t] = "none"
      BY <2>10, <3>1, MadeIsContext DEF CreateCloudVars, Return
    <3>3. IsContext(context'[t]) /\ DOMAIN context'[t].options = DOMAIN ContextDefault
      BY <3>2, MadeIsContext
    <3>4. AsFarAs(t)'
      BY <3>2, <3>3 DEF AsFarAs
    <3> QED
      BY <3>3, <3>4 DEF InOrderContext, IsContext
  <2>11. CASE FailContext(t)
    BY <2>11 DEF FailContext, Return, InOrderContext, AsFarAs
  <2>12. ASSUME NEW name, NEW list, Begin(t, name, list),
                name = "canopy_init_context" => context[t] = Null
         PROVE  InOrderContext(t)'
    BY <2>12 DEF Begin, InOrderContext, AsFarAs
  <2>13. CASE InitContext(t)
    BY <2>12, <2>13 DEF InitContext
  <2>14. ASSUME NEW list \in GlobalArgs, SetGlobalOpt(t, list)
         PROVE  InOrderContext(t)'
    BY <2>12, <2>14 DEF SetGlobalOpt
  <2>15. ASSUME NEW list \in ContextArgs, SetOpt(t, list)
         PROVE  InOrderContext(t)'
    <3> DEFINE more == Extend(context[t].options, list)
    <3>1. IsContext(context[t]) /\ DOMAIN context[t].options = DOMAIN ContextDefault
      BY <2>15 DEF SetOpt, InOrderContext, AsFarAs
    <3>2. DOMAIN more = DOMAIN ContextDefault
      BY <3>1 DEF Extend
    <3> HIDE DEF more
    <3>3. /\ context'[t] = [context[t] EXCEPT !.options = more]
          /\ pc'[t] = "idle" /\ call'[t] = call[t] /\ call[t] = "none"
      BY <2>15 DEF SetOpt, InOrder, more
    <3> QED
      BY <3>1, <3>2, <3>3 DEF InOrderContext, AsFarAs, IsContext
  <2>16. CASE ShutdownContext(t)
    BY <2>16 DEF ShutdownContext, InOrderContext, AsFarAs
  <2>17. ASSUME NEW severity \in 0..5, Message(t, severity) \/ MessageCrashes(t, severity)
         PROVE  InOrderContext(t)'
    BY <2>17 DEF Message, MessageCrashes, LogCrashes, Crash, threadVars, InOrderContext,
                 AsFarAs
  <2>s. CASE SyncCrashes(t)
    BY <2>s DEF SyncCrashes, Crash, threadVars, InOrderContext, AsFarAs
  <2>18. CASE Call(t)
    BY <2>13, <2>14, <2>15, <2>16, <2>17, <2>s, <2>18 DEF Call
  <2> QED
    BY <2>3, <2>4, <2>5, <2>6, <2>7, <2>8, <2>9, <2>10, <2>11, <2>18 DEF Step
<1> QED
  BY <1>2, <1>3, <1>5
     DEF ContextsInOrder, ContextTypes, ContextsAsFarAs, InOrderContext

-----------------------------------------------------------------------------
(* The global state, as long as no two threads meet *)

Ordered == Typed /\ ThreadsInOrder /\ ContextsInOrder

\* No step forgets that threads met, or that a failure went unseen.
LEMMA HistoryStays ==
    ASSUME HistoryTypes, NEW t \in Thread, Step(t) \/ Call(t)
    PROVE  (overlapped => overlapped') /\ (unchecked => unchecked')
<1> USE DEF HistoryTypes, historyVars, Meets
<1>1. CASE \/ TestInitialized(t) \/ NewGlobalOptions(t) \/ LoadGlobalEnv(t) \/ LogInit(t)
           \/ StoreLogger(t) \/ SetLevel(t) \/ SetPayloads(t) \/ SetInitialized(t)
  BY <1>1 DEF TestInitialized, NewGlobalOptions, LoadGlobalEnv, LogInit, StoreLogger,
              SetLevel, SetPayloads, SetInitialized
<1>2. CASE SetEnabled(t) \/ FreeFilename(t) \/ SetFilename(t)
  BY <1>2 DEF SetEnabled, FreeFilename, SetFilename, ToLogger
<1>3. CASE \/ ConfigureCrashes(t) \/ Trace(t) \/ TraceCrashes(t) \/ ExtendGlobalOptions(t)
           \/ CloudVarsCrash(t)
  BY <1>3 DEF ConfigureCrashes, Trace, TraceCrashes, LogCrashes, Crash,
              ExtendGlobalOptions, CloudVarsCrash
<1>4. CASE \/ AllocateContext(t) \/ AllocateOptions(t) \/ AllocateWebSocket(t)
           \/ CreateCloudVars(t) \/ FailContext(t)
  BY <1>4 DEF AllocateContext, AllocateOptions, AllocateWebSocket, Allocate,
              CreateCloudVars, FailContext
<1>5. CASE Call(t)
  BY <1>5 DEF Call, InitContext, SetGlobalOpt, Begin, SetOpt, ShutdownContext, Message,
              MessageCrashes, SyncCrashes, LogCrashes, Crash
<1> QED
  BY <1>1, <1>2, <1>3, <1>4, <1>5 DEF Step

\* At first nothing is written and nobody writes.
LEMMA InitAlone == Init => Alone
BY DEF Init, Alone, OneWrites, GlobalsAsFarAs, LoggerAsFarAs, LoggerAt, Writing, Registered, Stored,
       Configuring

\* What a step is that has nothing to do with the global state.
Aside(t) ==
    /\ UNCHANGED <<globalVars, logVars, told>>
    /\ \/ pc'[t] = pc[t] /\ first'[t] = first[t]
       \/ pc[t] \notin Writing /\ pc'[t] \notin Writing /\ ~first'[t]
    /\ pc'[t] \in {"trace", "extend"} => pc[t] \in {"trace", "extend"}

\* Every call begins, and every context is made, aside.
LEMMA AsideSteps ==
    ASSUME ThreadTypes, ThreadsInOrder, NEW t \in Thread,
           \/ Call(t) \/ Trace(t) \/ TraceCrashes(t) \/ ConfigureCrashes(t)
           \/ AllocateContext(t) \/ AllocateOptions(t) \/ AllocateWebSocket(t)
           \/ CreateCloudVars(t) \/ CloudVarsCrash(t) \/ FailContext(t)
    PROVE  Aside(t)
<1> USE DEF Aside, ThreadTypes, threadVars, historyVars, globalVars, logVars, Goto, Return,
            Writing, Configuring
<1>0. InOrder(t)
  BY DEF ThreadsInOrder
<1>1. CASE Trace(t)
  BY <1>0, <1>1 DEF Trace, AfterTrace, InOrder
<1>2. CASE TraceCrashes(t) \/ ConfigureCrashes(t) \/ CloudVarsCrash(t)
  BY <1>2 DEF TraceCrashes, ConfigureCrashes, CloudVarsCrash, LogCrashes, Crash
<1>3. CASE AllocateContext(t) \/ AllocateOptions(t) \/ AllocateWebSocket(t)
  BY <1>0, <1>3 DEF AllocateContext, AllocateOptions, AllocateWebSocket, Allocate, InOrder
<1>4. CASE CreateCloudVars(t) \/ FailContext(t)
  BY <1>4 DEF CreateCloudVars, FailContext
<1>5. CASE InitContext(t) \/ \E list \in GlobalArgs : SetGlobalOpt(t, list)
  BY <1>0, <1>5 DEF InitContext, SetGlobalOpt, Begin, InOrder
<1>6. CASE \/ \E list \in ContextArgs : SetOpt(t, list)
           \/ ShutdownContext(t)
           \/ \E severity \in 0..5 : Message(t, severity) \/ MessageCrashes(t, severity)
           \/ SyncCrashes(t)
  BY <1>6 DEF SetOpt, ShutdownContext, Message, MessageCrashes, SyncCrashes, LogCrashes, Crash
<1> QED
  BY <1>1, <1>2, <1>3, <1>4, <1>5, <1>6 DEF Call

\* One writes at most, also after a step that does not meet anyone.
LEMMA StepOneWrites ==
    ASSUME Ordered, OneWrites, NEW t \in Thread, Step(t) \/ Call(t), ~overlapped'
    PROVE  OneWrites'
<1> USE DEF Ordered, Typed
<1>1. \A u \in Thread \ {t} : pc'[u] = pc[u] /\ first'[u] = first[u]
  BY StepIsOwn DEF ContextsInOrder
<1>2. CASE /\ UNCHANGED initialized
           /\ pc'[t] \in Writing => pc[t] \in Writing /\ first'[t] = first[t]
           /\ pc'[t] \in {"trace", "extend"} => pc[t] \in {"trace", "extend"}
  BY <1>1, <1>2 DEF OneWrites
<1> USE DEF Writing, Configuring, ThreadTypes
<1>3. CASE Aside(t)
  BY <1>2, <1>3 DEF Aside, globalVars
<1>4. CASE TestInitialized(t)
  <2>1. UNCHANGED initialized /\ (~initialized => ~Others(t))
    BY <1>4 DEF TestInitialized, Meets, globalVars
  <2>2. /\ first'[t] = ~initialized
        /\ pc'[t] = IF initialized THEN "trace" ELSE "options"
    BY <1>4 DEF TestInitialized
  <2>3. CASE initialized
    BY <1>1, <2>1, <2>2, <2>3 DEF OneWrites
  <2>4. CASE ~initialized
    <3>1. \A u \in Thread \ {t} : pc'[u] \notin Writing
      BY <1>1, <2>1, <2>4 DEF Others
    <3>2. \A u \in Thread \ {t} : pc'[u] \notin {"trace", "extend"}
      BY <1>1, <2>4 DEF OneWrites
    <3> QED
      BY <2>1, <2>2, <2>4, <3>1, <3>2 DEF OneWrites
  <2> QED
    BY <2>3, <2>4
<1>5. CASE \/ NewGlobalOptions(t) \/ LoadGlobalEnv(t) \/ LogInit(t) \/ StoreLogger(t)
           \/ SetLevel(t) \/ SetPayloads(t)
  BY <1>2, <1>5 DEF NewGlobalOptions, LoadGlobalEnv, LogInit, StoreLogger, SetLevel,
                    SetPayloads, OutOfMemory, Goto, Return, globalVars
<1>6. CASE SetEnabled(t) \/ FreeFilename(t) \/ SetFilename(t)
  BY <1>2, <1>6 DEF SetEnabled, FreeFilename, SetFilename, ToLogger, Goto, globalVars
<1>7. CASE SetInitialized(t)
  BY <1>1, <1>7 DEF SetInitialized, OneWrites
<1>8. CASE ExtendGlobalOptions(t)
  <2>1. /\ UNCHANGED initialized /\ ~Others(t) /\ first'[t] = FALSE
        /\ pc[t] = "extend" /\ pc'[t] \in {"enabled", "idle"}
    BY <1>8 DEF ExtendGlobalOptions, Meets, Goto, Return, ThreadsInOrder, InOrder
  <2> QED
    BY <1>1, <2>1 DEF OneWrites, Others
<1> QED
  BY <1>3, <1>4, <1>5, <1>6, <1>7, <1>8, AsideSteps DEF Step

\* While t writes, the state is as far as t is.
LEMMA StepGlobals ==
    ASSUME Ordered, OneWrites, GlobalsAsFarAs, NEW t \in Thread, Step(t) \/ Call(t),
           ~overlapped'
    PROVE  GlobalsAsFarAs'
<1> USE ContextsAssumption DEF Ordered, Typed
<1>0. /\ \A u \in Thread \ {t} : pc'[u] = pc[u] /\ first'[u] = first[u]
      /\ InOrder(t)
  BY StepIsOwn DEF ContextsInOrder, ThreadsInOrder
<1> USE DEF Writing, Configuring, Registered, Stored, ThreadTypes
<1>1. CASE Aside(t)
  BY <1>0, <1>1 DEF Aside, GlobalsAsFarAs, globalVars, logVars
<1>2. CASE TestInitialized(t)
  <2>1. /\ UNCHANGED <<initialized, options, logger, loggers, registered>>
        /\ pc[t] = "global" /\ pc'[t] \in {"trace", "options"}
    BY <1>2 DEF TestInitialized, globalVars, logVars
  <2> QED
    BY <1>0, <2>1 DEF GlobalsAsFarAs
<1> SUFFICES ASSUME pc[t] \in Writing \/ ExtendGlobalOptions(t)
             PROVE  GlobalsAsFarAs'
  <2>1. ASSUME ~Aside(t), ~TestInitialized(t)
        PROVE  pc[t] \in Writing \/ ExtendGlobalOptions(t)
    BY <2>1, AsideSteps
       DEF Step, NewGlobalOptions, LoadGlobalEnv, LogInit, StoreLogger, SetEnabled,
           FreeFilename, SetFilename, ToLogger, SetLevel, SetPayloads, SetInitialized
  <2> QED
    BY <1>1, <1>2, <2>1
<1>3. \A u \in Thread \ {t} : pc[u] \notin Writing /\ pc'[u] \notin Writing
  BY <1>0, HistoryStays DEF OneWrites, ExtendGlobalOptions, Meets, Others
<1>4. CASE NewGlobalOptions(t)
  <2>1. /\ UNCHANGED <<initialized, logger, registered>> /\ pc[t] = "options"
        /\ \/ options' = GlobalDefault /\ pc'[t] = "env"
           \/ pc'[t] = "idle"
    BY <1>4 DEF NewGlobalOptions, OutOfMemory, Goto, Return, globalVars, logVars
  <2>2. GlobalDefault # Null /\ ~initialized
    BY <1>0, <2>1, DefaultType DEF InOrder, OneWrites
  <2> QED
    BY <1>3, <2>1, <2>2 DEF GlobalsAsFarAs
<1>5. CASE LoadGlobalEnv(t)
  <2>1. /\ UNCHANGED <<initialized, logger, registered>>
        /\ pc[t] = "env" /\ pc'[t] = "logger" /\ options' \in GlobalOptions
    BY <1>5, LoadType DEF LoadGlobalEnv, Goto, globalVars, logVars, GlobalTypes
  <2> QED
    BY <1>3, <2>1 DEF GlobalsAsFarAs
<1>6. CASE LogInit(t)
  <2>1. /\ UNCHANGED <<initialized, options>> /\ pc[t] = "logger" /\ ~initialized
        /\ \/ registered' = t /\ loggers'[t] = NewLogger /\ pc'[t] = "store"
           \/ registered' = registered /\ pc'[t] = "idle"
    BY <1>0, <1>6 DEF LogInit, OutOfMemory, Goto, Return, LoggerTypes, InOrder, OneWrites
  <2> QED
    BY <1>3, <2>1 DEF GlobalsAsFarAs
<1>7. CASE StoreLogger(t)
  <2>1. /\ UNCHANGED <<initialized, options, registered>> /\ ~initialized
        /\ pc[t] = "store" /\ pc'[t] = "enabled" /\ logger' = t
    BY <1>0, <1>7 DEF StoreLogger, Goto, logVars, InOrder, OneWrites
  <2> QED
    BY <1>3, <2>1 DEF GlobalsAsFarAs
<1>8. CASE SetEnabled(t) \/ FreeFilename(t) \/ SetFilename(t) \/ SetLevel(t)
  <2>1. /\ UNCHANGED <<initialized, options, logger, registered>>
        /\ pc[t] \in Stored /\ pc'[t] \in Stored
    BY <1>8 DEF SetEnabled, FreeFilename, SetFilename, ToLogger, SetLevel, Goto, globalVars
  <2> QED
    BY <1>3, <2>1 DEF GlobalsAsFarAs
<1>9. CASE SetPayloads(t)
  <2>1. /\ UNCHANGED <<initialized, options, logger, registered>> /\ pc[t] = "payloads"
        /\ pc'[t] = IF first[t] THEN "flag" ELSE "idle"
    BY <1>9 DEF SetPayloads, Goto, Return, globalVars
  <2>2. ~first[t] => initialized
    BY <2>1 DEF OneWrites
  <2> QED
    BY <1>3, <2>1, <2>2 DEF GlobalsAsFarAs
<1>10. CASE SetInitialized(t)
  <2>1. /\ UNCHANGED <<options, logger, registered>> /\ initialized'
        /\ pc[t] = "flag" /\ pc'[t] = "trace"
    BY <1>10 DEF SetInitialized, logVars
  <2> QED
    BY <1>3, <2>1 DEF GlobalsAsFarAs
<1>11. CASE ExtendGlobalOptions(t)
  <2>1. /\ UNCHANGED <<initialized, logger, registered>> /\ pc[t] = "extend"
        /\ pc'[t] \in {"enabled", "idle"} /\ options' \in GlobalOptions
    BY <1>11, ExtendType
       DEF ExtendGlobalOptions, Goto, Return, logVars, GlobalTypes
  <2>2. initialized
    BY <2>1 DEF OneWrites
  <2> QED
    BY <1>3, <2>1, <2>2 DEF GlobalsAsFarAs
<1> QED
  BY <1>1, <1>2, <1>4, <1>5, <1>6, <1>7, <1>8, <1>9, <1>10, <1>11, AsideSteps DEF Step

\* The logger that RedLog calls is given one of its fields.
LEMMA LoggerField ==
    ASSUME LoggerTypes, NEW t \in Thread, registered = logger,
           NEW here, NEW field \in {"enabled", "filename", "send_payloads"}, NEW x,
           NEW there, ToLogger(t, here, field, x, there)
    PROVE  /\ loggers'[registered][field] = x
           /\ \A f \in {"enabled", "filename", "send_payloads"} \ {field} :
                 loggers'[registered][f] = loggers[registered][f]
<1>1. /\ logger \in Thread /\ loggers[logger] \in Logger
      /\ loggers' = [loggers EXCEPT ![logger] = [loggers[logger] EXCEPT ![field] = x]]
  BY DEF ToLogger, LoggerTypes
<1> QED
  BY <1>1 DEF LoggerTypes, Logger

\* So is the logger.
LEMMA StepLogger ==
    ASSUME Ordered, OneWrites, GlobalsAsFarAs, LoggerAsFarAs, NEW t \in Thread,
           Step(t) \/ Call(t), ~overlapped'
    PROVE  LoggerAsFarAs'
<1> USE ContextsAssumption DEF Ordered, Typed
<1>0. /\ \A u \in Thread \ {t} : pc'[u] = pc[u]
      /\ unchecked => unchecked'
      /\ InOrder(t)
  BY StepIsOwn, HistoryStays DEF ContextsInOrder, ThreadsInOrder
<1>1. CASE Aside(t)
  <2>1. /\ UNCHANGED <<initialized, options, loggers, registered, level, told>>
        /\ pc'[t] = pc[t] \/ (pc[t] \notin Writing /\ pc'[t] \notin Writing)
    BY <1>1 DEF Aside, globalVars, logVars
  <2> SUFFICES ASSUME NEW v \in Thread, \A u \in Thread \ {v} : (pc[u] \notin Writing)'
               PROVE  LoggerAt(v)'
    BY DEF LoggerAsFarAs
  <2>2. /\ LoggerAt(v)
        /\ pc'[v] = pc[v] \/ (pc[v] \notin Writing /\ pc'[v] \notin Writing)
    BY <1>0, <2>1 DEF LoggerAsFarAs
  <2> QED
    BY <1>0, <2>1, <2>2 DEF LoggerAt, Shows, InForce, Writing, Configuring
<1>2. CASE TestInitialized(t)
  <2>1. /\ UNCHANGED <<initialized, options, loggers, registered, level, told>>
        /\ UNCHANGED unchecked
        /\ pc[t] = "global" /\ pc'[t] = IF initialized THEN "trace" ELSE "options"
    BY <1>2 DEF TestInitialized, globalVars, logVars, ThreadTypes
  <2> SUFFICES ASSUME NEW v \in Thread, \A u \in Thread \ {v} : (pc[u] \notin Writing)'
               PROVE  LoggerAt(v)'
    BY DEF LoggerAsFarAs
  <2>2. LoggerAt(v)
    BY <1>0, <2>1 DEF LoggerAsFarAs, Writing, Configuring
  <2> QED
    BY <1>0, <2>1, <2>2 DEF LoggerAt, Shows, InForce, Writing, Configuring
<1> SUFFICES ASSUME pc[t] \in Writing \/ ExtendGlobalOptions(t)
             PROVE  LoggerAsFarAs'
  <2>1. ASSUME ~Aside(t), ~TestInitialized(t)
        PROVE  pc[t] \in Writing \/ ExtendGlobalOptions(t)
    BY <2>1, AsideSteps
       DEF Step, NewGlobalOptions, LoadGlobalEnv, LogInit, StoreLogger, SetEnabled,
           FreeFilename, SetFilename, ToLogger, SetLevel, SetPayloads, SetInitialized,
           Writing, Configuring
  <2> QED
    BY <1>1, <1>2, <2>1
<1>3. \A u \in Thread \ {t} : pc[u] \notin Writing /\ pc'[u] \notin Writing
  BY <1>0, HistoryStays DEF OneWrites, ExtendGlobalOptions, Meets, Others, Writing
<1>4. LoggerAt(t) /\ (pc[t] \in Stored => registered = logger /\ logger # Null)
  BY <1>3 DEF LoggerAsFarAs, GlobalsAsFarAs
<1> SUFFICES LoggerAt(t)' \/ Aside(t)
  <2>1. ASSUME LoggerAt(t)', NEW v \in Thread \ {t},
               \A u \in Thread \ {v} : (pc[u] \notin Writing)'
        PROVE  LoggerAt(v)'
    BY <1>3, <2>1 DEF LoggerAt, Writing, Configuring
  <2> QED
    BY <1>1, <2>1 DEF LoggerAsFarAs
<1> USE DEF Writing, Configuring, Registered, Stored, ThreadTypes
<1>r. options \in GlobalOptions =>
        options.LOG_FILE \in FileName /\ options.LOG_LEVEL \in Int
  BY DEF GlobalOptions
<1>5. CASE NewGlobalOptions(t) \/ LoadGlobalEnv(t)
  <2>1. UNCHANGED <<initialized, loggers, registered, level, unchecked>>
    BY <1>5 DEF NewGlobalOptions, LoadGlobalEnv, logVars, historyVars
  <2>2. ~initialized /\ pc[t] \in {"options", "env"}
    BY <1>0, <1>5 DEF NewGlobalOptions, LoadGlobalEnv, InOrder, OneWrites
  <2>3. CASE pc'[t] \in {"env", "idle"}
    BY <1>4, <2>1, <2>2, <2>3 DEF LoggerAt
  <2>4. CASE LoadGlobalEnv(t)
    <3>1. /\ options' \in GlobalOptions /\ told' = InForce(options')
          /\ pc'[t] = "logger"
      BY <2>4, LoadType DEF LoadGlobalEnv, Goto, GlobalTypes
    <3>2. /\ told'.LOG_ENABLED = options'.LOG_ENABLED
          /\ told'.LOG_FILE = options'.LOG_FILE
          /\ told'.LOG_LEVEL = InForce(options)'.LOG_LEVEL
      BY <2>1, <3>1, InForceType DEF LoggerTypes, InForce
    <3> QED
      BY <1>4, <2>1, <2>2, <3>1, <3>2 DEF LoggerAt
  <2> QED
    BY <1>5, <2>3, <2>4 DEF NewGlobalOptions, OutOfMemory, Goto, Return
<1>6. CASE LogInit(t)
  <2>1. /\ UNCHANGED <<initialized, options, level, told>> /\ pc[t] = "logger" /\ ~initialized
        /\ \/ registered' = t /\ loggers'[t] = NewLogger /\ pc'[t] = "store"
           \/ UNCHANGED <<registered, loggers>> /\ pc'[t] = "idle"
    BY <1>0, <1>6
       DEF LogInit, OutOfMemory, Goto, Return, LoggerTypes, InOrder, OneWrites, historyVars
  <2> QED
    BY <1>4, <2>1 DEF LoggerAt, NewLogger, InForce
<1>7. CASE StoreLogger(t)
  <2>1. /\ UNCHANGED <<initialized, options, loggers, registered, level, unchecked, told>>
        /\ pc[t] = "store" /\ pc'[t] = "enabled"
    BY <1>7 DEF StoreLogger, Goto, logVars, historyVars
  <2> QED
    BY <1>4, <2>1 DEF LoggerAt, InForce
<1> DEFINE Stay == /\ UNCHANGED <<initialized, options, registered, told>>
                   /\ unchecked => unchecked'
<1>8. CASE SetEnabled(t)
  <2>1. /\ Stay /\ UNCHANGED level /\ pc[t] = "enabled" /\ pc'[t] = "free"
        /\ loggers'[registered].enabled = options.LOG_ENABLED
        /\ loggers'[registered].filename = loggers[registered].filename
    <3>1. ToLogger(t, "enabled", "enabled", options.LOG_ENABLED, "free")
      BY <1>8 DEF SetEnabled
    <3>r. registered = logger
      BY <1>4, <3>1 DEF ToLogger
    <3>2. /\ loggers'[registered].enabled = options.LOG_ENABLED
          /\ loggers'[registered].filename = loggers[registered].filename
      BY <3>1, <3>r, LoggerField
    <3> QED
      BY <1>0, <3>1, <3>2 DEF ToLogger, Goto, globalVars
  <2> QED
    BY <1>4, <2>1 DEF LoggerAt, InForce
<1>9. CASE FreeFilename(t)
  <2>1. /\ Stay /\ UNCHANGED level /\ pc[t] = "free" /\ pc'[t] = "filename"
        /\ loggers'[registered].enabled = loggers[registered].enabled
    BY <1>4, <1>9, LoggerField DEF FreeFilename, ToLogger, Goto, globalVars
  <2> QED
    BY <1>4, <2>1 DEF LoggerAt, InForce
<1>10. CASE SetFilename(t)
  <2>1. /\ Stay /\ UNCHANGED level /\ pc[t] = "filename" /\ pc'[t] = "level"
        /\ loggers'[registered].enabled = loggers[registered].enabled
        /\ \/ loggers'[registered].filename = options.LOG_FILE
           \/ loggers'[registered].filename = Null /\ unchecked'
    <3>1. PICK x \in {options.LOG_FILE, Null} :
             /\ ToLogger(t, "filename", "filename", x, "level")
             /\ x = Null => unchecked' \/ x = options.LOG_FILE
      BY <1>10 DEF SetFilename
    <3>r. registered = logger
      BY <1>4, <3>1 DEF ToLogger
    <3>2. /\ loggers'[registered].filename = x
          /\ loggers'[registered].enabled = loggers[registered].enabled
      BY <3>1, <3>r, LoggerField
    <3> QED
      BY <1>0, <3>1, <3>2 DEF ToLogger, Goto, globalVars
  <2>2. options.LOG_FILE \in FileName
    BY <1>10, <1>r DEF SetFilename, ToLogger, GlobalTypes
  <2> QED
    BY <1>4, <2>1, <2>2 DEF LoggerAt, InForce
<1>11. CASE SetLevel(t)
  <2>1. /\ Stay /\ pc[t] = "level" /\ pc'[t] = "payloads" /\ UNCHANGED loggers
        /\ level' = IF options.LOG_LEVEL \in 0..5 THEN options.LOG_LEVEL ELSE level
    BY <1>11 DEF SetLevel, Goto, globalVars, historyVars
  <2>2. options \in GlobalOptions
    BY <1>11 DEF SetLevel, GlobalTypes
  <2>3. told.LOG_LEVEL = level'
    BY <1>4, <2>1, <2>2, InForceType DEF LoggerAt, LoggerTypes
  <2> QED
    BY <1>4, <2>1, <2>3 DEF LoggerAt
<1>12. CASE SetPayloads(t)
  <2>1. /\ Stay /\ pc[t] = "payloads" /\ pc'[t] \in {"flag", "idle"} /\ UNCHANGED level
        /\ UNCHANGED unchecked
        /\ loggers'[registered].enabled = loggers[registered].enabled
        /\ loggers'[registered].filename = loggers[registered].filename
    <3>1. loggers[logger] \in Logger /\ registered = logger /\ logger \in Thread
      BY <1>4, <1>12 DEF SetPayloads, LoggerTypes
    <3> QED
      BY <1>12, <3>1
         DEF SetPayloads, Goto, Return, globalVars, Logger, LoggerTypes, historyVars
  <2> QED
    BY <1>4, <2>1 DEF LoggerAt, Shows
<1>13. CASE SetInitialized(t)
  <2>1. /\ UNCHANGED <<options, loggers, registered, level, unchecked, told>>
        /\ pc[t] = "flag" /\ pc'[t] = "trace"
    BY <1>13 DEF SetInitialized, logVars, historyVars
  <2>2. options.LOG_FILE \in FileName
    BY <1>r, <2>1 DEF GlobalsAsFarAs, GlobalTypes
  <2> QED
    BY <1>4, <2>1, <2>2 DEF LoggerAt, Shows
<1>14. CASE ExtendGlobalOptions(t)
  <2>1. /\ UNCHANGED <<initialized, loggers, registered, level, unchecked>>
        /\ pc[t] = "extend"
        /\ \/ pc'[t] = "enabled" /\ told' = InForce(options')
           \/ pc'[t] = "idle" /\ UNCHANGED told
    BY <1>14 DEF ExtendGlobalOptions, Goto, Return, logVars
  <2>2. options' \in GlobalOptions
    BY <1>14, ExtendType DEF ExtendGlobalOptions, GlobalTypes
  <2>3. CASE pc'[t] = "idle" /\ UNCHANGED told
    BY <1>4, <2>1, <2>3 DEF LoggerAt, Shows
  <2>4. CASE pc'[t] = "enabled" /\ told' = InForce(options')
    <3>1. /\ told'.LOG_ENABLED = options'.LOG_ENABLED
          /\ told'.LOG_FILE = options'.LOG_FILE
          /\ told'.LOG_LEVEL = InForce(options)'.LOG_LEVEL
      BY <2>1, <2>2, <2>4, InForceType DEF LoggerTypes, InForce
    <3> QED
      BY <1>4, <2>1, <2>4, <3>1 DEF LoggerAt
  <2> QED
    BY <2>1, <2>3, <2>4
<1> QED
  BY <1>5, <1>6, <1>7, <1>8, <1>9, <1>10, <1>11, <1>12, <1>13, <1>14, AsideSteps,
     <1>2 DEF Step, TestInitialized

\* A pointer that is null or freed is only followed, and an assertion only fails, for
\* one of the four causes.
LEMMA StepCrash ==
    ASSUME Ordered, Alone, ~crashed, NEW t \in Thread, Step(t) \/ Call(t)
    PROVE  CrashHasCause'
<1> USE ContextsAssumption DEF Ordered, Typed, CrashHasCause
<1>0. (overlapped => overlapped') /\ (unchecked => unchecked') /\ InOrder(t)
  BY HistoryStays DEF ThreadsInOrder
<1>1. CASE UNCHANGED crashed
  BY <1>0, <1>1
<1>2. CASE ConfigureCrashes(t)
  <2> SUFFICES ASSUME ~overlapped PROVE FALSE
    BY <1>2 DEF ConfigureCrashes
  <2>1. OneWrites /\ GlobalsAsFarAs /\ LoggerAsFarAs
    BY DEF Alone
  <2>2. CASE pc[t] = "extend" /\ options = Null
    BY <2>1, <2>2 DEF OneWrites, GlobalsAsFarAs
  <2>3. CASE pc[t] \in Writing \ {"options"} /\ options = Null
    BY <2>1, <2>3 DEF GlobalsAsFarAs
  <2>4. CASE pc[t] \in Stored /\ logger = Null
    BY <2>1, <2>4 DEF GlobalsAsFarAs
  <2>5. CASE pc[t] = "free" /\ logger # Null /\ loggers[logger].filename = "freed"
    <3>1. registered = logger /\ pc[t] \in Writing
      BY <2>1, <2>5 DEF GlobalsAsFarAs, Stored, Registered, Writing, Configuring
    <3>2. LoggerAt(t)
      BY <2>1, <3>1 DEF OneWrites, LoggerAsFarAs
    <3> QED
      BY <2>5, <3>1, <3>2 DEF LoggerAt
  <2> QED
    BY <1>2, <2>2, <2>3, <2>4, <2>5
       DEF ConfigureCrashes, Writing, Configuring, Stored, Registered
<1>3. ASSUME NEW severity, LogCrashes(t, severity), pc[t] \in {"idle", "trace"}
      PROVE  CrashHasCause'
  <2> SUFFICES ASSUME ~overlapped' PROVE unchecked'
    OBVIOUS
  <2>1. OneWrites /\ GlobalsAsFarAs /\ LoggerAsFarAs
    BY <1>0 DEF Alone
  <2>2. \A u \in Thread : pc[u] \notin Writing
    BY <1>3 DEF LogCrashes, Meets, Others, Writing, Configuring
  <2>3. registered # Null /\ loggers[registered].filename \in {Null, "freed"}
    BY <1>3 DEF LogCrashes, Passes, NoFile
  <2>4. initialized
    BY <2>1, <2>2, <2>3 DEF GlobalsAsFarAs, Registered, Writing, Configuring
  <2>5. LoggerAt(t)
    BY <2>1, <2>2 DEF LoggerAsFarAs
  <2> QED
    BY <1>0, <1>3, <2>3, <2>4, <2>5 DEF LoggerAt
<1>4. CASE TraceCrashes(t)
  BY <1>3, <1>4 DEF TraceCrashes
<1>5. CASE CloudVarsCrash(t)
  BY <1>5 DEF CloudVarsCrash
<1>6. ASSUME NEW severity \in 0..5, MessageCrashes(t, severity) PROVE CrashHasCause'
  BY <1>3, <1>6 DEF MessageCrashes
<1>s. CASE SyncCrashes(t)
  BY <1>s DEF SyncCrashes, Crash, LacksWebSocket, threadVars
<1>7. CASE Call(t)
  BY <1>1, <1>6, <1>7, <1>s
     DEF Call, InitContext, SetGlobalOpt, Begin, SetOpt, ShutdownContext, Message
<1>8. CASE \/ TestInitialized(t) \/ NewGlobalOptions(t) \/ LoadGlobalEnv(t) \/ LogInit(t)
           \/ StoreLogger(t) \/ SetLevel(t) \/ SetPayloads(t) \/ SetInitialized(t)
  BY <1>1, <1>8 DEF TestInitialized, NewGlobalOptions, LoadGlobalEnv, LogInit,
                    StoreLogger, SetLevel, SetPayloads, SetInitialized
<1>9. CASE \/ SetEnabled(t) \/ FreeFilename(t) \/ SetFilename(t) \/ Trace(t)
           \/ ExtendGlobalOptions(t)
  BY <1>1, <1>9 DEF SetEnabled, FreeFilename, SetFilename, ToLogger, Trace,
                    ExtendGlobalOptions
<1>10. CASE \/ AllocateContext(t) \/ AllocateOptions(t) \/ AllocateWebSocket(t)
            \/ CreateCloudVars(t) \/ FailContext(t)
  BY <1>1, <1>10 DEF AllocateContext, AllocateOptions, AllocateWebSocket, Allocate,
                     CreateCloudVars, FailContext
<1> QED
  BY <1>2, <1>4, <1>5, <1>7, <1>8, <1>9, <1>10 DEF Step

-----------------------------------------------------------------------------
(* The theorems *)

Inductive == Ordered /\ Alone /\ CrashHasCause

\* The inductive invariant holds before any call.
LEMMA InitInductive == Init => Inductive
BY InitTyped, InitInOrder, InitContexts, InitAlone DEF Inductive, Ordered, CrashHasCause, Init

\* No statement of a thread, beginning of a call or stutter breaks it.
LEMMA StepInductive ==
    ASSUME Inductive, [Next]_vars
    PROVE  Inductive'
<1> USE DEF Inductive
<1>1. ASSUME NEW t \in Thread, Step(t) \/ Call(t), ~crashed PROVE Inductive'
  <2>1. Typed'
    BY <1>1, StepTyped, CallTyped DEF Ordered
  <2>2. ThreadsInOrder'
    BY <1>1, StepInOrder, CallInOrder DEF Ordered, Typed
  <2>3. ContextsInOrder'
    BY <1>1, StepContexts DEF Ordered, Typed
  <2>4. Alone'
    <3> SUFFICES ASSUME ~overlapped'
                 PROVE  OneWrites' /\ GlobalsAsFarAs' /\ LoggerAsFarAs'
      BY DEF Alone
    <3>1. OneWrites /\ GlobalsAsFarAs /\ LoggerAsFarAs
      BY <1>1, HistoryStays DEF Alone, Ordered, Typed
    <3> QED
      BY <1>1, <3>1, StepOneWrites, StepGlobals, StepLogger
  <2>5. CrashHasCause'
    BY <1>1, StepCrash
  <2> QED
    BY <2>1, <2>2, <2>3, <2>4, <2>5 DEF Ordered
<1>2. CASE UNCHANGED vars
  <2> USE <1>2 DEF vars, globalVars, logVars, threadVars, historyVars
  <2>1. Typed'
    BY DEF Ordered, Typed, GlobalTypes, LoggerTypes, ThreadTypes, HistoryTypes,
           LoggerAllocated
  <2>2. ThreadsInOrder' /\ ContextsInOrder'
    BY DEF Ordered, ThreadsInOrder, InOrder, ContextsInOrder, ContextTypes, IsContext,
           ContextsAsFarAs, AsFarAs
  <2>3. Alone' /\ CrashHasCause'
    BY DEF Alone, OneWrites, GlobalsAsFarAs, LoggerAsFarAs, LoggerAt, Shows, InForce, CrashHasCause,
           LacksWebSocket
  <2> QED
    BY <2>1, <2>2, <2>3 DEF Ordered
<1> QED
  BY <1>1, <1>2 DEF Next

\* The inductive invariant holds of every reachable state.
THEOREM InductiveCorrect == Spec => []Inductive
BY InitInductive, StepInductive, PTL DEF Spec

\* Whatever the threads do, every variable has its type (_Global_t, CanopyContext_t,
\* STLogger_t): no context is ever partly of another shape.
THEOREM ContextTypeCorrect == Spec => []TypeOK
<1>1. Inductive => TypeOK
  BY DEF Inductive, Ordered, Typed, ContextsInOrder, TypeOK
<1> QED
  BY <1>1, InductiveCorrect, PTL

\* Once the flag is up the global state is complete, unless threads met while one was
\* configuring (canopy.c:36-84).
THEOREM GlobalsReadyCorrect == Spec => []GlobalsReady
<1>1. Inductive => GlobalsReady
  BY DEF Inductive, Alone, GlobalsAsFarAs, GlobalsReady
<1> QED
  BY <1>1, InductiveCorrect, PTL

\* No null or freed pointer is followed, and no assertion fails, for any other cause than
\* the four named (canopy.c:61-190, st_log.c, st_cloudvar_system.c:22).
THEOREM CrashCorrect == Spec => []CrashHasCause
<1>1. Inductive => CrashHasCause
  BY DEF Inductive
<1> QED
  BY <1>1, InductiveCorrect, PTL

\* While nobody is configuring, and unless threads met, the logger is on or off, writes
\* to the file and lets pass the severity that the last configuration asked for which
\* was not refused, whatever was refused since (canopy.c:69-82, 163-190).
THEOREM LoggerCorrect == Spec => []LoggerFollowsOptions
<1>1. Inductive => LoggerFollowsOptions
  <2> SUFFICES ASSUME Inductive, initialized, ~overlapped,
                      \A t \in Thread : pc[t] \notin Configuring
               PROVE  Shows(loggers[registered], level)
    BY DEF LoggerFollowsOptions
  <2>1. registered \in Thread /\ LoggerAsFarAs
    BY DEF Inductive, Ordered, Typed, LoggerTypes, Alone, GlobalsAsFarAs
  <2>2. LoggerAt(registered) /\ pc[registered] \notin Writing
    BY <2>1 DEF LoggerAsFarAs, Writing
  <2> QED
    BY <2>2 DEF LoggerAt
<1> QED
  BY <1>1, InductiveCorrect, PTL

\* What canopy_init_context does after the first context: it passes _global_init by,
\* logs and makes the context.
LEMMA LaterInitContext ==
    ASSUME Inductive, initialized, ~overlapped', NEW t \in Thread, Step(t),
           call[t] = "canopy_init_context", pc'[t] # pc[t]
    PROVE  UNCHANGED <<globalVars, registered, level>>
<1>1. InOrder(t) /\ OneWrites
  BY HistoryStays DEF Inductive, Ordered, Typed, ThreadsInOrder, Alone
<1>2. pc[t] \notin Writing \cup {"extend"}
  BY <1>1 DEF InOrder, OneWrites
<1>3. \/ TestInitialized(t) \/ Trace(t) \/ TraceCrashes(t) \/ ConfigureCrashes(t)
      \/ AllocateContext(t) \/ AllocateOptions(t) \/ AllocateWebSocket(t)
      \/ CreateCloudVars(t) \/ CloudVarsCrash(t) \/ FailContext(t)
  BY <1>2 DEF Step, NewGlobalOptions, LoadGlobalEnv, LogInit, StoreLogger, SetEnabled,
              FreeFilename, SetFilename, ToLogger, SetLevel, SetPayloads, SetInitialized,
              ExtendGlobalOptions, Writing, Configuring
<1>4. CASE TestInitialized(t)
  BY <1>4 DEF TestInitialized, logVars
<1>5. CASE ~TestInitialized(t)
  BY <1>3, <1>5, AsideSteps DEF Inductive, Ordered, Typed, Aside, logVars
<1> QED
  BY <1>4, <1>5

\* A later context leaves the global options, the logger and other threads' contexts
\* as they are (canopy.h:331), however many threads there are.
THEOREM LaterContextsCorrect == Spec => LaterContextsAlterNothing
<1> DEFINE Alters == initialized /\ ~overlapped' =>
         \A t \in Thread :
            call[t] = "canopy_init_context" /\ pc'[t] # pc[t] =>
               /\ UNCHANGED <<globalVars, registered, level>>
               /\ \A u \in Thread \ {t} : context'[u] = context[u]
<1>1. Inductive /\ [Next]_vars => [Alters]_vars
  <2> SUFFICES ASSUME Inductive, Next, initialized, ~overlapped', NEW t \in Thread,
                      call[t] = "canopy_init_context", pc'[t] # pc[t]
               PROVE  /\ UNCHANGED <<globalVars, registered, level>>
                      /\ \A u \in Thread \ {t} : context'[u] = context[u]
    OBVIOUS
  <2>1. PICK s \in Thread : Step(s) \/ Call(s)
    BY DEF Next
  <2>2. /\ \A u \in Thread \ {s} : pc'[u] = pc[u] /\ context'[u] = context[u]
        /\ InOrder(t)
    BY <2>1, StepIsOwn DEF Inductive, Ordered, Typed, ContextsInOrder, ThreadsInOrder
  <2>3. s = t
    BY <2>2
  <2>4. ~Call(t)
    <3>1. pc[t] # "idle"
      BY <2>2 DEF InOrder
    <3> QED
      BY <3>1 DEF Call, InitContext, SetGlobalOpt, Begin, SetOpt, ShutdownContext, Message,
                  MessageCrashes, SyncCrashes
  <2> QED
    BY <2>1, <2>2, <2>3, <2>4, LaterInitContext
<1> QED
  BY <1>1, InductiveCorrect, PTL DEF Spec, LaterContextsAlterNothing

\* How canopy_init_context returns: with a whole context, or with no part of one.
LEMMA InitContextReturns ==
    ASSUME Inductive, NEW t \in Thread, Step(t), pc[t] # "idle", pc'[t] = "idle",
           call[t] = "canopy_init_context"
    PROVE  IF answer' = "context" THEN Whole(context'[t])
           ELSE answer' = "NULL" /\ context'[t] = Null
<1>0. InOrder(t) /\ InOrderContext(t) /\ pc \in [Thread -> ProgramCounter]
      /\ DOMAIN context = Thread
  BY DEF Inductive, Ordered, Typed, ThreadTypes, ThreadsInOrder, ContextsInOrder,
         ContextTypes, ContextsAsFarAs, InOrderContext
<1>1. CASE NewGlobalOptions(t) \/ LogInit(t)
  BY <1>0, <1>1 DEF NewGlobalOptions, LogInit, OutOfMemory, Goto, Return, InOrderContext,
                    AsFarAs, Creating
<1>2. CASE CreateCloudVars(t)
  <2>1. /\ answer' = "context"
        /\ context'[t] = [context[t] EXCEPT !.cloudvars = TRUE]
    BY <1>0, <1>2 DEF CreateCloudVars, Return
  <2>2. \/ context[t] = Made(TRUE, FALSE)
        \/ context[t] = Made(FALSE, FALSE) /\ "websocket" \in MayFail
    BY <1>0, <1>2 DEF CreateCloudVars, InOrderContext, AsFarAs
  <2> QED
    BY <2>1, <2>2 DEF Whole, Made, FromEnv
<1>3. CASE FailContext(t)
  BY <1>0, <1>3 DEF FailContext, Return
<1>4. CASE SetPayloads(t) \/ ExtendGlobalOptions(t)
  BY <1>0, <1>4 DEF SetPayloads, ExtendGlobalOptions, Goto, InOrder, Writing, Configuring
<1>5. CASE \/ TestInitialized(t) \/ LoadGlobalEnv(t) \/ StoreLogger(t) \/ SetLevel(t)
           \/ SetEnabled(t) \/ FreeFilename(t) \/ SetFilename(t) \/ SetInitialized(t)
           \/ Trace(t)
  BY <1>0, <1>5 DEF TestInitialized, LoadGlobalEnv, StoreLogger, SetLevel, SetEnabled,
                    FreeFilename, SetFilename, SetInitialized, ToLogger, Trace, AfterTrace,
                    Goto
<1>6. CASE ConfigureCrashes(t) \/ TraceCrashes(t) \/ CloudVarsCrash(t)
  BY <1>6 DEF ConfigureCrashes, TraceCrashes, CloudVarsCrash, LogCrashes, Crash, threadVars
<1>7. CASE AllocateContext(t) \/ AllocateOptions(t) \/ AllocateWebSocket(t)
  BY <1>0, <1>7 DEF AllocateContext, AllocateOptions, AllocateWebSocket, Allocate, Goto
<1> QED
  BY <1>1, <1>2, <1>3, <1>4, <1>5, <1>6, <1>7 DEF Step

\* A context is handed out whole, or not at all and none is left (canopy.c:101-161).
THEOREM ContextsWholeCorrect == Spec => ContextsWhole
<1> DEFINE Returns == \A t \in Thread :
         pc[t] # "idle" /\ pc'[t] = "idle" /\ call[t] = "canopy_init_context" =>
           IF answer' = "context" THEN Whole(context'[t])
           ELSE answer' = "NULL" /\ context'[t] = Null
<1>1. Inductive /\ [Next]_vars => [Returns]_vars
  <2> SUFFICES ASSUME Inductive, Next, NEW t \in Thread, pc[t] # "idle", pc'[t] = "idle",
                      call[t] = "canopy_init_context"
               PROVE  IF answer' = "context" THEN Whole(context'[t])
                      ELSE answer' = "NULL" /\ context'[t] = Null
    OBVIOUS
  <2>1. PICK s \in Thread : Step(s) \/ Call(s)
    BY DEF Next
  <2>2. s = t
    BY <2>1, StepIsOwn DEF Inductive, Ordered, Typed, ContextsInOrder
  <2>3. ~Call(t)
    BY DEF Call, InitContext, SetGlobalOpt, Begin, SetOpt, ShutdownContext, Message,
           MessageCrashes, SyncCrashes
  <2> QED
    BY <2>1, <2>2, <2>3, InitContextReturns
<1> QED
  BY <1>1, InductiveCorrect, PTL DEF Spec, ContextsWhole
=============================================================================
