# A TLA+ model of the Canopy embedded library

`canopy-embedded` is a C library with which a device declares *Cloud Variables*,
sets them, and keeps them synchronised with a cloud server over a websocket.
This directory holds TLA+ modules of that library, the TLC configurations that
model-check them, and TLAPS proofs. Paths such as `st_sync.c:262` name files of
the repository (the library is under `src/src/`, its header is
`src/include/canopy.h`).

## 1. Inventory

| component | code | state | operations |
|---|---|---|---|
| Public API, contexts | `canopy.c`, `canopy.h` | one `CanopyContext` (options, websocket, variables), a process-wide `_global` | init/shutdown context, set option, declare, set, get, on-change, sync, `canopy_once_every` |
| Cloud Variable system | `cloudvar/st_cloudvar*.c` | the variables, `dirty`, `dirty_vars`, an SDDL-dirty flag per variable, `callbacks`; a tree of values per variable | create, set (recursive), read (recursive), to JSON, from JSON, mark and clear dirty |
| Synchronisation | `sync/st_sync.c` | none of its own: control only | connect, handshake, pull, push |
| WebSocket | `websocket/st_websocket.c` | `ws_ctx`, `ws`, `ws_write_ready`, `cb_recv` | connect, service, write, and the libwebsockets callback |
| Options | `options/st_options.c` | a "has" and a value per option, global and per context | defaults, environment, argument lists (merging whole objects is called by no code) |
| Logging | `log/st_log.c` | the logger: enabled, file name, payloads; the level and the callback that RedLog keeps | init, four setters, the callback that writes a message |
| HTTP client | `http/st_http_curl.c` | none | called by no code |
| Tuple variables | `cloudvar/st_cloudvar_tuple.c` | – | unreachable: `st_cloudvar_generic_new` has no case for them |
| external | libwebsockets, libred (hash, JSON, log), libsddl, the cloud server | | |

**Interaction.** A context belongs to one thread: nothing in it is protected. What
contexts share is `_global` (the global options and the logger), which the first
call of any thread sets up and every message reads. `canopy_sync`
is `st_sync`, which runs to completion. It calls `libwebsocket_service` at up to
five places, and only there do callbacks run: the connection is established or
lost, the socket becomes writeable (`ws_write_ready`), or a frame arrives. The
last one runs `_process_payload`, which writes the variables that `st_sync` is
about to push. `st_sync` reads the dirty set to build a payload, clears the SDDL
flags while it does, sends, and only then clears the dirty set. The network and
the server go on by themselves the whole time.

**What is hard.** Values change between `canopy_var_set` and the push (callbacks
inside the sync); a set or a payload can fail halfway and leave part of itself
behind; a push can fail after its payload was built; three levels of dirtiness
(`sys->dirty`, `dirty_vars`, the SDDL flags) must agree; the connection dies
without `ws->ws` being told; the flow-control flag is raised by a callback that
needs somebody to call service; loops and pushes wait for events that may not
come. A report and a payload may cross on the wire. Below the surface of one call,
a recursion walks a tree in the order of a hash table and stops at the first node
that fails. Around all of it, threads may meet in the set-up of the process-wide
state, and any allocation of a context may fail. `PROJECT.json` lists each hazard at its line with the properties that
watch it.

**What makes each component correct.**

* Variables: no change is forgotten; dirty names exist; inbound leaves are the
  cloud's. (`UnreportedChangeIsQueued`, `DirtyNamesDeclared`, `SddlOwedIsQueued`,
  `InboundLeafOnlyByCloud`)
* Synchronisation: after a success every value is reported; nothing leaves the queue
  unsent; the flag of a declaration goes down only if it is sent or the application
  learns of the failure; the server can attribute what it reads; a sync returns; a
  report arrives. (`SuccessMeansReported`, `DequeuedOnlyWhenSent`,
  `SddlClearedOnlyWhenSent`, `HandshakeFirst`, `SyncReturns`, `ReportArrives`)
* WebSocket: service only with a context; the send buffer is never overrun and no
  writer is forgotten. (`ServiceHasContext`, `FlowControl`)
* All of it together: the behaviour of an abstract mirror
  (`StoreImplementsMirror`); the two copies of a variable agree once the wire is
  silent (`CopiesAgree`).
* One variable as a tree: a call does all it was asked to and says so, or a part and
  says why (`CallsImplementAccess`, `ReadFillsAll`); what is inbound is not set
  (`InboundTreeNotSet`); what is not due for a report was told (`CleanMeansTold`);
  numbers survive the way to the cloud and back (`EchoIsHarmless`).
* Contexts, options, logging: whoever gets a context gets a whole one
  (`ContextsWhole`), on global state that is ready (`GlobalsReady`) and that later
  contexts leave alone (`LaterContextsAlterNothing`); switch, file and level of the logger
  are those last asked for (`LoggerFollowsOptions`); no null pointer is followed
  (`CrashHasCause`).
* `canopy_once_every`: not too often, not too late (`Paced`).

## 2. Modules

| module | models |
|---|---|
| `CloudVarSystem` | `cloudvar/` and the `canopy_var_*` calls: declarations, values by leaf, dirty bookkeeping, set, on-change, what a push reads and what a payload writes |
| `WebSocket` | `st_websocket.c` and, as its callbacks see it, the libwebsockets connection; loss of the connection |
| `CloudServer` | the server (external), from the frames `st_sync.c` writes and reads |
| `Sync` | `st_sync.c` and the application that calls it: composes the three |
| `CloudMirror` | the abstract promise: a local copy, a set of pending names, the value last agreed on |
| `SyncProperties` | every property, the inductive strengthenings, the refinement mapping |
| `SyncProofs` | theorems about `Sync` and their proofs |
| `SyncCopiesProofs` | the invariant about the frames in flight, and the theorem that the two copies of a variable agree |
| `MCSync` | the constants of the runs about synchronisation |
| `VarNode` | one node of a variable's tree: declarations, values and readers, what a call finds at a node, JSON numbers |
| `VarTree` | declaring, setting, reading and reporting one variable, node by node |
| `VarAccess` | the abstract promise of those calls: atomic, and without an order |
| `VarTreeProperties`, `MCVarTree` | their properties; the refinement mapping; the constants of the run |
| `VarTreeProofs` | theorems about `VarTree`, among them that it implements `VarAccess` |
| `Options` | option objects: defaults, environment, argument lists |
| `Contexts` | threads that create contexts, set options, log and sync (as far as a sync meets a missing websocket): `canopy.c:36-212`, `st_log.c` |
| `OnceEvery` | `canopy_once_every` with unsigned arithmetic of a width |
| `ContextsProperties`, `MCContexts` | their properties; the constants of the run |
| `ContextsProofs`, `OnceEveryProofs` | theorems about `Contexts` and about `OnceEvery` |

`CloudServer` EXTENDS `CloudVarSystem` and `WebSocket`; `Sync` EXTENDS
`CloudServer`; `SyncProperties` instantiates `CloudMirror` over `Sync`. `VarTree` and
`VarAccess` EXTEND `VarNode`, and `VarTreeProperties` instantiates `VarAccess` over
`VarTree`. `Contexts` EXTENDS `Options`.

`VarTree` is `CloudVarSystem` seen from close up: what is one step there (`SetVar` with
its `SetOutcomes`, `Push`, `ProcessPayload`) is here a walk over a tree of any depth,
for one variable and without the network. `VarAccess` says that nothing is lost by
taking the walk as one step.

### State and code

* `decl`, `value`: `sys->vars`. A declaration carries direction, kind, and the
  direction and datatype of each leaf; a value is a function of leaves. A basic
  variable has the leaf `Self`, an array its indices, a struct its fields.
  Composite variables are one level deep here. `leaf[f].dir` is the concrete
  direction, after inheritance.
* `dirty`, `dirtyVars`, `sddlDirty`, `callbacks`: the flags of the same names.
* `used`: the `used` flag of each `CanopyVarValue` (single use).
* `handle`, `wsCtx`, `writeReady`, `cbRecv`: the fields of `STWebSocket_t`. `link`
  and `wantWrite` are what libwebsockets knows; `up` and `down` are frames in
  flight. A write to a connection that is gone (in the code, to a handle the
  library has closed) is a lost frame.
* `pc`: where `st_sync` is. Its steps are the stretches of code between two calls
  of `libwebsocket_service`, and the service calls: `service1`, `service2` (lines
  239, 240), `handshakeWait` (251), `handshakeSent` (257), `tail` (280).
* `opts`: the two protocol options. `CANOPY_CLOUD_SERVER` always has a default, so
  the check at `st_sync.c:199` never fires; the other options do not influence
  control.
* `result`: what the last API call returned.
* `agreed`, `sddlSent`: history variables. No action reads them. `agreed[n]` is
  the value of `n` that was last handed to the transport or received from it;
  `sddlSent` are the variables whose declaration was handed to it.
* `diverged`: history, too. The variables whose last exchange need not have left both
  copies alike: a report and a payload crossed, the device refused the item, or the push
  went to the log (`NOOP`). The next exchange that does not cross takes a variable out
  of it.
* `VarTree`: a *place* is a position in the tree. `tree` are the nodes (`STCloudVar_t`),
  `value` their `basic_value`, `dest` what the caller's readers point to, `json` the
  object under construction. `op`, `arg`, `at`, `seen` are the recursion: the routine,
  the value or reader it walks, the node whose loop is running, the places it is done
  with. `Descend` is a recursive call, `Ascend` its return, `Fail` an error that every
  level passes on. `before` and `told` are history: the variable when the call was
  made, and the value that last crossed the wire.
* `Contexts`: `pc[t]` is the statement a thread is at, in `_global_init`,
  `canopy_init_context` or `canopy_set_global_opt`; the variables `initialized`,
  `options`, `logger` are `_global`'s fields. `loggers[t]` is what thread `t` allocated, so
  two threads that both pass the test of the flag have a logger each. `registered` and
  `level` are RedLog's. Three variables are history: `overlapped` (a thread met one that
  was configuring), `unchecked` (an allocation failed whose result nobody tests) and `told`
  (the options of the last configuration that was not refused). `crashed` is undefined behaviour or a failed
  assertion: a null or freed pointer was followed, and the model stops there.
  `SyncCrashes` is what a `canopy_sync` may do to this state: it asserts that the context
  has a websocket. The rest of a sync is in `Sync`; its messages are `Message` here.
* `OnceEvery`: `curtime`, `timer` as in the code, sums modulo `2^Width`.

### Decisions

* One service call is any number of callbacks and a return. With
  `PromptService = TRUE` it returns only when no callback is due; one run assumes
  that (`delivers`), all others do not.
* `canopy_var_set` marks the variable dirty before it validates the value, and a
  composite assignment stops at the first bad leaf in hash order: `SetOutcomes`
  allows every subset of the good leaves, with the result of any bad one. The
  items of a payload are handled alike (`ProcessPayload`).
* A caller passes a struct value to a struct variable and an array value to an
  array: the code does not look (it walks a hash that would not exist).
* A declaration may have the datatype `void` or `datetime`, for which there are no value
  objects: no set fits one, and a payload item for one is refused.
* Data are counted in halves, so that the conversion of a JSON number to an integer
  datatype (`Cast`) loses something, as the C cast does.
* A malformed payload has the effect of one without variables.
* The direction of a node in `VarTree` is its concrete one; libsddl resolves `inherit`.
* The recursion of the init objects' parser is given by its answers: `Parses` are the
  assignments of an answer to each object in which every object is answered as its options
  and its fields' answers make it. There is one of them, because nesting ends.
* A number that does not fit an integer datatype may become any value of that datatype:
  the C cast is undefined. A float32 holds every second number of the model's grid.
* In `Contexts` a step is a statement that reads or writes what threads share. Any
  allocation named in `MayFail` may fail; `strdup` of the file name and the `calloc` of
  the variable system are among those whose result the callers do not test.
* Setting an option of a context and shutting it down are single steps: a context has
  one owner.
* `MCContexts` holds two systems that have nothing in common, `Contexts` and
  `OnceEvery`. A behaviour is of one or of the other (`part`).

### Not modelled

* The HTTP client and the HTTP branch of `st_sync` beyond its refusal (for receiving,
  `HTTP` behaves as `NOOP` does): no code calls it.
* Tuples: `st_cloudvar_tuple.c` is not in the makefile and `st_cloudvar_generic_new` has
  no case for them; the refusal is modelled.
* `st_options_extend`, `st_options_dup`, the `st_var_options_` functions,
  `st_cloudvar_system_contains`, `st_cloudvar_set_local_value_from_json`: called by no code.
* Failed allocations outside of the set-up of contexts, memory leaks, formatting, the
  text of messages and the logger's one warning about a file that cannot be opened.
* The lifetime of strings that the caller passes as options (`st_options.c:139`).

## 3. Runs

The first four runs use module `MCSync`; the variable names, declarations and payloads are
definitions of that module.

| run | instance | shows | distinct states |
|---|---|---|---|
| `store` | 3 variables, 5 declarations (basic out and in, struct with an inbound field, array, tuple), 3 value objects, 1 payload, no faults | `DirtyNamesDeclared`, `SddlOwedIsQueued`, `UnreportedChangeIsQueued`, `InboundLeafOnlyByCloud`, `StoreImplementsMirror` | 689,993 |
| `faults` | 1 variable of both sides with an on-change callback, 2 value objects, 2 payloads (good or of the wrong type), all faults, protocols of every kind set in between | `TypeOK`, `ServiceHasContext`, `HandshakeFirst`, `FlowControl`, `CopiesAgree`, `SuccessMeansReported`, `DequeuedOnlyWhenSent`, `SddlClearedOnlyWhenSent` | 1,095,441 |
| `returns` | 1 variable, no faults, fair | `SyncReturns` | 2,490 |
| `delivers` | 2 variables, no faults, fair, the application keeps syncing, prompt service | `ReportArrives` | 20,104 |
| `vartree` | a struct with a leaf and a struct of a leaf and an array, in two combinations of directions; basic variables of 5 datatypes; 5 declarations that are refused; 7 values, 4 readers, 7 JSON items; fair | `TypeOK`, `CleanMeansTold`, `CallsImplementAccess`, `InboundTreeNotSet`, `ReadFillsAll`, `EchoIsHarmless`, `CallReturns` | 49,867 |
| `contexts` | 2 threads, 3 calls through `_global_init`, 2 lists of global options (a good one; a bad one with a prefix that is stored), every allocation may fail, a level in the environment that does not exist, a sync of a context without a websocket; the timer: width 3, 5 periods | `TypeOK`, `GlobalsReady`, `CrashHasCause`, `LoggerFollowsOptions`, `LaterContextsAlterNothing`, `ContextsWhole`, `Paced` | 1,077,964 |

**Bounds.** A value object can be used once, so `Handle` bounds the number of sets;
two sets of one variable are enough for a set before, during and after a sync.
`MaxInbound` bounds the payloads the server sends; what matters is that one arrives
in each of the five service calls, and for `CopiesAgree` that a second one can follow
a first that crossed a report (`faults` allows two, `store` one). `MaxInFlight` is the send buffer: 2 lets it be
empty, partly full and full (handshake and report); `delivers` uses 8 so that the
bound is out of the way. `Faults` selects the faults that may happen. The number of
syncs is not bounded. `store` leaves faults out because the other runs have them and
its question is the bookkeeping.
In `vartree` integers have 2 and 3 bits, a number counts quarters and a float32 holds
halves, so that fractions, out-of-range numbers and roundings all occur; the tree is
four levels deep, so that a walk fails below, beside and above a leaf that it has
already moved. The calls are not bounded. In `contexts` `MaxCalls = 3` allows a failed
first initialisation, its repetition by the other thread and a call after that. With `Width = 3` and
`MaxTime = 7` the clock reaches every value and every sum that can wrap does. Deadlock is
not checked there because the process may crash and the clock stops.

**Fairness** (`Fairness` in `SyncProperties`). Weak fairness of `st_sync`'s own
steps: it is straight-line code. Weak fairness of `ServiceReturn`:
`libwebsocket_service` has a timeout of 1000 ms. Strong fairness of each callback:
the library polls, so what stays due again and again in calls to service is
delivered. Weak fairness of the server's reading. `delivers` adds that the
application calls `canopy_sync` again and again, as the loop of every test does.
Nothing is assumed about the application's other calls.
`vartree` has weak fairness of `Step` (`FairSpec` in `VarTreeProperties`): once called,
the recursion runs on, whatever the application does next. `contexts` has no liveness
property and no fairness.

### Statements the code contradicts

Each has a run that expects the violation; the run's counterexample is the evidence. All
but the last use `MCSync`.

| run | property | in short |
|---|---|---|
| `bad_sddl` | `UnsentSddlIsDirty` | a failed push has already cleared the SDDL flags (`st_sync.c:170`) |
| `bad_reconnect` | `ReconnectsIfNecessary` | a closed connection keeps its handle, so the next sync goes on with it instead of connecting again |
| `bad_timeout` | `SyncTimesOut` | a failed connection attempt leaves the handshake loop running for ever |
| `bad_inbound` | `CloudOwnsInbound` | inbound variables are reported too: the cloud sets one to 0, the device reports the 0 back, and meanwhile the cloud has set it to 2, which the 0 replaces |
| `bad_starved` | `WriteReadyReturns` | a push that finds the socket not ready returns before the service call that would make it so |
| `bad_websocket` | `SyncHasWebSocket` | a context whose websocket could not be allocated is handed out (`canopy.c:131` tests `ctx->options` again) and a sync of it fails `assert(ws)` |

`bad_starved` and `delivers` belong together: the report arrives if every service
call goes on until the socket was reported writeable, and may never arrive if one
does not. `bad_timeout` and `returns` are the same formula with and without faults.
`bad_sddl` and `SddlClearedOnlyWhenSent` belong together: a declaration is lost in a push
that fails, of which the application is told, or with a frame that a dead connection takes
along (or the log, for `NOOP`), and in no other. Since it is lost for good,
`SuccessMeansReported` speaks of values only; a later sync answers success all the same.
`SddlOwedIsQueued` relates two flags and says nothing of what was sent.

Other things seen while modelling, which the model shows in its actions but no run
singles out: on-change callbacks are registered and called by no code path
(`canopy.h:646`; `callbacks` is written and never read); `CANOPY_VAR_SEND_PROTOCOL` has no default, although `canopy.h:265` names
one (`DefaultOpts`); a payload may overwrite an outbound variable
(`sddl_ver_0_9_0.md:121`, `Accepts`), or a value that the application set and that was
not reported yet (`canopy.h:536`, `ReceiveCallback` before `Push`); a report and a
payload that cross on the wire leave the two copies different until the next exchange
(`st_sync.c:173`, `diverged`); `canopy.h:257-263` lists the HTTP protocols, which
`SendResult` refuses.

The header contradicts itself about variables that were not declared: `canopy.h:529-531`
says that a set creates the variable, and `canopy.h:657` says so of `canopy_var_on_change`;
`canopy.h:136-138` and `432-434` say that a variable must be initialized before it is used.
The code does the latter and answers `CANOPY_ERROR_VARIABLE_NOT_INITIALIZED`
(`SetVarMissing`, `OnChangeMissing`), and so does the model.

Of the set-up: what is sent is logged whatever `CANOPY_LOG_PAYLOADS` says
(`canopy.h:204-207`), because `send_payloads` is stored and read by nobody
(`st_websocket.c:210`), so `LoggerFollowsOptions` leaves that option out;
`LOG_PAYLOADS=true` in the environment means *false*, because `atoi` reads
it, and a protocol named `WSS` there is `CANOPY_PROTOCOL_NOOP` (`FromString`);
`CANOPY_VAR_MIN_VALUE` and `_MAX_VALUE`
(`canopy.h:435-447`) are refused by the parser (`OptionResult`); a level outside of 0..5
is stored as an option, and refused by the logger unnoticed (`SetLevel`); the test at
`canopy.c:138` never fires, because
the function it follows has already written through a null pointer. Two threads that
create their first contexts at the same time may replace each other's global options or
log with a file name that is not there (`overlapped`); no document promises otherwise, and
the code has a TODO about it (`canopy.c:57`), so this is a precondition and no finding:
no property covers that race. `CrashHasCause` names it as one of
four causes of a crash; the others are the two allocations whose failure nobody looks at
and the missing websocket of `bad_websocket`.

## 4. Proofs

Every safety invariant and every action property that a run checks is also a theorem,
for every value of the constants that satisfies the modules' assumptions. TLC
evaluates the assumptions in every run. They are

* `StoreAssumption`, `WebSocketAssumption`, `CloudServerAssumption`, `SyncAssumption`:
  sentinels are not data; a basic declaration or value has exactly the leaf `Self`;
  `Cast` maps data to data; bounds are natural numbers;
* `VarNodeAssumption`: the places are a tree, of any shape and with any number of
  places, that ends; `RangeAssumption`: the least and greatest value of an integer datatype
  are integers (a fact about `^`, of which the provers know nothing);
* `VarTreeAssumption`: requests, values and readers are put together as the constructors
  of `canopy.c` put them together, and the application's data are data of their C type;
* `OptionsAssumption`, `ContextsAssumption`: what the environment and the argument
  lists give has the C types of the options; sentinels differ from values;
* `OnceEveryAssumption`: clock and periods fit the width, and the modulus is positive.

| theorem | states | inductive invariant |
|---|---|---|
| `SyncProofs` | | |
| `TypeCorrect` | `[]TypeOK` | `TypeOK` itself |
| `QueueCorrect` | `[](DirtyNamesDeclared /\ SddlOwedIsQueued /\ UnreportedChangeIsQueued)` | `QueueInv` |
| `NamesCorrect` | `[]DirtyNamesDeclared` | `QueueInv` |
| `SddlCorrect` | `[]SddlOwedIsQueued` | `QueueInv` |
| `SuccessCorrect` | `SuccessMeansReported` | `QueueInv` |
| `SddlSentCorrect` | `SddlClearedOnlyWhenSent` | `QueueInv` |
| `DequeueCorrect` | `DequeuedOnlyWhenSent` | `QueueInv`, `LeafInv` |
| `InboundLeafCorrect` | `InboundLeafOnlyByCloud` | `TypeOK` |
| `ContextCorrect` | `[]ServiceHasContext` | `ConnectionInv` |
| `FlowCorrect` | `[]FlowControl` | `FlowInv` |
| `HandshakeCorrect` | `[]HandshakeFirst` | `HandshakeInv` |
| `MirrorCorrect` | `StoreImplementsMirror` | `QueueInv` |
| `SyncCopiesProofs` | | |
| `CopiesCorrect` | `[]CopiesAgree` | `CopiesInv`, with all of the above but `ConnectionInv` |
| `VarTreeProofs` | | |
| `InductiveHolds` | `[]Inductive` | `Inductive` |
| `TreeTypeCorrect` | `[]TypeOK` | `Inductive` |
| `CleanMeansToldCorrect` | `[]CleanMeansTold` | `Inductive` |
| `InboundTreeCorrect` | `InboundTreeNotSet` | `Inductive` |
| `ReadFillsAllCorrect` | `ReadFillsAll` | `Inductive` |
| `EchoCorrect` | `EchoIsHarmless` | `Inductive` |
| `CallsImplementAccessCorrect` | `CallsImplementAccess` | `Inductive` |
| `ContextsProofs` | | |
| `InductiveCorrect` | `[]Inductive` | `Inductive` |
| `ContextTypeCorrect` | `[]TypeOK` | `Inductive` |
| `GlobalsReadyCorrect` | `[]GlobalsReady` | `Inductive` |
| `CrashCorrect` | `[]CrashHasCause` | `Inductive` |
| `LoggerCorrect` | `[]LoggerFollowsOptions` | `Inductive` |
| `LaterContextsCorrect` | `LaterContextsAlterNothing` | `Inductive` |
| `ContextsWholeCorrect` | `ContextsWhole` | `Inductive` |
| `OnceEveryProofs` | | |
| `TimerCorrect` | `[]TimerIsLast` | `TimerIsLast` |
| `PacedCorrect` | `Paced` | `TimerIsLast` |

Each has the same shape: a lemma that `Init` establishes the invariant, a lemma that
a step preserves it (one step or lemma per action of `Next`), and temporal logic to join
them. Each strengthening was model-checked on the instances of the runs before it was
proved. Why they are needed:

* `QueueInv` adds that nothing is dirty during the last service call. Without it the
  step from there to "success" would say nothing about the dirty set.
* `ConnectionInv` adds that a handle comes with its context and callback, and that the
  push of a sync over the websocket has a handle: the last service call follows it.
* `FlowInv` adds that nothing is in flight, and the flag is down, before the connection
  is up; otherwise a stale flag would admit one frame too many.
* `HandshakeInv` adds that outside the set-up steps the handshake of an open
  connection has been read or is still in flight. A drop cuts a prefix, so whatever
  report survives it has the handshake before it.
* `LeafInv`: values are stored only in leaves of the declaration. So a basic variable
  that holds anything "has a value" and is in the payload that takes it off the queue.
* `MirrorCorrect` maps `value`, `dirtyVars` and `agreed` to the mirror's three
  variables. A set is `Touch`, a push `Publish`, a received payload `Absorb`; every
  other step is a stutter.
* `CopiesInv`. `CopiesAgree` speaks of variables at rest only, and what makes them
  agree there happened while frames were in flight. So `ExchangeInv` says of every variable
  that is not `diverged` what its exchange will lead to: the frames in flight about it
  all go the same way; the last report carries what the device holds as agreed
  (`LastReport`), the last payload what the server has (`LastPayload`); and with no
  frame in flight the two agree, up to `Cast`. It is claimed as long as the connection
  is not lost: a drop throws frames away, and nothing is at rest after it. Besides, a
  handshake must not be a report (the server's reading of it would report nothing),
  a report must find the server told who speaks (`HandshakeInv`), a push must not be
  lost in a socket that is not open (`FlowInv`), and a variable without a value must not
  be thought of as exchanged (`LeafInv`, and the second conjunct of `CopiesInv`).
* `Inductive` of `VarTreeProofs` says how far the recursion is: every node from the root to
  the loop that is running lets the call pass and is not done (`WalkInOrder`); with
  a place, all that it contains is done; the work is done at the leaves visited so far
  and at no others (`WorkInOrder`); a call walks what its caller brought, a report what
  has a value (`CallInOrder`); nodes hang on composite nodes, data are data of their
  datatype (`TreeInOrder`, `ValuesInOrder`). `TypeOK` is `ShapeOK`, which needs nothing
  else, and that a stored datum is of its leaf's datatype, which needs all of this. When the root's loop is over all has been
  visited (`AllWalked`), and a call that fails has visited only what the promise lets it
  reach (`OnTheWay`). Since the walk changes what it walks, `JudgedTheSame` shows that no
  step changes what the call would answer at any place: it is judged as it was when
  the call began, which is what `VarAccess` says.
* `CallsImplementAccessCorrect` maps the variables of a running call to what they were
  when it began (`before`). Every step of a walk is a stutter, and the step that returns
  is the whole call. For declarations it needs that a request is accepted exactly if
  none of its init objects has a fault: `Parses` are the answers that fit together
  (each parser has the answers of the parsers of its fields), and a failing one below
  a sound one would have to fail for a field, and so on for ever (`IsTree`).
* Paths, too, are defined without recursion: as what every set that is closed under
  containment must have (`Path`, `Closed`). The lemmas `PathOneUp` and `FromTheRoot` give
  back the recursion: a path is the place and the path of what contains it, and what
  passes from a node to the nodes in it is true everywhere if it is at the root.
* `Inductive` of `ContextsProofs` is about the place that each thread is at. Of its own
  context, at any time, as much is there as `canopy_init_context` has made (`AsFarAs`). Of the
  global state that can only be said as long as no two threads met (`Alone`): then one
  writes at most, for `_global_init` exactly as long as `initialized` is down (`OneWrites`),
  and options, logger and RedLog's registration are there from the statement on that
  makes them (`GlobalsAsFarAs`), also when it is run again after it failed. `LoggerAt`
  says which of the logger's settings its writer has made so far; it is stated for
  every thread, so that it also holds when there is no writer.
* `TimerIsLast`: the timer is the last time at which the answer was true, or 0, and no
  such time is later. A wrapped sum is never larger than the true one, so an answer can
  be early by wrapping (`Paced` excludes that) and never late.

Only model-checked: `SyncReturns`, `ReportArrives` and `CallReturns`, because liveness
under fairness is out of the prover's reach, and the six violations, which are
statements that are false.

## 5. Plan

Everything the inventory lists is modelled, or listed under "Not modelled" with the
reason, and every safety property is proved. What could follow:

1. Safety lemmas under the liveness properties: that the measure of a walk (the places
   not yet done) never grows, and that a report in flight is not overtaken.
2. That `CloudVarSystem`'s one-step `SetVar`, `Push` and `ProcessPayload` are what
   `VarAccess` promises, for trees one level deep: the link between the two views of a
   variable, which is an argument in section 2 and no theorem.
