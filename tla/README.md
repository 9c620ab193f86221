# A TLA+ model of the NWNX2 extender for Linux

nwnx2-linux extends the game server *nwserver* with plugins. A shared library is
preloaded into the server (`nwnx2lib.cpp`), hooks two of its functions, loads the
plugins `nwnx_*.so` and passes requests of the game's scripts on to them. Plugins find
each other through a small core of named events and services (`modules.c`, `lists.c`).
This directory models the core, the loader, and the plugins that keep a state of their
own from one request or event to the next; checks them with TLC on small instances; and
proves invariants and a refinement of them with TLAPS.

    tlc -workers 2 -config HookEngine.cfg MCHookEngine     (and likewise for each run)
    tlapm HookEngineProofs.tla

## 1. The system

| Component | Source | State | Operations | Model |
|---|---|---|---|---|
| Hookable events | `modules.c` 28-448 | list `hooks` sorted by name; per event an array of subscribers with a count, a default hook, an id | Create, Destroy, SetHookDefault, HookEvent, UnhookEvent, NotifyEventHooks | `HookEngine`, `EventBus` |
| Services | `modules.c` 67-84, 450-591 | list `services` sorted by name hash | Create, Destroy, Call, Exists | `Services`, `ServiceTable`, `NameHash` |
| Pointer lists | `lists.c` | array, count | search, insert, remove | `SortedList`, `ListSearch` |
| Script dispatcher | `nwnx2lib.cpp` 129-354, 468-535 | return addresses of script calls, object result and its flag | SetString, GetObject, NWNX!INIT | `Dispatcher` |
| Plugin loader | `nwnx2lib.cpp` 356-466, 673-748 | `Libraries`, mapped libraries | load, register, close, notify PluginsLoaded | `PluginLoader` |
| JVM scheduler | `Scheduler.java`, `NWNXJVM.cpp` 335-393 | queues of blocks, tokens, the thread with context | event, token, schedule, scheduleWait, assign, assignNow, delay, flushQueues | `JvmScheduler` |
| JVM repeated blocks | `Scheduler.java` 65-84, 287-313, `ScheduledEvery.java` | the list, and each block's timing, last run, runs left, stopped | every, handleEvery, stop, setRunsRemaining | `JvmEvery` |
| DB | `NWNXdb.cpp`, `mysql.cpp`, `pgsql.cpp`, `sqlite.cpp` | the current result and its row, the prepared statement, its count of parameters | EXECUTE, FETCH, P_PREPARE, P_EXECUTE, P_FETCH, SCO and RCO with SQL | `DbPlugin`, `ResultRows`; its events in `PluginLoader` |
| ODMBC | `plugins/odmbc` | as DB | as DB, older | events only, in `PluginLoader` |
| Vaultster | `NWNXVaultster.cpp`, `client.cpp`, `vaultster-serv.cpp` | slots of requests; state of each client and session; the server's file | SEND, STATUS; handlers of completions and time-outs on both sides | `Vaultster` |
| Events, Chat | `plugins/events`, `plugins/chat` | globals of the event that runs, scriptRun, bypass, suppression | run an event's or a message's script, requests of that script | `ScriptEvents` |
| ResMan | `HookDemandRes.cpp`, `NWNXResMan.cpp` | stamps of files, resources loaded, the server's free memory | DemandRes, subscribers | `ResMan`; its event in `PluginLoader` |
| HashSet | `NWNXHashSet.cpp` | sets with an iterator each, status | create, insert, delete, look up, walk | `HashSet` |
| MNX | `NWNXmnx.cpp` | connections with a socket each | OPEN, CLOSE, SEND | `Mnx` |
| netoverride | `netoverride.c` | list of addresses bound to a key | recvfrom | `NetOverride` |
| Everything else | rule plugins, bindings, accessors, patching | | | not modelled (section 9) |

How they interact:

* A script's `SetLocalString(o, "NWNX!PLUGIN!REQUEST", value)` reaches `my_SetString`,
  and the plugin's `OnRequest`; the plugin's answer replaces the value. `GetLocalObject`
  reaches `my_GetObject` and `OnRequestObject`. A plugin may run scripts before it
  answers, so all of this nests.
* Plugins call the core through PLUGINLINK. Today the core makes `NWNX/Core/PluginsLoaded`,
  db and odmbc both make `NWServer/SCO` and `NWServer/RCO`, resman makes
  `NWNX/ResMan/DemandResource`; jvm hooks the first in `OnCreate` and the other three from
  inside its callback. No plugin unhooks, destroys, or uses services yet: the core's
  interface promises more than its present callers use, and the model is of the interface.
* There is one thread in the core and in scripts. The JVM plugin adds threads of its own
  (workers), which reach the game only through the scheduler's queues; Vaultster adds a
  thread per transfer, which shares the status of its slot with the game's thread, and talks
  to another program, `vaultster-server`, on another machine. MNX blocks the game while it
  waits for a server.
* Events and Chat meet in scripts: what runs in one's script may set off the other's, or its
  own again. The other plugins share nothing with each other but the core.

What is hard about it, and what makes each part correct:

* *Events of the core*: `CallHookSubscribers` runs plugin code in the middle of its loop, and
  that code may change the array the loop goes over. Correct: subscribers are called in order,
  each once, none passed over; a count is 0 exactly when nobody is subscribed, since
  the default hook depends on it; a handle means one subscription for as long as it is held.
* *Lists*: every lookup relies on the sorted order and on a binary search.
* *Services*: a list of hashes must behave as a table of names.
* *Dispatcher*: who may talk to plugins is decided by a return address, learnt from a call
  the server can make as well when it loads a saved game; answers pass through globals.
* *Loader*: plugins load in the order of `readdir`, may fail at several points, and are
  closed with what they have left in the core.
* *JVM scheduler*: the game's thread enters recursively; workers race with it; `wait` and
  `notify`; exceptions unwind; tokens leave through the game and come back.
* *Repeated blocks*: the list is gone through by a loop whose body runs plugin code, which may
  go through it again, change it, stop or count blocks. Correct: whoever is due runs; nobody
  runs more often than it was told to.
* *DB*: each request finds what the last ones left, in three back ends that keep it in
  different places. Correct: a script's loop of fetches gets the rows of its query, each once,
  in order; a statement is run with the parameters counted for it.
* *Vaultster*: client and server each count their own states, and nothing they send says
  what it is; each step waits for one operation, with a timer; the outcome comes back through
  a slot that two threads write. Correct: STATUS_OK means that the file is on the other
  server's disk; nobody waits for ever; an outcome is told before its slot is used again.
* *Events, Chat*: one set of globals for activations inside one another. Correct: a script
  reads its own event; an action is skipped exactly if its own script asked for it.
* *MNX*: nothing in a datagram says which request it answers.
* *ResMan*: a cache by size and time of files that change, which finds its entries by a pointer to
  a stack buffer; counts of memory that wrap.
* *HashSet*: an iterator over a set that changes between two requests.
* *netoverride*: keeps, from the datagrams it sees, a list of whom the server has admitted.

## 2. Modules

| Module | What it is |
|---|---|
| `SortedList` | the operations of `lists.c` on sequences; a search is what it answers |
| `ListSearch` | the loop of `List_GetIndex`, one action per branch; shows that it answers that |
| `HookEngine` | the events; `stack` holds the activations of `CallHookSubscribers` |
| `EventBus` | abstract: sets of subscriptions, what a notification owes; implemented by `HookEngine` |
| `NameHash` | `NameHashFunction`, whose loop is a recursive function; a number is a set of bits; and what it is meant to be, `XorOfRotated` |
| `Services` | the services; `ServiceTable` is the abstract table of names it implements |
| `PluginLoader` | composes the loader with `HookEngine`: each call of the engine is its action |
| `Dispatcher` | the two hooked functions, with saved games, starts and crashes |
| `JvmScheduler` | the scheduler, with `stack` for the game's thread and `op` for the place of each thread in `assign` and `scheduleWait` |
| `JvmEvery` | the repeated blocks; `events` holds the calls of `event()` inside one another, with the iterator of each |
| `DbPlugin` | the requests of the DB plugin, and each back end's part of them |
| `ResultRows` | abstract: the rows due to each kind of fetch; implemented by `DbPlugin` |
| `Vaultster` | slots, clients, sessions, the connection between them, and the file |
| `ScriptEvents` | the hooks of Events and Chat; `scripts` holds the scripts inside one another |
| `Mnx` | the requests of MNX, the network and the servers |
| `ResMan` | demands, files that change, memory |
| `HashSet` | the requests on sets |
| `NetOverride` | `recvfrom` |
| `MCCore`, `MCPlugins` | several of them side by side, see below |
| other `MC...` | the instances for TLC (`Vaultster`, `DbPlugin_rco` and `JvmEvery_itself` need none) |
| `...Proofs` | theorems: `HookEngineProofs`, `CoreProofs` (search, services, name hash, dispatcher), `PluginLoaderProofs`, `DbPluginProofs`, `JvmProofs`, `VaultsterProofs`, `PluginsProofs` (the parts of `MCPlugins`); `ListProofs` holds the lemmas on lists, sequences and finite sums that the others cite |

State and actions have the names of the code. What differs:

* A subscriber is a *ticket*, the number of the `HookEvent` call that made it, and likewise
  a service; this lets properties tell apart two uses of one slot. `held` and `givenBack`
  remember the handles plugins have. Freed memory keeps its content until `malloc` hands
  it out again; an event's address is chosen by `\E`.
* An action is a call from its entry to the point where it calls plugin code, or returns.
  Nothing else can run in between: the core has one thread and its critical sections are
  comments. So `NotifyEventHooks` and `HookReturns` go on to the next callback, and whatever
  the callback does are actions that happen in between. `ScriptEvents` does the same with the
  scripts (`Act`, `EventScriptEnds`), `JvmEvery` with blocks (`FindsDue`, `BlockReturns`) and
  listeners. One step of the loop of `handleEvery` is one action, since `every()` may be called
  by another thread between two of them.
* In `JvmScheduler` an action is a step that other threads can come between: one call on a
  synchronized map, one `add`, one `wait`. `synchronized(tokenMap)` in `flushQueues` is
  `Locked`. Listeners and blocks are arbitrary code: a frame `code` may call anything.
* In `JvmEvery` the check of an iterator is `changed`: somebody else has changed the list since
  it was made. `hasNext` compares the place with the length and does not check, so a pass whose
  list got shorter may end early and not be broken off: `PassIsOver` and `PassIsBroken`.
* In `DbPlugin` a row is the query, the run of it, the set and the place it is from, so that a
  row of another query, an old row, and a row twice can be told. `result` is the current set and
  what is pending after it; each back end has operators of its own (`SqliteFetch`,
  `PgsqlFetch`, `MysqlFetch`), and the requests choose by `engine`. The database fails or
  answers with any sets by `\E`. In the contract, `due` is what is left of them for each kind of
  fetch; the mapping (`simpleDue`, `preparedDue`) computes it from each back end's cursor. On MySQL the sets after the
  first are pending on the connection, which is one for both kinds of requests: they stay there
  after a failed request, are thrown away by EXECUTE and P_PREPARE (`MysqlExecute`,
  `MysqlPrepare`), and go to whoever asks for the next set, of either kind (`MysqlNextSet`,
  `MysqlNextPreparedSet`). A request that does not get to the back end is `Refused`.
* In `Vaultster` the state of a client or session names the operation that is under way, as
  `state_` does; an action is its completion, with the next operation started. What is written
  is in `toServer` or `toClient` at once; only its kind (`what`) is there to be compared, and
  for a byte its place in the file. `STATUS` is two actions, between which the transfer's
  thread may go on; storing the file is three, between which the machine may stop. Lines of
  `handle_state` that treat a state alike are one entry of a function (`ClientNext`,
  `ClientSends`, `SessionNext`). All transfers are of one character, to one server.
* In `ScriptEvents` one kind of action stands for each sort of hook: with a target or without,
  that tests the bypass or not (`WithTarget`, `Blockable`), and destructors, which do not look
  at `scriptRun`. In `Mnx` a datagram is its request and whether it is the request or the
  answer; a SEND is two actions, between which the network and the servers go on. In `ResMan`
  a file is a version with a size and a time; `FreeChunk` frees any set of resources that its
  loop may have freed. `resFiles` is a set of nodes, each a stamp and, as history, whose file it is
  of (`Noted`): which node a lookup finds depends on buckets and on the depth of the stack, so it
  finds any, or none (`SeenUnchanged`, `NoteStamp`). In `HashSet` an iterator whose key was deleted is `Undefined`, and what
  it then gives is any key. In `NetOverride` each datagram is what the server gets for it.
* Calls that change nothing (`CreateHookableEvent` of a name that exists, `HookEvent` of one
  that does not, `ServiceExists`) are stuttering, except where `PluginLoader` goes on after them.
* In `Dispatcher` a value is "0", "1" or not set, an address is that of the script
  interpreter or another.

`MCPlugins` is the loader and seven parts that share no variable with it or with each other;
`MCCore` is the services, the search and the dispatcher, which share none either. Each has a
variable `running`, chosen at the start, and only that part takes steps. Nothing is lost: a
property of one part reads that part's variables only, and a behaviour of all of them
together, seen on those variables, is a behaviour of that part with stuttering steps, so that it
is violated together exactly when it is violated alone. (These are the theorems
`EachRunsAlone` and `CorePartsRunAlone`.) Parts that do meet are in one module
(`ScriptEvents`; `PluginLoader` with `HookEngine`).

Mutants: each module holds, next to some definitions, a version with a plausible bug
("Mutant of ..."). No specification uses them; each checked property fails when one of them
takes its original's place, which is how we know that the property says something.

## 3. Runs

| Run | Config | Shows |
|---|---|---|
| hook_engine | `HookEngine.cfg` | all invariants of the events, `EveryDueHookIsCalled`, and `ImplementsEventBus` |
| core | `Core.cfg` (`MCCore`) | services: permanence, `ImplementsServiceTable`, the hash against its definition; search: answers and ends; dispatcher: scripts are told from the server, answers arrive |
| plugins | `MCPlugins.cfg` | loader: everyone finds their events, code of a closed library is called at the start only; one or two properties of each plugin (below) |
| jvm_scheduler | `JvmScheduler.cfg` | blocks run at most once, in order, are not lost; waiting threads are not released early |
| vaultster | `Vaultster.cfg` | both sides understand each other; OK means stored; slots and outcomes |
| vaultster_ends | `Vaultster_ends.cfg` | transfers end, and arrive if nothing goes wrong |
| hook_abort_value | `HookEngine_abort.cfg` | violation, section 7 |
| dispatcher_saved | `Dispatcher_saved.cfg` | violation, section 7 |
| jvm_lost_wakeup | `JvmScheduler_wakeup.cfg` | violation, section 7 |
| jvm_lost_block | `JvmScheduler_lost.cfg` | violation, section 7 |
| db_rco | `DbPlugin_rco.cfg` | violation, section 7 |
| every_itself | `JvmEvery_itself.cfg` | violation, section 7 |

The properties of *plugins*, by part:

* DB: `PreparedCountAgrees` (P_EXECUTE's count of parameters is that of the statement which
  would run) and `ImplementsResultRows` (fetches give what the contract of `ResultRows` allows: what was due, or
  what is due after it; and, where a cursor is used up, pending sets of the other kind of fetch).
* Events, Chat: `EventDataIsOwn` (a script reads its own event), `BlockedIffAsked` (what had a
  script is skipped exactly if that script asked).
* MNX: `AnswersOfThisOpening` (an answer is to the request, or to an earlier one of the same
  opening whose own SEND was left without it: it timed out or failed, was given the answer to
  another one, or had its answer already and the network copied it. Such a chain begins with a
  request, that one or one before it, that timed out, failed or was copied).
* ResMan: `CachedFileIsHeld` (a stamp noted for a resource's own file that says "unchanged"
  means that the resource holds the file, but for the cases the property names; of stamps noted for
  other files nothing is said, section 7, 24), `MemoryAddsUp` (free and used memory add up, modulo the word).
* HashSet: `WalkIsComplete` (a walk gets each key that stays, once, in order).
* netoverride: `BindingsAreAdmissions` (the list is of whom the server admitted).
* JVM: `NoneDueIsPassedOver` (a pass over an unchanged list leaves nobody due),
  `RunsNoMoreThanSet` (a block set while idle runs no more often than it was set to).

Bounds, and why they are enough for the cases the properties are about:

* *hook_engine*: two names, two addresses (symmetric: it does not matter which one `malloc`
  gives to which event), two ids, three slots and tickets, two nested notifications, results
  0 and 1. A slot can be cleared before, at and after the one that is running, trimmed and
  given again; an address can be freed and taken by another event; a notification can be
  nested in one of the same or of the other event.
* *core*: four names with four of the real hashes, four tickets. Two of the names end in
  characters that are rotated over bit 31. TLC's integers have 32 bits with a sign, so names
  whose hash has bit 31 are left out. Searches in lists of up to six of nine keys: both
  parities, values below, between, above. Two plugins, two objects, three nested requests.
* *plugins*, the loader: the four plugins that use the core, and its four events; no nesting,
  since the callbacks there are do not notify. jvm may fail after it has hooked PluginsLoaded.
* *plugins*, DB: three queries given and two runs, of two sets with two rows each: what one run
  leaves meets the next, of the same or the other kind, with a failed one or one prepared between
  them; a set before and after a boundary, an empty one;
  0, 1 and 2 parameters around MySQL's limit of 1 (`MysqlMaxParams`, in the code 32). SQLite
  without SCO/RCO by SQL, for which the contract does not hold (*db_rco*).
* *plugins*, Events and Chat: two scripts inside one another, of either plugin or both; two
  targets. The globals hold what one activation leaves to the next, so a third level repeats
  the second.
* *plugins*, MNX: two openings, three requests, one answer waiting: late, lost, copied and
  reordered answers of an earlier request and of an earlier opening.
* *plugins*, ResMan: two resources, sizes to 2 of a total of 3, so that loading one may need the
  other freed or fail to find enough; a word of 8, so that memory wraps around; two versions and
  two times, so that a file changes in size only, in time only, or in neither.
* *plugins*, HashSet: one set (sets do not share anything), four keys. netoverride: two
  addresses, two keys.
* *plugins*, repeated blocks: two blocks, one of which may be stopped and run after the
  listeners, while the other is counted, up to 1; the clock goes to 2; two events inside one
  another: a block that causes an event in which it runs itself, or removes the other one.
* *jvm_scheduler*: one worker and the game's thread, two objects, three blocks, three tokens,
  seven frames (an event, its listener, a flush, a block of it, and a nested event with
  its listener and a flush). `Habits` chooses how the scheduler is used: careful, with
  exceptions, or anything (undisciplined, exceptions, spurious wake-ups, both threads assign).
* *vaultster*: two transfers of one character, so that they compete for the file and, with one
  slot, follow each other in it; files of one chunk or two; one thing may go wrong (a
  refusal, a time-out, a cut, a disk error or a crash). Two slots are enough for the search to go
  around. What two faults one after the other do is left to the theorems, which hold for any
  number of faults, slots, transfers and chunks.
* *vaultster_ends*: files of one to five units in chunks of two: less than a chunk, whole
  chunks, one more; two addresses; write may be short.

Deadlock is checked except in: *core*, where the search ends; *plugins*, where the loader
stops when no maker of events was loaded, or in `CallbackRuns` when the code is gone, and the
bounds end some parts; *every_itself*, which its bounds end; *jvm_\**, where the game's thread
really may stop (section 7), waiters may be forgotten, and the bounds end all else.

## 4. Fairness

`EverySearchEnds` of `MCCore` needs weak fairness of the loop of the search (`LoopNext`): it is a
loop of one thread that calls nothing else, so it goes on as long as the server runs.

`TransfersEnd` and `GoodTransfersArrive` of `Vaultster` need, for each transfer: that both
programs' `io_service` run a handler that stays ready (`ClientProgress`, `SessionProgress`),
that a timer expires which is not restarted because its operation does not complete
(`~ClientReady(t) /\ ClientTimesOut(t)`, and likewise for the session), and that resolving and
connecting end somehow, which are the only operations without a timer of the program: the
resolver and the operating system have their own. A connection is not assumed to deliver
anything after a cut, nor the server to be started again after a crash, nor a script to ask.
"Nothing goes wrong" is `faulty[t] = "no"`: a timer that expires while its side could go on is
a fault of the schedule; one that expires when nobody can go on is not, and would make
`GoodTransfersArrive` fail if the protocol came to wait for itself.

All other properties are of safety and need no fairness.

## 5. Assumptions

* One thread in the core (`modules.c` has commented its critical sections out).
* `hookProc` is not NULL, and an event is not destroyed while it is being notified
  (`DestroyHookableEvent` would free what the loop goes on to read). Freed `THook`s are
  only reused as `THook`s.
* Names of events have fewer than 64 characters (longer ones are cut off when an event is
  created and not when it is looked up), names of services are of 7-bit characters.
* At most 32767 events and 65535 slots: `HookEngineAssumption`.
* JVM: an `ExceptionHandler` takes every exception; objects stay valid; the callbacks
  `context`, `missedToken` and `postFlushQueues` do not call the scheduler.
* Vaultster: a thread runs the handler of a completed operation before the operation's timer
  (5 seconds) expires, or the time-out's handler comes first; a time-out's handler that is run
  after the completion's has deleted the client would use freed memory. A thread has left
  `io_service::run` by the time its slot, which it has just made OK or ERROR, is read by a
  script and used again. Scripts ask STATUS of slots they were given. TCP delivers in
  order, and `uncompress` finds out when bytes are missing or in the wrong place. `close` and
  `fsync` fail or not; after a `fsync` that succeeds the file survives a crash.
* Repeated blocks: `every` may be called by any thread, and what it adds is seen at once;
  `stop`, `setRunsRemaining` and `setTiming` are called by the game's thread, in blocks and
  listeners. The clock does not go back, and `handleEvery` takes no time but in blocks. An exception
  of a listener ends its event.
* DB: the client libraries do what their documents say: MySQL refuses a command while sets are
  pending (2014), PostgreSQL's simple query destroys the unnamed statement, a lost connection
  stays lost. A query's results do not change while they are fetched.
* Events, Chat: the server runs a script to its end before the hooked function goes on, and
  destroys objects inside a script only if the script, or what it runs, does so.
* MNX: a server answers a request once for each time that it gets it, and the port of a closed
  socket is not given to another while answers to it are on their way.
* ResMan: the server calls `RetrieveResEntry` for a resource right before it demands it; a
  subscriber's data has a size that fits; nobody writes a file while it is read.
* HashSet: moving an iterator whose key was deleted answers something and does not crash.
* netoverride: a client's datagrams have a sender's address (`from` is not NULL).
* Loader: what plugins call in `OnCreate` and in their callbacks is what they call in this
  repository. `FailsLate` are the plugins that may fail after they have hooked an event: jvm, which
  by then has hooked PluginsLoaded and nothing else. A callback whose code is gone ends the server.

## 6. Theorems

Proved for all values of the constants allowed by the assumptions named in the modules:

* `HookEngineProofs`. `EngineInv` is inductive: the list is sorted, ids are unique and below
  the counter, arrays never end with a cleared slot, handles that are held are of ids below
  the counter, and (unless handles are reused) designate their subscription. The uniqueness
  of ids is what a handle rests on, and trimmed arrays are what makes the count mean
  something. From it: `ListStaysSorted`, `CountIsZeroExactly`, `HandlesStayGood`. With
  `NotifyInv` (tickets ascend along an array; every slot still ahead of an activation holds a
  later ticket than any it has called, and a subscription that was due is ahead or was called)
  `CallsAreOrdered` and the action property `NobodyIsPassedOver` follow.
  `EngineIsAnEventBus` is the refinement of `EventBus`: each call is shown to be one of the bus
  (`Subscribe`, `Drop`, `Notify`, `Return`...) or a stutter, under the mapping that takes an event's array to its
  set of tickets. Its centre is `ResumeProceeds`: however the array was changed during a callback,
  the loop, which goes on by position, goes on as the bus allows, which knows no positions.
* `CoreProofs`, the search. `SearchInv`: what is left of `low` is smaller and what is right of
  `high` is larger. Hence `SearchIsRight` for lists of every length, which is what the other
  modules assume of `List_GetIndex`. `SearchHalves`: a turn of the loop that does not end it leaves
  at most half of what was left, which is why `EverySearchEnds` holds, and how soon.
* `CoreProofs`, the services. `ServicesInv`: the list is sorted, its elements and the handles that
  are held agree. Hence `ServiceListStaysSorted` and `ServiceStays`, for every hash function.
  `ServicesAreATable` is the refinement of `ServiceTable`, where no two names have the same hash
  (`HashesDiffer`, which TLC finds true of the names of the run). Without that it does not
  hold: section 7, 11 has two names that have one. With the invariant `CalledByName`,
  `CallsReachTheirService`: under the same assumption a call never runs a service of another name.
* `CoreProofs`, the name hash. The loop of `NameHashFunction` shifts to the left, and shifts to the
  right what falls off, which must meet at bit 31. `TurnPlaces`: the two together put each bit of a
  character in one place, where a rotation would. `LoopHasOddPlaces`, for names of every length: after
  each turn the hash has the bits in which an odd number of characters landed. (If not for all turns,
  there is a smallest number of turns for which not, and it is not 0: the prover needs no rule of
  induction for this, only `SmallestOf`. That the recursive function exists is shown in the same
  way.) Hence `HashIsXorOfRotated`, and, where the services have these hashes (`HashesComputed`),
  `ServiceHashesAreRotated`. It also tells when hashes differ: `OneCharacterTells`, of two names
  that differ in one character or in one more at the end, since a 7-bit character's bits land in
  seven places; `NumbersTell`, that a number of 32 bits is known by its bits. Hence
  `FamilyHashesDiffer`, for names of which any two are so apart: it is `HashesDiffer` for them.
* `CoreProofs`, the dispatcher. `DispatcherInv`: unless the module has been run without the
  extender, "1" is stored neither in the module nor in the saved game. Hence `OnlyScriptsPass` (for
  `nwnxinitdisabled = FALSE`). `AnswerInv`: the flag is down between calls. Hence
  `AnswersArrive`.
* `PluginLoaderProofs`. `LoaderUsesTheEngine` shows that each step is a step of `HookEngine`
  or leaves its variables alone, so its theorems carry over. `LoaderInv`: what the engine
  calls was hooked by a plugin that readdir has listed. `FindInv` (in
  `PluginLoader`): no slot is cleared during the start, each call of `OnCreate` that was made
  took effect, and each callback of PluginsLoaded that was called has hooked what exists. With it,
  and with the sorted list from `HookEngineProofs` (a name is found at one address only),
  `EventsAreFound`. It needs `PluginLoaderAssumption`: a plugin that hooks events in its callback
  has hooked PluginsLoaded in its `OnCreate`, as jvm does. `SlotsAreSafe`: whose subscription is in
  a slot is in memory and cannot fail any more, or is one of `FailsLate` and the slot is of
  PluginsLoaded, or its `OnCreate` runs and will not fail. Hence
  `ClosedLibrariesAreCalledAtTheStartOnly`, for plugins that hook only PluginsLoaded before they
  may fail, as jvm does.
* `DbPluginProofs`. `DbInv` is inductive. Its `CursorInv` says what each back end keeps of its
  place: not past the end of the current set, never more than one set but on MySQL, no place
  without a result on PostgreSQL, at least one row stepped to on SQLite. Its `StatementInv` says
  that a count of parameters, where there is one, is that of the statement held. Hence
  `ParametersFitTheStatement` and, with the bounds, `DbTypeCorrect`, for every number of queries,
  rows and parameters. With `DbInv`, each
  request is shown to be one that `ResultRows` allows (`ExecuteStep`, `FetchStep`, `PrepareStep`,
  `ExecutePreparedStep`, `FetchPreparedStep`, `ObjectStep`), by lemmas on what is due of some
  sets when a row is taken (`DueOfRow`), when a set is used up (`DueOfEnd`) and at first
  (`DueOfAll`), and, on MySQL, of what is stored or pending of them. Hence the refinement `FetchesGetTheRowsDue`, for all three back ends, if SQLite is
  not used with SCO/RCO by SQL: there it does not hold (section 7, 5).
* `JvmProofs`. Eighteen actions touch the same few variables, so the proofs do not look at each
  action for each invariant: `BlockSteps` says what any step may do to the places where a block can
  be (the queue, a list, the hands of a thread), `RefSteps` what it may do to the references to
  lists, `WaitSteps` what it may do to waiting threads, and the invariants are shown to be kept by
  these. `Inv` is inductive: the shape of the stack (`Sane`), blocks are in the queue and the lists
  in order (`Ordered`), a block that was not run is in one place (`Apart`), tokens the game holds and
  objects that are gone through have a list (`TokensHeld`, `ObjectsHeld`), and under discipline a
  list has one holder, which has not yet run what is ahead of it (`Disciplined`). Hence
  `WorkersBlocksInOrder`, `TokensAreFound` and `BlocksRunOnce`. `Waiting`: who is noted as a waiter,
  in the queue or in a frame, waits for that block, in the frame's case one that was run, and is noted
  once; so `notify` wakes nobody else, and `WaitersReturnInTime`. `Steadily` (`GameMap`,
  `SizesFit`, `AllKept`): where only the game's thread assigns and blocks neither assign, flush
  nor throw, the size that a loop over a list has read stays that of the list, and every list with
  blocks still to run goes on having a holder that will come to them (`HoldersGoOn`): hence
  `BlocksStayQueued`. It was checked on the run as an invariant before it was proved; each
  hypothesis is needed (section 7, 4 and 13).
* `VaultsterProofs`. `SlotsInv`: a STATUS request under way is for a slot that has been given
  to a transfer, and a slot that was given away is READY only when a script was told. It is
  inductive since only `AnswerStatus` makes a slot READY, since `Send` takes READY slots only,
  and since a client's own outcome is never READY. Hence `OutcomesAreTold`. `LinkInv`: both sides
  follow one script of items, and what is under way is what comes next in it after the items that
  were read; a state stands for a place in the script (`HasSent`, `HasRead`, `AcksSent`). Hence
  `ItemsAreWhatTheyAreTakenFor`, `FilesArriveWhole`, and `SomebodyGoesOn`: on a connection that is
  up, one of the two can always go on. With `BusyInv` (a BUSY slot has one transfer; what ends
  without a last word was broken off) `BusySlotsAreBroken`. `StoreInv`: the word that a file is
  stored is on its way, or has been heard, only when the file was synced after the last
  that opened it; who is writing opened it last. Hence `OkIsStored`, for
  `ShortWrites = FALSE` (section 7, 15, is why). `TransfersGoForward`: what a client or a session has
  left to do (addresses to try, items of the script to send and to read) gets less with each of its
  steps, and what is left of the other side does not grow: with `SomebodyGoesOn` this is the
  safety half of `TransfersEnd`, whose other half is fairness. TLC's run has one fault; here any number may happen.
* `PluginsProofs`, for each part of `MCPlugins` an invariant of its own:
  - Events, Chat (`EventsInv`): of the running scripts only the innermost of each plugin may have
    been left undisturbed, and the globals are that one's. Hence `EventsKeepTheirData`,
    `SkippedAsAsked`, at any depth.
  - HashSet (`HashSetInv`): a walk that is valid has had, in order, all that stayed up to the key it
    is at. Hence `WalksAreComplete`.
  - ResMan (`MemoryInv`, `CachedInv`): hence `MemoryIsAccountedFor`, for any sizes and any word, and
    `CacheIsRight`, whichever node each lookup finds; its exceptions are those of the property.
  - netoverride (`OverrideInv`): an address is in the list once, with the key it was admitted with,
    and every admitted one is in it. Hence `BindingsMatch`.
  - MNX (`MnxInv`): a datagram is in one place unless the network copied it, on the socket of its
    request, and what lies about unasked is the answer to a request whose SEND ended without it or that was
    copied, and goes back to one of the same opening that was not answered or was copied. Hence `AnswersMatchOpenings`.
  - Repeated blocks (`EveryInv`): the runs left are those set minus those done, counting the one
    under way (`RemainingCounts`); whoever was due when a pass began has run, is stopped or
    removed, or is ahead of the iterator (`DueSeenTo`). Hence `SetRunsAreKept`, `DueAreSeenTo`.
  - All together: `EachRunsAlone`, and with it and the type theorems `TypesAreKept`.

Type invariants are proved in all of these.

Every safety and action property of the passing runs is stated by a theorem. Only model-checked:
`EverySearchEnds`, `TransfersEnd` and `GoodTransfersArrive`, which are liveness properties; the
prover has neither liveness under fairness nor ENABLED. `SearchHalves` and `TransfersGoForward` are
what can be proved of the first two without. No module declares a RECURSIVE operator. What does not
hold (section 7) is TLC's counterexample.

## 7. Disagreements

Where the code does not do what a comment or document says. Each is a property of a module,
marked as not holding, but for those at the end. Six have a run:

1. `AbortValueIsReturned` (`modules.c` 297): the aborting subscriber was the only one and
   unhooked itself; the default hook runs and its value replaces the abort value.
2. `ScriptsOnly` (`nwnx2lib.cpp` 157-163): the game was saved while the server ran without the
   extender, so `NWNX!INIT` is stored as "1"; when it is loaded, the server's own call defines
   the address, and scripts are rejected.
3. `NoWaiterForgotten` (`Scheduler.java` 155-169): the block runs and notifies before `wait`.
4. `EveryBlockStaysQueued` (`Scheduler.java` 237-241): an assigned block assigns to an object
   whose turn is over; `tokenMap.clear()` drops it.
5. `MainLoopUnbroken` (`sqlite.cpp` 366-449): on SQLite, retrieving an object by SQL between two
   fetches takes the statement of the query away (the run: a query of two rows, the first of which is
   fetched; then an object is retrieved, and the second row is never fetched); CHANGES 35-45 promises a loop that does this.
6. `RunsNoMoreThanSetByItself` (`ScheduledEvery.java` 83-90): a block that calls
   `setRunsRemaining(0)` on itself has -1 left when it returns, which is for ever; the comment at
   101 says "after any currently-running".

The others are found by adding the property to the named config:

7. `DefaultOnlyIfNobodyHooked` in `HookEngine.cfg`: the default hook runs in a notification
   that has already called a subscriber, which unhooked itself (`modules.h` 86: "ONLY CALLED
   when no one else has HookEvent()'d").
8. `NotifiesItsOwnEvent` in `HookEngine.cfg`: a destroyed event's handle is the address of
   another one (`modules.h` 52-53: "NotifyEventHooks() will fail if called with this hEvent
   again").
9. `HandlesDesignateTheirHook` with `ReuseHandles = TRUE`: unhooking twice with one handle
   removes somebody else's subscription, and returns 0 (`modules.h` 113).
10. `ZeroMeansDestroyed` in `Core.cfg`: `DestroyServiceFunction` returns 0 for a handle
    that is no longer valid (`modules.h` 137); `SetHookDefaultForHookableEvent` likewise.
11. `CallsTheNamedService` in `Core.cfg`, with two names of one hash: `"Bb"` and `"bc"` (what
    the first characters differ in is rotated to where the second ones differ), so a call by one
    name runs the service of the other (`modules.h` 144).
12. `ContextIsKnown` in `JvmScheduler.cfg`: after an inner event, `contextThread` is null while
    the outer listener runs (`Scheduler.java` 108, 47); the condition of `token` (line 56) sets
    it only if it is set already.
13. `ReturnsAfterItsBlock` does not hold where `habit.spurious` (`Scheduler.java` 169: `wait` is
    not in a loop); `RunsOnce` not where `~habit.disciplined` (a block that calls `flushQueues`
    while assigned blocks are handed out runs them again); `EveryBlockStaysQueued` not where a
    worker assigns (lines 186-188).
14. Code of a closed library is called in *plugins* itself: `NWNXJVM.cpp` hooks PluginsLoaded (line
    133) and may then return false (137, 149, 152), the library is closed (`nwnx2lib.cpp` 454),
    and its callback is called when the event is notified. `ClosedCodeRunsAtTheStartOnly` says that
    this is the only event for which it happens, and only to plugins that fail so late.
15. `OkMeansStored` in `Vaultster.cfg` with `ShortWrites = TRUE`: the server takes any result of
    `write` that is not negative for success (`vaultster-serv.cpp` 239-240), so the client
    is told STATUS_OK of half a file when the disk is full.
16. `BusyUntilOutcome` would not hold without its second half: a slot whose transfer was broken
    off (no file, no server, a lost connection, a time-out) stays BUSY for ever, since the code
    that would take it back is commented out (`NWNXVaultster.cpp` 84-91). With each slot lost,
    one transfer fewer can be under way, until SEND answers -2 always.
17. The old character is lost when the server's machine stops between `open` with `O_TRUNC`
    (line 230) and `fsync`: `vault.file` is `Torn`. No comment promises anything else.

Seen in the actions of a module, where its properties leave them out by what they say:

18. `JvmEvery`, `PassIsBroken`: when the list is changed by anybody else during a pass (`every` from
    a block or a worker, or an inner pass that removes a block), the iterator throws, and the event
    is not distributed (`Scheduler.java` 289). Where the list got as short as the iterator's place,
    `PassEnds`: the pass ends early and the rest of the blocks wait for the next event.
19. `JvmEvery`, `FindsDue` of a block that is running: with 1 run left and a run inside a run,
    -1 is left, which is for ever. A block that throws is not counted, and stays in the list until
    its pass is over, so that inner passes run it again.
20. `DbPlugin`: SQLite answers P_PREPARE with 1, though it has no prepared statements
    (`sqlite.cpp` 347-351). A simple query on PostgreSQL destroys what P_PREPARE has prepared,
    since both use the unnamed statement (`pgsql.cpp` 148, 444). On MySQL `MysqlNextSet` and
    `MysqlNextPreparedSet` get whatever is pending on the connection (`mysql.cpp` 214, 944): FETCH
    at the end of its sets takes over those pending for P_FETCH, and the other way round. The
    contract allows this (`TakeOver`), as a script that reads each query to its end does not meet it.
    A fetch may fail with rows due (`mysql.cpp` 815, 888-890, 988-990), and leave other sets pending:
    they are due after it, or go to the next who asks.
21. Not in `DbPlugin`: MySQL, a query of several statements of which one returns no rows:
    `Execute` and `Fetch` stop there (`mysql.cpp` 172-177), and the sets after it are lost;
    `nwnx_db.nss` 49 says "returns ALL result sets". The status a stored procedure ends with, which
    is one more set without columns (779-783). What the columns of a set are read as that was taken
    over from the other kind of request, whose rows come in another form. `Execute`'s loop over
    what is pending while P_FETCH is in the middle of a set read row by row (154): whether it
    ends is up to the library; in the model the query then fails. FREEZE that
    fails leaves the object of the FREEZE before in the buffer (`NWNXdb.cpp` 303), and bad
    parameters to THAW leave `lastObjectID`. `ReadScorcoData`'s mode "FETCHMODE" (`sqlite.cpp`
    401, `pgsql.cpp` 666, `mysql.cpp` 1328) cannot be reached in this plugin: `ReadSCO`
    calls it only where the key is "-", and passes the key on (`NWNXdb.cpp` 864-875).
22. `ScriptEvents`, `Act` inside a script: no event is fired, but the answer to the last one is
    still tested, so that an action inside a script may be skipped because another was
    (`HookFunc.cpp` 553). Likewise a combat message to a player who is gone is suppressed by the
    answer to an earlier message (`HookChat.cpp` 87). `Destroy` inside an event's script takes its
    data and its bypass away.
23. `Mnx`, `TimedOut`: the script is left with its own request in place of an answer (`NWNXmnx.cpp`
    252-258). `Interrupted`: `select` gives -1, which is not 0, and `recvfrom` waits without limit,
    and the whole game with it (231-236). An answer that is late goes to the next request, and
    so does every one after it, until CLOSE and OPEN.
24. `ResMan`: `FreeMemory` is unsigned, so that the test for `< 0` (`NWNXResMan.cpp` 171) never
    holds and the subtraction (200) wraps. The stamp is noted before the file is opened, so a file
    that cannot be opened once is not tried again until it changes. A file written anew with the
    same size in the same second is not seen. `resFiles` is a `hash_map<const char*, ...>`
    (`NWNXResMan.h` 75), which compares keys as pointers, and the key is always the stack buffer
    `resPath` (105, 114, 124, 133). So files whose paths are in one bucket share an entry, when
    the server calls from the same depth: a file changed to the size and time that was
    noted last for the other one is not loaded; and at each other depth a file's own entry is not
    found, so that it is loaded again and the table grows, and its nodes are put in new buckets by
    what the buffer holds then. In the model a lookup finds any node or none. `CachedFileIsHeld`
    leaves out the first of these by what it says (`e.of # r`): with that disjunct removed and
    `MaxVersion = 3` (each file loaded, and one written again with the other's stamp), TLC shows it.
    The run has two versions, which is enough for one file's stamp to take the place of the other's;
    `CacheIsRight` is for any number.
25. `HashSet`, `Delete` of the key that the iterator is at: what the next GETNEXTKEY does is
    undefined (`NWNXHashSet.cpp` 343), and so is one before any GETFIRSTKEY. VALID and EXISTS leave
    STATUS at success whatever they find.
26. `NetOverride`, `Leave`: an address stays bound until its client says that it leaves; when that
    datagram is lost, nobody with another key logs in from there again.
27. `NameHash` is of the C loop of `NameHashFunction` (`modules.c` 198-207), which is what is built.
    The assembly for another compiler (176-196) takes the first character twice, once not rotated
    and once by five bits, and every other by five bits more than the loop does: its hashes
    are others. Nothing keeps or exchanges hashes, so no build meets the other's.

## 8. Plan

Order of the work, the most important first.

1. Core events, lists, services, loader, dispatcher, JVM scheduler, vaultster: done.
2. The plugins that keep a state between requests: DB with its contract, Events and Chat, MNX,
   ResMan, HashSet, netoverride, and the repeated blocks of the JVM plugin: done.
3. The refinement of `ResultRows` by all three back ends, proved: done.
4. A proof of every safety property that a run checks of the
   refinements of `EventBus`, `ServiceTable` and `ResultRows`, and of the composition of the
   plugins and of the core; and of the safety half of what the liveness properties say: done.
   What is left there needs a prover of liveness.
5. Models that are left: conversations of the Events plugin (the node and the conditional script);
   the object buffer of FREEZE and THAW; MySQL statements without rows among several.

## 9. Not modelled

* Patching the server's code, signatures, `api/`, `include/`, `lib/nwn_*`: addresses and
  declarations of a program that is not here.
* Rule plugins (funcs, functions, funcsext, defenses, weapons, spells, structs, tweaks, fixes,
  extend, dmactions): accessors and replaced functions of that program.
* Lua and Ruby: embedded interpreters with generated bindings. gdbm, system, reset, profiler,
  connect, serverlist, optimizations, TMI: a hook or a library call each.
* `HookEventMessage`, `KillModuleEventHooks`, `KillModuleServices`, `List_InsertPtr`,
  `List_RemovePtr`: never called. `DestroyModularEngine`: at exit.
* Logging, formatting, configuration files.
* Of the plugins that are modelled: conversations, ValidateCharacter and the returned value of
  Events; the object buffer, ESCAPE and the encoding of values of DB; ODMBC but for its events
  (it is an older form of DB); GETEXPORTPENDING and the configuration of Vaultster; Exists of
  ResMan; `gethostbyname` of netoverride; `setTiming` of a block in the list.
* visibility, areas, names: tables written by scripts and read by hooks. openoverride and
  bindoverride: change an argument, and keep nothing.

The modelled lines are a small share of the repository's: by far the most of its C and C++ are
generated bindings of the server's functions for Lua, Ruby and Java, the declarations in `api/`
and `include/`, the tables of addresses in `lib/`, and accessors for scripts. They have no
behaviour of their own that a model could be right or wrong about.
