# Models and proofs of the Pico ESP-hosted host driver

TLA+ modules, TLC configurations and TLAPS proofs for the C code of this
repository: a Raspberry Pi Pico (RP2040 or RP2350, FreeRTOS, lwIP) that drives
an ESP32 as Wi-Fi coprocessor.  The modules are translations of the sources
named in the `map` of `PROJECT.json`, which gives file and lines for each
definition.

## 1. Inventory

The repository is a FreeRTOS port of ESP-IDF components (`src/esp_submodules/
extra_components`) and the glue to the board (`src/freertos`).  The esp-hosted
transport and RPC itself is a git submodule whose directory is empty here: it
is external, known only by the calls that are made to it.

| component | state | operations | hard part |
|---|---|---|---|
| event loop (`esp_event.c`) | queue, recursive mutex, `running_task`, registry, heap copies of event data | create, delete, post (task, handler, interrupt), run, register, unregister | posters, runners, interrupts and deletion interleave; bounded queue |
| handler registry (`esp_event.c`) | three levels of linked lists | register and unregister through two APIs | where an entry goes depends on the history |
| dispatch (`esp_event.c`) | cursors into those lists | walk, handlers call back into the API | lists change under the cursors |
| default loop and legacy loop (`default_event_loop.c`, `event_loop_legacy.c`, `event_send.c`) | one pointer, the flag and callback of the legacy loop | create, delete, forward; init, deinit, send | pointer is checked and used without a lock; two interfaces delete one loop |
| HTTP client (`http_client.c`) | request block, parse state, kept headers, window, timeout | start, connected, receive, close, error, poll | any segmentation, end at any point |
| OTA over HTTP (`esp_hosted_ota.c`) | `ota_state`, `ota_sem`, update in the coprocessor | one call and three callbacks in lwIP's thread | wait that times out, RPC that fails, globals shared by calls |
| hosted OS layer (`os_wrapper.c`, `spi_wrapper.c`) | semaphores, mutexes, queues, timers, GPIO and SPI | thin functions over FreeRTOS | ownership of timers and their arguments |
| transport configuration | one structure and a flag | set, get, reset | defaults over a configuration that was set |
| mempool | free list, blocks in use | alloc, free | limits, lock |
| DHCP server (`dhcpserver.c`) | lease list sorted by address, running candidate, address range | start, stop, message, timer tick | uniqueness of addresses, full pool, range arithmetic |
| ping (`ping_sock.c`, `ping.c`, `esp_ping.c`) | flags, counters, a task per session, one global result | start, stop, delete; batches | flags written by other tasks, freeing of the session, late answers |
| esp_netif | list of interfaces, default interface, DHCP states, calls into lwIP's thread | create, destroy, attach, start, stop, up, down, set default | order of events, lock that is created on demand |
| calls into lwIP (`esp_netif_lwip.c`, `wlanif.c`, `sys_arch.c`) | mailbox, two semaphores shared by all callers, frames on their way | call and wait for the answer, receive a frame, destroy an interface | whose answer it is; frames behind a destruction |
| SNTP service (`esp_netif_sntp.c`, `sntp.c`) | storage with semaphore and callbacks | init, deinit, wait, renew, synchronise | storage freed under three other tasks |
| L2 TAP (`esp_vfs_l2tap.c`) | descriptors with state, filter and queue of frames | open, ioctl, fcntl, read, select, close, filter a frame | close under a blocked reader, finished by an idle-priority task |
| esp_wifi handlers (`wifi_default.c`, `wifi_netif.c`, `wifi_remote_net.c`) | two tables of interfaces, registered handlers, receive callbacks | attach, set and clear handlers, Wi-Fi events, receive | partial failure of a series of registrations; destruction under a running handler |
| SmartConfig (`smartconfig.c`, `smartconfig_ack.c`) | one flag, the sockets of acknowledging tasks | start, stop, found, acknowledge | one flag for all tasks |
| log | list of tags and levels | set, get | small |
| lwIP port (`sys_arch.c`) | mailboxes and semaphores | post, fetch with timeout | small |

Tasks call the event API and `esp_hosted_ota_http`.  lwIP's thread calls the
HTTP client and, through it, the callbacks of the update, which make blocking
RPC calls to the coprocessor.  Wi-Fi and IP events travel through the default
event loop to handlers that start and stop interfaces.

What makes each component correct is listed, with the line where it bites, in
the `hazards` of `PROJECT.json`; three of these have no property, with the
reason: what the code does there is wrong or undefined, and section 6 lists it.

## 2. Modules

### Event loop

`EventLoop` has the loop as its tasks see it.  `pc` says where each thread is
inside `esp_event_post_to` (`post_lock`, `post_check`, `sending`) or
`esp_event_loop_run` (`receive`, `locking`, `dispatch`, `handler`); a step is
the code between two accesses to shared state.  `holder` and `depth` are
FreeRTOS's recursive mutex, `queue` is the queue, `out` and `post` the local
variables that hold a post on its way, `status` the heap copy it carries.
A post with a wait of 0 or of a finite number of ticks may time out whenever it
cannot proceed.  The registry is one sequence of matching registrations here:
its structure has modules of its own.  `EventService` is what a loop with a
dedicated task promises: bounded, in order, each event once, one at a time.
`EventLoop!ImplementsService` is the refinement, where the event that was
unqueued and waits for the mutex is the first of the pending ones.

`HandlerRegistry` has the three levels of lists as nested sequences and the
functions that add to and remove from them, with the rules that decide about a
new node and with the result codes that steer removal.  `EventHandlers` is the
promise: per event the list of the registrations in force that match it, in
the order in which they were made.  `MCHandlerRegistry!InstancesImplementHandlers`
is the refinement, for callers of the instance API; for callers of the legacy
API, `LegacyKeepsOtherKeys` says what a removal may not touch.

`EventDispatch` extends the registry with the nested walks of a dispatch, whose
cursors are addresses of nodes, and lets the handler that runs register others
and unregister itself.

`LoopRun` is the tick arithmetic of a timed run, with a counter that wraps.

### DHCP server

`DhcpServer` has the server together with the stations it serves, for what
matters is that the two agree.  Each message is an action (`Discover`,
`Request`, `Renew`, `Release`, `Decline`, `Inform`): it joins `Handle`, which
is `handle_dhcp` with `parse_msg` and `parse_options`, and what the station
does with the answer, which may be lost.  `pool` is `plist`, `plus` is
`client_address_plus`, `range` is what `dhcps_poll_set` made of a setup,
`timers` counts the timeouts that lwIP holds for the server.  `Tick` is
`dhcps_tmr` with `kill_oldest_dhcps_pool`; `Start`, `Stop` and `Delete` are
called as esp_netif calls them.  The stations (external) believe in an address
for as long as their own clock says: `bound` and `left`.  `forgotten` records
the stations whose lease the server dropped although they still use it.
`Candidate` says by quantification what the search finds; `MCDhcpServer`
writes the loop over the sorted list as a fold and compares both.

### Update over HTTP

`HttpClient` has the requests of `http_client.c`, one action per callback of
lwIP.  The answer of a server is a stream of units (status line, headers,
units of body), cut into segments anywhere.  `OtaHttp` extends it with
`esp_hosted_ota_http` and its callbacks: each action of the client is joined
with what the callback it invokes does, and the application task moves in its
own steps.  `OtaHttpProofs!OtaImplementsHttp` shows that the composition
allows nothing the client's own specification does not.

### Network interfaces

`Netif` has the interfaces of esp_netif with what lwIP keeps of them.  The
`esp_netif_*_api` functions run in lwIP's thread, one after the other, so each
is one action: `Start`, `Stop` and `StopDown`, `Connected` (`esp_netif_up`),
`Disconnected` (`esp_netif_down`), `DhcpcStart`, `DhcpcStop`, `DhcpsStart`,
`DhcpsStop`, `SetIpInfo`, `SetDefault`, and `Expire` for the timer of lost
addresses.  What is not one call in that thread has several: `esp_netif_destroy`
(`DestroyBegin` takes the interface from the list, `DestroyRemove` from lwIP,
`DestroyEnd` updates the default and frees it), and `esp_netif_action_connected`,
which after `esp_netif_up` reads the status (`ReadStatus`), and then starts the
client (`HandlerStart`) or reads the address (`ReadIp`) and posts it
(`PostStatic`); `handler` says where it is.  `last`, `overridden` and `route` are
`s_last_default_esp_netif`, `s_is_last_default_esp_netif_overridden` and lwIP's
`netif_default`; `UpdateStarted` and `UpdateStopped` are the two automatic cases
of `esp_netif_update_default_netif_lwip`, in terms of the interfaces that are
listed and up after the rest of the call.  `status` is `dhcpc_status` or
`dhcps_status`, `engine` what the client or the server really does, `ip` the
addresses in lwIP and `ip_info`, and the timer.

### Tasks and the TCP/IP thread

`TcpipCalls` has how other tasks reach lwIP's thread.  A call takes
`api_lock_sem`, posts its message, waits for `api_sync_sem` and reads its
answer; each of these is a step (`CallLock`, `CallPost`, `CallWait`,
`CallReturn`), and so are fetching, running and signalling in the thread.
`calls` holds the message, which lives on the caller's stack: `ran` says
whether its function ran.  A driver puts frames into the same mailbox
(`ReceiveFrame` to `ReceiveInput`), where they stay while a call of
`esp_netif_destroy` (`Free`) removes and frees the interface.

`Ping` has the sessions and their application.  Flags are read in one step and
written in the next, as the code changes them without a lock.  `Take` and
`TakeTimeout` are the two results of the task's wait, `Send`, `Receive` and
`BatchEnds` its loop, `Finish` the callback that ends the batch and deletes the
session.  The end of a batch clears the global result only when the application
has given a result function (`SetResFn`, once); without one the counts stay for the
next batch until the application clears them (`ResReset`), and `untold` has what they
add up to.  Answers may be lost, late or of an earlier batch.

`Sntp` has the storage of `esp_netif_sntp_init` and the five tasks that know
it.  `DeinitClear`, `DeinitCallback`, `DeinitStop` and `DeinitFree` are the lines of
`esp_netif_sntp_deinit`; the callback tests the storage, gives its semaphore,
tests again and calls back in four steps of the TCP/IP thread.

### Objects that come and go

`L2Tap` has the descriptors with their queues.  `OpenTake`, `OpenQueue` and
`OpenSet` are one call of `l2tap_open`, `Close` to `CloseDone` one of
`l2tap_close`; `CleanMark`, `CleanPop` and `CleanFlush` are `l2tap_clean_task`,
which only runs while no other task can (`Clean`).  The driver's call of
`esp_vfs_l2tap_eth_filter` goes over the descriptors one by one.  `FrameSymmetry`
is sound as frames only differ by name.

`WifiGlue` has the two tables of interfaces, `slot` (`wifi_default.c`) and
`rxnetif` (`wifi_netif.c`), and the callbacks of the driver, `rxcb`; `object` is
an interface with its driver.  The default handlers are registered one by one
in `RegisterNext`, which may fail and then unregisters all.  An event runs one
handler (`Dispatch`, `FetchDriver`, `SetRxNetif`, `SetRxcb`, `Action`), during which
the event loop holds its mutex, so that an unregistration waits for it (see
`EventLoop`).  An interface is attached in three steps (`Attach` sets the slot,
`AttachDriver` makes the driver and the interface's pointer to it, `PostAttach` the
driver's pointer to the interface), and the handlers of all interfaces are registered
with the first, so that a handler may be called in between: it is `early`, may find no
driver (`FetchNoDriver`), and is refused by `esp_wifi_register_if_rxcb` until the driver
names its interface.

`NetifList` has the list, its counter and the mutex that comes with the first
call and goes when the list is empty.  `DefaultLoop` has `s_default_loop`
with the legacy loop on top.  `SmartConfig` has start and stop, the handler of
a found configuration and the acknowledging tasks.

In these modules some overlaps are not followed, for what the code does after
them is undefined or plainly lost: each is recorded in a history variable
(`raced`, `overlapped`, `shared`, `late`, `overtaken`, `lost`, `again`) that the
properties or the guards name, and section 6 lists them.  `NetifList` and
`WifiGlue` go on after `raced` and `overtaken`, up to an assertion of the code or of
FreeRTOS; the properties except what follows.

### Conventions

An operator `Action_Word` next to `Action` is a wrong variant that `Next` does
not use; the `mutants` of `PROJECT.json` put it in the place of `Action`, and
the property named there must then fail.  `MCNetif` and `MCOtaHttp`
only hold constants and symmetry sets that a configuration file cannot write;
`MCHandlerRegistry` chooses one of the two APIs at the start, as the properties
differ; `MCDhcpServer` also has the loop of the search as a fold and,
as an assumption that TLC evaluates, its agreement with the quantified form
(`SearchIsSkip`).  `SharedObjects` and `CallsEnd` put modules that share no
variable into one specification: `part` chooses one at the start and the others
stay in their initial states.  `MCSharedObjects` adds constants, the symmetry of the
frames, and `BeforeRace`, which ends the exploration of the list of interfaces where
its property ends.

## 3. Runs

| run | configuration | what it shows |
|---|---|---|
| `loop_dedicated` | 2 posting tasks and the loop's task, 4 posts, queue of 2, 2 handlers | a post that may wait for ever is served, an accepted post is dispatched, in order, once; copies have one owner; no handler is called after its removal |
| `loop_shared` | 2 tasks that run and post, 3 posts, queue of 1, finite and infinite waits, data on the heap and inline | dispatches exclude each other and `running_task` names the dispatcher, so that a post from a handler does not wait |
| `loop_deletion` | as above with a dedicated task | violation: see section 6 |
| `registry` | one of the two APIs, 2 bases, up to 4 registrations at once; instance API: 2 ids; legacy API: 1 id, 2 functions | the lists implement `EventHandlers` for the instance API, including removal with a key that does not fit the handle; a legacy removal for one key does not touch the registrations for others |
| `dispatch_reentrant` | 2 bases, 2 ids, up to 4 registrations, handlers of one event id may unregister themselves | no cursor is used after its node was freed; what was registered is called once and in order |
| `dispatch_self_unregister` | as above, handlers of every level | violation: see section 6 |
| `ota_http` | 2 calls, 5 kinds of answer, time-out of 2 polls | section 2's whole composition: pbufs, window, results, end of each request, order of begin, write and end |
| `ota_late` | as above, `Slow = TRUE` | violation: see section 6 |
| `dhcp_server` | 3 stations; 2 addresses by default, 2 by default after a configured range was refused, or a configured range of 3; leases of 2 ticks, a tick with 3 leases kills one | no address leased twice, no station refused while an address is free, promises to stations kept over lost answers, stops and starts, one timeout while the server runs; the loop of the search finds what the quantified form says, for every list over 7 addresses |
| `shared_objects` | one of five parts: 2 SNTP storages and 2 waiters; 2 descriptors, 3 frames, queues of 2; 2 Wi-Fi interfaces with 2 handlers each; 3 tasks, 2 list entries and 2 mutexes, until calls meet at an empty list; 3 tasks and 3 loops | no storage, queue, interface or loop is used after it was freed; each frame has one owner; a select is told, a reader is woken; the tables agree; the mutex on demand protects its list |
| `calls_end` | one of four parts: a run of 5 ticks with dispatches of up to 3 and a counter modulo 9; 2 calling tasks, 2 frames and a mailbox of 2; a ping session, 2 tasks, batches of 2 and without limit, counters modulo 2; 2 acknowledging tasks that send twice (`MaxCount` 2) | a timed run lasts its time and stops before twice its time; each call gets its own answer and returns; no interface is freed under a frame; a result has the counts of its batch and of those nobody was told of; deleted sessions are freed; acknowledging tasks end and close their sockets |
| `netif` | a station with a DHCP client (priority 100), an access point with a DHCP server that comes up by itself (10), a bridge (70), one address, one old timeout for a station that is created again | the default is the best interface that is up; a choice by hand lasts; status fields agree with client and server; each lost lease has a timer that reports it |

Why the bounds are enough.  Two tasks and the loop's own are the parties of
each race of the loop; with a queue of 2 and 4 posts the queue is full while
two posters wait, one post is unqueued and a handler posts another.  Four
registrations are the fewest with which a base has two nodes around a node of
another base, or an id node between two wildcard handlers, and one more of
them in a list.  In the update the units of the body matter by number only
through "none", "one", "some" and "fewer than announced"; two calls show what
a call leaves to the next one; the proofs cover any number of calls and units.
Three stations exceed the limit of the timer where the range has three addresses, and
the addresses where it has two; a lease of two ticks can be renewed in
between; more ticks, stations or addresses are covered by the proofs.
Three interfaces are what it takes for a default to be replaced by a better one
that is then passed over for a third; each has another combination of flags.
One address tells "none" from "some"; a change from one address to another takes
the same branches as the change from none, and the proofs allow any number.
`LoopRun`'s numbers are small because only sums and differences occur; the
proofs cover all.  Two callers are what it takes to take another's answer, and a
mailbox of two is full with both calls or both frames in it.  Two descriptors tell the
filter's and select's loops from one step; two frames fill a queue and the third is
dropped, and with the empty entry of a close each order of the three occurs.  The Wi-Fi tables
need two interfaces, for only the last destruction clears the handlers.  The
third lister waits for the mutex while one holds it and another, which gave it back,
still has the counter to look at.  Objects that are
not used again after they were freed show a use after free; two or three of
them allow a restart in the middle of each use.

Deadlock is checked except where the system may stop: tasks that all run a
shared loop may wait for events for ever (`loop_shared`), the objects of a part
are used up (`shared_objects`), a timed run returns and calls have ended (`calls_end`), and
the application has made all its calls (`ota_http`, `ota_late`).

Fairness.  `EventLoop!FairSpec`: the loop's own task is scheduled when it is
ready (weak); a handler returns although it may post any number of times in
between, and its posts do not wait (strong for the return, weak for the post);
a task that waits for a slot gets one when slots become free again and again
(strong), as FreeRTOS wakes the waiter that came first among equals.  Nothing
is assumed of the application: it need not post, register or delete.
`OtaHttp!FairSpec`: lwIP's timer polls each active connection (weak, the
`altcp_poll` interval that `httpc_init_connection_common` sets).  The server
owes nothing: it may stay silent at any point.
`TcpipCalls!TcpipFairness`: lwIP's thread and a caller that is inside a call go on
(weak), and the call lock or a place in the mailbox that becomes free again and
again is given to each that waits in its turn (strong), as FreeRTOS wakes the
waiter that came first among equals; no task need call and no driver need receive.
`Ping!Fairness`: the session's task is scheduled (its wait has a timeout, and so has its
socket as long as the application set a receive timeout: `ping.c:276` passes what
the options hold, 0 unless set, and with 0 a receive may last for ever), and a task
that read the flags writes them; the application need not start, stop or delete.
`SmartConfig!Fairness`: an acknowledging task is scheduled; neither the
application nor the network owes anything.

## 4. What is proved

TLAPS checks the theorems for every value of the constants that the named
assumptions allow.

- `EventLoopProofs`.  `LockInv` extends `TypeOK` with who holds the mutex at
  which depth, and with what each `pc` implies for `post`, `out`,
  `running_task` and `todo`.  It is inductive and needs nothing else, and gives
  `TypeCorrect` and `DispatchIsExclusive`.  `CopiesAreOwned` adds that what is
  in the queue and in the tasks' hands are different posts; the proof has one
  step per action and a lemma on appending to and taking from a queue without
  repetitions.  `UnregisteredIsNotCalled` rests on the lock: only the holder
  changes the handlers while it dispatches.  `LoopImplementsService` maps each
  step to one of the service or a stutter, for a dedicated task.
- `RegistryProofs`.  Each level of the registry removes an entry with a walk that
  may change any node and takes the first emptied one off its list.  `WalkKeeps`
  says of one level, for whatever function `f` of the nodes, that the walk leaves
  the union of `f` over the list if it leaves `f` of each node and an empty
  node has none; it is used three times, with what a node holds at another
  key (`IdHolds`, `InBaseHolds`, `LoopHolds`), up to `RemovedKeeps`.  With the type of
  what a registration builds (`RegistryTypeCorrect`), which is all the invariant
  that it needs, this is the action property: a legacy unregistration touches no
  other key (`OtherKeysAreKept`).
- `RegistryProofs`, the refinement (`RegistryImplementsHandlers`).  `InstancesInvariant`
  says that with the instance API a context is in one place of the node lists (`Good`)
  and that each handle is registered for its key (`HandlesAreRegistered`).  What an event
  calls is a concatenation over loop nodes, base nodes and id nodes; a registration
  appends its entry to that of each event that its key matches and to no other
  (`AddedIs`), wherever the rules about a new node put it, for what is behind that place
  calls nothing for such an event (`CatGrows`).  A removal at the key of a handle cuts its entry out of
  those concatenations and leaves the others (`RemovedCuts`); since a context is at one
  key (`OneKey`), a removal with another key finds nothing and is a stutter of the promise.
  The recursion of the concatenation (`FlattenSeq`) is followed by least
  counterexample (`FlattenConcat`).  tlapm takes about six minutes for this module.
- `EventDispatchProofs`, on top of it.  `WalkInv` has three parts.  `RegistryInOrder`: a context is
  in one list and an address is that of one node.  `CursorsOnNodes`: the nodes that
  the walk stands on, and those it remembers, are in the list they were taken
  from.  `CursorsInList`: so is the next handler, and while a handler runs it is
  below the loop node and the base node that are visited and no other.
  This is what makes unregistering it harmless when it is one of an event:
  a removal only frees nodes above it, and those the walk remembers are not; the
  visited ones stay while their own handlers are called, or are not read again.  The
  hypothesis `SelfLevels \subseteq {"id"}` is that of `dispatch_reentrant`;
  `dispatch_self_unregister` is what happens without it.  Most of the proof says what
  a removal (`NodesLeft`) and a registration (`NodesGrown`) leave of three levels
  of lists, and rests on `WalkIs`, which says it of one level.
- `EventDispatchProofs`, the order of the calls (`WalkCallsEachDueOnce`).  A position in three
  nested lists cannot be compared with a position in the plan of the dispatch
  while both change, so `DueInv` compares ages: `R` ranks the contexts in the order of
  their birth.  `InBirthOrder`: every list of nodes, and the calls of every event, rise
  in that order, since what is new goes to the end of its level (`Youngest`) and a
  removal only cuts (`CutRises`).  `CursorsInOrder`: so do the nodes that the walk has
  still to visit.  `AllCome`: what is still to come and wanted is younger than all that was
  called, and holds everything that is due and not yet called.  When the walk is over nothing is to
  come, and `DueIsCalled` turns the order by age into the order of the plan.  The
  rank is a ghost, and no variable of the model: the invariant is `\E R : DueInv(R)`, and
  a registration exhibits the next one.  The hypothesis is again
  `SelfLevels \subseteq {"id"}`.  tlapm takes about seven minutes for this module.
- `CallsEndProofs`, timed runs.  The inductive invariant relates `remaining` to the time
  since the start, `TicksToRun - remaining = marker`, and bounds the
  differences below the wrap, so that the modulo never matters.  `TimedRunIsTimed`
  joins the two bounds into the property that the run checks.
- `CallsEndProofs`, ping.  `ResultIsOfBatch` says that the global counters fit
  the last batch when `on_ping_end` runs; in the middle of a batch it says
  nothing, so it is not inductive.  `PingInv` says where the counters are at each
  step: `send_count` is the session's sequence number, or one behind it between `Send`
  and the answer, `recv_count` is the session's `received`, `timeout_count` their
  difference, each on top of what the batches before left that no result function
  was told of (`untold`), all modulo the width of the counters.  The 16 bits of the code and
  the 2 values of the run are one case for the proof (`BothCount` and `SumCounts` are
  the arithmetic).  `HandlesAreGiven` says that nobody calls for a session whose
  handle was not returned.
- `CallsEndProofs`, SmartConfig.  `FlagGoesOff` follows the sockets: a task only
  returns to its outer loop with a socket once `s_sc_ack_send` is off, so that it
  goes on to close it, unless the flag is set `again` before it looks.
- `PartsKeepTheirPromises` and `SharedObjectsAreSafe` are the compositions: each
  behaviour of the whole is one of each part (`PartsAreTheirSpecs`), and the
  invariants of the parts hold of it together.
- `OtaHttpProofs`, first half: the HTTP client.  `RequestInv` gives for every request the units
  accounted for and, by parse state, where they are, and that a live request
  has a poll left.  Three theorems follow: types, `EveryPbufOnce` and
  `WindowReopened`.
- `OtaHttpProofs`, second half: the update.  Refinement first: `Spec => HttpSpec` makes the three
  theorems above hold of the composition.  `CallInv` then relates the position
  of the application task to the semaphore of its call and to the life of its
  request: as long as no wait times out (`~Slow`) a live request belongs to
  the call that waits.  From it follow `CallbacksDuringCall`, `NoMisuse` and
  `UpdateIsClosed` for any number of calls.  `ImageIsReceived` adds that
  `written` is ascending and, unless a write failed, the sequence of all units
  received; and when the client reports OK, all that the server sent, which is as
  long as announced: this joins what `recv_fn` writes to the accounts of the client in
  `RequestInv`.

- `DhcpServerProofs`.  `Inv` joins `TypeOK`, `LeaseTable`, `Promise` and
  `OneTimer` with `Cursor`: only a started server has leases, and its search
  begins within its range.  `SkipIsLeast` says what the search returns, by the least
  number principle instead of induction over the list; `RangeExcludesServer`
  does the arithmetic of `dhcps_poll_set` for every server address, mask and
  configured range.  From `HandleServes`, which says what one datagram leaves
  in the list, follow that the promise survives each message whether the
  answer arrives or not, `NoSharedAddress` from two promises, and the two
  action properties.
- `NetifProofs`.  `IInv` joins `TypeOK`, `DefaultIsBest`, `StatusAgrees` and
  `LossIsCovered` with three facts: `Gone`, an interface that was removed from
  lwIP is not up; `ChoiceIsListed`, a default chosen by hand is listed once no
  destruction is under way; and `LeaseIsHeld`, a client that is bound has its
  address in lwIP and in `ip_info`, one that asks has none, and a leased address
  without a bound client does not occur.  `LossOfLeaseIsCovered` needs the last
  one, for the timer only starts while `ip_info` still has the address.  The
  parts go through the actions in lemmas of their own (`TypeStep`, `ChoiceStep`,
  `StatusStep`, `AddressStep`).  `ManualDefaultIsKept` is the action property.

- `CallsEndProofs`, TCP/IP thread.  `CInv` follows the one call that holds `api_lock_sem`:
  its message is in one place (mailbox, thread, or answered), no other message of a
  call and no signal exists, and its function has run when it leaves.  The lock
  is what makes one semaphore enough for the answers of all tasks
  (`CallsAreAnswered`), for any number of them and any traffic of frames.
  `FInv` adds the order of the mailbox: from the call of `esp_netif_destroy` on the
  driver receives at most the frame it had begun with (`late`), so that only that one
  can be behind the message that removes the interface, and nothing else is left
  once its function runs (`FramesPrecedeRemoval`).
- `SharedObjectsProofs`, L2 TAP.  Three invariants.  `TapInv` says which task may be where for each
  state of a socket: one that opens or closes it (`OneOwner`), readers only
  while its queue exists (`UsersInOrder`), and, while a close is being finished,
  that the empty entry is in the queue, or in the hands of one reader that puts it back, or
  that no reader is left (`ReadersWake`).  The last one is why the cleaner,
  which has the lowest priority, may delete the queue: when it gets the entry
  nobody waits (`QueuesOutliveUse`, `ClosesWakeReaders`).  `SelectInv` adds that
  only a task in select has descriptors noted, and goes through the receiver's
  loop frame by frame (`SelectsAreTold`).  `FrameInv` says that
  entries of all queues hold different frames, that those are allocated, and that what the
  receiver or a reader holds is in no queue; it holds until a second socket takes
  the same frame (`shared`, section 6).  That it counts places, and not only
  excludes two owners, makes a leak as wrong as a double free (`FramesAreOwned`).
- `SharedObjectsProofs`, list of interfaces.  `ListInv` holds unless two calls
  overlapped while the list was empty (`raced`, section 6).  `counter`, from which
  `esp_netif_list_unlock` decides whether to delete the mutex, is the length of the list;
  while it is not 0 the mutex exists, and each call that waits for it has this one in
  its hands; while it is 0 there is one caller at most, so that the deletion
  disturbs nobody.  The rest (`ListContents`) says that an interface is in the list
  once, between its `add` and its `remove`, and that a walk stands on one that is there.
- `SharedObjectsProofs`, default loop.  While no creation or deletion overlaps
  another call, `s_default_loop` names the one live loop, except between the
  deletion and the assignment behind it (`DefaultIsLive`), and the legacy loop has
  its handler in it (`LegacyIsRegistered`).
- `SharedObjectsProofs`, Wi-Fi.  `WifiInv` relates the registered handlers to the flag and
  to how far a series of registrations went (`HandlersInOrder`), the driver of an
  interface to where its creation or destruction stands (`ObjectsInOrder`), and the
  three tables to each other (`InSlot`, `Serving`).  `Running` says what a handler
  holds: a live interface of its own kind, attached unless the handler was called
  `early`, and with a driver once it sets the receive callback, for
  `esp_wifi_register_if_rxcb` refuses a driver that does not name its interface yet.
  `Reread` has the one case in which a handler ends up with no interface.  During the
  destruction of the last interface (`Waiting`) the slots are empty (`LastOne`), and a
  handler that still runs belongs to this interface, which waits for it.  A handler
  that runs when its interface goes and another one stays is `overtaken`, and excepted
  (section 6).
- `SharedObjectsProofs`, SNTP.  `SInv` follows the object that `esp_netif_sntp_deinit` takes
  down: until the thread has run the stop, a callback or a renewal may hold it,
  afterwards nobody does (`StorageIsAlive`).

`Slow = FALSE` is the assumption that a request ends within OTA_TIMEOUT_SEC.
The code does not ensure it; `ota_late` shows what happens otherwise.

The assumptions on constants of the shared objects say that tasks are finitely many, that
no object is the null pointer, that descriptors are numbers with 0 among them, that a queue
has room for one entry, and that there is at least one default handler to
register.  Those of `CallsEnd` say that the counters have a width and that one
ping session exists at a time, for all sessions write the same three global
counters; two at once are not modelled.

## 5. What is only model-checked

Liveness (`AcceptedIsDispatched`, `BlockedPosterIsServed`, `RequestEnds`,
`CallReturns`, `DeletedSessionIsFreed`, `AckTaskEnds`), and the agreement
of the DHCP server's loop with its quantified form (`SearchIsSkip`).  Liveness under fairness and
ENABLED are out of the prover's reach; the other relates the end of a loop to all
that was before it, and has no proof yet.  Every safety invariant that a passing run
checks is also stated by a theorem.
No module uses RECURSIVE operators.

The type invariants and three properties of the earlier components that deeper
ones imply (`NoSharedAddress`, `CallbacksDuringCall`, `NoMisuse`)
and `RenewalIsAcknowledged` are proved for every value of the constants
and not checked by a run.

## 6. Disagreements found

With a run:

- `loop_deletion`: an event that the loop's task has unqueued when another task
  deletes the loop is neither dispatched nor freed; `esp_event.h:97` guarantees
  dispatch once unqueued.
- `dispatch_self_unregister`: a loop or base level handler that unregisters
  itself may free the node that the walk reads next (`test_event.c:934`).
- `ota_late`: after OTA_TIMEOUT_SEC data is written after `rpc_ota_end`
  (`esp_hosted_ota.c:13-14`).

By reading, without a run of their own:

- a timed run that ends by its ticks breaks out before `running_task` is reset
  (`esp_event.c:638`), so a later post of that task takes itself for a handler's
  and does not wait although it was told to (`esp_event.h:398`, "number of ticks
  to block on a full event queue"); `EventLoop` has it, in `Expire` and `PostCheck`;
- `esp_netif_dhcpc_start` zeroes `ip_info` before it asks for the timer
  (`esp_netif_lwip.c:1426` and `:1437`), so that dropping a static address for
  DHCP never reports a loss (`esp_netif/Kconfig:8-14`; `LossIsCovered` speaks of
  leases only);
- when a lease is lost for longer than the timer and the same address returns,
  no new GOT_IP follows the LOST_IP, as `ip_info` kept the address (`:1256`);
- a default that was chosen by hand, stopped and started again stays the one
  of esp_netif, but lwIP is left without default route: `netif_remove` drops it
  and the choice is not applied again (`:337-341`, against
  `esp_netif/include/esp_netif.h:266-275`; hence `~overridden` in `DefaultIsBest`);
- a DHCP server that was stopped by hand before its interface ever ran is
  started all the same after the interface went down once, as `dhcps_stop` fails
  and the status becomes INIT (`:1153-1155`);
- `esp_netif_destroy` frees `ip_info` before it removes the interface from lwIP
  (`:908` and `:912`);
- a connection that finds the client stopped posts the address that it read,
  though the application may have changed it or started the client since
  (`esp_netif_handlers.c:50-71`);
- after more specific registrations the legacy API registers the same function
  for the same event twice, in two nodes, instead of overwriting the first
  (`esp_event.c:284` and `:752`, against `esp_event.h:131-132`);
- `kill_oldest_dhcps_pool` begins at the second node, so that the first lease
  of the list survives even when it is the oldest, against its heading "remove
  the oldest node from list" (`dhcpserver.c:1308`);
- deleting a started DHCP server frees it at the next tick and leaves its pcb,
  whose callback names it (`dhcpserver.c:162` and `:1354`);
- the default range of addresses only looks at the last octet and ends by the
  number of hosts, so that a mask narrower than /24 does not keep it within
  the server's subnet (`dhcpserver.c:1184-1200`);
- an address that a station declines stays leased to that station, and is
  offered to it again (`dhcpserver.c:861`);
- removal stops at the first node that it empties, so a function that was
  registered twice stays registered once (`esp_event.h:281`);
- a timed run may unqueue its last event up to `2 * ticks - 1` ticks after it
  began (`esp_event.h:103-104`; `LoopRun!StopsInTime` states this bound);
- after an `rpc_ota_write` that failed the next segment is written again, for nobody
  aborts the connection when `recv_fn` returns ERR_ABRT (`esp_hosted_ota.c:99`,
  `http_client.c:350`), so the chunks are not continuous (`esp_hosted_ota.c:13`).
  `OtaHttp` does this, and `ImageIsReceived` excepts it with `failed`: it would not
  notice;
- `ota_state` is set before `rpc_ota_begin` and stays set when that fails
  (`esp_hosted_ota.c:58`), so `rpc_ota_end` is called for an update that was never begun
  ("ota was started", `:159`).  `OtaHttp` does this too, and `UpdateIsClosed` says
  nothing of it, as the coprocessor is idle;
- whether the request ended with HTTPC_RESULT_OK is not looked at when the update is
  ended (`:158`): the verdict on an image that broke off is the coprocessor's;
- `httpc_get_file` runs in the application task although lwIP's API belongs to
  its thread (`esp_hosted_ota.c:142`);
- a post to a loop without a task may wait `ticks_to_wait` for the mutex and then
  again for the queue (`esp_event.c:916-922`);
- `hosted_timer_stop` frees the timer object of FreeRTOS after `xTimerDelete`,
  and the argument of a one-shot timer that its callback freed
  (`os_wrapper.c:596`); `hosted_timer_start` reads through a NULL handle after
  its first allocation failed (`:676`); `hosted_lock_mutex` ignores its timeout
  (`:415`);
- L2 TAP: filters that overlap let two descriptors take one frame
  (`esp_vfs_l2tap.c:177-185`); a descriptor counts as opened before its queue
  exists (`:207-214`), and keeps its driver over a close; a close whose semaphore or task cannot
  be created leaves the descriptor closing for ever (`:313-323`); the argument
  that only the idle priority separates holds on one core (`:281-288`);
- ping: without a result function the counts of a batch stay for the next one, as the
  reset is inside its condition (`esp_ping.c:159-163`; `ResultIsOfBatch` counts them in
  `untold`); the flags are changed by several tasks without a lock, so that a
  deletion or a stop may be lost (`ping_sock.c:326`); `seqno` has 16 bits
  and its counters 32, and late answers of an earlier batch may match;
  `ping_deinit` after the end of a batch uses what `on_ping_end` freed;
  two sessions share one result (`ping.c:239-260`);
- calls into lwIP: two first callers of `esp_netif_init` race for the
  semaphores (`esp_netif_lwip.c:525-585`); frames that a socket keeps, or whose receive is under
  way, meet a freed interface (`esp_pbuf_ref.c:33-38`, `wlanif.c:129-166`);
- Wi-Fi: the handler of a connected station reads the table again after its
  test and may pass NULL (`wifi_default.c:102`); the slot is set before the driver is
  made (`:347-348`), and the handlers of all interfaces are registered with the first,
  so that a handler may run with no driver: it is passed on as NULL (`:44-46`, `:90-92`)
  and read through (`wifi_netif.c:117`, `:126`).  `HandlerHasInterface` states what is left:
  such a handler has its interface, and never sets a callback for a driver that is
  not attached; destroying one interface while another is
  attached does not wait for a running handler (`:301`), which may then
  register a callback whose interface is gone, against `wifi_netif.c:171`
  (`overtaken`); a driver that
  cannot be created leaves its slot set (`:335-349`); the driver's callbacks are never cleared
  (`wifi_remote_net.c:74-87`), and a receive under way may read a freed interface;
- SNTP: `s_storage` is tested and read again without a lock
  (`esp_netif_sntp.c:34-38` and `:153-158`); a second `esp_netif_sntp_init`
  leaks the first storage (`:93`); the names of servers are freed while lwIP
  may keep them (`:139-151`); reading the status resets it, so that a completion
  between the read and the reset is dropped (`sntp.c:82-88`);
- the list of interfaces: two first callers create two mutexes, a task that
  waits while the last entry goes is left with a deleted one, and one that
  holds the mutex may find none to give back (`assert`, `:50`), for the counter is read
  after the mutex was given (`esp_netif_objects.c:36-56`).  `NetifList` follows these
  races, and `ListIsProtected` excepts every overlap while the list is empty (`raced`):
  it is about the calls that find an interface in the list.  And what `esp_netif_next` returns may be freed after the unlock;
- the default loop: two creators, or a deletion under a post, race
  (`default_event_loop.c:107-145`), and `CallsUseTheLoop` excepts every call that overlaps
  a creation or deletion (`overlapped`): it is about the order of the two APIs' calls; deleting the default loop directly leaves
  the legacy loop initialized and unable to end (`event_loop_legacy.c:85`), a
  registration that fails leaves the loop created (`:68-72`), and its end
  deletes a loop that it found (`:87`);
- SmartConfig: a handler that runs during a stop sets the flag again, and a
  restart lets two tasks acknowledge (`smartconfig_ack.c:227`).

## 7. Abstractions and what is left out

- A registration that fails (no memory, any base with one id) changes nothing
  and is a stuttering step.  Addresses are not reused within a dispatch, so
  that a use after free cannot be hidden by a new allocation; `Traced` turns
  addresses on, as only `EventDispatch` needs them.
- Handlers that remove other handlers are left out: the documentation only
  allows them to remove themselves.  A handler does not delete its own loop.
- lwIP is external: TCP delivers in order, may fail at any time and polls.
  Returning ERR_ABRT from `recv_fn` has no effect on the connection in the
  client, which is why the model goes on delivering.
- The parser is its three states; the text of headers, DNS, proxies and saving
  to a file are left out.  A server's status line is well-formed or not.
- The image is a sequence of numbered units, one per pbuf; a failing RPC has no
  effect on the coprocessor except that a failed end still ends the update.
- The DHCP server's addresses are their last octets, as all lie in one /24 and
  the code orders them by that octet on a little-endian CPU.  Its list is sorted
  by address, so a set stands for it.  Messages are handled at once; answers
  may be lost, requests too (`Leave`).  The stations' clocks tick with the
  coarse timer: between two ticks a real server may be up to a tick ahead of
  its stations.  So a timer that runs twice ages both alike, and `Promise` would not
  notice; `OneTimer` is about that.  A start that fails changes nothing that a later start does not
  set again, a configured range in another segment is refused like one that holds
  the server, and the server is not followed after it was freed.
- Interfaces: creation and destruction are the work of one task; the client
  is stopped and the handlers are unregistered before a destruction.  A driver
  starts an interface that is not in lwIP's list, reports a link only when the
  interface is there and not up, and the event loop runs one handler at a time.
  An IP event that is posted counts as delivered, without its `ip_changed`.  An
  address stands for address, mask and gateway; `ip_info_old`, which nothing in the model
  reads, is left out.  The order of the list is
  left open, so among equals of `UpdateStopped` any may win.  A server keeps the
  address it was created with.  `DefaultIsBest` lets interfaces with a DHCP
  server go unseen: `esp_netif_start` returns before the update when the server
  was stopped by hand or does not start.  The lock of the list is in `NetifList`.
- `TcpipCalls`: one interface is followed until it is destroyed; the thread runs
  each function as one step.  A receive that met a destruction (`late`) is not followed.
- `Ping`: one session at a time, as the result of the older interface needs it;
  `Wrap` is a small modulus for `seqno` (16 bits) and its counters (32 bits): the
  proof makes them equally wide, so that more than 2^16 requests in a batch, where they
  part, are not seen.  After a lost update
  of the flags (`lost`) nothing is promised.
- `L2Tap`: the cleaning task runs when no other task can, which is what
  idle priority gives on one core without equals; overlapping filters are
  recorded in `shared`; one task opens, configures and closes, the other reads
  and selects.
- `WifiGlue`: two of each interface's handlers stand for all; the
  event task runs one handler at a time under the loop's mutex.  What is read at
  address 0 without a driver is one of two things: the handler returns, or goes on to
  its action (on this chip, a read of the boot ROM and no fault).  A handler whose
  interface is destroyed while another interface keeps the handlers is recorded in
  `overtaken`.
- `Sntp`: one task sets the service up and takes it down, and only while nobody
  waits in `esp_netif_sntp_sync_wait`, which would go on with a deleted semaphore;
  names of servers and times are left out.
- `DefaultLoop`: what happens after two calls raced for the pointer is not followed
  (`overlapped`).  `NetifList` is, except that a task that would give or delete a mutex
  that is not there stops at the assertion.
- `SmartConfig`: the content of packets is left out; `MaxCount` of 2 stands for
  30; a socket call may fail at any time.
- The components with status `not_modelled` in `PROJECT.json`.

## 8. Not modelled, and what is left

`PROJECT.json` names the components without a module, with the reason.  They
are of three kinds: code that the configuration of this board compiles out
(mempool, most of `wifi_init.c`, transports other than the one in use); thin
functions over FreeRTOS, lwIP, the SDK or the RPC layer, whose correctness is
that of the one call they make (`os_wrapper.c` except its semaphores,
`spi_wrapper.c`, most of `esp_wifi_remote`, PPP); and tables, text and arithmetic
without interaction (defaults, `esp_md5`, hooks, log).  The transport and RPC of
esp-hosted, where reconnection, flow control and retries would be, is not
in the repository.

More than half of the lines that are not mapped are headers: prototypes, types
and documentation, which no definition translates.

What is left, in the order of their worth:

1. `EventLoop` composed with `HandlerRegistry`, so that the sequence of matching
   registrations is shown to be a sound abstraction.
2. The bridge (`esp_netif_br_glue.c`), which follows the events of its ports, for boards
   with Ethernet.
3. DHCP options, DNS and IPv6 in `Netif`.
