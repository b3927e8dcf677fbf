# Verification of the HSB core daemon

HSB is a home box: a daemon (`src/core_daemon`) that knows the devices of a
house through two drivers and serves pads, its remote controls, over TCP.
This directory holds TLA+ models of the daemon, TLC configurations that check
them on small instances and TLAPS proofs for instances of any size.

## Inventory

Threads of the daemon: the main loop (start-up, then one pass over all timers a
second), the asynchronous thread (everything that talks to a device on behalf
of a pad, a timer or a linkage), one monitor per driver, the UDP and TCP
listeners, and up to five pool threads, one for each connected pad.

| Component | State | Operations | Interacts with |
|---|---|---|---|
| device registry, `device.c` | `queue`, `offq`, `dev_id` | `dev_online`, `dev_offline`, look-ups | called by drivers; raises events |
| virtual-switch driver | own list with `idle_time` | probe, register, sweep, refresh, UDP transfers | registry; called by asynchronous, monitor and main thread |
| zigbee driver | own list, `send_buf`, `recv_buf`, `trans_id`, `is_waiting`, condition | probe, three blocking calls, monitor loop | UART; called by asynchronous and main thread |
| asynchronous thread, `device.c` and `thread_utils.c` | queue of acts, mutex, condition | four `*_async` producers, worker loop | all requesters; drivers; `notify_resp` |
| TCP client pool, `network.c` | contexts: `using`, sockets, queue | accept, serve, `notify_resp`, drain | pads; asynchronous thread and monitors |
| timers and delays, `device.c` | slots per device, `sec_today`, `work_mode` | set, delete, the pass | client threads; asynchronous thread |
| linkages and events, `device.c` | slots per device | `check_linkage`, set, delete | drivers; asynchronous thread |
| TCP framing and commands, `network.c` | the read buffer | `deal_tcp_packet` | all of the above |
| UDP discovery, remote-key table, start-up, utilities, simulators | little or none | | |

What makes the daemon hard: locks that cover less than the data they are named
for (the registry's pop after unlocking, driver lists with a mutex nobody
takes, contexts read outside the pool's mutex, timers without any lock);
answers that come after their deadline; one send buffer for several senders;
reply addresses that outlive the connection; wake-ups sent to threads that do
not wait; counters and windows at their limits (`trans_id`, `idle_time`,
midnight). `PROJECT.json` lists each such hazard at its line, with the
properties that watch it.

What makes each component correct:

* registry and drivers: a device has one id and one home; the driver's list,
  the registry and the pads agree; silent devices leave on time;
* zigbee: a call reports what was done for that call; a command is sent once;
  every call returns;
* asynchronous thread: every act once, in order, in the end; answers for pads
  and only for them;
* client pool: answers go to the pad that asked, in order; events reach every
  pad; contexts come free;
* framing: every packet read whole is served, in order, and nothing else is;
* timers: at most once a day, on every day of the mask, kept until deleted;
* virtual switches: commands and events belong to the device they are ascribed
  to, and a device that moved or was away is found again;
* linkages: every linkage an event calls for acts, and nothing else does; what
  one event sets off comes to an end.

## Modules

| Module | Models | 
|---|---|
| `ZigbeeTransaction` | `driver_cg_zigbee.c`: calls, buffers, condition, monitor, probes |
| `ZigbeeTransactionProofs` | proofs about it |
| `DeviceRegistry` | the registry half of `device.c`, registration and sweep of `driver_virtual_switch.c`, registration of `driver_cg_zigbee.c` |
| `DeviceRegistryProofs` | proofs about it |
| `VirtualSwitch` | `driver_virtual_switch.c`: operations, monitor, probe and sweep over the local network; `switch_sim.c` as the device |
| `VirtualSwitchProofs` | proofs about it |
| `ClientPool` | `network.c` from `accept` to `notify_resp`, pads that do not read |
| `ClientPoolProofs` | proofs about it |
| `ActQueue` | abstract: a line of operations, served once each and in order, answered if a pad waits |
| `AsyncQueue` | `thread_utils.c` and the asynchronous thread of `device.c`; implements `ActQueue` |
| `AsyncQueueProofs` | proofs about it |
| `Linkage` | linkages, events and work mode of `device.c`; `switch_sim.c` as the device |
| `LinkageProofs` | proofs about it |
| `TimerCheck` | timers of `device.c`, the main loop of `core_daemon.c` |
| `TimerCheckProofs` | proofs about it |
| `TcpFraming` | `network.c`: the handler's loop over a read, `deal_tcp_packet`; `remote_ctl.c` |
| `TcpFramingProofs` | proofs about it |
| `MC...` | constants, constraints and symmetry for TLC |

Variables carry the names of the code where there is one. An action is a
stretch of code that no other thread can see the middle of: a critical section,
or the code between two of them; where shared data is touched without its
lock, the stretch is cut there (the copy into `send_buf`, the index into
`offq`, the check of `trans_id`, the tests of `using`, a timer's fields and its
status). Definitions called mutants are faulty variants of the definition
below them; no specification uses them.

Some properties are conditional on the absence of a named race, recorded in a
history variable: `hazard` in `ZigbeeTransaction`, `race` in `DeviceRegistry`,
`overlap` in `ClientPool`, `raced` in `TimerCheck`, `freed` of a call in
`VirtualSwitch`, `torn` and `mixed` in `Linkage`. The race itself is part of
the model. What the code does with it is either shown by a run of its own (see
Findings) or undefined: `race` and `overlap` also stand for two threads in
unlocked GQueue operations, whose outcome no model can bound. States after
these two are not explored in the passing runs.

### ZigbeeTransaction

The worker (asynchronous thread) goes through `SampleBegin` (lock, half of the
copy into `send_buf`), `SampleWait` (rest of the copy, datagram, wait),
`WaitTimeout`, `WaitSpurious` or a signal, and `SampleReturn`. The monitor
takes a datagram (`MonitorNotified`) and writes whatever `send_buf` then holds
(`MonitorSends`), possibly a half-copied frame; it reads frames and treats them
as `deal_recv_buf` does, with the check of `trans_id` before the lock a step of
its own. Devices are external: they answer late, in any order, or never. The
content of a frame is the number of the call it belongs to. Frames that are
too short, or that a wrong length makes the driver discard, have the effect of
a missing answer. The monitor's unix socket holds `SockCap` datagrams, and a
sender waits for room with `cond_mutex` in its hands.

### DeviceRegistry

Four threads register devices; one sweeps. Ids are positions in `macOf`, so an
id is never reused, as in the code. `told` records the last announcement about
each id, `quiet` the sweeps since a device was last heard. Every probe may be
answered by any device, any number of times.

### ClientPool

Connections are used once: a pad that reconnects is a new connection. A request
is answered through the asynchronous thread, in the order asked (`AsyncQueue`
shows that), or by the handler itself at once. Events come from a monitor. What
a pad sent before it closed is still read and served; the effect of a write to
a pad that has left is a message lost, with or without an error. A pad may stop
reading and go on later: meanwhile the handler hangs in `write`, its socket
fills up (`SockCap`), and `notify_resp` waits for room. The handler's own
answers are written with a deadline of a second and are lost instead.

### VirtualSwitch

The monitor and the asynchronous thread know a device by the address in its
entry. Devices get addresses from outside, one each at a time, and keep none;
requests, answers and keep-alives may be lost or come late. `holders` records
who has had which address, `done` which devices have carried out the request
under way. A call takes four steps (look-up, transfer, return, reply), and the
sweep may free its entry between look-up and transfer: the address used is then
any address. `waited` counts the seconds of the monitor's `select`: a packet
starts it anew, `SecondPasses` lets a silent second go by, and the sweep and
the next keep-alive (`MonitorTimeout`) come with the last of `SelectSecs`
silent ones. What an event is about does not matter here. The list changes in
single steps, because its races are `DeviceRegistry`'s. A request obeyed after
its call has given up is indistinguishable from a device's own doing.

### Linkage

Handlers write a slot in three pieces (condition, act, flag) while the monitor
goes through the slots, a step for the test and a step for the act. A check
reads the work mode once. The events of a device are its status with a value
and its coming online; sensor and infrared events are treated alike. The event
of going offline, and the box's own mode event, look for a device that is not
in the queue and meet no linkage. `kept` and `given` record what pads asked
for, `mixed` and `torn` how a slot or a check was disturbed. A slot that is not
in use may be filled at any moment; what `torn` excludes is a slot in use being
rewritten or deleted, or written by two handlers. Tearing within an act (its
device from one linkage, its value from another) happens only in those cases.

### ActQueue and AsyncQueue

`ActQueue` is what the daemon's other threads rely on. `AsyncQueue` is the
code; the refinement maps the abstract line to the act in the thread's hands
followed by the queue, the served acts to the acts carried out, and the answers
to the calls of `notify_resp`. Start-up is part of the model: `main` serves
pads before `init_dev_module` has made the queue, and GLib ignores a push to
NULL, so `lost` counts acts that nobody will carry out.

### TimerCheck

Days are `DaySecs` long. The pass visits the devices online, each with the time
read anew, and treats a timer in three steps: the checks (`VisitDev`), which
copy clock, flag and weekdays, the act (`DoAction`), which pushes what the slot
holds by then, and the mark (`MarkTimer`). `set_dev_timer` writes timer and
status in two steps, before, between or after them. One client thread at a time
is inside `set_dev_timer`. Devices leave and return between passes only:
`g_queue_foreach` over a queue that changes is undefined. The clock does not
jump backwards. A device has one timer, because its slots do not influence each
other. Delays are left out: nothing ever starts one.

### TcpFraming

One connection. The stream is a sequence of 16-bit halves; a read takes any
number of them, up to the size of the buffer, and leaves the rest of the
buffer as it was. `DealTcpPacket` is one round of the handler's loop, with the
bytes left of the read as its only limit, as in the code. A field beyond
everything ever written is any of `Strays`. A round that uses up nothing is
repeated for ever, which is the state `spins`. `ends`, `base` and `due` are
history: where packets end in the stream, where the read started in it, and
which packets a reader of the protocol document would find in the reads.
`AnsweredBy` says which thread answers a command, and `WholePacketsServed` that
it is decided on the packet's own fields. What a handler does with the timer,
delay and linkage commands is left to `TimerCheck` and `Linkage`. Pads send
only well-formed packets, device actions with all their fields among them, but
the payload may look like a header: a colour, or a key code of a remote
control. Reads end at even bytes; an odd one would make the rest of a stream
unreadable in the same way as a cut packet. Replies to notifications are
`ClientPool`'s; here a notification only overwrites the buffer.

## Runs

| Run | Instance | Shows |
|---|---|---|
| `zigbee_safety` | 1 device, 3 calls, ids modulo 3, probe at start-up and 1 more, socket of 2 | types; answers belong to their calls; commands sent once; the call with id 0 only times out; every call returns unless it and the monitor wait for each other |
| `registry_safety` | 2 switches, 1 zigbee device, `IdleLimit` 1, 4 ids | one home, one id, agreement of lists and pads, drops on time |
| `virtual_switch` | 2 devices, commands to 1, 2 addresses, 2 moves, `IdleLimit` 0, a `select` of 2 s, a socket of 1 | OK means done, by the right device; events belong to their device; devices are found again while silences of 2 s recur |
| `linkage` | 2 devices, 2 slots, 2 handlers, 2 modes, 4 linkages to choose from, 2 settings, 1 cause, 1 time offline | acts have a cause; slots keep what was asked; every match acts; cascades end |
| `pool_safety` | 2 contexts, 2 pads and one too many, 2 requests, 1 event, sockets of 1 | answers go home, in order; events reach all pads; no message sleeps unannounced; contexts come free; `notify_resp` returns unless a pad stops reading |
| `async_queue` | 2 producers, 2 contexts, 3 acts, from start-up on | implements `ActQueue`, its answers and its progress; only acts before the queue are lost |
| `tcp_framing` | 2 packets of 6 kinds, buffer of 20 bytes, 2 status entries, 1 notification | whole packets are served in order, by the right thread, whatever was cut before; nothing is made up; entries fit; the loop ends |
| `timer_safety` | 2 devices, day of 4 s, 1 midnight, passes up to 3 s apart, 3 kinds of timer, 2 work modes | at most once a day; settings are kept; armed timers fire |

Why the bounds are enough: three calls over three ids take `trans_id` once
round through 0 to reuse, and a socket of two datagrams is filled by a probe
and a call; two switches let one device's return shift another's place in
`offq`; `IdleLimit` 1 has the same comparisons as 10; two pads over two
contexts are served side by side or one after the other in the same context,
and a socket of one datagram is full while its handler hangs; three acts make a
queue of two behind one in hand, or one lost and two in line; two moves let a
device leave and return, change its address, or lose it to the other device,
`IdleLimit` 0 gives an entry the two sweeps in which it is kept and then
dropped, and two seconds are the code's own and let a packet come in between;
two settings fill both slots, rewrite or delete one, or meet in one, and the
linkages to choose from make chains, a circle, and one that changes the mode of
the others; a day of four seconds has seconds inside and outside the midnight
and firing windows (2 and 1 instead of 10 and 5), and `MaxLag` 3 lets a pass
miss either window; two packets are cut, cut and recovered from, or read at
once, and together they overfill both the buffer and the status array.

Two runs check liveness under a state constraint. `FewHazards` cuts behaviours
with three or four different kinds of race between calls, `BeforeOverlap` what
follows an unlocked pop that meets a push; `LateRefused` keeps the third pad
out of the pool, and follows its refusal only while nothing has been asked,
since a refusal changes nothing for the others; `OneLeaves` stops when every
pad has left. Behaviours that go on beyond are not judged; all loops that block
a thread are within.

Fairness: in `ZigbeeTransaction` that a deadline passes, that a thread with
the mutex moves on and that the monitor goes on with what it has; nothing of
devices. In `ClientPool` that runnable threads run; pads owe nothing. In
`AsyncQueue` that the thread, once its queue exists, is started and runs, and
that a driver call returns, which the drivers' timeouts guarantee (up to the
mutual wait below); producers owe nothing, not even the signal after a push. In
`TcpFraming` that a handler with bytes to deal with goes on. In
`VirtualSwitch` weakly that time passes, that the monitor runs and that its
probes end, and strongly that a network asked again and again lets a keep-alive
and an answer to a probe through; nothing of calls, and no silence is promised:
devices may send a packet in every second for ever. In
`Linkage` that the threads of the box run; devices and pads owe nothing.
Deadlock checking is off because
every instance stops at its bounds, and the daemon itself waits for the
outside world.

### Findings

Runs that TLC must refute; each states what a document says.

| Run | What happens |
|---|---|
| `zigbee_misanswer` | an answer checked against `trans_id` before its call timed out is handed to the next call |
| `registry_race` | two concurrent probes give one device two ids |
| `pool_stray_answer` | the answer to a pad that left goes to the pad that took its context |
| `timer_second_device` | only the first device of the pass sees the new day; daily timers elsewhere fire once and never again. `PlainDays` keeps other causes out: no device leaves, and every pass is over within its second |

Further disagreements were met while translating and have no run of their own.
A zigbee probe followed by a call is overwritten in the one `send_buf` before
the monitor has written it (`driver_cg_zigbee.c:270`), and the call goes out
twice; `TransmittedOnce` excludes that case through `hazard`. A packet that
arrives in two reads is dropped (`network.c:236`), although the protocol
document has the box answer every message; SET_STATUS takes following packets
of the same read for status entries (`network.c:291`); a header cut in two can
leave the handler looping over a length of 0 (`network.c:785`). The properties
of `TcpFraming` speak of reads that start, or start and end, where packets do,
and say nothing of the others. The answer to an unknown command is `REPLY_FAIL`
(`network.c:481`), which is 0, the document's code for OK. Bit 0 of a weekday
mask is Sunday in the code (`tm_wday`, `device.c:1098`) and Monday in the
protocol document. No code sets `started` of a delay (`device.c:1139`),
although the document has events start them. A timer set between the checks of
the pass and its act is carried out at the time of the one before it
(`device.c:1112`), and one set before the mark is wiped or left expired
(`device.c:1126`, `1131`): `TimerKept` and `OncePerDay` exclude exactly such
settings, through `raced`. A slot deleted before its act is acted on with
zeros.

Waits that the liveness properties name because the code really has them:

* `MutualWait` of `CallReturns`: the monitor waits for `cond_mutex`
  (`driver_cg_zigbee.c:623`) while a sender holds it and waits for the monitor
  to empty its socket (`driver_cg_zigbee.c:273`, `199`). Both wait for ever.
* `Clogged` of `NotifyReturns`: one pad that stays connected and does not read
  holds up the asynchronous thread or a monitor (`network.c:741`, `831`), and
  with them all pads and devices.
* `<>[][~MonitorTimeout]_vars` of `Recovers`: the sweep and the keep-alive need
  two seconds without any packet (`driver_virtual_switch.c:505`, `513`). One
  device that sends a packet a second keeps them from ever running, and a
  device that moved is not found. `SomeTaken`: an entry is never updated
  (`driver_virtual_switch.c:389`), and if another device gets its address that
  device's messages keep the entry fresh, so its owner is never found again and
  the other's events and commands are taken for its own.
* `Circular` of `CascadesEnd`: nothing limits linkages that set each other off.

The wireless protocol document and the driver disagree in ways that no property
here depends on. The document says a discover response tells the box the
device's address; the driver ignores it for a listed mac. Result code 0 is OK
in the document and a failure in `driver_virtual_switch.c:236`; the simulator
answers 1. Status and event messages ought to be replied to, and never are. A
status the simulator does not support is answered by an empty datagram, which
the driver reports as `HSB_E_INVALID_MSG`.

## Proofs

`ZigbeeTransactionProofs`, for every set of devices, id width and number of
calls:

* `TypeCorrect`: `TypeOK` holds always;
* `AnswersCorrect`: `AnswersOwnRequest` holds always. The property is not
  inductive: that a call gets its own answer depends on ids not being reused
  (`wrapped`), on frames in the buffers, on the air and on the way back
  carrying the id of their call, and on who holds the mutex. `IInv` adds these
  as `LockInv`, `CallInv`, `BufferInv`, `FramesInv` and `HandOverInv`;
* `TransmissionCorrect`: `TransmittedOnce` holds always, from the part of the
  invariant that counts what the monitor still owes to the UART;
* `IdZeroCorrect`: `IdZeroUnanswered` holds always.

`AsyncQueueProofs`, for every number of producers, contexts and acts:

* `TypeCorrect`: types, and no act unaccounted for;
* `Refinement`: `AsyncQueue` implements the safety part of `ActQueue`, from
  three lemmas about sequences and `TypeOK`;
* `StartUpCorrect`: `OnlyEarlyActsLost` holds always. It needs `NothingYet`
  (nothing is in line before there is a queue) and the count in `TypeOK`: a new
  act continues the numbers of the acts done and in line, and serving one
  leaves that sequence as it is.

`DeviceRegistryProofs`, for every set of devices and every `IdleLimit`. The
invariant has a part that survives races (`TypeOK`, and `LocalInv`: who may be
where with which locals) and a part that holds until the first one (`RInv`):

* `TypeCorrect`, races or not;
* `IdCorrect` (`OneIdPerMac`) and `HomeCorrect` (`OneHome`). Neither is
  inductive. That a device `dev_online` does not find in `offq` is new needs
  `ListInv` (what is online is listed by its driver, or about to be),
  `WorkInv` (a thread only registers what its driver does not list) and `Alone`
  (one thread at a time is inside the virtual-switch driver), and then that
  macs belong to one driver; that the index of the scan still points to the
  device needs `Alone` again;
* `DriverCorrect` (`DriverAgrees`), from `ListInv`;
* `PadsCorrect` (`PadsKnow`), from `ToldInv`, which says which announcement is
  still to come;
* `DropCorrect` (`DroppedOnTime`), from `IdleInv`: entries at and after the
  sweep's position are one sweep behind, also when an entry is removed and its
  successors move up, and the list never gets longer than the length read at
  the beginning.

`ClientPoolProofs`, for every number of contexts, pads, requests and events:
`TypeCorrect`, `HomeCorrect` (`AnswersGoHome`), `OrderCorrect`
(`AnswersInOrder`), `EventsCorrect` (`EventsReachAll`), `NoticeCorrect`
(`NoMessageUnannounced`). A request keeps a number on its way through the acts,
`notify_resp`, the context's queue and the pad; `PipeInv`, `QueueInv` and
`GotInv` order the numbers of neighbouring stations, and `ServeInv` keeps a
connection in one context, so that an answer is home while its pad is
connected. `AudienceInv` says where an event is for each pad that must get it:
received, queued, or ahead in the loop. `NoticeInv` finds for every queued
message a datagram, a thread about to send one, or a handler awake.

`LinkageProofs`, for any devices, slots, handlers and rules: `TypeCorrect`,
`CauseCorrect` (`ActsHaveCause`), `KeptCorrect` (`LinkageKept`),
`MatchesCorrect` (`EveryMatchActs`). `WriteInv` says how far a handler alone in
its slot has come, `CheckInv` that the linkage about to act still matches,
`ProgressInv` what an undisturbed check has acted on so far.

`TimerCheckProofs`, for every length of the day and of both windows and all
settings: `TypeCorrect`, `OnceCorrect` (`OncePerDay`), `KeptCorrect`
(`TimerKept`) and the action property `FiresCorrect` (`ArmedTimersFire`). A
timer fires at most once because one that fired today stays expired, is about
to be marked, or is inactive (`ExpiredOk`); that an act under way is the first
of its timer today is `ActOk`; that midnight does not re-arm it
twice needs `DayOk`: once something has fired today, `sec_today` is not ahead
of the clock, so the test for a new day fails until there is one.

`VirtualSwitchProofs`, for any devices, addresses and losses: `TypeCorrect`,
`OkCorrect` (`OkMeansDone`), `EventsCorrect` (`EventsAttributed`). `HeldInv`
follows an address from the device to the list, the sockets and the request of
a call: whoever is known or heard at it has had it.

`TcpFramingProofs`, for any well-formed packets, any number of them, any sizes
of buffer and status arrays, any cuts of the stream and any contents of memory
nobody has written: `TypeCorrect`, `ServedCorrect` (`WholePacketsServed`),
`NothingCorrect` (`NothingMadeUp`), `StatusCorrect` (`OwnStatusFirst`). A
packet counts as served by a command that carries its command and its answerer
(`Carries`). `GridInv`, `StreamInv` and `BufferInv` say that the halves in the
stream and in the read part of the buffer are those of the packets in their
places, so that a header is read where a packet starts; `SyncInv` says that in
a read that starts with a packet the loop is at the start of a packet, or past
the last boundary of the read; `DoneInv` that it goes forward. `ServedInv` then
has every packet due either served or still ahead of the loop. A packet that is
cut gives no command that counts as its own, whatever the leftovers make of its
length: at least one of its halves is missing from the bytes left.

Assumptions are those named in the modules: packets are well formed and fit
the buffer, memory holds 16-bit halves, ids have more than one value,
arrays and days are not empty, sockets take a datagram, the placeholders are
not devices, contexts or addresses, the two drivers have different devices,
bounds are natural numbers. Every other constant is arbitrary.

Only model-checked: liveness (`CallReturns`, `ContextComesFree`,
`NotifyReturns`, `LineMoves`, `DealEnds`, `Recovers`, `CascadesEnd`), which is
beyond the prover.

## Not modelled

* The content and layout of answers, and the commands that only read: data
  without state.
* UDP discovery of the box: a stateless answer to one packet.
* Delays: no code starts them; their slots are set and deleted like those of
  linkages, and nothing acts on them.
* Memory safety beyond a stale address (lists changed under an iterator, a
  mutex initialised while it is held): outside what TLA+ says about C.
* Logging, configuration, serial-port set-up, process control, and the tools
  other than `switch_sim.c`: no logic of the daemon.

## Plan

1. An abstract device directory that `DeviceRegistry` and `VirtualSwitch`
   implement.
