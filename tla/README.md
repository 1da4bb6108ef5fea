# OpenHarmony audio framework: TLA+ models, checks and proofs

This directory is kept beside the audio framework's source. It models the parts
of the framework where several processes or threads share state without a lock
around it, or where a delayed action can meet a state that has moved on; it
model-checks them on small instances with TLC, and proves the central results
for every instance with TLAPS.

## 1. Inventory

The framework is three groups of processes. Applications link the client library
(`services/audio_service/client`, `services/audio_policy/client`,
`frameworks/native`). `audio_server` runs the stream service
(`services/audio_service/server`) and the audio engine
(`services/audio_engine`). `audio_policy_server`
(`services/audio_policy/server`) decides who may sound, where and how loud.

| component | state it keeps | operations | interacts with | what is hard | what makes it correct |
|---|---|---|---|---|---|
| shared ring buffer (`audio_service/common/src/oh_audio_buffer_base.cpp`, `oh_audio_buffer.cpp`) | `basePosInFrame`, `curReadFrame`, `curWriteFrame`, stream status, futex word, data area: all in memory mapped by two processes | get a region, publish a position, reset both positions, wait, wake | its two owners, one per process | every method is a sequence of separate atomic accesses; no lock spans the processes | no frame lost, repeated or overwritten before it is read; the range checks never refuse a correct caller |
| futex (`common/src/futex_tool.cpp`) | one word: READY, NOT_READY, PRE_EXIT | wait with predicate and timeout, wake | ring buffer, client loop, engine | wake between the predicate and the sleep; release while asleep | no lost wake-up |
| playback stream, client (`client/src/renderer_in_client*.cpp`) | state, callback queue, a cached partial buffer, callback thread flags | write, callback loop, start, pause, stop, flush, release | the server stream by IPC, the ring buffer, the engine's wake | five locks and three threads per stream | a blocked writer gets going again, control calls end, accepted audio is played in order |
| playback stream, server (`server/src/renderer_in_server.cpp`) | status, fade and underrun bookkeeping, write lock | take data for the engine, start, pause, flush, drain, stop, release | engine callback thread, IPC threads | engine callback against IPC flush | a frame is taken once; a cleared slot is published only after it is cleared |
| recording stream (`client/src/capturer_in_client.cpp`, `server/src/capturer_in_server.cpp`) | the same, other direction; server-side cache ring | read, start, pause, flush, release | the same | the server's flush moves the *client's* cursor | what the client reads is fresh, ordered and never overwritten while read |
| low-latency stream and endpoint (`client/src/audio_process_in_client.cpp`, `server/src/audio_process_in_server.cpp`, `server/src/audio_endpoint.cpp`) | stream status word shared with the client; endpoint status, started flag, stop time, list of linked streams | start, pause, stop, stand-by; link, unlink, start and stop of the device | work thread and position thread of the endpoint, IPC threads, stream service | one atomic status under four locks or none; locks taken in two orders | a stream told that it runs is served by a running device; an idle device is stopped |
| stream service (`server/src/audio_service.cpp`, `audio_server.cpp`) | registries of streams and endpoints | create, release, delayed endpoint release | endpoints, policy server by IPC, death of clients | delayed release against reuse; a client dies in the middle of a call | nothing in use is released, the unused is |
| audio session timer (`audio_policy/server/infra/state_monitor`, `domain/session`) | registered timers, callback ids, pid-to-timer map | register, unregister, traverse, time out | session service, one detached thread per expired timer | the timer fires outside every lock the stop path takes | only an idle session times out; a running timer can be stopped |
| audio session (`domain/session/src/audio_session.cpp`, `audio_session_service.cpp`) | session map, streams in each session, state | activate, deactivate, add and remove stream, app state | interrupt service, timer | the time-out races reactivation | a session is deactivated once per cause |
| interrupt service (`domain/interrupt/src/audio_interrupt_service.cpp`) | per-zone focus list, focus strategies, fake interrupts of sessions | activate, deactivate, resume, preempt mode, session interplay | renderers by events from a handler thread, session service, delayed work | an event between the grant and the start; two ways to compute the same states; a delayed clean-up meets a reactivated session | nobody plays without the focus, or louder than the table allows; nobody is kept down for one that has gone |
| playback renderer (`frameworks/native/audiorenderer/src/audio_renderer.cpp`) | state, duck volume, silent mode | start, pause, stop, release, silent mode; obeys events | interrupt service, playback stream | asks before it starts, under a lock the events do not take | it plays only with the focus |
| audio engine (`audio_engine/manager`, `utils/hpae_no_lock_queue.cpp`) | node graph per sink, request queue | request from any thread, processed by one | sink thread, IPC threads | lock-free queue with reuse of nodes | a request is executed once and in order |
| device, pipe and volume policy (`domain/device`, `domain/pipe`, `domain/volume`) | device and pipe lists, volumes | connect, route, set | HDI events, data share | long procedures under one lock | routes match connected devices |
| zones, spatialisation, effects | configuration | set, get | policy server | little concurrency | |
| HDI adapters, Bluetooth, PulseAudio module | driver handles | pure I/O | drivers | outside the repository | |
| language bindings (`frameworks/js`, `cj`, `taihe`, `native/ohaudio`) | wrappers | forwarding | client library | | |
| signal processing (mixers, resamplers, format conversion, HRTF) | samples | arithmetic over samples | engine | numeric only | |

The hardest of these behaviours share one shape: state is read in one step and
used in another, and nothing holds the two together. `PROJECT.json` lists them
as hazards, each at its line, with the properties that cover it or the reason
why none does.

## 2. Modules

```
OHAudioBuffer
 |-- AudioBufferSpsc -------- AudioBufferSpsc_proofs     implements AudioFifo
 `-- CapturerDataPath ------- CapturerDataPath_proofs
FutexTool
 `-- FutexSignal ------------ RendererClient_proofs
RendererControl
 |-- RendererHandshake ------ RendererClient_proofs
 `-- RendererDataPath ------- RendererClient_proofs      extends FutexTool too; its
                                                         ring is AudioFifo's FIFO
HpaeNoLockQueue
 `-- HpaeManagerThread ------ HpaeManagerThread_proofs   implements RequestQueue
PolicyStateMonitor
 `-- AudioSession ----------- AudioSession_proofs
AudioInterruptService
 `-- RendererFocus ---------- RendererFocus_proofs
FakeSession ----------------- FakeSession_proofs
AudioEndpoint --------------- AudioEndpoint_proofs
```

`MC*` modules and `.cfg` files instantiate them for TLC.

| module | code | state and steps |
|---|---|---|
| `OHAudioBuffer` | `oh_audio_buffer_base.cpp`, `ring_buffer_wrapper.h` | The three shared positions, the data area (which position's audio a slot holds) and, per thread, the place inside a method and what it has loaded. Every atomic access is a step. A module that EXTENDS it says which thread calls what. |
| `AudioBufferSpsc` | `WriteCacheData`, `RendererInServer::WriteData` as callers | One writer, one reader: get a region, copy or take, clear, publish. |
| `AudioFifo` | (abstract) | Two counters: written, read. |
| `FutexTool` | `futex_tool.cpp` | The futex word, the waiter's place in `FutexWait` (compare-exchange, predicate, system call, asleep, looking again) and each waker's in `FutexWake`. |
| `FutexSignal` | all callers of the futex | A condition that wakers make true before they call `FutexWake`, and the waiter consumes. |
| `RendererControl` | `renderer_in_client_public.cpp`, `renderer_in_client.cpp`, `renderer_in_server.cpp` | Start, Pause, Stop, Flush, Release and the drain: the client's locks and waits, the IPC to the server, the engine's completion, the one-way notification back, time-outs and refusals. |
| `RendererHandshake` | the same | `RendererControl` with several application threads. |
| `RendererDataPath` | `WriteCallbackFunc`, `WriteInner`, `WriteCacheData`, `audio_safe_block_queue.h` | `RendererControl` with one application thread, the callback loop with its queue, `FutexTool` with the loop as its waiter, the ring as a FIFO, and the engine. |
| `CapturerDataPath` | `capturer_in_server.cpp`, `capturer_in_client.cpp` | The engine's thread writes spans, a thread of the application reads them, another makes the server flush. All three use the step-wise buffer. |
| `HpaeNoLockQueue` | `hpae_no_lock_queue.cpp` | Nodes, the two shared heads with their flags, each thread's registers. Every atomic access is a step. |
| `HpaeManagerThread` | `hpae_manager.cpp` | The thread's loop with its condition variable, `Notify`, `SendRequest`, `DeInit`. |
| `RequestQueue` | (abstract) | What the queue promises: requests waiting, the batch taken, the last request executed of each sender. |
| `PolicyStateMonitor` | `audio_policy_state_monitor.cpp` | Ids, callbacks by id; each critical section of `monitorMutex_` is an operator. |
| `AudioSession` | `audio_session*.cpp`, `audio_volume_manager.cpp` (forced volume key control) | The session map, the map from pid to timer, where the call that holds `sessionServiceMutex_` is, and the callback threads that wait. |
| `AudioInterruptService` | `audio_interrupt_service.cpp`, `audio_interrupt_service_ext.cpp` | The focus list of a zone (a state, a strategy and an order), preempt mode, the queue of events of each stream. One action per handler, for each holds `mutex_` throughout. The policy table is a constant. |
| `RendererFocus` | `audio_renderer.cpp`, `audio_interrupt_client_manager.cpp` | `AudioInterruptService` with its clients: Start is a request and a start, Pause and Stop are a stop and a request; events arrive in between. Cellular calls hold the focus and have no stream. |
| `FakeSession` | `audio_interrupt_service.cpp`, `audio_session*.cpp` | A session with a scene: its fake entry in the list, its members, placeholders; what the delayed deactivation and the time-out do a second, or a thread, later. Other applications are one rival, given by what it does to an entry. |
| `AudioEndpoint` | `audio_endpoint.cpp`, `audio_endpoint_performance.cpp`, `audio_service.cpp`, `audio_process_in_server.cpp`, `audio_process_in_client.cpp` | The endpoint's status, device, stop time and list; the status word each stream shares with its client; where the server is in the call of each stream, in the link or unlink it does under `processListMutex_`, in putting streams on stand-by, and in the stop of an idle device. A step ends where another thread can change what the next line reads. |

A few representations need a word.

* **Positions and slots.** A slot of `OHAudioBuffer` is a frame in
  `AudioBufferSpsc` and a span in `CapturerDataPath`, whose code checks that
  positions are multiples of the span. `frames` holds, for each slot, the
  position whose audio is in it, or `Silence` once it is cleared, which is all
  the properties ask of the data. Positions are naturals: the code's 64-bit
  counters do not wrap in the life of a stream.
* **The ring as a FIFO.** `RendererDataPath` uses a sequence where the code has
  the ring buffer. `AudioBufferSpsc_proofs!ImplementsFifo` is what justifies it.
* **Time.** A timed wait may end at any moment (`MayTimeOut` says which waits
  may), and a registered timer of the state monitor may end at any moment after
  the call that registers it.
* **Locks.** A lock is a variable (`statusMutex`, `writeMutex`) where its holder
  can be preempted or wait inside; a critical section that touches nothing else
  is one step.
* **History variables.** Some properties speak of behaviours without a certain
  event, and a variable says whether it has happened: `failure` (a late or a
  refused answer), `restarted` (Start after another call), `overlap` (a flush
  while a thread of the application reads; a call while a timer's callback is
  under way), `refused` (the engine refused a flush, or did not answer it),
  `early` (DeInit before the thread began to run), `stolen` (an owner
  unregistered the id of another), `hit` (which of five races of the endpoint
  has happened, or that its device refused to start). No action reads
  them, except that `RendererHandshake` does not mix kinds of failure in one
  behaviour, and that `Onward` decides whether clients of the endpoint go on
  calling. What goes wrong when the event does happen is in section 5.
* **Entries of the focus list.** A stream is on the list at most once, so the
  list is a state per stream and the order of each two. `FakeSession` does
  without the order: its one rival is given by what it does to an entry, and a
  rival that would itself be paused by the application is left out
  (`RivalAssumption`).
* **Mutants.** A definition commented "Mutant of ..." is not part of any
  specification. It is the definition with a plausible mistake, kept to show
  that a property would notice.

## 3. What TLC checks

Each run is `tlc -config <cfg> <module>`. Deadlock checking is off where the
bounds on calls let a finished system stop; it is on in `futex`, where nothing
is bounded.

| run | module, cfg | asks | states | time |
|---|---|---|---|---|
| `spsc` | `MCAudioBufferSpsc` | Do the two sides of a ring buffer, accessing it step by step, never get refused, take what was written, leave unread audio alone, and so implement `AudioFifo`? | 38,772 | 2 s |
| `futex` | `MCFutexSignal` | Can a waiter sleep through its wake-up? | 9,583 | 2 s |
| `handshake` | `MCRendererHandshake` | With late answers or refusals, do client and server tell the same story once all is quiet? Is success real, does every call return, does none leave the stream stuck? | 454,742 | 90 s |
| `handshake_latestart` | `..._latestart.cfg` | violated, see 5 | | |
| `datapath` | `MCRendererDataPath` | With control calls at any moment: until the stream is started again, is a frame played twice or after a later one, a buffer given up while RUNNING? Until a second call, is one left out, and are all played (which no sleep of the loop may prevent)? Does every call return? | 547,574 | 130 s |
| `capturer` | `MCCapturerDataPath` | With a flush at any moment: does the read cursor stay behind the write cursor? Unless the flush meets a reader: is captured audio delivered once, in order, and dropped by a flush only? Does every flush return, and go back to STARTED unless the engine fails it? | 253,319 | 160 s |
| `queue` | `MCHpaeManagerThread` | Does the lock-free queue implement `RequestQueue`, is a node ever in two hands, is a published request ever left behind, does DeInit return? | 194,742 | 85 s |
| `session` | `MCAudioSession` | Do ids, timers and sessions fit, is an idle session ended and a busy one not, is a forced volume key let go? | 665,140 | 190 s |
| `focus` | `MCRendererFocus` | Music, navigation, an internet call and a cellular call under the shipped policy: is an entry ever louder than the table allows beside a younger one, does anyone stay down for one that has gone, or play loud while ducked, or on without the focus? | 685,260 | 60 s |
| `fake` | `MCFakeSession` | A session with two streams, a rival, two delayed deactivations and a time-out: does a paused session silence its streams, when can a stream play without an entry, is what was given up given back? | 382,368 | 85 s |
| `endpoint` | `MCAudioEndpoint` | Two low-latency streams come, go, start, pause, sleep and die, and the device may fail: does a stream told that it runs play, is an endpoint in use released, do locks wait in a circle, does an idle device rest and an unused endpoint go? | 290,268 | 25 s |
| `endpoint_idel` | `..._idel.cfg` | violated, see 5 | | |

The states are distinct states, the times those of two workers. Each property is
stated in a comment where it is defined, and `PROJECT.json` names for each a
mutant of the model that violates it. The type invariants are not among them:
they are proved where there is a `_proofs` module for it, and in the other
modules `TypeOK` says which values the variables take.

### Bounds

* `spsc`: 3 slots and 8 positions take both cursors through two laps and every
  region through every offset, wrapped or not. The proofs hold for every size.
* `futex`: two wakers, so that one can meet the word between the two accesses of
  the other; three tries for the code's 50 (`WAIT_TRY_COUNT`); the
  proof is for every count. Signals may interrupt the system call (EINTR).
* `handshake`: five calls by two threads reach every pair of calls in every
  order after a start, with a third and fourth to run into what the first left.
* `datapath`: a ring of 3 frames and buffers of 2 let a buffer be written in two
  parts with a wait in between; the cache limit admits a full ring, as the
  code's limit does; three calls are start, one that stops or pauses it, and one
  more. `MaxFrames = 4` is two buffers, one in the ring while the next is
  written. The safety properties have been checked with six too, which takes a
  stream through a restart with the ring full (1,376,452 states; with the
  liveness properties that is too long for a run). The proofs are for all sizes
  and for any number of threads and calls.
* `capturer`: 3 spans and 4 positions, so that the reader passes into the second
  lap and the base moves; one flush, which can meet each of the reader's and the
  engine's steps.
* `queue`: two nodes, one sender of two requests and one of one: nodes are
  reused with the flag incremented, senders race with each other, with the
  handler and with DeInit, and find the queue full. Eight flags are more than
  the reuses: the wrap of the 32-bit flag is not reached.
* `session`: two applications and the volume manager; five calls (activation,
  deactivation, streams, application states, volume keys). Four ids: the fifth
  call cannot find all of them taken, which the code would only log. With three
  it can, and then `IdleSessionEnds` fails, as it must.

* `focus`: four streams of four applications and four kinds, whose rows of
  `audio_interrupt_policy_config.xml` contain every hint in either direction;
  the internet call has the strategy that ducks, the music may be silenced. One
  event on its way when a call is made: the call itself adds more, so that two
  events of one stream, and an event and a call, do meet. The proofs need no
  such bound.
* `fake`: two streams, so that one is a member and one is not; two delayed
  deactivations, so that an older one meets a newer session and a newer task;
  rivals that pause, stop, give way or refuse, of music and of internet calls
  (`voip`, chosen at the start). One event on its way when a call is made.
* `endpoint`: two streams, for every race is between a stream and another, or
  the work thread, or the position thread. `Onward = FALSE`: after the first
  race clients make no more calls, and what is under way runs to its end, which
  keeps the liveness properties within reach. The proofs are for either value,
  and the inductive invariant was checked with `TRUE` as well.

### Fairness

Weak fairness for each thread's next step, for the engine's completion of an
accepted request and for the delivery of a one-way binder call: none of them
waits for anything but a lock or a condition the model has. Nobody has to make a
call, to begin a flush or to provide audio. Time limits come in three kinds:

* The sleeps whose wake-up a property is about end by the wake-up only:
  the sleep in `FutexWait` (`futex`, `datapath`) and the manager thread's sleep
  (`queue`) may reach a limit in some step, but fairness never makes them.
* The waits of control calls may reach their limit where `MayTimeOut` says so, and
  then fairness may end them that way, as the code's `wait_for` does.
  `datapath` has no such waits: there a call returns because it is answered.
* The loop's wait for RUNNING on a condition variable does end by its limit, as
  it does in the code.

Two more assumptions:

* `RendererDataPath` gives a control call strong fairness. The callback loop
  polls `statusMutex_` once a second and holds it for a moment; that a waiter
  gets it in the end is what a mutex of the platform does, and weak fairness
  would not say.
* In `FakeSession` the delayed task and the thread of a time-out run, and the
  handler's thread hands events over. Applications and rivals need do nothing.
* In `AudioEndpoint` the server's threads run, device calls return and timers
  end; no client need ever call, or return.
* In `AudioSession` a timer ends: that is the monitor's thread, which looks
  every second.

## 4. What is proved

`tlapm` checks the `_proofs` modules. All theorems hold for every value of the
constants that satisfies the ASSUMEs of the modules; those only say that sizes
are positive, that threads and owners are distinct, and that bounds are numbers.
Three kinds of theorem say more than that in their statement: those of the
request queue that suppose its flags do not wrap, the one of the session's
timers that supposes there is an id for each owner, and the two of the callback
loop that suppose certain waits end before their time limits.

* **`AudioBufferSpsc_proofs`.** `IInv` is `TypeOK`, `OrderInv` and `ContentInv`.
  `OrderInv` relates what a thread has loaded to what the variables are now: the
  writer's loaded base is at most the present one and admits its position, the
  reader's own cursors cannot have moved, and in the middle of `SetCurReadFrame`
  the base is one lap ahead of the read position. Without these conjuncts
  `CursorsInRange` is not inductive. `ContentInv` says which slot each position
  is in. From them follow `CursorsAlwaysInRange`, `NeverRefusesACorrectCaller`,
  `ReaderTakesWhatWasWritten`, `UnreadStaysIntact`; and `ImplementsFifo`: the
  two publishing stores are the FIFO's steps, all others stutter.
* **`RendererClient_proofs`**, about the threads of a playback client. Of the
  control calls (`RendererHandshake`): `SidesAlwaysAgree` and
  `SuccessIsAlwaysReal`, for any number of threads and calls. Their invariant
  `Story` has two parts, for the two kinds of failure that a behaviour may meet.
  As long as nothing is refused, and however late answers come, the server's
  status is what the client's state will be once the notifications on their way
  have arrived (`StatusTold`, `WillBe`), or the engine has a request that will
  change it (`StatusPasses`): every step that completes a request sets the status
  and sends the notification in one. A refusal breaks this, for the status has
  changed and nobody will change it back. As long as no answer comes late, and
  whatever is refused, one request is under way at a time (`OneAtATime`):
  `InPlace` says for each place of the call that holds `statusMutex_` where its
  request is - not sent, with the engine, answered by a notification, known to
  the client - and what the two states are then. Drains are the exception, for
  Stop does not insist on an answer to its own; `Ends` says that the status
  DRAINING, or a drain about to set STARTED, is met only by a Stop or after a
  refusal. Where neither kind of failure has happened both parts hold, and
  `MarkStopping` needs both: that the state Stop has checked is one in which the
  server accepts its request.
  Of the futex (`FutexSignal`): `SignalTypeCorrect` and `NoWakeUpIsLost`. The
  invariant adds to `NoLostWake` the waiter that has looked at its predicate and
  not yet called the kernel: if the condition has come true since, either the
  word is no longer NOT_READY, and the system call returns at once, or a waker
  has yet to change it. A signal may end the system call at any time.
  Of the callback loop (`RendererDataPath`), for any number of threads and calls
  and all sizes: `DataTypeCorrect`, and three properties of the audio. All three
  are about the time until the stream is started again, and rest on
  `FreshUntilStart`: until the one Start has been answered nothing has moved and
  the loop waits, and a start that the client has been told of is no longer
  under way (`OneStart`), so a stream that stops playing will not play again.
  `AlwaysPlayedForward` supposes nothing more: answers may be late or refusals,
  waits may time out. `InOrder` says that what has been taken, the ring, the
  buffer being written and the queue follow each other. The queue is excused
  once a buffer has been pushed back to its end, for then the loop is parked in
  a stream that is not RUNNING and will not be.
  `NothingLostWhileRunning` is about the wait for room in `WriteCacheData`. It
  must not end, while the stream is RUNNING, before there is room; `FutexWait`
  however gives up after `WAIT_TRY_COUNT` wake-ups in vain, with an error that
  `WriteCacheData` does not look at.
  `KeepsBuffers` bounds them: while the loop writes it holds `writeMutex_`, and
  every other thread that wakes it has made the state leave RUNNING first
  (`AppWakes`, `Pauses`, `Leaves`, `EndTold`), so only the engine wakes it, and
  takes frames before it does. Of the wake-ups for frames taken before, at most
  two are in vain (`InVain`): one that has set the word and one that follows.
  Hence `TryCount > 2` (the code has 50). This is about wake-ups by wakers: that
  a signal ends the system call (EINTR, `futex_tool.cpp:101`) is in `FutexSignal`,
  not in the callback loop, and fifty signals in one wait would use up its tries
  and lose the buffer. The theorem also supposes that
  neither Start nor this wait reaches its time limit: a Start that takes its
  request back, and a late answer to it, make the stream RUNNING unasked; and a
  wait that times out drops the buffer, as the code means it to. And no Flush is
  refused: it would wake the writer with nothing held.
  `AlwaysWithoutGaps`, with the same hypotheses, is about the time until a
  second call; with `AlwaysPlayedForward` it is `AlwaysPlayedInOrder`. `NoGaps`
  strengthens the order to an unbroken line of numbers from `taken` to
  `nextFrame`; that no step breaks it needs that nothing is lost or pushed back
  or cleared, which the first call alone cannot do: it is a Start (`SoloStart`),
  or it does not make the stream play (`SoloOther`).
* **`CapturerDataPath_proofs`.** `TypeCorrect` (regions begin inside the data
  area) and `ReaderNeverPassesWriter`, both however the flush overlaps the
  reader. The invariant is that whoever is past `SetCurReadFrame`'s comparison
  holds a position not above the write cursor, and that only the engine moves
  that, forward. `AudioIsDeliveredInOrder` and `OnlyFlushesDiscard` are about
  the time before a flush overlaps the reader. `OneTaker` says what holds then:
  one of the two threads that take is idle, whoever is in a region has the slot
  of the read position, the base is ahead of that only between the two stores of
  `SetCurReadFrame` (`Alone`); and every position from the first unread one to
  the last one copied, published or not, is in its slot (`ContentFits`). That
  the slots of two such positions differ needs the cursors within a lap of each
  other, which is why the two halves are proved together.
* **`HpaeManagerThread_proofs`.** `EveryNodeOnceUntilWrap` and
  `RequestQueueUntilWrap`: as long as no flag comes back to 0, no node of the
  lock-free queue is lost or in two places, and the queue implements
  `RequestQueue`. The lists are chains of indices in memory, and a recursive
  definition cannot be reasoned about by induction here; so the invariant
  `Linked` says that there *is* a description of them: a `place` for each node, a
  `rank` in its list, a `len` of each list, and `uses`, the flag under which the
  node was last taken. Each step gives the new description from the old one.
  A compare-exchange that succeeds must have met the node it had loaded:
  a producer that has loaded a node's successor knows that as long as the head
  has the flag it saw, the node has not left the free list since, and that is
  what `uses` is for. Where all flags have been used the argument ends, and so
  does the claim: `NoFlagWraps` is a hypothesis. `NodesNeverLost` and
  `ImplementsRequestQueue` discharge it for any use with fewer calls of
  `PushRequest` than flags (`EnoughFlags`; the code has 2^32): no flag is
  greater than the number of calls that have begun.
  For the refinement the lists become sequences (`Up`), whose requests, oldest
  first, are `Waiting` and `Batch`. The compare-exchange that puts a node on the
  request list publishes, the one that empties the list takes all, the call of a
  request executes, all else stutters. `Orderly` bounds the numbers of what
  waits, of the batch and of what has run, from which the order of each sender's
  requests follows.
* **`AudioSession_proofs`.** `IdsAlwaysAgree`. `IdsInv` adds that an id being
  given to an owner has no callback yet; otherwise a timer could end and free an
  id somebody is about to enter. `TimersFitSessions` and
  `TimeoutsEndEmptySessions` rest on `FitInv`, which says how an application's
  session, its map entry and its timer fit in each of the situations the
  application can be in: at rest, inside a call (what is left to be done at each
  of its steps), and between the end of a timer and the callback that ends the
  session. It excuses `overlap`, and no more. The first theorem supposes
  `EnoughIds`, an id for each owner: without one `StartMonitor` fails, the code
  logs that, and an empty session has no timer.
* **`RendererFocus_proofs`.** `FocusInv` says of each two entries which of
  them came first, that an entry is as quiet as the table wants beside each
  younger one that is not paused, and that no such pair has the hint STOP. The
  lemmas on `Worst`, `Soften` and `HintFor` show that the arrival of a stream
  and the simulation of the list agree on it; for the latter
  `SoftenAssumption` is needed, as the code applies a strategy in one place only
  if the two can mix and in the other always. From it follow
  `NobodyDisturbs`, `PreemptModeIsSilent` and, as action properties,
  `GivingBackSettles` and `FocusIsLostInStartOnly`. The last one rests on what
  is left of an event queue when its head is taken: whoever lost the focus has
  a pause or a stop in the queue, or is in the middle of its Start.
  `DuckedPlaysQuietly` adds `DuckInv`: the last event on its way to a ducked
  stream ducks it, or none is on its way and it has obeyed. A handler that ducks
  sends the event in the same critical section, and whatever is sent after a
  duck changes the state too.
* **`FakeSession_proofs`.** `PausedWithSession` is inductive beside the types:
  each handler that pauses the session's entry, or that adds a member to it,
  sends the event in the same critical section. `OnlyLateCleanUpUncovers` goes
  through the steps: those that take an entry stop its streams or hand them to a
  task, but for the two clean-ups that meet a session that is active again.
* **`AudioEndpoint_proofs`.** The invariant has four parts, each resting on the
  ones before it. `Locks`: each lock has one holder. `Lists`: a stream whose
  client can call is on the list. `Used`: an endpoint that is unlinked, or not
  there, is used by nobody. `Says`: what the status says is so, which is
  `PlaysWhenRunning` with the places inside OnStart, OnPause and the stop of the
  device where it is about to be so. The work thread checks a stream and puts it
  on stand-by in two steps, between which the client may pause it, resume it, or
  have the server's answer; the stream stays on the list meanwhile, for the
  thread keeps `listLock_` (`marked` in `Locks` and `Lists`). Each part excuses
  the races that break it, and no others; the proofs do not depend on what
  clients do after a race.

Only model-checked: all liveness (`WokenInTime`, `AllPlayed`,
`EveryCallReturns`, `CallsReturn`, `FlushEnds`, `AllDelivered`, `EveryRequestRuns`,
`DeInitReturns`, `IdleSessionEnds`, `FocusGivenUp`, `CapturedStop`,
`DeviceRests`, `UnusedIsReleased`), which is beyond the prover. All other
properties of the passing runs are proved; of the callback loop's two, under the
hypotheses above, which the run satisfies.

## 5. Where code and comments disagree

Each is a run that TLC finds violated, and a finding in `PROJECT.json` with the
lines.

* `handshake_latestart`: a drain that completes after its wait has timed out
  sets the server to STARTED while the client is STOPPED, which the comment at
  `renderer_in_server.cpp:336` excludes. It takes a Start that has timed out and
  taken its request back, whose two notifications are late; a second Start,
  which the server accepts and the first notification satisfies; and a Stop
  whose drain the server accepts, but which the second notification then makes
  return as "already stopped", without asking the server. The status stays
  DRAINING until the drain completes.
* `endpoint_idel`: the endpoint is IDEL, which is to mean "no running process"
  (`audio_endpoint.h:71`), with a running stream, and the device may be stopped
  under it. The work loop finds the stream RUNNING (`audio_endpoint.cpp:1258`),
  its client sets PAUSING, the loop stores STAND_BY over that
  (`audio_process_in_server.cpp:267`) and scans: nobody runs. The server refuses
  the pause (`471`), and the client stores RUNNING back without a word to the
  endpoint (`audio_process_in_client.cpp:1189`). Without a pause it takes a
  stream that is told that it runs between such a scan and the store of its
  result.

Met while modelling. The first four contradict a comment too; the run that shows
each is obtained by checking the formula named.

* A pause and a restart at the right moments leave two buffers in the callback
  queue (`Len(queue) <= 1` of `RendererDataPath` fails, with a fourth call);
  "queue size should always be 1" (`renderer_in_client.cpp:563`).
* The branch that puts the rest of a buffer back "in pause scene"
  (`renderer_in_client.cpp:577`) is not reached in the pause scene, for the
  write returns an error code there; the rest is dropped
  (`[][Loses => state # "PAUSED"]_dataVars`).
* The server's flush and the client's reader can store positions they checked
  earlier, and the read position goes back
  (`[][curReadFrame' >= curReadFrame]_curReadFrame` of `CapturerDataPath`),
  although `SetCurReadFrame` says it must not.
* A delayed deactivation that has stopped its streams takes the fake entry of a
  session that was activated again within 50 ms, although "there is no need to
  clean up" then (`audio_interrupt_service.cpp:428`). A session activated again
  within the second keeps none of the streams the task holds, and nobody stops
  those.
* A timer that ends just before `AddStreamInfo` ends the session with the stream
  in it (`TimeoutEndsEmpty` without `overlap`); the interface says it "remains
  empty for one minute".
* A renderer that is told to pause or stop between the grant of its Start and
  the start has nothing to stop yet, and plays on without the focus.
* A stream linked while another is starting can be linked without being on the
  endpoint's list (`audio_endpoint.cpp:1152`): it stays silent, and the last
  listed stream to leave has the endpoint released under it.
* The last stream to leave an endpoint and one whose client dies during its
  Start can each hold one of `listLock_` and `startStatusLock_` and wait for
  the other (`audio_endpoint.cpp:1221`, `915`).
* A device that refuses to start leaves the endpoint UNLINKED with a stream
  linked; the next start sets RUNNING without a device, and a release may take
  the endpoint. The client is told that its start succeeded.
* OnStart may find the device started a moment before the position thread notes
  that it has stopped it.
* A flush of a recording stream that meets its reader can fail in the middle
  (`capturer_in_server.cpp:670`), and any can be refused by the engine (`680`) or
  never answered. The status stays FLUSHING, in which `OnReadData` of the HPAE
  engine refuses all audio and a further Flush is illegal. `FlushEnds` excuses
  these cases and says that there is no other.
* A stream that its client has paused, between the work loop's look at it and
  the store, is on stand-by though it is paused: it cannot be resumed, only
  stopped or paused again, or started by a write. If it is being resumed just
  then, that is refused (`ResumeRefused` of `AudioEndpoint`).
* A notification that comes after Release sets `state_` of a released client,
  and a drain that ends late sets a released server to STARTED.
* A wait for room that a pause has ended may find the stream RUNNING once more,
  if it is started again in between, and the ring still full: `WriteCacheData`
  then fails on the empty region (`renderer_in_client.cpp:741`), and the rest of
  the buffer is lost although nothing is wrong any more (`NoLossWhileRunning`
  without `restarted`, with six frames).
* Flush of a playback stream cannot reach a buffer the callback loop has popped
  and not yet written; it is played after the flush.
* DeInit before the manager thread has begun to run lets `Run` overwrite
  `running_`, and the join waits for ever.
* An owner of a timer can unregister an id that has been given to another since,
  whose timer is then lost. An application can come to have two timers. With all
  ids taken a session gets none.
* With two waiters on one futex word one of them can sleep through its wake-up,
  up to its time limit. Every stream modelled here has one.

### Hazards no property covers

`PROJECT.json` lists what the properties are for. These are left to a reader:

* Playback: the loop puts a buffer back with a blocking push, which would wait
  for itself if the application filled the queue (`renderer_in_client.cpp:570`);
  Pause, Flush and Drain change the server's status before the engine is asked
  and leave it changed when it refuses (`renderer_in_server.cpp:1278`).
* Request queue: the 32-bit flag wraps (`hpae_no_lock_queue.cpp:87`); a request
  that finds no free node is dropped and reported as sent (`57`).
* Interrupt service: a strategy softens a hint in the simulation always, on
  arrival only if the two can mix (`audio_interrupt_service.cpp:2620`, `1593`),
  which `SoftenAssumption` sets aside; the own entry of a stream that asks again
  goes before it is refused, and those it kept down wait for the next departure
  (`1882`); an interrupted recording or alarm ends a session without streams,
  whose fake entry stays until the application's next call (`1848`); a renderer
  refused while not running does not hear of the resume
  (`audio_renderer.cpp:1784`).
* Endpoint: `delayStopTime_` is set to the length of the delay, not to its end
  (`audio_endpoint.cpp:1226`); a release thread that is woken may find the name
  entered anew by the next release and act before its time
  (`audio_service.cpp:166`); zero volume stops and starts the
  device without `startStatusLock_` (`audio_endpoint_performance.cpp:145`).

## 6. Not modelled

Devices, pipes, volume tables, zones, effects and adapters are left out
(section 1 and `PROJECT.json` say why for each): for most of them what could be
wrong is in long sequential procedures over data, which a model would only
repeat, or in drivers outside the repository. Within the modelled components these are:

* `OHAudioBuffer`: resetting both positions (`ResetCurReadWritePos`, the
  low-latency stream's), the restore status, time stamps, volume, mapping of the
  memory.
* The playback stream: stand-by, fades, speed change, the writing mode without a
  callback, the underrun bookkeeping, and signals that end the system call of the
  callback loop's `FutexWait`.
* The recording stream: the control calls other than Flush, the client's own
  cache, and an engine that completes a flush after the client's wait for it has
  ended.
* The request queue: `Reset`, which only tests call; requests that send
  requests.
* The session in `AudioSession`: its effect on the focus, which is
  `FakeSession`'s subject, and on devices; timers that repeat, which nobody
  registers.
* The interrupt service: zones other than the default one and migration between
  them, audio scenes, the return of a user, applications frozen or in the
  background, mute in place of pause. `RendererFocus` has no sessions,
  `FakeSession` no ducking, no second rival and no window between grant and
  start: the two meet in the focus list only. Whether an application hears of a
  resume (`isForcePaused_`), and its answer, are left out, and so is a stream
  whose Pause or Stop fails.
* The endpoint: the data path, stopping the device while the volume is zero, a
  device that does not stop, endpoints made anew for another format, the move
  of a playing stream, recording. A stop counts as a pause. A stream has one
  call at a time: the server sees to that (`statusLock_`), and so does the client
  (`statusSwitchLock_`) but for `CallExitStandBy`, with which its writer ends the
  stand-by, and which may meet a pause or a stop of another thread. The release
  of an endpoint comes after the calls of clients that have died.

## 7. Plan

Done: the ring buffer with its proofs, the futex, the playback stream, the
recording stream, the engine's request queue, sessions with their timers, the
interrupt service with its renderers and the fake entry of a session, the
endpoint of low-latency streams with the service that releases it; all of them
with proofs of their safety properties.

Next, in this order:

1. **Data path of the low-latency stream.** `OHAudioBuffer` with both positions
   reset by the client while the endpoint reads, and the stream status word
   exchanged by both sides (restore).
2. **`RendererFocus` with sessions.** The fake entry as one more entry of
   `AudioInterruptService`'s list, with `FakeSession` as its abstraction.
3. **Recreated endpoints** and the move of a stream between them.
4. **`AudioRingCache`** as a bounded FIFO, and the static buffer provider.
5. **Stand-by** in `RendererControl`.

Proofs planned: what remains of `NothingLostWhileRunning` when the stream is
started again (that the buffer a pause has cut off is the only one), and of both
loop theorems when a Flush is refused.
