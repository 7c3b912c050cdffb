# TLA+ models of the Bela/Xenomai support code

This directory holds TLA+ models of the Bela (Xenomai/Cobalt) support code in
this repository, the TLC configurations that check them, and `PROJECT.json`.
`PROJECT.json` lists the components, runs, mutants, the source lines each
definition models, the findings and the hazards.

## 1. Inventory

### Components

| Component | Source | State it keeps | Operations |
|---|---|---|---|
| Xenomai initialisation | `src/common/XenomaiLock.cpp` 37-50, 73 | process-wide "Xenomai initialised" (held in libcobalt) | `initialize_xenomai`, `XenomaiInitializer()` |
| Domain promoter | `XenomaiLock.cpp` 52-71 | the calling thread's scheduling domain (Cobalt or not) | `turn_into_cobalt_thread` |
| Retry helper | `XenomaiLock.cpp` 100-118 | none of its own; reads `enabled` | `try_or_retry` |
| `XenomaiMutex` | `XenomaiLock.cpp` 75-136 | `enabled`, the native Cobalt mutex (owner) | ctor, dtor, `lock`, `try_lock`, `unlock` |
| `XenomaiConditionVariable` | `XenomaiLock.cpp` 138-184 | `enabled`, the native Cobalt condvar (wait queue) | ctor, dtor, `wait`, `notify_one`, `notify_all` |
| `SC_BelaDriver` lifecycle | `src/server/scsynth/SC_Bela.cpp` 57-136, 300-489 | `s_instance`, `gBelaSampleRate`, world's terminating flag | `Construct`, `DriverSetup`, `DriverStart`, `DriverStop`, `SignalReceived`, the Bela setup/render/done callbacks |
| Audio callback | `SC_Bela.cpp` 140-298 | `mStartHostSecs`, `mPrev*`, `mSmoothSampleRate`, `mOSCincrement`, `mOSCbuftime`, the scheduler queue, `mBufCounter` | `BelaAudioCallback` (one call per hardware block) |
| Channel configuration | `SC_Bela.cpp` 327-400 | the Bela settings being built | the analog-channel snapping, in/out equalisation, expander bit masks |
| BELA UGens | `src/server/plugins/BELAUGens.cpp` | per unit: calc function, `mAnalogPin`, `mDigitalPin`, `mLastOut`, `mLastDigitalIn/Out` | `*_Ctor`, `*_next_*`, `*_updatePin` |

### How they interact

The audio thread is a Cobalt thread created by Bela. It runs
`BelaAudioCallback`, which drains the engine's FIFOs and runs the scheduler
and `World_Run`. The UGens' `next` functions run inside `World_Run` and read
`world->mBelaContext`. Non-real-time threads (the OSC/command thread, the main
thread) share data with the audio thread through locks. On Bela, those locks
are `XenomaiMutex` and `XenomaiConditionVariable`. Each of their operations
first makes the Cobalt call. If the call returns EPERM, the thread is outside
the real-time domain: the operation promotes the thread with
`turn_into_cobalt_thread` and retries the call once. Promotion and object
construction call `initialize_xenomai` whenever a Cobalt call suggests that
Xenomai is not yet initialised. That initialisation is the one piece of
process-wide state.

### What is hard

- **Interleaving.** Between the first attempt, the promotion and the retry of
  one thread, other threads lock, unlock, wait and notify.
- **Construction order.** Static objects are built in an unspecified order. A
  condition variable built before Xenomai is initialised takes a different
  constructor path.
- **Partial failure.** Init can fail with an error other than EPERM, and
  promotion can fail. The code then leaves objects "disabled", or leaves
  callers believing that they hold a lock.
- **Liveness.** A consumer in a predicate loop on the condition variable
  depends on notify reaching it and on the mutex being released while it
  waits.
- **In the driver.** Termination requests come from a signal handler and
  from the audio thread. The callback's timing arithmetic has edges at the
  first call, at a zero time delta and at events outside the buffer.

### What makes each component correct

- **Mutex:** seen through `unique_lock`, it is a plain mutex: at most one
  holder, and acquisition only when free (`ImplementsAbstractLock`). It is
  enabled exactly when its native handle was initialised
  (`EnabledMatchesNative`). A disabled mutex reports failure
  (`DisabledTryLockFails`).
- **Condition variable:** it is enabled exactly when initialised. A waiter
  is eventually woken by a notify and reacquires the mutex
  (`ConsumerProgress`). Its destructor wakes every thread blocked in
  `wait()` when it begins (`WaitersWokenByDestructor`).
- **Driver:** a termination request, from whichever thread, ends in the
  process exiting (`TerminationLeadsToExit`). The signal handler never calls
  into a deleted driver (`NoCallOnDeletedDriver`). No render callback
  writes into the BelaScope after the destructor deleted it
  (`NoScopeUseAfterFree`).
- **Callback:** every bundle sent, however late, is eventually performed
  (`EventuallyPerformed`). The sample offset of each performed
  event is inside the buffer and within one sample of its time
  (`OffsetPlacesEvent`).
- **Channel configuration:** Bela is asked for the fewest of 0, 4 or 8
  analog channels that serve every request, and the period is the SC block
  size (`SetupMatchesReference`). Expander bits name only configured analog
  channels (`ExpanderWithinAnalog`).
- **UGens:** every context access is on a channel the context has
  (`NoInvalidAccess`). A DigitalOut's pin carries the level its `mLastOut`
  cache records (`PinFollowsLastOut`). A written digital level is the input
  compared with 0.5 (`WrittenLevelIsThreshold`).

## 2. Plan

1. **`XenomaiLock`** (done). It models the retry helper, the promoter,
   Xenomai initialisation, the mutex and condvar constructors, every
   member, and the destructors run at static destruction. The callers are a producer/consumer
   harness using `unique_lock`. **`AbstractLock`** is the abstract mutex it
   refines.
2. **`BelaUGens`** (done). It models every `_Ctor`, every calc function and
   the `updatePin` helpers of the six classes, and Bela's digital level
   carried between frames.
3. **`BelaCallback`** (done, in part). It models the callback's buffer and
   scheduler loops, the sample-offset rounding and clamp, and the time
   advance. The rate smoothing is abstracted; see section 6.
4. **`BelaDriver`** (done). It models the driver lifecycle with the main
   thread, the audio thread and a signal-handling thread.
5. **`BelaChannels`** (done). It models DriverSetup's channel configuration,
   checked against a reference definition.
6. **Next.**
   - Add a run with an unpromotable thread, for the documented gap.
   - Compose `BelaCallback` with `BelaDriver`. `BelaDriver`'s `Render`
     already runs only while the audio thread runs; its body is
     `BelaCallback`'s `Callback`, whose timing is checked on its own.

## 3. Modules

### `XenomaiLock.tla`

**State**

| Variable | Code |
|---|---|
| `xenoInit` | whether `initialize_xenomai` has run (libcobalt's state) |
| `cobalt[t]` | whether thread `t` is a Cobalt thread |
| `built` | the static objects whose constructors have run |
| `enabled[o]` | the `enabled` member |
| `native[o]` | whether the native handle was initialised |
| `owner` | the Cobalt mutex's owner |
| `op[t]` | the member call `t` is inside, and its step in `try_or_retry`: `first`, `promote`, `retry`, and for `wait`, `waiting` or `woken` |
| `pc`, `owns`, `flag` | the callers: location, `unique_lock`'s owns flag, and the protected data; for the main thread, its place in static destruction (`main`, `next`, `destroycond`, `exited`) |
| `dying` | the objects whose destructor has begun |
| `blockedAtDestroy` | the threads blocked in `wait()` when `~XenomaiConditionVariable` began |

**Actions**

| Action | Code |
|---|---|
| `ConstructInitializer` | `XenomaiInitializer()` / `initialize_xenomai` |
| `ConstructMutex` | `XenomaiMutex()` |
| `ConstructCondVar` | `XenomaiConditionVariable()` |
| `Attempt` | one pass through `try_or_retry`: the disabled return, then the native call (`NativeLock`, `NativeTryLock`, `NativeUnlock`, `NativeWait`, `NativeNotify`), then `Finish` (EPERM on the first attempt goes to promotion; anything else is returned) |
| `Promote` | `turn_into_cobalt_thread`, including `initialize_xenomai` and the one recursive try; if it fails, `try_or_retry` returns EPERM |
| `Reacquire` | the end of a Cobalt `cond_wait` after a wake-up |
| `Resume` | what the member returns to its caller (`0 == ...` in `try_lock`) and what `unique_lock` does with it |
| `Destroy` | the main thread returning from `main` and running one static destructor: `MutexDestructor` (`~XenomaiMutex`: destroy if enabled) or `CondVarDestructor` (`~XenomaiConditionVariable`: if enabled, `notify_all` through `try_or_retry`) |
| `CondVarDestroyHandle` | the `cond_destroy` that follows that `notify_all` |
| `Terminated` | the stutter step after the last destructor, when the process has exited |

Destruction order across objects is unspecified, so `Destroy` picks any
object not yet dying. A caller starts no new member call on a dying object
(`Call`), which is C++'s lifetime rule; calls already in progress go on.
Destroy's result follows Cobalt: EPERM from a non-Cobalt thread, EBUSY while
the mutex is held or the condvar has waiters, and the handle then stays.
After the exit, no thread takes another step.

**Environment assumptions (libcobalt, not in this repository)**

- A Cobalt mutex or condvar call from a non-Cobalt thread returns EPERM.
- `init` returns EPERM until Xenomai is initialised, and may return EAGAIN
  afterwards when `InitMayFail` is set.
- A call on an uninitialised handle returns EINVAL.
- `unlock` or `wait` by a thread that does not own the mutex returns EPERM.
- `sched_setscheduler` succeeds once Xenomai is initialised, except for the
  threads in `Unpromotable`.

**Atomicity.** `initialize_xenomai` and each promotion are single steps.
Promotion touches only the caller's domain and the monotone `xenoInit`, so
splitting it would add no distinguishable interleavings. Each native call is
atomic, and a blocked `lock` or reacquire is a step enabled only while the
mutex is free.

**Fairness.** `FairSpec` adds weak fairness on each thread's caller steps and
on promotion. It adds strong fairness on `Attempt` and `Reacquire`, because a
blocked lock is only intermittently enabled, and Cobalt grants a mutex to
waiters of equal priority in FIFO order. The main thread is weakly fair
once it has begun static destruction (each later destructor and the
condvar's destroy); returning from `main` itself is not forced, because
the program decides when to quit.

**Refinement.** `LockHolders` is the set of threads whose `unique_lock` owns
the mutex and that are not inside `unlock()` or `wait()`. It is mapped onto
`AbstractLock`'s `holder`. A state in which two callers believe they hold the
mutex is therefore a refinement violation.

### `AbstractLock.tla`

This is the promise of a mutex: `holder` is a set of at most one thread.
`Acquire` requires the mutex to be free, and `Release` is done by the holder.

### `MC_XenomaiLock.tla`

This module supplies the threads as model values: producer `{p1}`,
consumer `{c1}`, and the main thread `{d1}` that runs the destructors.

### `BelaUGens.tla` (`src/server/plugins/BELAUGens.cpp`)

**State**

| Variable | Code |
|---|---|
| `unit[u]` | the unit struct: its class, its rates, the calc function the constructor chose (`"ClearUnitOutputs"` after `BelaUgen_disable`), `mAnalogPin`/`mDigitalPin`, `mLastOut`, `mLastDigitalIn` |
| `level[p]` | the level Bela carries on digital pin `p` into later frames |
| `access` | the context calls made by the last step, in order: `analogRead`, `multiplexerAnalogRead`, `analogWrite(Once)`, `digitalRead`, `digitalWrite(Once)`, `pinMode(Once)` |

**Actions**

| Action | Code |
|---|---|
| `Construct(u)` | the class's `_Ctor`, with its range checks and calc selection by input rates, then `BelaUgen_init_output` (one sample of the calc) |
| `Calc(u)` | one call of the selected calc function, for a block of `BufLength` samples at audio rate or one sample at control rate |

A calc function is a fold over the samples of a block (`RunCalc`) of a
per-sample body (`AnalogInSample`, `DigitalOutSample`, ...), which carries
the unit's fields from sample to sample and returns the context calls.
Signals are in tenths, so that the code's `(int)x` (`Trunc`) and
`x > 0.5` (`Thresh`) give different levels for 0.7. Audio-rate inputs take
any value at each sample. Control-rate inputs hold one value for the block.
The nine DigitalIO calc functions fall into three groups, by the rate of
their pin. In `DigitalIOAudioPinSample` (`_aa.._once`) the pin is checked
at every frame. In `DigitalIOControlPinSample` (`_ak.._once`) it is checked
once, except in `akka_once`, which only warns. `DigitalIOControlSample` is
`_ak` and `_kk`. `DigitalIOMode` is `pinModeOnce` at every frame, or, in
`akak_once`, `ak` and `kk`, one persistent `pinMode` at frame 0.
`DigitalIOAccess` is the read-or-write body of a frame on a valid pin.
`WriteLevel`/`Carry` model the Bela library's digital semantics: a
`digitalWrite` persists to later frames, and a `digitalWriteOnce` sets one
frame only. This behaviour is outside `src/`, so those definitions are
marked `spec_modelled`.

### `BelaCallback.tla` (`SC_Bela.cpp` 140-298)

**Fairness.** `FairSpec` assumes weak fairness of `Callback`: Bela's audio
thread calls the render callback once every period while audio runs.
Sending bundles is left to the clients, with no fairness.

All times are integers in OSC units, `S` per sample, and are relative to the
nominal time of the next callback. After each callback every time shifts
down by one period, `Inc`, which keeps the state finite.

| Variable | Code |
|---|---|
| `started` | `mStartHostSecs != 0` |
| `bufTime` | `mOSCbuftime` |
| `inbox[e]` | bundle `e` waiting in `mToEngine` |
| `queue[e]` | bundle `e` in `mScheduler` |
| `done` | the events the last callback performed, with their `mSampleOffset` |

| Action | Code |
|---|---|
| `Send(e, t)` | the non-real-time side schedules a bundle for time `t` |
| `Callback(j)` | the clock reading (nominal time plus `j`), `mToEngine.Perform`, and the buffer loop (`Buffers`). Each buffer runs the `while (NextTime() <= nextTime)` loop (`Drain`), with the offset rounding and clamp (`SampleOffset`), and the `oscTime = nextTime` advance. |

### `BelaDriver.tla` (`SC_Bela.cpp` 57-136, 302-489)

The variables are:
- `main`, the main thread's position;
- `instance` (`s_instance`) and `installed` (the handler);
- `audio`, the audio thread;
- `sig`, a signal-handling thread between its `s_instance` test and its
  call;
- `terminating` and `quit` (`mTerminating` and `mQuitProgram`);
- `freedCall`, whether `SignalReceived` ran on a deleted driver;
- `scope` (`mWorld->mBelaScope`: none, live, logged into, or freed) and
  `scopeFreedUse`, whether `logBuffer` ran on a freed scope.

The actions are:
- `Construct`, `DriverSetup` (success or `Bela_initAudio` failure),
  `DriverStart`, `WaitForQuit`, `DriverStop`, `Delete` (the destructor) and
  `Exit`, on the main thread. `Delete` follows `DriverStop` only: when
  `DriverSetup` or `DriverStart` fails, `World_New` returns nullptr without
  `World_Cleanup`, so the process exits with the driver and `s_instance`
  still in place;
- `AudioThreadEnds`, the audio thread's `sc_belaAudioThreadDone`;
- `Render`, one `sc_belaRender` callback of the running audio thread, which
  ends in `mBelaScope->logBuffer()` (`LogBuffer`);
- `Signal` and `HandlerCalls`, the two halves of `sc_belaSignal`;
- `QuitCommand`, a client's `/quit`.

`BelaSetup` runs inside `Bela_initAudio`, and a failing `Bela_initAudio`
may fail before or after it. It allocates the scope when
`MaxScopeChannels > 0`, and `Delete` frees it. `SignalReceived(alive)` is
the body both callbacks share. `QuitCommand`,
`WaitForQuit` and `Exit` are the server code outside `src/` that the driver
relies on, and are marked `spec_modelled`.

**Fairness.** `FairSpec` assumes weak fairness of the main thread's steps
and of a handler that has already started. The audio thread ending, signals
and `/quit` are outside events, and no fairness is assumed for them.

### `BelaChannels.tla` (`SC_Bela.cpp` 302-408)

`Configure(o)` computes the `BelaInitSettings` from the World options `o`:
`PeriodSize`, `AnalogChannels` (with `SnapAnalog` and equalisation),
`ExpanderMask` (a bit mask as the set of its bits) and the digital channels.
`Setup` is the one call of DriverSetup. `AnalogReference` is an independent
definition of the intended channel count.

## 4. Runs

| Run | Config | Expect | What it shows |
|---|---|---|---|
| `xenomai_mutex` | `MC_XenomaiLock_mutex.cfg` | pass | A producer (lock or try_lock), a consumer (lock/wait) and the main thread all start as plain threads and are promoted on first use; the main thread may run the static destructors at any point. The mutex refines `AbstractLock`, `TypeOK` holds and, under `FairSpec`, a consumer that checks the flag eventually consumes unless the condvar is being destroyed, and every thread blocked in `wait()` when the condvar destructor began is woken (`WaitersWokenByDestructor`). About 5,600 states. |
| `enabled_flag` | `MC_XenomaiLock_enabled.cfg` | violation | Init may fail with EAGAIN, and the condvar may be built before Xenomai is initialised. A mutex is then enabled on an invalid handle, or a condvar stays disabled after its retry succeeds. |
| `trylock_disabled` | `MC_XenomaiLock_trylock_disabled.cfg` | violation | The mutex is disabled (EPERM, then EAGAIN), and `try_lock()` returns true because `try_or_retry` returns `false`, i.e. 0. |
| `condvar_livelock` | `MC_XenomaiLock_condvar_livelock.cfg` | violation | With the condvar disabled by its constructor, `wait()` returns at once while holding the mutex, and the producer never gets it. |
| `ugens_graph` | `MC_BelaUGens_graph.cfg` | pass | An AnalogIn, AnalogOut, DigitalOut or DigitalIO beside a DigitalIn, over every rate combination but `akka_once` and any pin inputs from block to block. `NoInvalidAccess`, `PinFollowsLastOut` and `TypeOK` hold. About 18,000 states. |
| `ugens_invalid_access` | `MC_BelaUGens_invalid_access.cfg` | violation | A MultiplexAnalogIn, DigitalOut or DigitalIO reaches a channel the context does not have (three findings). |
| `ugens_threshold` | `MC_BelaUGens_threshold.cfg` | violation | DigitalIO writes 0 for 0.7 when its pin or level input is audio rate. |
| `callback_schedule` | `MC_BelaCallback.cfg` | pass | Over two bundles sent for any time from late to two periods ahead, and clock readings on time or late, `OffsetPlacesEvent` holds and, under `FairSpec` (a callback every period), `EventuallyPerformed` holds: a late bundle is performed at sample 0, not dropped. About 900 states. |
| `driver_termination` | `MC_BelaDriver_termination.cfg` | pass | With up to three signals and a scope: `TerminationLeadsToExit` holds under `FairSpec`, and `NoScopeUseAfterFree` holds because `DriverStop` joins the audio thread before `Delete`. Deadlock is not checked, because the process really stops. About 190 states. |
| `driver_signal_race` | `MC_BelaDriver_signal_race.cfg` | violation | On the normal shutdown path (stop, then delete), a signal handler that passed its `s_instance` test calls `SignalReceived` after the destructor. |
| `channels_reference` | `MC_BelaChannels_reference.cfg` | pass | `SetupMatchesReference` holds over 17,280 option combinations. |
| `channels_expander` | `MC_BelaChannels_expander.cfg` | violation | 11 outputs on a 2-channel board give expander bits 0..8 for 8 analog channels. |

**Bounds.**

- **XenomaiLock.** One producer contending with a consumer that waits,
  and the main thread destroying the objects under them, give every
  interleaving of a lock, a wait, a notify and a destructor; a second
  producer adds only symmetric contention and puts the liveness check
  beyond minutes. Every thread starts outside the real-time domain,
  so every call can take the EPERM/promote/retry path. The pass
  run sets `InitBeforeCondVar`, `InitMayFail = FALSE` and
  `Unpromotable = {}`: these are the conditions under which the code is
  meant to work. The violation runs lift them.
- **BelaUGens.**
  - Two channels of each kind, two mux channels and blocks of two samples
    are enough for a pin to change within a block, and for a frame to
    follow a persistent write.
  - Pin inputs are -1, in range, and one past the end (2), which covers
    both sides of every `< 0` and `>= n` check.
  - In the pass run, DigitalIO gets pins -1, 0 and 2, and DigitalOut gets
    only in-range pins; its constructor's out-of-range path is the
    violation run's.
  - Level values 0 and 2.0 tell the `(int)` cast from the `> 0.5` test.
    The threshold run adds 0.7.
- **BelaCallback.**
  - Two samples of two units each and one buffer per callback:
    `DriverSetup` forces the period to `mBufLength`.
  - Send times from one unit late to past two periods, and two bundles, so
    that two events can be due in one buffer.
- **BelaDriver.** Up to three signals, so that one can arrive during each
  phase of the main thread.
- **BelaChannels.** Option values either side of every threshold (0, 4, 5,
  8; extra channels 0 to 9).

## 5. Findings

`PROJECT.json` gives the details of each finding.

1. `XenomaiConditionVariable()` never sets `enabled` after a successful
   retry (`XenomaiLock.cpp` line 149). A condvar built before Xenomai is
   initialised is permanently inert.
2. As a consequence, `wait()` on such a condvar returns without releasing
   the mutex. A predicate-loop consumer then livelocks while holding it.
3. `XenomaiMutex()` sets `enabled` when the first init fails with anything
   but EPERM (line 77).
4. `try_lock()` on a disabled mutex returns true (line 105).
5. `DigitalOut_Ctor` has no `return` after disabling an out-of-range pin.
   It sets the pin's mode and writes it, and then selects a calc that
   writes it again: every frame in `next_a_once`, on each level change in `next_a` and `next_k` (`BELAUGens.cpp` line 632).
6. MultiplexAnalogIn accepts mux channel `multiplexerChannels` (line 99:
   `>` where `>=` is meant).
7. `DigitalIO_next_akka_once` warns about an out-of-range pin but has no
   `else` (line 946).
8. DigitalIO writes `(int)in` in its audio-rate forms and `in > 0.5` in
   the control-rate ones (line 685).
9. `sc_belaSignal` tests `s_instance` and calls through it with no
   synchronisation against the destructor (`SC_Bela.cpp` line 134).
10. `DriverSetup` sets expander bits beyond the 8 analog channels it
    configures (line 393).

## 6. Not modelled

- **A `wait()` that overlaps the condvar destructor without yet being
  blocked.** The model reaches it (that thread blocks after `notify_all`,
  and destroy returns EBUSY), but C++ makes such a call the caller's error,
  so no property requires it to be woken.
- **Caller behaviour when promotion fails.** This is a documented gap
  (spec section 7). It is stated as the assumption `Unpromotable = {}`.
- **Concurrent or repeated `xenomai_init`.** This is libcobalt behaviour.
- **The callback's rate smoothing (lines 156-168).** It is floating point.
  Its clamp keeps `mOSCincrement` within 10 Hz of nominal, far less than
  one model time unit per period, so the model uses one period. A zero
  host-time delta (line 160) gives +inf, since frames always advance, and
  the clamp at line 163 resets the estimate.
- **`mOSCbuftime` stepping back.** Each callback restarts at its clock
  reading, so it can step back (line 215). This is recorded as a hazard.
  No property checks it, because the code makes no promise of monotonicity.
- **`gBelaSampleRate`, what the BelaScope records, and the level, gain
  and PRU checks of `DriverSetup`.** These only forward values. The
  scope's allocation, use and deletion are modelled.
- **The exception path of the callback (lines 291-295).** An exception
  thrown while an event is performed leaves the rest of the due events in
  the scheduler until the next callback. What may throw is in the engine
  outside `src/`.
- **Sample copying and DSP loops.** These are pure data movement.
- **Logging and formatting.** All `xprintf`, `fprintf` and `scprintf`
  output is left out.
