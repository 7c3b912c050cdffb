----------------------------- MODULE BelaCallback -----------------------------
(***************************************************************************)
(* SC_BelaDriver::BelaAudioCallback (src/server/scsynth/SC_Bela.cpp): the  *)
(* Bela render callback, run by the audio thread once per hardware period, *)
(* and the non-real-time side that hands it scheduled OSC events through  *)
(* mToEngine.                                                              *)
(*                                                                         *)
(* Time is in OSC units, S of them per sample.  Every time in the state is *)
(* relative to the nominal time of the next callback, and shifts down by   *)
(* one period after each callback.  The host clock reading of a callback   *)
(* is that nominal time plus a wake-up delay from Jitter.  The smoothed    *)
(* sample-rate estimate stays within 10 Hz of the nominal rate, which is   *)
(* far less than one model unit over a period, so mOSCincrement is one     *)
(* period, Inc.                                                            *)
(***************************************************************************)
EXTENDS Integers, FiniteSets

CONSTANTS
    S,          \* OSC units per sample (1 / mOSCtoSamples)
    BufLength,  \* mWorld->mBufLength
    NumBufs,    \* NumSamplesPerCallback() / mBufLength
    Jitter,     \* possible delays of the clock reading after the nominal time
    Events,     \* identities of scheduled OSC bundles
    SendTimes,  \* times, relative to the next callback, a bundle may be scheduled for
    None

Inc == NumBufs * BufLength * S

VARIABLES
    started,   \* mStartHostSecs # 0
    bufTime,   \* mOSCbuftime
    inbox,     \* the time of each event waiting in mToEngine, or None
    queue,     \* the time of each event in mScheduler, or None
    done       \* the events the last callback performed, with their placement

vars == <<started, bufTime, inbox, queue, done>>

Init ==
    /\ started = FALSE
    /\ bufTime = 0
    /\ inbox = [e \in Events |-> None]
    /\ queue = [e \in Events |-> None]
    /\ done = {}

(* The non-real-time thread schedules a bundle for time t: it travels     *)
(* through mToEngine and reaches the scheduler in the next callback.      *)
Send(e, t) ==
    /\ inbox[e] = None /\ queue[e] = None
    /\ inbox' = [inbox EXCEPT ![e] = t]
    /\ done' = {}
    /\ UNCHANGED <<started, bufTime, queue>>

SampleOffsetNoLowerClamp(t, oscTime) ==
    LET off == (2 * (t - oscTime) + S) \div (2 * S)
    IN  IF off >= BufLength THEN BufLength - 1 ELSE off

(* diffTime = (schedTime - oscTime) * oscToSamples + 0.5, floored, then   *)
(* clamped into 0 .. mBufLength - 1.                                       *)
SampleOffset(t, oscTime) ==
    LET off == (2 * (t - oscTime) + S) \div (2 * S)
    IN  IF off < 0 THEN 0 ELSE IF off >= BufLength THEN BufLength - 1 ELSE off

Due(q, nextTime) == {e \in Events : q[e] # None /\ q[e] <= nextTime}

(* mScheduler.NextTime / Remove: the due event with the earliest time.    *)
Earliest(q, D) == CHOOSE e \in D : \A f \in D : q[e] <= q[f]

(* Mutant of Drain: a bundle whose time is already past at the buffer    *)
(* start is removed from the scheduler without being performed.          *)
RECURSIVE DrainDropsLate(_, _, _)
DrainDropsLate(q, oscTime, nextTime) ==
    IF Due(q, nextTime) = {} THEN [q |-> q, perf |-> {}]
    ELSE LET e    == Earliest(q, Due(q, nextTime))
             rest == DrainDropsLate([q EXCEPT ![e] = None], oscTime, nextTime)
         IN  [q |-> rest.q,
              perf |-> rest.perf \cup
                         (IF q[e] < oscTime THEN {}
                          ELSE {[e |-> e, t |-> q[e], ot |-> oscTime,
                                 off |-> SampleOffset(q[e], oscTime)]})]

(* while ((schedTime = mScheduler.NextTime()) <= nextTime): set the       *)
(* sample offset, Remove and Perform the event.                           *)
RECURSIVE Drain(_, _, _)
Drain(q, oscTime, nextTime) ==
    IF Due(q, nextTime) = {} THEN [q |-> q, perf |-> {}]
    ELSE LET e    == Earliest(q, Due(q, nextTime))
             rest == Drain([q EXCEPT ![e] = None], oscTime, nextTime)
         IN  [q |-> rest.q,
              perf |-> rest.perf \cup {[e |-> e, t |-> q[e], ot |-> oscTime,
                                        off |-> SampleOffset(q[e], oscTime)]}]

(* The buffer loop: oscTime starts at the clock reading and advances by   *)
(* mOSCincrement per buffer, each buffer draining what is due by its end. *)
RECURSIVE Buffers(_, _, _)
Buffers(q, oscTime, i) ==
    IF i = NumBufs THEN [q |-> q, perf |-> {}, oscTime |-> oscTime]
    ELSE LET b    == Drain(q, oscTime, oscTime + Inc \div NumBufs)
             rest == Buffers(b.q, oscTime + Inc \div NumBufs, i + 1)
         IN  [q |-> rest.q, perf |-> b.perf \cup rest.perf, oscTime |-> rest.oscTime]

Shift(f) == [e \in Events |-> IF f[e] = None THEN None ELSE f[e] - Inc]

(* One BelaAudioCallback: read the clock (a first call only records the   *)
(* start times, later ones update the rate estimate), mToEngine.Perform   *)
(* moves the sent events into the scheduler, the buffer loop runs, and    *)
(* the clock of the next period becomes the reference.                    *)
Callback(j) ==
    LET q0 == [e \in Events |-> IF inbox[e] # None THEN inbox[e] ELSE queue[e]]
        r  == Buffers(q0, j, 0)
    IN  /\ started' = TRUE
        /\ inbox' = [e \in Events |-> None]
        /\ queue' = Shift(r.q)
        /\ bufTime' = r.oscTime - Inc
        /\ done' = r.perf

Next ==
    \/ \E e \in Events, t \in SendTimes : Send(e, t)
    \/ \E j \in Jitter : Callback(j)

Spec == Init /\ [][Next]_vars

(* Bela's audio thread calls the render callback once every period for as *)
(* long as audio runs; sending bundles is up to the clients.               *)
FairSpec == Spec /\ WF_vars(\E j \in Jitter : Callback(j))

-----------------------------------------------------------------------------
(* Every bundle handed to the callback is eventually performed, however *)
(* late it was sent: mToEngine.Perform moves it into the scheduler, the   *)
(* window of each later callback moves on by a period, and the drain loop *)
(* performs an event already past at sample 0 rather than dropping it.    *)
EventuallyPerformed ==
    \A e \in Events : inbox[e] # None ~> \E p \in done : p.e = e

(* An event the callback performs is placed inside the buffer: a late    *)
(* event at sample 0, an event due within the buffer within one sample of *)
(* its time (rounded, with the last sample absorbing the buffer's end).   *)
OffsetPlacesEvent ==
    \A p \in done :
        /\ p.off \in 0 .. BufLength - 1
        /\ p.t < p.ot => p.off = 0
        /\ p.t >= p.ot => p.off * S - (p.t - p.ot) \in -S .. S

====
