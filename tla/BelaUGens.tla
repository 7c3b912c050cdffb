------------------------------ MODULE BelaUGens ------------------------------
(***************************************************************************)
(* The Bela hardware unit generators of src/server/plugins/BELAUGens.cpp:  *)
(* MultiplexAnalogIn, AnalogIn, AnalogOut, DigitalIn, DigitalOut and       *)
(* DigitalIO.  A unit is constructed once (its _Ctor validates the         *)
(* context, picks a calc function from the rates of the unit and of its    *)
(* inputs, and runs it once for one sample through BelaUgen_init_output)  *)
(* and then runs its calc function once per block, interleaved with the    *)
(* other units of the graph in any order.                                  *)
(*                                                                         *)
(* What is kept is every access a unit makes to the Bela context (which    *)
(* pin or channel it reads, writes or sets the mode of, at which frame,    *)
(* with which value) and the state the units cache between blocks.  Analog *)
(* sample values and the UGen output buffers are abstracted away.  Signal  *)
(* values are integers in tenths (7 is 0.7), so that the C conversions     *)
(* (int)x and x > 0.5 can be told apart.                                   *)
(***************************************************************************)
EXTENDS Integers, Sequences, SequencesExt

CONSTANTS
    AnalogInChannels,     \* context->analogInChannels
    AnalogOutChannels,    \* context->analogOutChannels
    DigitalChannels,      \* context->digitalChannels
    MultiplexerChannels,  \* context->multiplexerChannels
    BufLength,            \* samples of an audio-rate block (context->audioFrames)
    Units,                \* the unit instances of the graph
    KindOf,               \* Units -> the UGen classes a unit may be of
    RatesOf,              \* kind -> the rate records a SynthDef may give it
    PinValuesOf,          \* kind -> values of its pin and mux channel inputs
    InputValues           \* values, in tenths, of the level and mode inputs

VARIABLES
    unit,    \* the fields of each unit struct, plus its calc function
    level,   \* the level each digital output carries at the last frame
    access   \* the context accesses made by the last step, in order

vars == <<unit, level, access>>

DPins == 0 .. DigitalChannels - 1

(* C conversions of a signal in tenths: the (int) cast and the > 0.5 test. *)
Trunc(x) == IF x >= 0 THEN x \div 10 ELSE -((-x) \div 10)
Thresh(x) == IF x > 5 THEN 1 ELSE 0

(* One access to the Bela context: device, channel, mux channel, frame,   *)
(* value written, whether it persists to later frames (digitalWrite,      *)
(* analogWrite, pinMode) or touches one frame only (the *Once forms), and *)
(* the input value the written level was derived from.                    *)
Op(dev, ch, sub, n, v, p, in) ==
    [dev |-> dev, ch |-> ch, sub |-> sub, frame |-> n, val |-> v,
     persist |-> p, in |-> in]

(* A signal for a block of len samples: one value per sample at audio     *)
(* rate, one value held for the whole block at control rate.              *)
Signal(rate, S, len) ==
    IF rate = "a" THEN [1 .. len -> S] ELSE {[n \in 1 .. len |-> v] : v \in S}

(* The value sets of the three inputs IN(0), IN(1), IN(2) of each class.  *)
InputSets(kind) ==
    LET P == PinValuesOf[kind]
    IN  CASE kind = "MultiplexAnalogIn" -> <<P, P, {0}>>
          [] kind = "AnalogOut"         -> <<P, InputValues, {0}>>
          [] kind = "DigitalOut"        -> <<P, InputValues, {0, 10}>>
          [] kind = "DigitalIO"         -> <<P, InputValues, InputValues>>
          [] OTHER                      -> <<P, {0}, {0}>>

Inputs(kind, r, len) ==
    Signal(r.in[1], InputSets(kind)[1], len)
      \X Signal(r.in[2], InputSets(kind)[2], len)
      \X Signal(r.in[3], InputSets(kind)[3], len)

(* What digitalRead returns at each frame: the outside world's levels.    *)
ReadValues(kind, len) ==
    IF kind = "DigitalIO" THEN [1 .. len -> {0, 1}] ELSE {[n \in 1 .. len |-> 0]}

-----------------------------------------------------------------------------
(* The per-sample bodies of the calc functions.  s is the unit struct, n  *)
(* the frame, x the input values at that frame, d the level              *)
(* digitalRead returns; each returns the new struct and the accesses.     *)
(* x[4] is the level input's first sample of the block, what IN0(1) reads. *)

(* MultiplexAnalogIn_next_*: a read happens when the pin and mux channel  *)
(* pass the range check; the mux check is muxChannel > channels.          *)
MultiplexAnalogInSample(calc, s, n, x, d) ==
    [u |-> s,
     ops |-> IF x[1] \in 0 .. AnalogInChannels - 1
                /\ x[2] >= 0 /\ x[2] <= MultiplexerChannels
             THEN <<Op("mux", x[1], x[2], n, 0, FALSE, 0)>> ELSE <<>>]

AnalogInUpdatePin(s, pin) == [s EXCEPT !.pin = pin]

AnalogInSample(calc, s, n, x, d) ==
    [u |-> AnalogInUpdatePin(s, x[1]),
     ops |-> IF x[1] \in 0 .. AnalogInChannels - 1
             THEN <<Op("ain", x[1], 0, n, 0, FALSE, 0)>> ELSE <<>>]

AnalogOutUpdatePin(s, pin) == [s EXCEPT !.pin = pin]

AnalogOutSampleUnchecked(calc, s, n, x, d) ==
    [u |-> AnalogOutUpdatePin(s, x[1]),
     ops |-> <<Op("aout", x[1], 0, n, x[2], calc = "kk", 0)>>]

(* AnalogOut_next_*: writes the input at the pin only when it is in range; *)
(* the kk form writes once per call, at frame 0, persistently             *)
(* (analogWriteNI).                                                        *)
AnalogOutSample(calc, s, n, x, d) ==
    [u |-> AnalogOutUpdatePin(s, x[1]),
     ops |-> IF x[1] \in 0 .. AnalogOutChannels - 1 /\ (calc # "kk" \/ n = 0)
             THEN <<Op("aout", x[1], 0, n, x[2], calc = "kk", 0)>> ELSE <<>>]

(* DigitalIn_next_*: reads the pin fixed at construction, unchecked.      *)
DigitalInSample(calc, s, n, x, d) ==
    [u |-> s, ops |-> <<Op("din", s.pin, 0, n, 0, FALSE, 0)>>]

DigitalOutSampleTrunc(calc, s, n, x, d) ==
    IF calc = "a_once"
    THEN [u |-> s, ops |-> <<Op("dout", s.pin, 0, n, Thresh(x[2]), FALSE, x[2])>>]
    ELSE IF Trunc(x[2]) # s.lastOut
         THEN [u |-> [s EXCEPT !.lastOut = Trunc(x[2])],
               ops |-> <<Op("dout", s.pin, 0, n, Trunc(x[2]), TRUE, x[2])>>]
         ELSE [u |-> s, ops |-> <<>>]

DigitalOutSampleNoCache(calc, s, n, x, d) ==
    IF calc = "a_once"
    THEN [u |-> s, ops |-> <<Op("dout", s.pin, 0, n, Thresh(x[2]), FALSE, x[2])>>]
    ELSE IF Thresh(x[2]) # s.lastOut
         THEN [u |-> s, ops |-> <<Op("dout", s.pin, 0, n, Thresh(x[2]), TRUE, x[2])>>]
         ELSE [u |-> s, ops |-> <<>>]

(* DigitalOut_next_a_once writes every frame once; DigitalOut_next_a and  *)
(* _k write persistently, and only when the level differs from mLastOut.  *)
DigitalOutSample(calc, s, n, x, d) ==
    IF calc = "a_once"
    THEN [u |-> s, ops |-> <<Op("dout", s.pin, 0, n, Thresh(x[2]), FALSE, x[2])>>]
    ELSE IF Thresh(x[2]) # s.lastOut
         THEN [u |-> [s EXCEPT !.lastOut = Thresh(x[2])],
               ops |-> <<Op("dout", s.pin, 0, n, Thresh(x[2]), TRUE, x[2])>>]
         ELSE [u |-> s, ops |-> <<>>]

(* DigitalIO's pin mode: pinModeOnce at every frame, except in akak_once, *)
(* ak and kk, which call pinMode once, at frame 0, before their loop.     *)
DigitalIOMode(calc, pin, n, m) ==
    IF calc \in {"akak_once", "ak", "kk"}
    THEN IF n = 0 THEN <<Op("dmode", pin, 0, 0, m, TRUE, 0)>> ELSE <<>>
    ELSE <<Op("dmode", pin, 0, n, m, FALSE, 0)>>

(* One frame on a valid pin: mode < 0.5 sets the pin to input and reads   *)
(* it into mLastDigitalIn; otherwise sets it to output and writes lvl,    *)
(* with digitalWrite in kk and digitalWriteOnce in every other form.      *)
DigitalIOAccess(calc, s, n, x, d, lvl) ==
    IF x[3] < 5
    THEN [u |-> [s EXCEPT !.lastIn = d],
          ops |-> DigitalIOMode(calc, x[1], n, 0) \o <<Op("din", x[1], 0, n, 0, FALSE, 0)>>]
    ELSE [u |-> s,
          ops |-> DigitalIOMode(calc, x[1], n, 1)
                    \o <<Op("dout", x[1], 0, n, lvl, calc = "kk", x[2])>>]

(* DigitalIO_next_aaaa_once .. _aakk_once: the pin is audio rate and is   *)
(* checked at every frame; the written level is (int)in.                  *)
DigitalIOAudioPinSample(calc, s, n, x, d) ==
    IF x[1] \notin DPins THEN [u |-> s, ops |-> <<>>]
    ELSE DigitalIOAccess(calc, s, n, x, d, Trunc(x[2]))

(* DigitalIO_next_akaa_once, _akak_once, _akka_once: the pin is control   *)
(* rate and checked once before the loop; akka_once only warns, with no   *)
(* else, and writes in > 0.5 where the other two write (int)in.  akaa_once *)
(* reads its audio-rate level input with IN0(1): the first sample, x[4].  *)
DigitalIOControlPinSample(calc, s, n, x, d) ==
    LET y == IF calc = "akaa_once" THEN [x EXCEPT ![2] = x[4]] ELSE x
    IN  IF calc # "akka_once" /\ y[1] \notin DPins THEN [u |-> s, ops |-> <<>>]
        ELSE DigitalIOAccess(calc, s, n, y, d,
                             IF calc = "akka_once" THEN Thresh(y[2]) ELSE Trunc(y[2]))

(* DigitalIO_next_ak and _kk: every input control rate, the pin checked   *)
(* once, the level written is in > 0.5.                                   *)
DigitalIOControlSample(calc, s, n, x, d) ==
    IF x[1] \notin DPins THEN [u |-> s, ops |-> <<>>]
    ELSE DigitalIOAccess(calc, s, n, x, d, Thresh(x[2]))

(* A disabled unit runs ClearUnitOutputs, which touches no context.       *)
Sample(kind, calc, s, n, x, d) ==
    CASE calc = "ClearUnitOutputs"   -> [u |-> s, ops |-> <<>>]
      [] kind = "MultiplexAnalogIn" -> MultiplexAnalogInSample(calc, s, n, x, d)
      [] kind = "AnalogIn"          -> AnalogInSample(calc, s, n, x, d)
      [] kind = "AnalogOut"         -> AnalogOutSample(calc, s, n, x, d)
      [] kind = "DigitalIn"         -> DigitalInSample(calc, s, n, x, d)
      [] kind = "DigitalOut"        -> DigitalOutSample(calc, s, n, x, d)
      [] kind = "DigitalIO" /\ calc \in {"aaaa_once", "aaak_once", "aaka_once", "aakk_once"} ->
                                       DigitalIOAudioPinSample(calc, s, n, x, d)
      [] kind = "DigitalIO" /\ calc \in {"akaa_once", "akak_once", "akka_once"} ->
                                       DigitalIOControlPinSample(calc, s, n, x, d)
      [] kind = "DigitalIO"         -> DigitalIOControlSample(calc, s, n, x, d)

(* (unit->mCalcFunc)(unit, len): the sample loop of the calc function    *)
(* over frames 0 .. len-1, with the struct fields written back at the end. *)
RunCalc(kind, s, len, x, d) ==
    LET step(acc, n) ==
          LET r == Sample(kind, s.calc, acc.u, n - 1, <<x[1][n], x[2][n], x[3][n], x[2][1]>>, d[n])
          IN  [u |-> r.u, ops |-> acc.ops \o r.ops]
    IN  FoldLeft(step, [u |-> s, ops |-> <<>>], [n \in 1 .. len |-> n])

(* What the Bela API does with a digital write to the frame buffer: a     *)
(* persistent write, or a one-frame write to the last frame, sets the     *)
(* level carried into the next block; a nonzero value is high.  A write   *)
(* to a pin outside the context is not given any effect here.             *)
WriteLevel(lv, o) ==
    IF o.dev = "dout" /\ o.ch \in DPins /\ (o.persist \/ o.frame = BufLength - 1)
    THEN [lv EXCEPT ![o.ch] = IF o.val = 0 THEN 0 ELSE 1]
    ELSE lv

Carry(lv, ops) == FoldLeft(WriteLevel, lv, ops)

-----------------------------------------------------------------------------
(* The constructors.  r holds the rate of the unit (calc) and of its      *)
(* inputs (in); x the inputs, whose first sample is what ZIN0 reads.      *)

BelaUgenDisable(s) == [s EXCEPT !.calc = "ClearUnitOutputs"]

MultiplexAnalogInCtor(s, x) ==
    LET r == s.rates
    IN  IF MultiplexerChannels = 0 THEN BelaUgenDisable(s)
        ELSE [s EXCEPT !.calc = IF r.calc = "k" THEN "kkk" ELSE "a" \o r.in[1] \o r.in[2]]

AnalogInCtor(s, x) ==
    LET r == s.rates
    IN  IF AnalogInChannels = 0 THEN BelaUgenDisable(s)
        ELSE [s EXCEPT !.pin = -1,
                       !.calc = IF r.calc = "k" THEN "kk" ELSE "a" \o r.in[1]]

AnalogOutCtor(s, x) ==
    LET r == s.rates
    IN  IF AnalogOutChannels = 0 THEN BelaUgenDisable(s)
        ELSE [s EXCEPT !.pin = -1,
                       !.calc = IF r.calc = "k" \/ (r.in[1] = "k" /\ r.in[2] = "k")
                                THEN "kk" ELSE "a" \o r.in[1] \o r.in[2]]

(* DigitalIn_Ctor: an out-of-range pin disables the unit and returns.    *)
DigitalInCtor(s, x) ==
    LET pin == x[1][1]
    IN  IF pin \notin DPins THEN BelaUgenDisable([s EXCEPT !.pin = pin])
        ELSE [s EXCEPT !.pin = pin, !.calc = s.rates.calc]

(* DigitalOut_Ctor: an out-of-range pin calls BelaUgen_disable, but no    *)
(* return follows, so the calc function chosen below replaces             *)
(* ClearUnitOutputs (the disable itself touches no context).              *)
DigitalOutCtor(s, x) ==
    [s EXCEPT !.pin = x[1][1], !.lastOut = 0,
              !.calc = IF s.rates.calc = "k" \/ s.rates.in[2] = "k" THEN "k"
                       ELSE IF Trunc(x[3][1]) # 0 THEN "a_once" ELSE "a"]

DigitalIOCtor(s, x) ==
    LET r == s.rates
    IN  [s EXCEPT !.lastIn = 0, !.lastOut = 0,
                  !.calc = IF r.calc = "k" THEN "kk"
                           ELSE IF r.in = <<"k", "k", "k">> THEN "ak"
                           ELSE "a" \o r.in[1] \o r.in[2] \o r.in[3] \o "_once"]

(* The context accesses a constructor makes before BelaUgen_init_output. *)
CtorOps(kind, s) ==
    CASE kind = "DigitalIn" /\ s.calc # "ClearUnitOutputs" ->
           <<Op("dmode", s.pin, 0, 0, 0, TRUE, 0)>>
      [] kind = "DigitalOut" ->
           <<Op("dmode", s.pin, 0, 0, 1, TRUE, 0), Op("dout", s.pin, 0, 0, 0, TRUE, 0)>>
      [] OTHER -> <<>>

Ctor(kind, s, x) ==
    CASE kind = "MultiplexAnalogIn" -> MultiplexAnalogInCtor(s, x)
      [] kind = "AnalogIn"          -> AnalogInCtor(s, x)
      [] kind = "AnalogOut"         -> AnalogOutCtor(s, x)
      [] kind = "DigitalIn"         -> DigitalInCtor(s, x)
      [] kind = "DigitalOut"        -> DigitalOutCtor(s, x)
      [] kind = "DigitalIO"         -> DigitalIOCtor(s, x)

-----------------------------------------------------------------------------
(* The rates a SynthDef may give a unit, with n inputs: the inputs past   *)
(* the n-th do not exist and are fixed at control rate.                   *)
RateRecords(n) ==
    {[calc |-> c, in |-> i] :
        c \in {"a", "k"},
        i \in {t \in {"a", "k"} \X {"a", "k"} \X {"a", "k"} :
                 \A j \in 1 .. 3 : j > n => t[j] = "k"}}

(* Before its constructor runs, a unit has its class and rates and       *)
(* nothing else.                                                          *)
Init ==
    /\ \E kind \in [Units -> UNION {KindOf[u] : u \in Units}],
          rates \in [Units -> RateRecords(3)] :
         /\ \A u \in Units : kind[u] \in KindOf[u] /\ rates[u] \in RatesOf[kind[u]]
         /\ unit = [u \in Units |->
                      [kind |-> kind[u], calc |-> "none", rates |-> rates[u],
                       pin |-> 0, lastOut |-> 0, lastIn |-> 0]]
    /\ level \in [DPins -> {0, 1}]
    /\ access = <<>>

(* The _Ctor of the unit followed by BelaUgen_init_output, which runs the *)
(* chosen calc function for one sample.                                   *)
Construct(u) ==
    LET kind == unit[u].kind IN
    /\ unit[u].calc = "none"
    /\ \E x \in Inputs(kind, unit[u].rates, 1), d \in ReadValues(kind, 1) :
         LET s   == Ctor(kind, unit[u], x)
             r   == RunCalc(kind, s, 1, x, d)
             ops == CtorOps(kind, s) \o r.ops
         IN  /\ unit' = [unit EXCEPT ![u] = r.u]
             /\ access' = ops
             /\ level' = Carry(level, ops)

(* One call of the unit's calc function: a whole block at audio rate, a   *)
(* single sample at control rate.                                         *)
Calc(u) ==
    LET kind == unit[u].kind
        len  == IF unit[u].rates.calc = "k" THEN 1 ELSE BufLength
    IN
    /\ unit[u].calc # "none"
    /\ \E x \in Inputs(kind, unit[u].rates, len), d \in ReadValues(kind, len) :
         LET r == RunCalc(kind, unit[u], len, x, d)
         IN  /\ unit' = [unit EXCEPT ![u] = r.u]
             /\ access' = r.ops
             /\ level' = Carry(level, r.ops)

Next == \E u \in Units : Construct(u) \/ Calc(u)

Spec == Init /\ [][Next]_vars

-----------------------------------------------------------------------------
CalcNames ==
    {"none", "ClearUnitOutputs", "a", "k", "a_once", "aa", "ak", "kk", "kkk",
     "aaa", "aak", "aka", "akk"}
      \cup {"a" \o t[1] \o t[2] \o t[3] \o "_once" : t \in {"a", "k"} \X {"a", "k"} \X {"a", "k"}}

Devices == {"mux", "ain", "aout", "din", "dout", "dmode"}

TypeOK ==
    /\ \A u \in Units :
         /\ unit[u].calc \in CalcNames
         /\ unit[u].kind \in KindOf[u]
         /\ unit[u].rates \in RatesOf[unit[u].kind]
         /\ unit[u].pin \in UNION {PinValuesOf[k] : k \in DOMAIN PinValuesOf} \cup {-1, 0}
         /\ unit[u].lastOut \in {0, 1}
         /\ unit[u].lastIn \in {0, 1}
    /\ level \in [DPins -> {0, 1}]
    /\ \A i \in DOMAIN access : access[i].dev \in Devices

(* The channel ranges of the Bela context each kind of access must stay in. *)
InContext(o) ==
    CASE o.dev = "mux"  -> o.ch \in 0 .. AnalogInChannels - 1
                           /\ o.sub \in 0 .. MultiplexerChannels - 1
      [] o.dev = "ain"  -> o.ch \in 0 .. AnalogInChannels - 1
      [] o.dev = "aout" -> o.ch \in 0 .. AnalogOutChannels - 1
      [] OTHER          -> o.ch \in DPins

(* Every read, write and pinMode a unit makes, from its constructor, its  *)
(* init_output call or any block of its calc function, is on a channel    *)
(* the context has: the range checks of the _Ctor, the updatePin helpers  *)
(* and the per-sample pin checks keep out-of-range pin inputs away from   *)
(* the Bela buffers, whatever the pin inputs do from block to block.      *)
NoInvalidAccess == \A i \in DOMAIN access : InContext(access[i])

(* Write-on-change in DigitalOut_next_a and DigitalOut_next_k is sound:   *)
(* the level a DigitalOut's pin carries is always the level its mLastOut  *)
(* cache says it wrote, from the constructor's initial digitalWrite of 0  *)
(* on, over any sequence of input levels and blocks.                      *)
PinFollowsLastOut ==
    \A u \in Units :
        (unit[u].kind = "DigitalOut" /\ unit[u].calc \in {"a", "k"} /\ unit[u].pin \in DPins)
            => level[unit[u].pin] = unit[u].lastOut

(* A digital level written by DigitalOut or DigitalIO is the input level  *)
(* compared with 0.5, as DigitalOut and the control-rate DigitalIO forms  *)
(* do, whichever calc function the input rates selected.                  *)
WrittenLevelIsThreshold ==
    \A i \in DOMAIN access :
        access[i].dev = "dout" => access[i].val = Thresh(access[i].in)

====
