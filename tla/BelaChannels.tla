----------------------------- MODULE BelaChannels -----------------------------
(***************************************************************************)
(* The settings SC_BelaDriver::DriverSetup (src/server/scsynth/SC_Bela.cpp) *)
(* computes from the World options before Bela_initAudio: the period size, *)
(* the analog channel counts, the audio-expander masks that turn analog    *)
(* channels into extra audio channels, and the digital channels.  The      *)
(* lifecycle side of DriverSetup (failure, signal handlers) is in          *)
(* BelaDriver.  The World options are chosen once, in Init; Setup is the   *)
(* one call of DriverSetup.  A bit mask is the set of its set bits.        *)
(***************************************************************************)
EXTENDS Integers

CONSTANTS
    HwAudioChannels,  \* cfg->audioInChannels = cfg->audioOutChannels of the board
    DefaultPeriod,    \* the periodSize Bela_defaultSettings fills in
    Options           \* the World options a server may be started with

VARIABLES
    opts,      \* the World options
    settings,  \* the BelaInitSettings passed to Bela_initAudio
    configured \* DriverSetup has run

vars == <<opts, settings, configured>>

(* Bela_defaultSettings, before DriverSetup overrides it.                 *)
DefaultSettings ==
    [periodSize |-> DefaultPeriod, numAnalogIn |-> 0, numAnalogOut |-> 0,
     useAnalog |-> FALSE, expanderIn |-> {}, expanderOut |-> {},
     useDigital |-> FALSE, numDigital |-> 16]

Max2(a, b) == IF a > b THEN a ELSE b

SnapAnalogOffByOne(n) == IF n > 0 THEN (IF n < 4 THEN 4 ELSE 8) ELSE n

(* Snap a requested count to 0, 4 or 8 analog channels.                   *)
SnapAnalog(n) == IF n > 0 THEN (IF n < 5 THEN 4 ELSE 8) ELSE n

(* The analog inputs and outputs: at least the requested number, at least *)
(* the audio channels wanted beyond the board's, snapped, then equalised  *)
(* to the larger of the two.                                              *)
AnalogChannels(o) ==
    LET extraIn  == o.numInputs - HwAudioChannels
        extraOut == o.numOutputs - HwAudioChannels
        in  == SnapAnalog(IF extraIn > 0 THEN Max2(o.analogIn, extraIn) ELSE o.analogIn)
        out == SnapAnalog(IF extraOut > 0 THEN Max2(o.analogOut, extraOut) ELSE o.analogOut)
    IN  <<Max2(in, out), Max2(in, out)>>

(* for (n = 0; n < extra; ++n) mask |= (1 << n)                            *)
ExpanderMask(extra) == {n \in 0 .. extra - 1 : TRUE}

(* The preferred hardware buffer size, if any, replaces Bela's default,    *)
(* and any size other than mSCBufLength is then replaced by it.           *)
PeriodSize(o) ==
    LET p == IF o.preferred # 0 THEN o.preferred ELSE DefaultPeriod
    IN  IF p # o.bufLength THEN o.bufLength ELSE p

(* DriverSetup up to Bela_initAudio.                                      *)
Configure(o) ==
    LET a == AnalogChannels(o)
    IN  [periodSize |-> PeriodSize(o),
         numAnalogIn |-> a[1], numAnalogOut |-> a[2],
         useAnalog |-> a[1] > 0 \/ a[2] > 0,
         expanderIn |-> ExpanderMask(o.numInputs - HwAudioChannels),
         expanderOut |-> ExpanderMask(o.numOutputs - HwAudioChannels),
         useDigital |-> o.digital > 0,
         numDigital |-> IF o.digital > 0 THEN o.digital ELSE DefaultSettings.numDigital]

Init ==
    /\ opts \in Options
    /\ settings = DefaultSettings
    /\ configured = FALSE

Setup ==
    /\ ~configured
    /\ configured' = TRUE
    /\ settings' = Configure(opts)
    /\ UNCHANGED opts

Spec == Init /\ [][Setup]_vars

-----------------------------------------------------------------------------
(* Reference: the fewest analog channels, out of the 0, 4 or 8 Bela runs, *)
(* that serve every analog channel asked for and every audio channel      *)
(* wanted beyond the board's, in and out alike (8 when none suffices).    *)
AnalogReference(o) ==
    LET need == {o.analogIn, o.analogOut,
                 o.numInputs - HwAudioChannels, o.numOutputs - HwAudioChannels}
        fits == {c \in {0, 4, 8} : \A k \in need : k <= c}
    IN  IF fits = {} THEN 8 ELSE CHOOSE c \in fits : \A d \in fits : c <= d

(* DriverSetup asks Bela for the reference number of analog channels, the *)
(* same for inputs and outputs, turns analog on exactly when it asks for  *)
(* some, and forces the period to the SC block size, so that the audio    *)
(* callback runs exactly one SC block per period.                         *)
SetupMatchesReference ==
    configured =>
        /\ settings.numAnalogIn = AnalogReference(opts)
        /\ settings.numAnalogOut = AnalogReference(opts)
        /\ settings.useAnalog = (AnalogReference(opts) > 0)
        /\ settings.periodSize = opts.bufLength

(* Every analog channel DriverSetup turns into an audio channel with the  *)
(* expander masks is one of the analog channels it configures.            *)
ExpanderWithinAnalog ==
    configured =>
        /\ \A n \in settings.expanderIn : n < settings.numAnalogIn
        /\ \A n \in settings.expanderOut : n < settings.numAnalogOut

====
