------------------------------ MODULE BelaDriver ------------------------------
(***************************************************************************)
(* The life of SC_BelaDriver (src/server/scsynth/SC_Bela.cpp) and the      *)
(* three threads that touch it:                                            *)
(*  - the main thread, which constructs it through SC_NewAudioDriver, runs *)
(*    DriverSetup and DriverStart, waits on mQuitProgram, then runs        *)
(*    DriverStop and deletes it (the order SC_AudioDriver and World_New /  *)
(*    World_WaitForQuit / World_Cleanup impose, outside src/);             *)
(*  - the Bela audio thread, which may end by itself (the Bela button) or  *)
(*    be stopped by Bela_stopAudio, and then calls sc_belaAudioThreadDone; *)
(*  - a thread interrupted by SIGINT or SIGTERM, which runs sc_belaSignal *)
(*    once DriverSetup has installed it (before that the default action    *)
(*    ends the process).                                                   *)
(* A /quit command from a client is the other way to request termination. *)
(* The BelaScope that BelaSetup allocates when scope channels are asked   *)
(* for is written by every render callback and deleted by the destructor. *)
(***************************************************************************)
EXTENDS Naturals

CONSTANTS
    MaxSignals,       \* signals delivered during one run of the server
    MaxScopeChannels  \* mWorld->mBelaMaxScopeChannels

VARIABLES
    main,        \* where the main thread is in the driver's life
    instance,    \* SC_BelaDriver::s_instance is set
    installed,   \* sc_belaSignal is the SIGINT/SIGTERM handler
    audio,       \* the Bela audio thread: "off", "running", "ended"
    sig,         \* the signal-handling thread: "idle" or "calling" (read s_instance)
    signals,     \* signals delivered so far
    terminating, \* mWorld->hw->mTerminating
    quit,        \* the mQuitProgram semaphore is posted
    freedCall,   \* SignalReceived ran on a deleted driver
    scope,       \* mWorld->mBelaScope: "none", "live", "logged" (logBuffer ran), "freed"
    scopeFreedUse \* logBuffer ran on a deleted BelaScope

vars == <<main, instance, installed, audio, sig, signals, terminating, quit, freedCall,
          scope, scopeFreedUse>>

Init ==
    /\ main = "init"
    /\ instance = FALSE
    /\ installed = FALSE
    /\ audio = "off"
    /\ sig = "idle"
    /\ signals = 0
    /\ terminating = FALSE
    /\ quit = FALSE
    /\ freedCall = FALSE
    /\ scope = "none"
    /\ scopeFreedUse = FALSE

(* SC_NewAudioDriver -> SC_BelaDriver::Construct: s_instance is null in a *)
(* process with one World, so the driver is created and recorded.         *)
Construct ==
    /\ main = "init" /\ ~instance
    /\ instance' = TRUE
    /\ main' = "constructed"
    /\ UNCHANGED <<installed, audio, sig, signals, terminating, quit, freedCall, scope, scopeFreedUse>>

(* sc_belaSetup -> BelaSetup, called by Bela_initAudio: records the      *)
(* sample rate and allocates the BelaScope when scope channels are asked. *)
BelaSetup ==
    scope' = IF MaxScopeChannels > 0 THEN "live" ELSE scope

(* DriverSetup: Bela_initAudio (which calls sc_belaSetup / BelaSetup)     *)
(* either fails, before or after it ran BelaSetup, and DriverSetup        *)
(* returns false before the handlers are installed, or succeeds and the   *)
(* handlers are installed last.                                           *)
DriverSetup ==
    /\ main = "constructed"
    /\ \/ /\ main' = "failed"
          /\ UNCHANGED installed
          /\ BelaSetup \/ UNCHANGED scope
       \/ /\ main' = "setup"
          /\ installed' = TRUE
          /\ BelaSetup
    /\ UNCHANGED <<instance, audio, sig, signals, terminating, quit, freedCall, scopeFreedUse>>

(* DriverStart: Bela_startAudio starts the audio thread or fails.         *)
DriverStart ==
    /\ main = "setup"
    /\ \/ /\ main' = "failed"
          /\ UNCHANGED audio
       \/ /\ main' = "running"
          /\ audio' = "running"
    /\ UNCHANGED <<instance, installed, sig, signals, terminating, quit, freedCall, scope, scopeFreedUse>>

SignalReceivedNoPost(alive) ==
    /\ terminating' = TRUE
    /\ UNCHANGED quit
    /\ freedCall' = (freedCall \/ ~alive)

(* SignalReceived: set mTerminating and post mQuitProgram, on a driver    *)
(* that is alive or, if it was deleted meanwhile, on freed memory.        *)
SignalReceived(alive) ==
    /\ terminating' = TRUE
    /\ quit' = TRUE
    /\ freedCall' = (freedCall \/ ~alive)

(* The audio thread ends by itself (Bela button, xrun limit) and its      *)
(* sc_belaAudioThreadDone calls SignalReceived(0) on the driver.          *)
AudioThreadEnds ==
    /\ audio = "running"
    /\ audio' = "ended"
    /\ SignalReceived(main # "deleted")
    /\ UNCHANGED <<main, instance, installed, sig, signals, scope, scopeFreedUse>>

(* The end of BelaAudioCallback: mBelaScope->logBuffer() if the scope     *)
(* pointer is set, whether or not the object behind it is still alive.    *)
LogBuffer ==
    /\ scope' = IF scope \in {"live", "logged"} THEN "logged" ELSE scope
    /\ scopeFreedUse' = (scopeFreedUse \/ scope = "freed")

(* sc_belaRender: one callback of the running audio thread, until the     *)
(* process is gone.                                                        *)
Render ==
    /\ audio = "running" /\ main \notin {"killed", "exited"}
    /\ LogBuffer
    /\ UNCHANGED <<main, instance, installed, audio, sig, signals, terminating, quit, freedCall>>

(* A client's /quit: the engine sets mTerminating and posts mQuitProgram. *)
QuitCommand ==
    /\ main = "running"
    /\ terminating' = TRUE
    /\ quit' = TRUE
    /\ UNCHANGED <<main, instance, installed, audio, sig, signals, freedCall, scope, scopeFreedUse>>

(* A SIGINT or SIGTERM arrives.  Before DriverSetup installed sc_belaSignal *)
(* the default action ends the process.  Otherwise sc_belaSignal reads     *)
(* s_instance and, if set, goes on to call SignalReceived through it.     *)
Signal ==
    /\ signals < MaxSignals /\ sig = "idle" /\ main \notin {"killed", "exited"}
    /\ signals' = signals + 1
    /\ IF ~installed
       THEN /\ main' = "killed"
            /\ UNCHANGED sig
       ELSE /\ sig' = IF instance THEN "calling" ELSE "idle"
            /\ UNCHANGED main
    /\ UNCHANGED <<instance, installed, audio, terminating, quit, freedCall, scope, scopeFreedUse>>

HandlerCalls ==
    /\ sig = "calling"
    /\ sig' = "idle"
    /\ SignalReceived(main # "deleted")
    /\ UNCHANGED <<main, instance, installed, audio, signals, scope, scopeFreedUse>>

(* World_WaitForQuit: the main thread takes the posted mQuitProgram.      *)
WaitForQuit ==
    /\ main = "running" /\ quit
    /\ quit' = FALSE
    /\ main' = "quitting"
    /\ UNCHANGED <<instance, installed, audio, sig, signals, terminating, freedCall, scope, scopeFreedUse>>

(* Mutant of DriverStop: Bela_stopAudio asks the audio thread to stop and *)
(* returns without joining it, so the thread keeps running callbacks.     *)
DriverStopNoJoin ==
    /\ main = "quitting"
    /\ main' = "stopped"
    /\ UNCHANGED <<instance, installed, audio, sig, signals, terminating, quit, freedCall, scope, scopeFreedUse>>

(* DriverStop: Bela_stopAudio stops and joins the audio thread, whose     *)
(* sc_belaAudioThreadDone calls SignalReceived(0) before the join returns. *)
DriverStop ==
    /\ main = "quitting"
    /\ main' = "stopped"
    /\ audio' = "ended"
    /\ IF audio = "running" THEN SignalReceived(TRUE)
       ELSE UNCHANGED <<terminating, quit, freedCall>>
    /\ UNCHANGED <<instance, installed, sig, signals, scope, scopeFreedUse>>

(* ~SC_BelaDriver: Bela_cleanupAudio, s_instance = nullptr, delete the    *)
(* BelaScope if one was allocated; the World is freed right after.        *)
(* Reached only through World_Cleanup, after DriverStop.                  *)
Delete ==
    /\ main = "stopped"
    /\ main' = "deleted"
    /\ instance' = FALSE
    /\ scope' = IF scope = "none" THEN "none" ELSE "freed"
    /\ UNCHANGED <<installed, audio, sig, signals, terminating, quit, freedCall, scopeFreedUse>>

(* The process returns from main once the driver and the World are gone, *)
(* or, when DriverSetup or DriverStart failed, once World_New has returned *)
(* nullptr, which leaves the driver and s_instance in place.              *)
Exit ==
    /\ main \in {"deleted", "failed"} /\ sig = "idle"
    /\ main' = "exited"
    /\ UNCHANGED <<instance, installed, audio, sig, signals, terminating, quit, freedCall, scope, scopeFreedUse>>

Next ==
    \/ Construct \/ DriverSetup \/ DriverStart \/ WaitForQuit \/ DriverStop
    \/ Delete \/ Exit \/ AudioThreadEnds \/ QuitCommand \/ Signal \/ HandlerCalls
    \/ Render

Spec == Init /\ [][Next]_vars

(* The main thread and a handler already running are scheduled; the audio *)
(* thread ending, /quit and signals are outside events, not assumed.      *)
Fairness ==
    /\ WF_vars(Construct) /\ WF_vars(DriverSetup) /\ WF_vars(DriverStart)
    /\ WF_vars(WaitForQuit) /\ WF_vars(DriverStop) /\ WF_vars(Delete)
    /\ WF_vars(Exit) /\ WF_vars(HandlerCalls)

FairSpec == Spec /\ Fairness

-----------------------------------------------------------------------------
(* A termination request, from a signal handled by sc_belaSignal, from    *)
(* the audio thread's sc_belaAudioThreadDone or from /quit, always leads  *)
(* the main thread through DriverStop and the destructor to exit.         *)
TerminationLeadsToExit == terminating ~> main = "exited"

(* sc_belaSignal never calls SignalReceived on a driver the main thread   *)
(* has deleted: the check of s_instance and the call are not atomic with  *)
(* respect to ~SC_BelaDriver clearing it.                                 *)
NoCallOnDeletedDriver == ~freedCall

(* The render callback never calls logBuffer on the BelaScope that        *)
(* ~SC_BelaDriver deleted (SC_Bela.cpp lines 102 and 289): DriverStop's   *)
(* Bela_stopAudio ends the audio thread before the main thread deletes    *)
(* the driver, whatever mix of signals, /quit and the audio thread ending *)
(* by itself led there.                                                   *)
NoScopeUseAfterFree == ~scopeFreedUse

====
