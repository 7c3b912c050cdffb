----------------------------- MODULE XenomaiLock -----------------------------
(***************************************************************************)
(* The dual-domain mutex and condition variable of src/common/            *)
(* XenomaiLock.cpp: XenomaiMutex and XenomaiConditionVariable, the shared *)
(* retry helper try_or_retry, the promoter turn_into_cobalt_thread and     *)
(* the process-wide initialize_xenomai.                                    *)
(*                                                                         *)
(* Environment (the Cobalt library, not in this repository): a Cobalt      *)
(* call made by a thread that is not a Cobalt thread returns EPERM;       *)
(* init of a native object returns EPERM until Xenomai is initialised;    *)
(* __wrap_sched_setscheduler promotes the caller once Xenomai is          *)
(* initialised, except for the threads in Unpromotable.                   *)
(*                                                                         *)
(* Callers: one mutex and one condition variable guard a flag shared by   *)
(* Producers (lock or try_lock, set the flag, unlock, notify) and         *)
(* Consumers (lock, wait while the flag is clear, clear it, unlock),      *)
(* through std::unique_lock, whose owns flag is `owns'.  A Destroyers    *)
(* thread returns from main and runs the static destructors, one object   *)
(* after the other; the callers make no new call on an object whose       *)
(* destructor has begun, and everything stops when the process exits.     *)
(***************************************************************************)
EXTENDS FiniteSets

CONSTANTS
    Producers,          \* threads that publish the flag
    Consumers,          \* threads that wait for the flag
    NoThread,           \* the owner of an unowned native mutex
    Unpromotable,       \* threads sched_setscheduler never promotes
    InitMayFail,        \* native init may fail with a non-EPERM error
    InitBeforeCondVar,  \* Xenomai is initialised before the condvar is built
    Destroyers          \* the thread that runs the static destructors, if any

Callers == Producers \cup Consumers
Threads == Callers \cup Destroyers

ASSUME /\ Producers \cap Consumers = {}
       /\ Callers \cap Destroyers = {}
       /\ NoThread \notin Threads
       /\ Unpromotable \subseteq Threads
       /\ InitMayFail \in BOOLEAN /\ InitBeforeCondVar \in BOOLEAN

VARIABLES
    xenoInit,   \* initialize_xenomai has run in this process
    cobalt,     \* cobalt[t]: thread t is a Cobalt (real-time) thread
    built,      \* the static objects whose constructor has run
    enabled,    \* the `enabled' member of the mutex and the condvar
    native,     \* native[o]: o's native handle was initialised
    owner,      \* owner of the native Cobalt mutex
    op,         \* op[t]: the call thread t is inside, and its step
    pc,         \* caller location
    owns,       \* owns[t]: t's unique_lock believes it owns the mutex
    flag,       \* the data the mutex protects
    dying,      \* the objects whose destructor has begun
    blockedAtDestroy \* the threads blocked in wait() when ~XenomaiConditionVariable began

env    == <<xenoInit, cobalt>>
objs   == <<built, enabled, native>>
caller == <<pc, owns, flag>>
ending == <<dying, blockedAtDestroy>>
vars   == <<xenoInit, cobalt, built, enabled, native, owner, op, pc, owns, flag,
            dying, blockedAtDestroy>>

Objects == {"mutex", "cond"}
OpNames == {"lock", "trylock", "unlock", "wait", "signal", "broadcast"}
Steps   == {"first", "promote", "retry", "waiting", "woken"}
NoOp    == [name |-> "none", step |-> "none"]
Results == {"OK", "EPERM", "EINVAL", "EBUSY", "EAGAIN"}

\* The object a call of try_or_retry operates on.
Object(name) == IF name \in {"lock", "trylock", "unlock"} THEN "mutex" ELSE "cond"

\* Threads blocked in __wrap_pthread_cond_wait on the condvar.
Waiters == {t \in Threads : op[t].name = "wait" /\ op[t].step = "waiting"}

\* The static destructors have all run and the process has exited.
Exited == \E d \in Destroyers : pc[d] = "exited"

-----------------------------------------------------------------------------
(* Environment: Cobalt calls, as the code relies on them.                  *)

\* __wrap_pthread_{mutex,cond}_init: EPERM until Xenomai is initialised.
InitResults(init) ==
    IF ~init THEN {"EPERM"}
    ELSE {"OK"} \cup (IF InitMayFail THEN {"EAGAIN"} ELSE {})

\* __wrap_sched_setscheduler(tid, policy, &param) succeeds.
SetScheduler(t, init) == init /\ t \notin Unpromotable

\* The result of the native call behind op `name' made by thread t.
NativeResult(t, name) ==
    CASE ~cobalt[t]                                      -> "EPERM"
      [] ~native[Object(name)]                           -> "EINVAL"
      [] name = "wait" /\ ~native["mutex"]               -> "EINVAL"
      [] name \in {"unlock", "wait"} /\ owner # t        -> "EPERM"
      [] name = "trylock" /\ owner # NoThread            -> "EBUSY"
      [] OTHER                                           -> "OK"

-----------------------------------------------------------------------------
(* Constructors.                                                           *)

\* XenomaiInitializer::XenomaiInitializer() and initialize_xenomai().
ConstructInitializer ==
    /\ "initializer" \notin built
    /\ built' = built \cup {"initializer"}
    /\ xenoInit' = TRUE
    /\ UNCHANGED <<cobalt, enabled, native, owner, op, caller, ending>>

\* XenomaiMutex::XenomaiMutex(): only EPERM leads to a retry; any other
\* result of the first init leaves `enabled' set.
ConstructMutex ==
    /\ "mutex" \notin built
    /\ built' = built \cup {"mutex"}
    /\ \E r1 \in InitResults(xenoInit), r2 \in InitResults(TRUE) :
          IF r1 = "EPERM"
          THEN /\ xenoInit' = TRUE
               /\ native' = [native EXCEPT !["mutex"] = (r2 = "OK")]
               /\ enabled' = [enabled EXCEPT !["mutex"] = (r2 = "OK")]
          ELSE /\ UNCHANGED xenoInit
               /\ native' = [native EXCEPT !["mutex"] = (r1 = "OK")]
               /\ enabled' = [enabled EXCEPT !["mutex"] = TRUE]
    /\ UNCHANGED <<cobalt, owner, op, caller, ending>>

\* Mutant of ConstructCondVar: `enabled = true' dropped after a first
\* successful init.
ConstructCondVarNoEnable ==
    /\ "cond" \notin built
    /\ InitBeforeCondVar => xenoInit
    /\ built' = built \cup {"cond"}
    /\ \E r1 \in InitResults(xenoInit), r2 \in InitResults(TRUE) :
          CASE r1 = "EPERM" ->
                 /\ xenoInit' = TRUE
                 /\ native' = [native EXCEPT !["cond"] = (r2 = "OK")]
                 /\ UNCHANGED enabled
            [] OTHER ->
                 /\ native' = [native EXCEPT !["cond"] = (r1 = "OK")]
                 /\ UNCHANGED <<xenoInit, enabled>>
    /\ UNCHANGED <<cobalt, owner, op, caller, ending>>

\* XenomaiConditionVariable::XenomaiConditionVariable(): `enabled' is set
\* only when the first init succeeds; after an EPERM the retry's result
\* initialises the handle but the constructor returns either way.
ConstructCondVar ==
    /\ "cond" \notin built
    /\ InitBeforeCondVar => xenoInit
    /\ built' = built \cup {"cond"}
    /\ \E r1 \in InitResults(xenoInit), r2 \in InitResults(TRUE) :
          CASE r1 = "OK" ->
                 /\ native' = [native EXCEPT !["cond"] = TRUE]
                 /\ enabled' = [enabled EXCEPT !["cond"] = TRUE]
                 /\ UNCHANGED xenoInit
            [] r1 = "EPERM" ->
                 /\ xenoInit' = TRUE
                 /\ native' = [native EXCEPT !["cond"] = (r2 = "OK")]
                 /\ UNCHANGED enabled
            [] OTHER ->
                 UNCHANGED <<xenoInit, native, enabled>>
    /\ UNCHANGED <<cobalt, owner, op, caller, ending>>

-----------------------------------------------------------------------------
(* try_or_retry and the members that call it.                              *)

\* What the caller does with the value the member returns: unique_lock
\* sets owns after lock(), owns = try_lock() after try_lock(), clears it
\* after unlock(); a caller whose try_lock() failed goes back to idle.
Resume(t, r) ==
    /\ owns' = [owns EXCEPT ![t] =
                  CASE op[t].name = "lock"    -> TRUE
                    [] op[t].name = "trylock" -> r = "OK"
                    [] op[t].name = "unlock"  -> FALSE
                    [] OTHER                  -> @]
    /\ pc' = IF op[t].name = "trylock" /\ r # "OK"
             THEN [pc EXCEPT ![t] = "idle"] ELSE pc
    /\ UNCHANGED flag

\* try_or_retry returns r to the member; ops is op with the native call's
\* effect on other threads applied.
Return(t, r, ops) ==
    /\ op' = [ops EXCEPT ![t] = NoOp]
    /\ Resume(t, r)

\* After a native call: EPERM on the first attempt leads to promotion,
\* any other result (and any result of the retry) is returned.
Finish(t, r, ops) ==
    IF r = "EPERM" /\ op[t].step = "first"
    THEN /\ op' = [ops EXCEPT ![t].step = "promote"]
         /\ UNCHANGED caller
    ELSE Return(t, r, ops)

\* __wrap_pthread_mutex_lock blocks while another thread owns the mutex.
NativeLock(t) ==
    LET r == NativeResult(t, "lock") IN
    /\ r = "OK" => owner = NoThread
    /\ owner' = IF r = "OK" THEN t ELSE owner
    /\ Finish(t, r, op)

NativeTryLock(t) ==
    LET r == NativeResult(t, "trylock") IN
    /\ owner' = IF r = "OK" THEN t ELSE owner
    /\ Finish(t, r, op)

NativeUnlock(t) ==
    LET r == NativeResult(t, "unlock") IN
    /\ owner' = IF r = "OK" THEN NoThread ELSE owner
    /\ Finish(t, r, op)

\* __wrap_pthread_cond_wait releases the mutex and blocks; Reacquire
\* completes it.
NativeWait(t) ==
    LET r == NativeResult(t, "wait") IN
    IF r = "OK"
    THEN /\ owner' = NoThread
         /\ op' = [op EXCEPT ![t].step = "waiting"]
         /\ UNCHANGED caller
    ELSE /\ UNCHANGED owner
         /\ Finish(t, r, op)

\* Mutant of NativeNotify: the wake set is taken from every thread, not
\* only from those blocked in wait().
NativeNotifyAnyThread(t) ==
    LET r    == NativeResult(t, op[t].name)
        Wake == IF op[t].name = "broadcast" THEN {Threads \ {t}}
                ELSE {{w} : w \in Threads \ {t}}
    IN /\ UNCHANGED owner
       /\ \E W \in (IF r = "OK" THEN Wake ELSE {{}}) :
             Finish(t, r, [u \in Threads |->
                             IF u \in W THEN [op[u] EXCEPT !.step = "woken"]
                             ELSE op[u]])

\* __wrap_pthread_cond_signal wakes at most one waiter, _broadcast all.
NativeNotify(t) ==
    LET r    == NativeResult(t, op[t].name)
        Wake == IF op[t].name = "broadcast" \/ Waiters = {}
                THEN {Waiters} ELSE {{w} : w \in Waiters}
    IN /\ UNCHANGED owner
       /\ \E W \in (IF r = "OK" THEN Wake ELSE {{}}) :
             Finish(t, r, [u \in Threads |->
                             IF u \in W THEN [op[u] EXCEPT !.step = "woken"]
                             ELSE op[u]])

\* One attempt of try_or_retry: the `enabled' check of the first attempt
\* returns false, read by the member as the int 0; then the native call.
Attempt(t) ==
    /\ ~Exited /\ op[t].step \in {"first", "retry"}
    /\ IF op[t].step = "first" /\ ~enabled[Object(op[t].name)]
       THEN /\ UNCHANGED owner
            /\ Return(t, "OK", op)
       ELSE CASE op[t].name = "lock"    -> NativeLock(t)
              [] op[t].name = "trylock" -> NativeTryLock(t)
              [] op[t].name = "unlock"  -> NativeUnlock(t)
              [] op[t].name = "wait"    -> NativeWait(t)
              [] OTHER                  -> NativeNotify(t)
    /\ UNCHANGED <<env, objs, ending>>

\* Mutant of Promote: a successful promotion returns its own result
\* instead of retrying the call.
PromoteNoRetry(t) ==
    /\ ~Exited /\ op[t].step = "promote"
    /\ xenoInit' = (xenoInit \/ ~SetScheduler(t, xenoInit))
    /\ IF SetScheduler(t, xenoInit) \/ SetScheduler(t, TRUE)
       THEN /\ cobalt' = [cobalt EXCEPT ![t] = TRUE]
            /\ Return(t, "OK", op)
       ELSE /\ UNCHANGED cobalt
            /\ Return(t, "EPERM", op)
    /\ UNCHANGED <<objs, owner, ending>>

\* turn_into_cobalt_thread(): sched_setscheduler; on failure
\* initialize_xenomai() and one recursive try; a second failure makes
\* try_or_retry return EPERM.
Promote(t) ==
    /\ ~Exited /\ op[t].step = "promote"
    /\ xenoInit' = (xenoInit \/ ~SetScheduler(t, xenoInit))
    /\ IF SetScheduler(t, xenoInit) \/ SetScheduler(t, TRUE)
       THEN /\ cobalt' = [cobalt EXCEPT ![t] = TRUE]
            /\ op' = [op EXCEPT ![t].step = "retry"]
            /\ UNCHANGED caller
       ELSE /\ UNCHANGED cobalt
            /\ Return(t, "EPERM", op)
    /\ UNCHANGED <<objs, owner, ending>>

\* A woken waiter reacquires the mutex before cond_wait returns.
Reacquire(t) ==
    /\ ~Exited /\ op[t].step = "woken"
    /\ owner = NoThread
    /\ owner' = t
    /\ Return(t, "OK", op)
    /\ UNCHANGED <<env, objs, ending>>

-----------------------------------------------------------------------------
(* Callers (the environment of this layer, per the spec: a real-time       *)
(* callback and a control thread sharing data).  Threads start once the   *)
(* static mutex and condvar are constructed.                              *)

Started == Objects \subseteq built

\* A caller starts a member call only on an object that is still alive.
Call(t, name) ==
    /\ Object(name) \notin dying
    /\ op' = [op EXCEPT ![t] = [name |-> name, step |-> "first"]]

ProducerStep(t) ==
    /\ Started /\ op[t] = NoOp
    /\ \/ /\ pc[t] = "idle"
          /\ \E name \in {"lock", "trylock"} : Call(t, name)
          /\ pc' = [pc EXCEPT ![t] = "set"]
          /\ UNCHANGED <<owns, flag>>
       \/ /\ pc[t] = "set"
          /\ flag' = TRUE
          /\ pc' = [pc EXCEPT ![t] = "unlock"]
          /\ UNCHANGED <<op, owns>>
       \/ /\ pc[t] = "unlock"
          /\ Call(t, "unlock")
          /\ pc' = [pc EXCEPT ![t] = "notify"]
          /\ UNCHANGED <<owns, flag>>
       \/ /\ pc[t] = "notify"
          /\ \E name \in {"signal", "broadcast"} : Call(t, name)
          /\ pc' = [pc EXCEPT ![t] = "idle"]
          /\ UNCHANGED <<owns, flag>>

ConsumerStep(t) ==
    /\ Started /\ op[t] = NoOp
    /\ \/ /\ pc[t] = "idle"
          /\ Call(t, "lock")
          /\ pc' = [pc EXCEPT ![t] = "check"]
          /\ UNCHANGED <<owns, flag>>
       \/ /\ pc[t] = "check" /\ flag
          /\ pc' = [pc EXCEPT ![t] = "consume"]
          /\ UNCHANGED <<op, owns, flag>>
       \/ /\ pc[t] = "check" /\ ~flag
          /\ Call(t, "wait")
          /\ UNCHANGED caller
       \/ /\ pc[t] = "consume"
          /\ flag' = FALSE
          /\ Call(t, "unlock")
          /\ pc' = [pc EXCEPT ![t] = "idle"]
          /\ UNCHANGED owns

Client(t) ==
    /\ ~Exited
    /\ IF t \in Producers THEN ProducerStep(t) ELSE ConsumerStep(t)
    /\ UNCHANGED <<env, objs, owner, ending>>

-----------------------------------------------------------------------------
(* Static destruction, run by a thread that may itself not be a Cobalt    *)
(* thread.  The destructors call the native destroy directly, not through *)
(* try_or_retry; Cobalt refuses to destroy a mutex that is held or a      *)
(* condvar that has waiters (EBUSY), and leaves the handle as it was.     *)

\* __wrap_pthread_{mutex,cond}_destroy called by thread d.
DestroyResult(d, o) ==
    CASE ~cobalt[d]                               -> "EPERM"
      [] ~native[o]                               -> "EINVAL"
      [] o = "mutex" /\ owner # NoThread          -> "EBUSY"
      [] o = "cond" /\ Waiters # {}               -> "EBUSY"
      [] OTHER                                    -> "OK"

NativeDestroy(d, o) ==
    native' = [native EXCEPT ![o] = @ /\ DestroyResult(d, o) # "OK"]

\* Where d goes when a destructor returns: on to the next object, or out
\* of the process once both are gone.
AfterDestructor(d) ==
    pc' = [pc EXCEPT ![d] = IF dying' = Objects THEN "exited" ELSE "next"]

\* ~XenomaiMutex(): if enabled, destroy the native handle.
MutexDestructor(d) ==
    /\ IF enabled["mutex"] THEN NativeDestroy(d, "mutex") ELSE UNCHANGED native
    /\ AfterDestructor(d)
    /\ UNCHANGED <<op, blockedAtDestroy>>

\* Mutant of CondVarDestructor: the handle is destroyed without the
\* notify_all that wakes its waiters.
CondVarDestructorNoNotify(d) ==
    /\ IF enabled["cond"]
       THEN /\ blockedAtDestroy' = Waiters
            /\ pc' = [pc EXCEPT ![d] = "destroycond"]
       ELSE /\ AfterDestructor(d)
            /\ UNCHANGED blockedAtDestroy
    /\ UNCHANGED <<op, native>>

\* ~XenomaiConditionVariable(): if enabled, notify_all() (through
\* try_or_retry, so a destroying thread outside Cobalt is promoted first),
\* then destroy the native handle (CondVarDestroyHandle).
CondVarDestructor(d) ==
    /\ IF enabled["cond"]
       THEN /\ blockedAtDestroy' = Waiters
            /\ op' = [op EXCEPT ![d] = [name |-> "broadcast", step |-> "first"]]
            /\ pc' = [pc EXCEPT ![d] = "destroycond"]
       ELSE /\ AfterDestructor(d)
            /\ UNCHANGED <<op, blockedAtDestroy>>
    /\ UNCHANGED native

\* main returns, or one destructor has returned: the destructor of another
\* static object begins.  Construction order across translation units is
\* unspecified, and so is its reverse.
Destroy(d) ==
    /\ Started /\ pc[d] \in {"main", "next"} /\ op[d] = NoOp
    /\ \E o \in Objects \ dying :
          /\ dying' = dying \cup {o}
          /\ IF o = "mutex" THEN MutexDestructor(d) ELSE CondVarDestructor(d)
    /\ UNCHANGED <<env, built, enabled, owner, owns, flag>>

\* The rest of ~XenomaiConditionVariable once notify_all has returned.
CondVarDestroyHandle(d) ==
    /\ pc[d] = "destroycond" /\ op[d] = NoOp
    /\ UNCHANGED <<env, built, enabled, owner, op, owns, flag, ending>>
    /\ NativeDestroy(d, "cond")
    /\ AfterDestructor(d)

\* After exit nothing runs.
Terminated == Exited /\ UNCHANGED vars

-----------------------------------------------------------------------------

Init ==
    /\ xenoInit = FALSE
    /\ cobalt = [t \in Threads |-> FALSE]
    /\ built = {}
    /\ enabled = [o \in Objects |-> FALSE]
    /\ native = [o \in Objects |-> FALSE]
    /\ owner = NoThread
    /\ op = [t \in Threads |-> NoOp]
    /\ pc = [t \in Threads |-> IF t \in Destroyers THEN "main" ELSE "idle"]
    /\ owns = [t \in Threads |-> FALSE]
    /\ flag = FALSE
    /\ dying = {}
    /\ blockedAtDestroy = {}

Next ==
    \/ ConstructInitializer
    \/ ConstructMutex
    \/ ConstructCondVar
    \/ \E t \in Callers : Client(t)
    \/ \E t \in Threads :
          \/ Attempt(t)
          \/ Promote(t)
          \/ Reacquire(t)
    \/ \E d \in Destroyers : Destroy(d) \/ CondVarDestroyHandle(d)
    \/ Terminated

Spec == Init /\ [][Next]_vars

\* Every thread keeps running; a blocked lock or reacquire is granted to a
\* thread that keeps asking for it (Cobalt queues waiters of one priority
\* in FIFO order).  When main returns is up to the program, so the first
\* destructor is not forced; once one has begun, the others follow.
Fairness ==
    /\ \A t \in Callers : WF_vars(Client(t))
    /\ \A t \in Threads :
        /\ SF_vars(Attempt(t))
        /\ WF_vars(Promote(t))
        /\ SF_vars(Reacquire(t))
    /\ \A d \in Destroyers :
        /\ WF_vars(pc[d] = "next" /\ Destroy(d))
        /\ WF_vars(CondVarDestroyHandle(d))

FairSpec == Spec /\ Fairness

-----------------------------------------------------------------------------
(* Properties.                                                             *)

TypeOK ==
    /\ xenoInit \in BOOLEAN
    /\ cobalt \in [Threads -> BOOLEAN]
    /\ built \subseteq (Objects \cup {"initializer"})
    /\ enabled \in [Objects -> BOOLEAN]
    /\ native \in [Objects -> BOOLEAN]
    /\ owner \in Threads \cup {NoThread}
    /\ op \in [Threads -> [name : OpNames, step : Steps] \cup {NoOp}]
    /\ pc \in [Threads -> {"idle", "set", "unlock", "notify", "check", "consume",
                           "main", "next", "destroycond", "exited"}]
    /\ owns \in [Threads -> BOOLEAN]
    /\ flag \in BOOLEAN
    /\ dying \subseteq Objects
    /\ blockedAtDestroy \subseteq Threads

\* The callers that hold the mutex as far as their unique_lock can tell:
\* it owns the mutex and the thread is not inside unlock() or wait().
LockHolders == {t \in Threads : owns[t] /\ op[t].name \notin {"unlock", "wait"}}

AbstractMutex == INSTANCE AbstractLock WITH holder <- LockHolders

\* Seen from its callers, XenomaiMutex (with lock/try_lock retried through
\* promotion, and wait releasing and reacquiring it) is a plain mutex:
\* at most one caller holds it, and it passes only through unheld states.
ImplementsAbstractLock == AbstractMutex!Spec

\* A consumer that has asked for the mutex to check the flag eventually
\* consumes a value: a producer's notify_one/notify_all after unlock()
\* reaches a consumer blocked in wait(), which reacquires the mutex.  Only
\* the condvar's destructor beginning, after which no wait() may start,
\* releases the consumer from this promise.
ConsumerProgress ==
    \A c \in Consumers : pc[c] = "check" ~> (pc[c] = "consume" \/ "cond" \in dying)

\* Spec section 8: destroying the condvar while threads are blocked in
\* wait() first wakes them, so none stays blocked on the destroyed handle:
\* the destructor's notify_all, promoted and retried like any other call
\* when the destroying thread is not a Cobalt thread, reaches every thread
\* blocked when the destructor began.
WaitersWokenByDestructor ==
    \A t \in Consumers : t \in blockedAtDestroy ~> t \notin Waiters

\* Spec section 3 and 8: a constructed mutex or condvar reports enabled
\* exactly when its native handle was initialised (after at most one retry).
EnabledMatchesNative == \A o \in built \cap Objects : enabled[o] = native[o]

\* Spec section 3: operations on a mutex that is not enabled report
\* failure; try_lock() on it returns false.
DisabledTryLockFails ==
    [][\A t \in Threads :
         (op[t].name = "trylock" /\ op'[t] = NoOp /\ ~enabled["mutex"])
            => ~owns'[t]]_vars

=============================================================================
