---------------------------- MODULE AbstractLock ----------------------------
(***************************************************************************)
(* What a mutex promises its callers, with no scheduling domains, no      *)
(* promotion and no retries: at any time at most one thread holds it, a    *)
(* thread acquires it only when nobody holds it, and only the holder       *)
(* releases it.  `holder' is the set of threads that hold the lock, so a   *)
(* state in which two threads believe they hold it is a value this         *)
(* specification can name and forbids.                                     *)
(***************************************************************************)
EXTENDS FiniteSets

CONSTANT Threads

VARIABLE holder

Init == holder = {}

Acquire(t) == /\ holder = {}
              /\ holder' = {t}

Release(t) == /\ holder = {t}
              /\ holder' = {}

Next == \E t \in Threads : Acquire(t) \/ Release(t)

Spec == Init /\ [][Next]_holder

=============================================================================
