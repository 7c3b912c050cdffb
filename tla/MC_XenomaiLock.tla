--------------------------- MODULE MC_XenomaiLock ---------------------------
(* Instantiates XenomaiLock for TLC: the threads are model values.        *)
EXTENDS XenomaiLock

CONSTANTS p1, c1, d1

\* One producer contending with one consumer.
OneProducer == {p1}
OneConsumer == {c1}
\* The main thread, which runs the static destructors after main returns.
MainThread == {d1}
=============================================================================
