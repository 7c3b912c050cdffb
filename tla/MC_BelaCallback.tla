--------------------------- MODULE MC_BelaCallback ---------------------------
(***************************************************************************)
(* BelaCallback with two samples per buffer, two OSC units per sample, one *)
(* buffer per callback (DriverSetup forces the period to mBufLength), two  *)
(* bundles, and clock readings on time or one unit late.                   *)
(***************************************************************************)
EXTENDS BelaCallback

CONSTANTS e1, e2

(* From one unit before the next callback (late) to beyond two periods.  *)
Times == -1 .. 9

====
