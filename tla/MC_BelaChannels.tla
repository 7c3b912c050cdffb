--------------------------- MODULE MC_BelaChannels ---------------------------
(***************************************************************************)
(* DriverSetup on a stereo board for every combination of: up to 11 audio  *)
(* inputs and outputs (9 beyond the board's, one past the 8 analog         *)
(* channels), analog requests around the snapping thresholds 4 and 5, two  *)
(* SC block sizes and a preferred hardware size that is absent, equal or   *)
(* different.                                                              *)
(***************************************************************************)
EXTENDS BelaChannels

WorldOptions ==
    [numInputs : 0 .. 11, numOutputs : {0, 2, 6, 7, 11},
     analogIn : {0, 4, 5, 8}, analogOut : {0, 1, 5},
     bufLength : {16, 64}, preferred : {0, 16, 32}, digital : {0, 16}]

====
