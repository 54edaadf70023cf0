---------------------------- MODULE MCParallelEC ----------------------------
(***************************************************************************)
(* Calls with up to five inputs, one to three threads.  The thresholds     *)
(* keep the code's ratio (MinInputsForThreads = 2 * MinInputsPerThread),   *)
(* and with Batch = 2 a shard may publish in its loop, at its end, or both.*)
(***************************************************************************)
EXTENDS ParallelEC

MCInputCounts     == {0, 1, 5}
MCHardwareThreads == {0, 2, 3}
=============================================================================
