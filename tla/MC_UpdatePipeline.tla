-------------------------- MODULE MC_UpdatePipeline --------------------------
(* UpdatePipeline on two threads, three target rows and a vector size of  *)
(* two, so that a thread's chunk and the replay's chunks differ in size.  *)
EXTENDS UpdatePipeline, TLC

CONSTANTS t1, t2, r1, r2, r3

MCThreads == {t1, t2}
MCRows == {r1, r2, r3}

(* One chunk larger than a replay chunk; three single-row chunks; and an *)
(* input in which r1 is matched twice, in chunks of different threads.    *)
MCInputs == { << <<r1, r2, r3>> >>,
              << <<r1>>, <<r2>>, <<r3>> >>,
              << <<r1>>, <<r2, r1>> >> }

MCSymmetry == Permutations(MCThreads)
=============================================================================
