----------------------------- MODULE MCRunQueue -----------------------------
(* Small instances of RunQueue for TLC. *)
EXTENDS RunQueueRefinement, TLC

Symmetry == Permutations(Runs) \cup Permutations(Workers \ Reliable)
              \cup Permutations(Clients)

\* Work ends: every run settles, or is stranded by a cancellation, although
\* workers crash and children need not exit, and a worker told to stop leaves
\* its loop (recover_stale_runs, the shutdown loop of run_worker).
WorkEnds == EveryRunSettles /\ ShutdownCompletes
=============================================================================
