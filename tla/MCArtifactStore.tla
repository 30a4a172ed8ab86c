--------------------------- MODULE MCArtifactStore ---------------------------
(* Small instances of ArtifactStore for TLC. *)
EXTENDS ArtifactStore, TLC

\* With maintenance running, temporary objects vanish and a deletion that was
\* begun ends (reconcile_artifacts).
CleanupConverges == TemporaryVanishes /\ PendingDeletionEnds

Symmetry == Permutations(Artifacts) \cup Permutations(Projects)
=============================================================================
