----------------------------- MODULE MCNodeCache -----------------------------
(* Small instances of NodeCache for TLC. *)
EXTENDS NodeCache

\* With maintenance running, the cache comes back under its limit and an entry
\* that lost its artifact does not stay (evict, refresh in caching/service).
MaintenanceConverges == EvictionConverges /\ BrokenEntriesEnd
=============================================================================
