--------------------------- MODULE ArtifactPromise ---------------------------
(***************************************************************************)
(* What the artifact service promises of a stored file: it becomes usable  *)
(* at most once, and a file that is gone never comes back.                 *)
(***************************************************************************)
CONSTANT Artifacts
VARIABLE life

Init == life = [a \in Artifacts |-> "absent"]

Appear(a) == life[a] = "absent" /\ life' = [life EXCEPT ![a] = "usable"]

Vanish(a) == life[a] # "gone" /\ life' = [life EXCEPT ![a] = "gone"]

Next == \E a \in Artifacts : Appear(a) \/ Vanish(a)

Spec == Init /\ [][Next]_life
=============================================================================
