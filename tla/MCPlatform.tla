------------------------------ MODULE MCPlatform ------------------------------
(* The scenes of Platform on small instances: two sessions, two of whatever   *)
(* may differ, and the graphs, answers and tasks of a few cases and runs.     *)
EXTENDS Platform, TLC

\* A case of two reviewers and two contexts, launched once; and one of a single
\* context that two users launch.
MCReview == [reviewers |-> {"r1", "r2"}, contexts |-> {"c1", "c2"}, answers |-> Graphs,
             launchers |-> {"l1"}, launches |-> 1, retries |-> 1, outages |-> 1]
MCRelaunch == [reviewers |-> Graphs, contexts |-> {"c"}, answers |-> {"yes"},
               launchers |-> {"l1", "l2"}, launches |-> 2, retries |-> 0, outages |-> 0]

Text(empty, claim, arrows, pills) == [empty |-> empty, claim |-> claim, arrows |-> arrows, pills |-> pills]
MCTexts == {Text(TRUE, FALSE, FALSE, {}), Text(FALSE, TRUE, FALSE, {}), Text(FALSE, FALSE, FALSE, {"n1"})}
ToolCall(tool, names) == [tool |-> tool, names |-> names]
MCBatches == {<<ToolCall("look", {"n1"})>>,
              <<ToolCall("apply", {}), ToolCall("run", {})>>,
              <<ToolCall("run", {}), ToolCall("run", {})>>,
              <<ToolCall("apply", {}), ToolCall("apply", {})>>}

\* Two reviewers and two workers; two subjects and forms, and no worker; and a
\* run that ends, and watches, while answers are given and a worker checks.
Edge(a, b) == [source |-> a, target |-> b]
MCPanel == [pairs |-> <<<<"a", "u">>, <<"a", "v">>>>, versions |-> {1}, runs |-> {1}, workers |-> {"p", "q"},
            flow |-> <<Edge("g", "x"), Edge("x", "y"), Edge("x", "z")>>, get |-> "g", limit |-> 1, ids |-> 3]
MCBatch == [pairs |-> <<<<"a", "u">>, <<"b", "u">>>>, versions |-> {1, 2}, runs |-> {1, 2, 3}, workers |-> {},
            flow |-> <<Edge("g", "x")>>, get |-> "g", limit |-> 2, ids |-> 1]
MCCrossing == [pairs |-> <<<<"a", "u">>, <<"a", "v">>>>, versions |-> {1}, runs |-> {1, 2}, workers |-> {"p"},
               flow |-> <<Edge("g", "x")>>, get |-> "g", limit |-> 1, ids |-> 2]

\* A plan with a component and a branch that waits for answers, attempted once;
\* and a single node that is attempted twice.
MCInside == [n \in {"a", "b", "c"} |-> IF n = "c" THEN <<"c::1">> ELSE <<>>]
MCFollows == [n \in {"a", "b", "c"} |-> IF n = "a" THEN {"b"} ELSE {}]
MCLong == [order |-> <<"a", "c", "b">>, aside |-> {"d"}, inside |-> MCInside, follows |-> MCFollows,
           mayDefer |-> {"a"}, attempts |-> 2, claims |-> 1]
MCShort == [order |-> <<"a">>, aside |-> {}, inside |-> MCInside, follows |-> MCFollows,
            mayDefer |-> {}, attempts |-> 2, claims |-> 2]

Symmetry == Permutations(Sessions) \cup Permutations(Graphs)
=============================================================================
