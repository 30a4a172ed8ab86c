------------------------------ MODULE OwnerLocks ------------------------------
(* What the owner of a project locks in a workflow, while members go on      *)
(* editing it (workflows/locks.py and the routes that ask it).  A handler    *)
(* reads the row once, compares the graph it is to write with the one it has *)
(* read, and commits the whole graph later; handlers overlap.                *)
(*                                                                           *)
(* A graph is [nodes, edges, boards], each a function from ids: of nodes and *)
(* boards to [is, locked], of edges to [source, target, is].                 *)
EXTENDS Functions, FiniteSets

CONSTANTS
  Owner, Members,
  Proposals,   \* the graphs a request may carry, or a saved version holds
  None

VARIABLES
  row,      \* workflows.graph, None once the workflow is deleted
  handler,  \* per user, the write in flight: [seen, wanted] or None
  left,     \* history: the graph as the owner last committed it
  raced     \* history: the owner committed while a member's handler was at work

vars == <<row, handler, left, raced>>

Users == {Owner} \cup Members

Init ==
  /\ row \in Proposals /\ left = row
  /\ handler = [u \in Users |-> None] /\ raced = FALSE

-----------------------------------------------------------------------------
\* node_is_locked, and the same flag of a board.
Locked(items) == {k \in DOMAIN items : items[k].locked}

\* The connections of locked nodes.
Incident(g, ids) ==
  Restrict(g.edges, {k \in DOMAIN g.edges : {g.edges[k].source, g.edges[k].target} \cap ids # {}})

\* Every locked item is still there as it was, and no other has become locked.
Keeps(before, after) ==
  /\ \A k \in Locked(before) : k \in DOMAIN after /\ after[k] = before[k]
  /\ Locked(after) \subseteq Locked(before)

\* enforce_locked_graph_changes
Allowed(user, current, proposed) ==
  \/ user = Owner
  \/ /\ Keeps(current.nodes, proposed.nodes)
     /\ LET ids == Locked(current.nodes) IN Incident(current, ids) = Incident(proposed, ids)
     /\ Keeps(current.boards, proposed.boards)

-----------------------------------------------------------------------------
(* PUT, autosave, restore and an edit of the assistant: each compares the   *)
(* graph it is to write with the row it has loaded.                         *)
Propose(u, g) ==
  /\ row # None /\ handler[u] = None /\ g # row
  /\ Allowed(u, row, g)
  /\ handler' = [handler EXCEPT ![u] = [seen |-> left, wanted |-> g]]
  /\ UNCHANGED <<row, left, raced>>

\* DELETE compares the row with an empty graph.
EmptyGraph == [nodes |-> [k \in {} |-> {}], edges |-> [k \in {} |-> {}], boards |-> [k \in {} |-> {}]]

ProposeDelete(u) ==
  /\ row # None /\ handler[u] = None
  /\ Allowed(u, row, EmptyGraph)
  /\ handler' = [handler EXCEPT ![u] = [seen |-> left, wanted |-> None]]
  /\ UNCHANGED <<row, left, raced>>

\* The commit: the graph is one column.  A row that is gone is not written.
Commit(u) ==
  /\ handler[u] # None
  /\ handler' = [handler EXCEPT ![u] = None]
  /\ row' = IF row = None THEN None ELSE handler[u].wanted
  /\ left' = IF u = Owner THEN row' ELSE left
  /\ raced' = (raced \/ (u # Owner /\ left # handler[u].seen))

Next == \E u \in Users :
  \/ \E g \in Proposals : Propose(u, g)
  \/ ProposeDelete(u)
  \/ Commit(u)

Spec == Init /\ [][Next]_vars

-----------------------------------------------------------------------------
LockedPart(g) ==
  [nodes  |-> Restrict(g.nodes, Locked(g.nodes)),
   edges  |-> Incident(g, Locked(g.nodes)),
   boards |-> Restrict(g.boards, Locked(g.boards))]

\* Whatever members save, restore, delete or have the assistant do, the nodes
\* and boards the owner has locked, and the connections of those nodes, are
\* what the owner left, and nothing else is locked: unless the owner commits
\* while a member's handler is at work, which compares with the row it loaded.
LocksKept ==
  ~raced => IF left = None THEN row = None
            ELSE IF row = None THEN LockedPart(left) = LockedPart(EmptyGraph)
            ELSE LockedPart(row) = LockedPart(left)
=============================================================================
