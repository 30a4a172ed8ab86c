--------------------------- MODULE MCRunExecution ---------------------------
(* Four nodes: a feeds b, b and the task t feed c. *)
EXTENDS RunExecution
CONSTANTS a, b, c, t

edge(x, y) == [source |-> x, target |-> y]
graph(edges, s, reads) ==
  [edges |-> edges, setting |-> [n \in {a, b, c, t} |-> IF n = a THEN s ELSE 1],
   reads |-> [n \in {a, b, c, t} |-> IF n = c THEN reads ELSE None]]

\* The chain a -> b -> c with the task as a second input of c, before and after;
\* without the task; with a reference to the task in place of the connection.
Forward  == <<edge(a, b), edge(b, c), edge(t, c)>>
Backward == <<edge(t, c), edge(b, c), edge(a, b)>>
Apart    == <<edge(a, b), edge(b, c)>>

MCIds    == <<a, b, c, t>>
MCGraphs == {graph(Forward, 1, None), graph(Forward, 2, a), graph(Backward, 1, None),
             graph(Apart, 2, t), graph(<<edge(a, b), edge(b, a)>>, 1, None)}
\* Only graphs in which c reads the task it is not connected to.
ReadingGraphs == {graph(Apart, 1, t), graph(Apart, 2, t)}
=============================================================================
