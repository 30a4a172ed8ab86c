----------------------------- MODULE AssistantChat -----------------------------
(***************************************************************************)
(* Turns of the workflow assistant (app/domains/assistant): the model is   *)
(* asked in rounds, the tools it calls are executed in order, and a final  *)
(* text is checked before it is returned and stored.                       *)
(*                                                                         *)
(* A turn has one database session, which returns the workflow row it has  *)
(* loaded when the turn began, or as the turn itself last saved it, to     *)
(* every tool: expire_on_commit is off, and the route keeps the object.    *)
(* Between two calls of the model the editor and other turns go on.        *)
(***************************************************************************)
EXTENDS Integers, Sequences, FiniteSets

CONSTANTS
  Turns,      \* requests to /assistant/chat about one workflow
  Names,      \* node names a text may put in backticks
  Texts,      \* final texts: [empty, claim, arrows : BOOLEAN, pills : SUBSET Names]
  Batches,    \* non-empty sequences of tool calls of one answer:
              \* [tool : {"look", "apply", "run"}, names : SUBSET Names]
  MaxRounds,  \* MAX_TOOL_ROUNDS
  MaxEdits,   \* bound: times the graph is saved
  None

VARIABLES
  saved,   \* the workflow row: its revision, and which save its graph is
  saves,   \* how often it has been saved
  turn,    \* the requests
  queued,  \* runs the assistant created: by which turn, of which graph
  rows     \* assistant_messages of the user

chatVars == <<saved, saves, turn, queued, rows>>

-----------------------------------------------------------------------------
Replies == {"none", "text", "safe", "queued", "exhausted", "error"}
TurnState == [at : {"new", "model", "tools", "done"}, round : 0..MaxRounds,
              view : [revision : Nat, graph : Nat], allowed : SUBSET Names,
              calls : Seq(UNION {{b[i] : i \in DOMAIN b} : b \in Batches}),
              changed : BOOLEAN, run : {0, 1}, reply : Replies, text : Texts \cup {None},
              own : Nat, foreign : BOOLEAN]

NewTurn == [at |-> "new", round |-> 0, view |-> [revision |-> 1, graph |-> 0], allowed |-> {},
            calls |-> <<>>, changed |-> FALSE, run |-> 0, reply |-> "none", text |-> None,
            own |-> 0, foreign |-> FALSE]

Init ==
  /\ saved = [revision |-> 1, graph |-> 0]
  /\ saves = 0
  /\ turn = [t \in Turns |-> NewTurn]
  /\ queued = <<>>
  /\ rows = <<>>

\* own and foreign are history: how often the turn has saved the graph, and
\* whether somebody else has since the turn loaded it.
Goes(t, new) == turn' = [turn EXCEPT ![t] = new]

NextRound(s) == IF s.round + 1 = MaxRounds THEN [s EXCEPT !.at = "done", !.reply = "exhausted"]
                ELSE [s EXCEPT !.at = "model", !.round = @ + 1]

\* Mutant: the question is stored before the provider is asked.
StoredAtOnce(s) == s.at = "model" /\ s.round = 0

\* add_exchange: question and answer are stored together, once there is one.
Stored(s) == s.at = "done" /\ s.reply # "error"

Exchange(t) == << <<"user", t>>, <<"assistant", t>> >>

\* A turn that ends with a reply commits its exchange in the same request.
Ends(t, new) ==
  /\ Goes(t, new)
  /\ rows' = IF Stored(new) THEN rows \o Exchange(t) ELSE rows

Ask(t) ==
  /\ turn[t].at = "new"
  /\ LET new == [NewTurn EXCEPT !.at = "model", !.view = saved] IN
     /\ Goes(t, new)
     /\ rows' = IF Stored(new) THEN Append(rows, <<"user", t>>) ELSE rows
  /\ UNCHANGED <<saved, saves, queued>>

-----------------------------------------------------------------------------
(* What the model answers *)

\* AssistantProviderError: the client gets 502, whatever the turn has done.
ProviderFails(t) ==
  /\ turn[t].at = "model"
  /\ Ends(t, [turn[t] EXCEPT !.at = "done", !.reply = "error"])
  /\ UNCHANGED <<saved, saves, queued>>

Grounded(s, text) == text.pills \subseteq s.allowed

\* In this order: an execution claim ends the turn with a fixed message, the
\* other two faults are sent back to the model for correction.
Answer(t, text) ==
  /\ turn[t].at = "model"
  /\ LET s == turn[t]
         reply(kind) == [s EXCEPT !.at = "done", !.reply = kind, !.text = text] IN
     Ends(t, CASE text.empty -> reply("error")
               [] ~text.empty /\ text.claim -> reply("safe")
               [] ~text.empty /\ ~text.claim /\ (text.arrows \/ ~Grounded(s, text)) -> NextRound(s)
               [] OTHER -> reply("text"))
  /\ UNCHANGED <<saved, saves, queued>>

Call(t, batch) ==
  /\ turn[t].at = "model"
  /\ Goes(t, [turn[t] EXCEPT !.at = "tools", !.calls = batch])
  /\ UNCHANGED <<saved, saves, queued, rows>>

-----------------------------------------------------------------------------
(* The tools *)

\* The call at the head has been executed and s is what it left.
Executed(s) == LET rest == [s EXCEPT !.calls = Tail(@)] IN
               IF rest.calls = <<>> THEN NextRound(rest) ELSE rest

Calls(t, tool) == turn[t].at = "tools" /\ Head(turn[t].calls).tool = tool

\* list_nodes, get_node_details, advise_workflow, get_current_workflow
Look(t) ==
  /\ Calls(t, "look")
  /\ Ends(t, Executed([turn[t] EXCEPT !.allowed = @ \cup Head(turn[t].calls).names]))
  /\ UNCHANGED <<saved, saves, queued>>

\* Mutant: update_workflow does not refresh the object it returns.
ViewKept(s, row) == s.view

ViewAfterSave(s, row) == row

\* Mutant: only the last batch of actions is reported.
ChangedLast(s, ok) == ok

ChangedAfter(s, ok) == s.changed \/ ok

SeenByOthers(t, by) == [u \in Turns |-> IF u = t THEN by ELSE [turn[u] EXCEPT !.foreign = TRUE]]

\* apply_workflow_actions saves the edited copy of the view with the revision
\* that follows the view's, or returns an error and changes nothing.
Apply(t) ==
  /\ Calls(t, "apply")
  /\ LET s == turn[t]
         row == [revision |-> s.view.revision + 1, graph |-> saves + 1]
         applied == Executed([s EXCEPT !.changed = ChangedAfter(s, TRUE), !.own = @ + 1,
                                       !.view = ViewAfterSave(s, row), !.foreign = FALSE])
         refused == Executed([s EXCEPT !.changed = ChangedAfter(s, FALSE)]) IN
     \/ /\ saves < MaxEdits
        /\ saves' = saves + 1 /\ saved' = row
        /\ turn' = SeenByOthers(t, applied)
        /\ rows' = IF Stored(applied) THEN rows \o Exchange(t) ELSE rows
     \/ Ends(t, refused) /\ UNCHANGED <<saved, saves>>
  /\ UNCHANGED queued

\* Mutant: the model is asked to put the result into words.
GoesOnAfterRun(s) == Executed(s)

\* "Do not ... allow another call to create duplicates."
AfterRun(s) == [s EXCEPT !.at = "done", !.reply = "queued", !.calls = <<>>]

\* run_current_workflow: create_run compares workflow_revision with the
\* object it was read from, so the view is never refused as stale.
RunCurrent(t) ==
  /\ Calls(t, "run")
  /\ \/ /\ queued' = Append(queued, [by |-> t, graph |-> turn[t].view.graph, saved |-> saved.graph,
                                     foreign |-> turn[t].foreign])
        /\ Ends(t, AfterRun([turn[t] EXCEPT !.run = 1]))
     \/ Ends(t, Executed(turn[t])) /\ UNCHANGED queued
  /\ UNCHANGED <<saved, saves>>

-----------------------------------------------------------------------------
(* Meanwhile: the editor saves, the user clears the history *)

EditorSaves ==
  /\ saves < MaxEdits
  /\ saves' = saves + 1
  /\ saved' = [revision |-> saved.revision + 1, graph |-> saves + 1]
  /\ turn' = [t \in Turns |-> [turn[t] EXCEPT !.foreign = turn[t].at # "new"]]
  /\ UNCHANGED <<queued, rows>>

ClearHistory ==
  /\ rows # <<>>
  /\ rows' = <<>>
  /\ UNCHANGED <<saved, saves, turn, queued>>

Next ==
  \/ \E t \in Turns :
       \/ Ask(t) \/ ProviderFails(t) \/ Look(t) \/ Apply(t) \/ RunCurrent(t)
       \/ \E text \in Texts : Answer(t, text)
       \/ \E batch \in Batches : Call(t, batch)
  \/ EditorSaves \/ ClearHistory

Spec == Init /\ [][Next]_chatVars

-----------------------------------------------------------------------------
(* The types of the rows and of the turns. *)
TypeOK ==
  /\ saved \in [revision : Nat \ {0}, graph : 0..MaxEdits]
  /\ saves \in 0..MaxEdits
  /\ turn \in [Turns -> TurnState]
  /\ \A i \in DOMAIN queued : queued[i].by \in Turns
  /\ \A i \in DOMAIN rows : rows[i] \in {"user", "assistant"} \X Turns

RunsOf(t) == {i \in DOMAIN queued : queued[i].by = t}

\* A turn queues at most one run, however many calls one answer of the model
\* holds and however many rounds it takes, and the client learns of it: the
\* only turns without a run id are those that queued nothing.
RunIsToldOnce ==
  \A t \in Turns : /\ Cardinality(RunsOf(t)) <= 1
                   /\ turn[t].at = "done" => turn[t].run = Cardinality(RunsOf(t))

\* Unless the provider fails, a turn that has saved the graph says so, even
\* when later calls failed or the rounds ran out.
EditsAreTold ==
  \A t \in Turns : turn[t].at = "done" /\ turn[t].reply # "error" /\ turn[t].own > 0
                     => turn[t].changed

\* "Queue the authoritative saved graph": a run is of the graph that is saved,
\* the turn's own edits included, if nobody else has saved since the turn
\* loaded it.  (If somebody has, it is of the older graph.)
RunIsOfSavedGraph ==
  \A i \in DOMAIN queued : ~queued[i].foreign => queued[i].graph = queued[i].saved

\* The stored conversation is made of whole exchanges: a turn that fails
\* leaves no question without its answer, whatever other turns and clearing
\* the history do meanwhile.
HistoryIsWhole ==
  /\ Len(rows) % 2 = 0
  /\ \A i \in 1..(Len(rows) \div 2) : SubSeq(rows, 2 * i - 1, 2 * i) = Exchange(rows[2 * i][2])

\* What the client and the conversation are told of a turn is what it did.
ChatIsHonest == TypeOK /\ RunIsToldOnce /\ EditsAreTold /\ RunIsOfSavedGraph /\ HistoryIsWhole
=============================================================================
