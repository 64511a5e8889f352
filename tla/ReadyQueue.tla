----------------------------- MODULE ReadyQueue -----------------------------
(***************************************************************************)
(* The runnable queue of one carrier (ready_queue.rs): a normal lane, a    *)
(* lane of woken tasks with the newest first, and the position in the      *)
(* current cohort.  A queue is a value: the operations return the queue    *)
(* they leave, and a selection returns the entry as well.                  *)
(***************************************************************************)
EXTENDS Naturals, Sequences, SequencesExt

WAKE_BURST == 2
Nothing == "nothing"   \* None: no entry is eligible

EmptyQueue == [normal |-> <<>>, wakes |-> <<>>, streak |-> 0]

push_back(q, e) == [q EXCEPT !.normal = Append(@, e)]
push_front(q, e) == [q EXCEPT !.normal = <<e>> \o @]
push_wake(q, e) == [q EXCEPT !.wakes = <<e>> \o @]

Entries(q) == Range(q.normal) \cup Range(q.wakes)
Size(q) == Len(q.normal) + Len(q.wakes)

Taken(q, lane, i, streak) ==
  [entry |-> q[lane][i],
   queue |-> [q EXCEPT ![lane] = RemoveAt(@, i), !.streak = streak]]

\* Mutant: the turn of normal work restarts the cohort.
serve_normal_restarting(q, i) == Taken(q, "normal", i, 0)

\* Normal work is served; the oldest wake keeps its turn.
serve_normal(q, i) == Taken(q, "normal", i, q.streak + 1)

\* pop_matching: the cohort policy among the eligible entries.  pop_front is
\* the case in which every entry is eligible.
pop_matching(q, eligible) ==
  LET normal == {i \in DOMAIN q.normal : q.normal[i] \in eligible}
      wakes == {i \in DOMAIN q.wakes : q.wakes[i] \in eligible}
  IN CASE wakes = {} /\ normal = {} -> [entry |-> Nothing, queue |-> q]
       [] wakes = {} /\ normal # {} -> Taken(q, "normal", Min(normal), 0)
       [] wakes # {} /\ q.streak < WAKE_BURST ->
            Taken(q, "wakes", Min(wakes), q.streak + 1)
       [] wakes # {} /\ q.streak = WAKE_BURST /\ normal # {} ->
            serve_normal(q, Min(normal))
       [] OTHER -> Taken(q, "wakes", Max(wakes), 0)

\* pop_front differs on an empty queue only: it ends the cohort.
pop_front(q) ==
  IF Size(q) = 0 THEN [entry |-> Nothing, queue |-> EmptyQueue]
  ELSE pop_matching(q, Entries(q))

\* Cleanup takes an entry out of its lane; the others keep their order.
remove(q, e) ==
  IF Contains(q.normal, e) THEN [q EXCEPT !.normal = RemoveFirst(@, e)]
  ELSE [q EXCEPT !.wakes = RemoveFirst(@, e)]
=============================================================================
