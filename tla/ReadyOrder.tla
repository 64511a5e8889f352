----------------------------- MODULE ReadyOrder -----------------------------
(***************************************************************************)
(* How long an entry of the ready queue waits.  Entries arrive in either   *)
(* lane and one is selected at a time; an entry carries the selections it  *)
(* has seen and the entries of its lane that were older when it arrived.   *)
(***************************************************************************)
EXTENDS ReadyQueue

CONSTANT MaxLane   \* bound on the entries of a lane

VARIABLE lanes

Arrival(older) == [waited |-> 0, older |-> older]

Init == lanes = EmptyQueue

Arrive ==
  \/ /\ Len(lanes.normal) < MaxLane
     /\ lanes' = push_back(lanes, Arrival(Len(lanes.normal)))
  \/ /\ Len(lanes.wakes) < MaxLane
     /\ lanes' = push_wake(lanes, Arrival(Len(lanes.wakes)))

Aged(lane) == [i \in DOMAIN lane |-> [lane[i] EXCEPT !.waited = @ + 1]]

Select ==
  /\ Size(lanes) > 0
  /\ LET rest == pop_front(lanes).queue
     IN lanes' = [rest EXCEPT !.normal = Aged(@), !.wakes = Aged(@)]

Next == Arrive \/ Select

Spec == Init /\ [][Next]_lanes

\* The bound of ready_queue.rs:6: an entry with N older entries in its queue is
\* served within 4 * (N + 1) selections, whatever keeps arriving in either
\* lane.  A queued entry has therefore seen fewer.
HeadsServed ==
  \A e \in Entries(lanes) : e.waited < 4 * (e.older + 1)
=============================================================================
