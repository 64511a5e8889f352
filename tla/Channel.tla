------------------------------ MODULE Channel ------------------------------
(***************************************************************************)
(* The bounded channel of channel.rs: values, two FIFO lines of waits, and *)
(* endpoints that are cloned, dropped and closed.  A pass of send or recv  *)
(* under the metadata lock is one step, and so are a ticket's drop, an     *)
(* endpoint's drop and close.  A task waits on its resident wait cell by   *)
(* plain notification, of which the channel sees a phase and the permit.   *)
(***************************************************************************)
EXTENDS Naturals, FiniteSets, Sequences, SequencesExt

CONSTANTS
  SendTasks, RecvTasks,
  Capacity,       \* of the buffer
  WaitCapacity,   \* of each line
  MaxCalls        \* bound on the calls of each task

ChannelAssumption ==
  /\ SendTasks \cap RecvTasks = {}
  /\ Capacity \in Nat \ {0} /\ WaitCapacity \in Nat \ {0} /\ MaxCalls \in Nat

Tasks == SendTasks \cup RecvTasks
Directions == {"send", "recv"}

VARIABLES
  values,         \* the buffer; a value is named after its sender
  endpoints,      \* the tasks that hold a Sender or a Receiver
  closed,
  waits,          \* the line of each direction
  pc,             \* where each task is in send or recv
  phase, permit,  \* of its resident cell
  calls

coreVars == <<values, endpoints, closed, waits>>
cellVars == <<phase, permit>>
vars == <<coreVars, pc, cellVars, calls>>

direction(t) == IF t \in SendTasks THEN "send" ELSE "recv"
Line(t) == waits[direction(t)]
senders == endpoints \cap SendTasks
receivers == endpoints \cap RecvTasks

Goto(t, from, to) == pc[t] = from /\ pc' = [pc EXCEPT ![t] = to]

Init ==
  /\ values = <<>> /\ endpoints = Tasks /\ closed = FALSE
  /\ waits = [d \in Directions |-> <<>>]
  /\ pc = [t \in Tasks |-> "out"]
  /\ phase = [t \in Tasks |-> "Idle"] /\ permit = [t \in Tasks |-> FALSE]
  /\ calls = [t \in Tasks |-> 0]

-----------------------------------------------------------------------------
(* Wake-ups, under the lock *)

\* An idle or decided cell keeps a permit, an active one is decided.
notify(woken) ==
  /\ phase' = [t \in Tasks |->
                 IF t \in woken /\ phase[t] = "Active" THEN "Ready" ELSE phase[t]]
  /\ permit' = [t \in Tasks |-> permit[t] \/ (t \in woken /\ phase[t] # "Active")]

Fronts(lines) == {Head(lines[d]) : d \in {e \in Directions : lines[e] # <<>>}}

\* Mutant: a transfer wakes the other side only.
wake_fronts_other(lines, d) == Fronts([lines EXCEPT ![d] = <<>>])

\* The waits that wake_fronts notifies after a change in direction d.
wake_fronts(lines, d) == Fronts(lines)

wake_all == ToSet(waits["send"]) \cup ToSet(waits["recv"])

-----------------------------------------------------------------------------
(* send and recv *)

call(t) ==
  /\ t \in endpoints /\ calls[t] < MaxCalls
  /\ Goto(t, "out", "pass")
  /\ calls' = [calls EXCEPT ![t] = @ + 1]
  /\ UNCHANGED <<coreVars, cellVars>>

\* Room for a sender, a value for a receiver.
transferable(t) ==
  IF t \in SendTasks THEN Len(values) < Capacity ELSE values # <<>>

\* Sends are refused at once; receivers drain the buffer first.
disconnected(t) ==
  IF t \in SendTasks THEN closed \/ receivers = {}
                     ELSE values = <<>> /\ (closed \/ senders = {})

\* The line is empty or this ticket is its front.
take_turn(t) == Line(t) # <<>> => Head(Line(t)) = t

CanTransfer(t) == transferable(t) /\ take_turn(t)

transfer(t) ==
  /\ CanTransfer(t) /\ (t \in SendTasks => ~disconnected(t))
  /\ Goto(t, "pass", "out") \/ Goto(t, "again", "out")
  /\ values' = IF t \in SendTasks THEN Append(values, t) ELSE Tail(values)
  /\ waits' = [waits EXCEPT ![direction(t)] = IF @ = <<>> THEN @ ELSE Tail(@)]
  /\ notify(wake_fronts(waits', direction(t)))
  /\ UNCHANGED <<endpoints, closed, calls>>

refuse_closed(t) ==
  /\ disconnected(t)
  /\ \/ Goto(t, "pass", "out")
     \/ Goto(t, "again", IF Contains(Line(t), t) THEN "drop" ELSE "out")
  /\ UNCHANGED <<coreVars, cellVars, calls>>

Stuck(t) == ~disconnected(t) /\ ~CanTransfer(t)

\* The first pass of a try call ends in WouldBlock; that of a blocking call
\* recycles the cell and goes round.
attach(t) ==
  /\ Stuck(t)
  /\ \/ Goto(t, "pass", "out") /\ UNCHANGED permit
     \/ /\ Goto(t, "pass", "again")
        /\ permit' = [permit EXCEPT ![t] = FALSE]
  /\ UNCHANGED <<coreVars, phase, calls>>

enqueue(t) ==
  /\ Stuck(t)
  /\ \/ /\ Contains(Line(t), t) /\ Goto(t, "again", "queued") /\ UNCHANGED waits
     \/ /\ ~Contains(Line(t), t) /\ Len(Line(t)) = WaitCapacity
        /\ Goto(t, "again", "out") /\ UNCHANGED waits
     \/ /\ ~Contains(Line(t), t) /\ Len(Line(t)) < WaitCapacity
        /\ Goto(t, "again", "queued")
        /\ waits' = [waits EXCEPT ![direction(t)] = Append(@, t)]
  /\ UNCHANGED <<values, endpoints, closed, cellVars, calls>>

\* A wait that is over leads to another pass; the task's own policy may refuse
\* to go on.
Resume(t, from) == Goto(t, from, "again") \/ Goto(t, from, "drop")

\* park_notification: a stored permit or a passed deadline returns at once.
begin_resident(t) ==
  /\ \/ permit[t] /\ Resume(t, "queued") /\ UNCHANGED phase
     \/ /\ ~permit[t] /\ Goto(t, "queued", "parked")
        /\ phase' = [phase EXCEPT ![t] = "Active"]
     \/ ~permit[t] /\ Goto(t, "queued", "drop") /\ UNCHANGED phase
  /\ permit' = [permit EXCEPT ![t] = FALSE]
  /\ UNCHANGED <<coreVars, calls>>

\* A cancellation or a deadline wins the generation.
select_cancelled(t) ==
  /\ phase[t] = "Active"
  /\ phase' = [phase EXCEPT ![t] = "Other"]
  /\ UNCHANGED <<coreVars, pc, permit, calls>>

finish(t) ==
  /\ \/ phase[t] = "Ready" /\ Resume(t, "parked")
     \/ phase[t] = "Other" /\ Goto(t, "parked", "drop")
  /\ phase' = [phase EXCEPT ![t] = "Idle"]
  /\ UNCHANGED <<coreVars, permit, calls>>

\* A failed registration or a forced unwind retires the wait as it is.
rollback(t) ==
  /\ Goto(t, "parked", "drop")
  /\ phase' = [phase EXCEPT ![t] = "Idle"]
  /\ UNCHANGED <<coreVars, permit, calls>>

\* Mutant: a cancelled wait leaves without passing its wake-up on.
drop_wakes_nobody(lines, d) == {}

\* Whom a dropped ticket wakes.
drop_wakes(lines, d) == Fronts(lines)

\* Drop of a queued ticket.
drop_ticket(t) ==
  /\ Goto(t, "drop", "out")
  /\ waits' = [waits EXCEPT ![direction(t)] = RemoveFirst(@, t)]
  /\ notify(drop_wakes(waits', direction(t)))
  /\ UNCHANGED <<values, endpoints, closed, calls>>

-----------------------------------------------------------------------------
(* Endpoints *)

clone(t, u) ==
  /\ t \in endpoints /\ direction(t) = direction(u) /\ u \notin endpoints
  /\ endpoints' = endpoints \cup {u}
  /\ UNCHANGED <<values, closed, waits, pc, cellVars, calls>>

\* The last receiver takes the buffered values with it.
drop_endpoint(t) ==
  /\ t \in endpoints /\ pc[t] = "out"
  /\ endpoints' = endpoints \ {t}
  /\ LET last == \A u \in endpoints' : direction(u) # direction(t) IN
     /\ notify(IF last THEN wake_all ELSE {})
     /\ values' = IF last /\ t \in RecvTasks THEN <<>> ELSE values
  /\ UNCHANGED <<closed, waits, pc, calls>>

close ==
  /\ ~closed /\ closed' = TRUE
  /\ notify(wake_all)
  /\ UNCHANGED <<values, endpoints, waits, pc, calls>>

-----------------------------------------------------------------------------
\* What a task does on its own account inside a call.
Proceed(t) ==
  \/ transfer(t) \/ refuse_closed(t) \/ attach(t) \/ enqueue(t)
  \/ begin_resident(t) \/ finish(t) \/ drop_ticket(t)

Next ==
  \/ \E t \in Tasks :
       \/ call(t) \/ Proceed(t) \/ select_cancelled(t) \/ rollback(t)
       \/ drop_endpoint(t) \/ \E u \in Tasks : clone(t, u)
  \/ close

Spec == Init /\ [][Next]_vars

\* A task inside a call is scheduled; nobody need call, close, drop an
\* endpoint, be cancelled or be unwound.
Fairness == \A t \in Tasks : WF_vars(Proceed(t))
FairSpec == Spec /\ Fairness

-----------------------------------------------------------------------------
(* Properties *)

TypeOK ==
  /\ values \in Seq(SendTasks) /\ Len(values) <= Capacity
  /\ endpoints \subseteq Tasks /\ closed \in BOOLEAN
  /\ waits \in [Directions -> Seq(Tasks)]
  /\ pc \in [Tasks -> {"out", "pass", "again", "queued", "parked", "drop"}]
  /\ phase \in [Tasks -> {"Idle", "Active", "Ready", "Other"}]
  /\ permit \in [Tasks -> BOOLEAN] /\ calls \in [Tasks -> 0..MaxCalls]

\* Parked, or about to park, with no wake-up on its way.
Asleep(t) ==
  /\ ~permit[t]
  /\ pc[t] = "queued" \/ (pc[t] = "parked" /\ phase[t] = "Active")

\* Only the front of a line is woken per change, and nobody overtakes it; so
\* whenever it could go on it is awake, whoever transferred, was cancelled,
\* was refused or dropped an endpoint before.  Each ticket in a line belongs to
\* a task inside its call.
FrontAwake ==
  \A d \in Directions : waits[d] # <<>> =>
    LET t == Head(waits[d]) IN
    /\ transferable(t) \/ disconnected(t) => ~Asleep(t)
    /\ \A u \in ToSet(waits[d]) : pc[u] # "out"
    /\ Len(waits[d]) <= WaitCapacity

\* A call on a disconnected channel returns, and the front of a line that could
\* transfer leaves it.
CallsReturn ==
  \A t \in Tasks :
    /\ pc[t] # "out" /\ disconnected(t) ~> pc[t] = "out"
    /\ Contains(Line(t), t) /\ take_turn(t) /\ transferable(t)
         ~> ~(Contains(Line(t), t) /\ take_turn(t))
=============================================================================
