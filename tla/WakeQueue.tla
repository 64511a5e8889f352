----------------------------- MODULE WakeQueue -----------------------------
(***************************************************************************)
(* The intrusive wake queue of one carrier (wake_queue_core.rs) under      *)
(* WaitHub: publishers link their route's slot into a stack at `head`, the *)
(* owner detaches the whole stack, reverses it in place and walks it       *)
(* through `consumer`.  The top bit of `head` is the SLEEPING flag.        *)
(*                                                                         *)
(* A route has one publisher at a time and gets no further notice while a  *)
(* discard holds one of its notices: the exclusive selection of WaitCell.  *)
(* Atomics are sequentially consistent here.  A slot's fields are private  *)
(* to its publisher until the link and to the owner after it, so writing   *)
(* or reading them is one step.                                            *)
(***************************************************************************)
EXTENDS Naturals, Sequences, FiniteSets, SequencesExt

CONSTANTS
  Capacity,        \* routes are the slot indices 1..Capacity, 0 is no slot
  MaxNotices,      \* bound on the notices offered to the queue
  NoNotice

Routes == 1..Capacity
Index == 0..Capacity
Notices == [route : Routes, gen : 1..MaxNotices]

\* Routes exist, and the notices are counted.
WakeQueueAssumption ==
  /\ Capacity \in Nat \ {0}
  /\ MaxNotices \in Nat
  /\ NoNotice \notin Notices

Heads == [index : Index, sleeping : BOOLEAN]
NoHead == [index |-> 0, sleeping |-> FALSE]

VARIABLES
  head,        \* WakeQueue.head
  consumer,    \* WakeQueue.consumer
  next,        \* Slot.next
  slot,        \* Slot.task/wait/selection, NoNotice when task = 0
  issued,      \* notices offered so far, the name of the latest
  ppc, phead,  \* per route: where its push is, the head it loaded
  opc,         \* where the owner is
  oindex,      \* the local `index` of pop / the `head` of reverse
  oreversed,   \* the local `reversed` of reverse
  ohead,       \* the local `head` of arm_wait
  token,       \* the notice discard_notice looks for, NoNotice outside it
  left,        \* pops discard_notice may still make
  retained,    \* its retained notices
  sent,        \* history: the notices linked so far, put back or not
  ahead,       \* history: linked notices the discard found and has not popped
  alarm,       \* history: a push returned Ok(true) since arm_wait's exchange
  got          \* the notice pop_wake is returning

queueVars == <<head, consumer, next, slot>>
pushVars == <<issued, ppc, phead>>
ownerVars == <<opc, oindex, oreversed, ohead, token, left, retained>>
history == <<sent, ahead, alarm>>
vars == <<queueVars, pushVars, ownerVars, history, got>>

Init ==
  /\ head = NoHead
  /\ consumer = 0
  /\ next = [r \in Routes |-> 0]
  /\ slot = [r \in Routes |-> NoNotice]
  /\ issued = 0
  /\ ppc = [r \in Routes |-> "idle"]
  /\ phead = [r \in Routes |-> NoHead]
  /\ opc = "run"
  /\ oindex = 0
  /\ oreversed = 0
  /\ ohead = NoHead
  /\ token = NoNotice
  /\ left = 0
  /\ retained = <<>>
  /\ sent = {}
  /\ ahead = 0
  /\ alarm = FALSE
  /\ got = NoNotice

-----------------------------------------------------------------------------
(* The list *)

\* The slots of s are linked by `next` one after the other, from slot i to 0.
Follows(s, i) ==
  /\ i = IF s = <<>> THEN 0 ELSE s[1]
  /\ \A k \in 1..Len(s) : next[s[k]] = IF k = Len(s) THEN 0 ELSE s[k + 1]

\* The slots reached from slot i by following `next`, i first.
Chain(i) == CHOOSE s \in SeqOf(Routes, Capacity) : Follows(s, i)

\* Where the batch begins that the owner is detaching or has detached: its
\* part still to reverse, newest first, and the rest, oldest first.
Newest == IF opc = "reverse" THEN oindex ELSE 0
Oldest == IF opc = "reverse" THEN oreversed
          ELSE IF opc = "take" /\ consumer = 0 THEN oindex ELSE consumer

\* Every linked slot, in the order the publishers linked them.
Linked == Reverse(Chain(Newest)) \o Chain(Oldest) \o Reverse(Chain(head.index))

Queued == LET list == Linked IN [i \in DOMAIN list |-> slot[list[i]]]

-----------------------------------------------------------------------------
(* push *)

\* The fields are written before the slot is linked.
write_slot(n) == slot' = [slot EXCEPT ![n.route] = n]

\* Err(notice): the slot still holds a notice of this route.
PushRejected(r) ==
  /\ ppc[r] = "idle"
  /\ issued < MaxNotices
  /\ \A i \in DOMAIN retained : retained[i].route # r
  /\ slot[r] # NoNotice
  /\ issued' = issued + 1
  /\ UNCHANGED <<queueVars, ppc, phead, ownerVars, history, got>>

PushWrite(r) ==
  /\ ppc[r] = "idle"
  /\ issued < MaxNotices
  /\ \A i \in DOMAIN retained : retained[i].route # r
  /\ slot[r] = NoNotice
  /\ issued' = issued + 1
  /\ write_slot([route |-> r, gen |-> issued'])
  /\ ppc' = [ppc EXCEPT ![r] = "load"]
  /\ UNCHANGED <<head, consumer, next, phead, ownerVars, history, got>>

PushLoad(r) ==
  /\ ppc[r] = "load"
  /\ phead' = [phead EXCEPT ![r] = head]
  /\ ppc' = [ppc EXCEPT ![r] = "link"]
  /\ UNCHANGED <<queueVars, issued, ownerVars, history, got>>

\* compare_exchange_weak: it may fail although head has not moved.  The next
\* round stores slot.next again before anyone can read it.
PushRetry(r) ==
  /\ ppc[r] = "link"
  /\ phead' = [phead EXCEPT ![r] = head]
  /\ UNCHANGED <<queueVars, issued, ppc, ownerVars, history, got>>

link(r) ==
  /\ ppc[r] = "link"
  /\ head = phead[r]
  /\ next' = [next EXCEPT ![r] = phead[r].index]
  /\ head' = [index |-> r, sleeping |-> FALSE]
  /\ alarm' = (alarm \/ phead[r].sleeping)
  /\ ppc' = [ppc EXCEPT ![r] = "idle"]
  /\ phead' = [phead EXCEPT ![r] = NoHead]

Repushing(r) == opc = "relink" /\ Head(retained).route = r

PushLink(r) ==
  /\ ~Repushing(r)
  /\ link(r)
  /\ sent' = sent \cup {slot[r]}
  /\ UNCHANGED <<consumer, slot, issued, ownerVars, ahead, got>>

-----------------------------------------------------------------------------
(* pop, by pop_wake (token = NoNotice) or by discard_notice *)

\* Only the owner takes notices out, so the probe decides.
PopProbe ==
  /\ \/ opc = "run"
     \/ opc = "discard" /\ left > 0
  /\ \/ /\ consumer # 0
        /\ oindex' = consumer
        /\ opc' = "take"
     \/ /\ consumer = 0
        /\ head.index # 0
        /\ oindex' = oindex
        /\ opc' = "swap"
  /\ UNCHANGED <<queueVars, pushVars, oreversed, ohead, token, left, retained,
                 history, got>>

PopSwap ==
  /\ opc = "swap"
  /\ oindex' = head.index
  /\ head' = NoHead
  /\ oreversed' = 0
  /\ opc' = IF next[head.index] # 0 THEN "reverse" ELSE "take"
  /\ UNCHANGED <<consumer, next, slot, pushVars, ohead, token, left, retained,
                 history, got>>

\* One round of reverse's loop; the round that empties the list returns.
ReverseStep ==
  /\ opc = "reverse"
  /\ next' = [next EXCEPT ![oindex] = oreversed]
  /\ oreversed' = oindex
  /\ oindex' = IF next[oindex] = 0 THEN oindex ELSE next[oindex]
  /\ opc' = IF next[oindex] = 0 THEN "take" ELSE "reverse"
  /\ UNCHANGED <<head, consumer, slot, pushVars, ohead, token, left, retained,
                 history, got>>

\* Mutant: the discard compares the task, whose token may be an older one.
PopTake_task ==
  /\ opc = "take"
  /\ consumer' = next[oindex]
  /\ opc' = "free"
  /\ IF token = NoNotice
     THEN got' = slot[oindex] /\ UNCHANGED <<left, retained>>
     ELSE /\ got' = got
          /\ left' = left - 1
          /\ retained' = IF slot[oindex].route = token.route THEN retained
                         ELSE Append(retained, slot[oindex])
  /\ ahead' = IF ahead = 0 THEN 0 ELSE ahead - 1
  /\ oreversed' = 0
  /\ UNCHANGED <<head, next, slot, pushVars, oindex, ohead, token, sent, alarm>>

\* The consumer moves on and the notice is read; pop_wake hands it to the
\* scheduler, discard_notice keeps it unless it is the one it looks for.
PopTake ==
  /\ opc = "take"
  /\ consumer' = next[oindex]
  /\ opc' = "free"
  /\ IF token = NoNotice
     THEN got' = slot[oindex] /\ UNCHANGED <<left, retained>>
     ELSE /\ got' = got
          /\ left' = left - 1
          /\ retained' = IF slot[oindex] = token THEN retained
                         ELSE Append(retained, slot[oindex])
  /\ ahead' = IF ahead = 0 THEN 0 ELSE ahead - 1
  /\ oreversed' = 0
  /\ UNCHANGED <<head, next, slot, pushVars, oindex, ohead, token, sent, alarm>>

\* task := 0 gives the slot back to its route.
PopFree ==
  /\ opc = "free"
  /\ slot' = [slot EXCEPT ![oindex] = NoNotice]
  /\ oindex' = 0
  /\ got' = NoNotice
  /\ opc' = IF token = NoNotice THEN "run" ELSE "discard"
  /\ UNCHANGED <<head, consumer, next, pushVars, oreversed, ohead, token, left,
                 retained, history>>

-----------------------------------------------------------------------------
(* discard_notice *)

\* Mutant: only linked notices are counted, as has_pending would see them.
pending_head == IF consumer # 0 \/ head.index # 0 THEN 1 ELSE 0

pending == Cardinality({r \in Routes : slot[r] # NoNotice})

\* The caller has retired the token: nobody will select it from here on, and
\* its publisher, if it had one, has returned from push.  One token stands
\* for all that have no notice in the queue.
DiscardBegin(n) ==
  /\ opc = "run"
  /\ \/ slot[n.route] = n /\ ppc[n.route] = "idle"
     \/ slot[n.route] # n /\ n = [route |-> 1, gen |-> 1] /\ issued > 0
  /\ token' = n
  /\ left' = pending
  /\ ahead' = Len(Queued)
  /\ opc' = "discard"
  /\ UNCHANGED <<queueVars, pushVars, oindex, oreversed, ohead, retained, sent,
                 alarm, got>>

Returning == opc \in {"repush", "relink"}

DiscardStop ==
  /\ opc = "discard"
  /\ \/ left = 0
     \/ consumer = 0 /\ head.index = 0
  /\ opc' = "repush"
  /\ UNCHANGED <<queueVars, pushVars, oindex, oreversed, ohead, token, left,
                 retained, history, got>>

\* Each retained notice is pushed again; expect() panics on an occupied slot.
Repush ==
  /\ opc = "repush"
  /\ retained # <<>>
  /\ slot[Head(retained).route] = NoNotice
  /\ write_slot(Head(retained))
  /\ ppc' = [ppc EXCEPT ![Head(retained).route] = "load"]
  /\ opc' = "relink"
  /\ UNCHANGED <<head, consumer, next, issued, phead, oindex, oreversed,
                 ohead, token, left, retained, history, got>>

Relink ==
  /\ opc = "relink"
  /\ link(Head(retained).route)
  /\ retained' = Tail(retained)
  /\ opc' = "repush"
  /\ UNCHANGED <<consumer, slot, issued, oindex, oreversed, ohead, token,
                 left, sent, ahead, got>>

DiscardEnd ==
  /\ opc = "repush"
  /\ retained = <<>>
  /\ token' = NoNotice
  /\ left' = 0
  /\ opc' = "run"
  /\ UNCHANGED <<queueVars, pushVars, oindex, oreversed, ohead, retained, history,
                 got>>

-----------------------------------------------------------------------------
(* arm_wait and disarm_wait around Signal::wait_while *)

\* The predicate of the wait, evaluated first or again after a wake-up.
ArmLoad ==
  /\ opc \in {"run", "asleep"}
  /\ \/ consumer # 0 /\ opc' = "leave" /\ UNCHANGED ohead
     \/ consumer = 0 /\ opc' = "arm" /\ ohead' = head
  /\ UNCHANGED <<queueVars, pushVars, oindex, oreversed, token, left, retained,
                 history, got>>

ArmExchange ==
  /\ opc = "arm"
  /\ \/ /\ ohead.index # 0
        /\ opc' = "leave"
        /\ ohead' = NoHead
        /\ UNCHANGED <<head, alarm>>
     \/ /\ ohead.index = 0 /\ ohead.sleeping
        /\ opc' = "asleep"
        /\ ohead' = NoHead
        /\ UNCHANGED <<head, alarm>>
     \/ /\ ohead.index = 0 /\ ~ohead.sleeping
        /\ head = ohead
        /\ head' = [index |-> 0, sleeping |-> TRUE]
        /\ alarm' = FALSE
        /\ opc' = "asleep"
        /\ ohead' = NoHead
     \/ /\ ohead.index = 0 /\ ~ohead.sleeping
        /\ ohead' = head
        /\ UNCHANGED <<head, alarm, opc>>
  /\ UNCHANGED <<consumer, next, slot, pushVars, oindex, oreversed, token, left,
                 retained, sent, ahead, got>>

DisarmWait ==
  /\ opc \in {"leave", "asleep"}
  /\ head' = [head EXCEPT !.sleeping = FALSE]
  /\ opc' = "run"
  /\ UNCHANGED <<consumer, next, slot, pushVars, oindex, oreversed, ohead,
                 token, left, retained, history, got>>

-----------------------------------------------------------------------------
Owner ==
  \/ PopProbe \/ PopSwap \/ ReverseStep \/ PopTake \/ PopFree
  \/ \E n \in Notices : DiscardBegin(n)
  \/ DiscardStop \/ Repush \/ Relink \/ DiscardEnd
  \/ ArmLoad \/ ArmExchange \/ DisarmWait

Publisher(r) ==
  PushRejected(r) \/ PushWrite(r) \/ PushLoad(r) \/ PushRetry(r) \/ PushLink(r)

Next == Owner \/ \E r \in Routes : Publisher(r)

Spec == Init /\ [][Next]_vars

-----------------------------------------------------------------------------
(* Properties *)

\* Indices stay within the slots and pending counts no more than Capacity.
TypeOK ==
  /\ head \in Heads
  /\ consumer \in Index
  /\ next \in [Routes -> Index]
  /\ slot \in [Routes -> Notices \cup {NoNotice}]
  /\ issued \in 0..MaxNotices
  /\ ppc \in [Routes -> {"idle", "load", "link"}]
  /\ phead \in [Routes -> Heads]
  /\ opc \in {"run", "swap", "reverse", "take", "free", "discard", "repush",
              "relink", "arm", "asleep", "leave"}
  /\ oindex \in Index
  /\ oreversed \in Index
  /\ ohead \in Heads
  /\ token \in Notices \cup {NoNotice}
  /\ left \in 0..Capacity
  /\ retained \in Seq(Notices)
  /\ sent \subseteq Notices
  /\ ahead \in 0..Capacity
  /\ alarm \in BOOLEAN
  /\ got \in Notices \cup {NoNotice}

\* When discard_notice puts the retained notices back, the notice it was
\* called for is nowhere in the queue, whatever arrived meanwhile.
DiscardComplete == Returning => ~Contains(Queued, token)

Fifo == INSTANCE NoticeFifo WITH
  queue <- Queued,
  sought <- token,
  returning <- Returning,
  armed <- head.sleeping

\* The list implements a FIFO: each linked notice is linked once and leaves by
\* pop_wake once, unchanged and in link order; a discard drops its own notice
\* and no other; arm_wait tells exactly the next publisher.
ImplementsFifo == Fifo!Spec
=============================================================================
