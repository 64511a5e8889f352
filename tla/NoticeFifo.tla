----------------------------- MODULE NoticeFifo -----------------------------
(***************************************************************************)
(* What a carrier's wake queue promises, without its list: a FIFO queue    *)
(* with many senders and one owner that loses and repeats nothing, an      *)
(* alarm that the owner arms only over an empty queue and that the next    *)
(* notice trips, and a way to take one notice out that costs no other.     *)
(***************************************************************************)
EXTENDS Naturals, Sequences

CONSTANTS
  Notices,    \* the wake notices
  NoNotice    \* not a notice

VARIABLES
  sent,       \* every notice ever sent
  queue,      \* linked notices, oldest first
  got,        \* the notice being delivered to the scheduler
  sought,     \* the notice the owner discards, NoNotice outside a discard
  ahead,      \* how many of the oldest notices the discard has still to see
  retained,   \* notices it took out and keeps
  returning,  \* it puts them back
  armed,      \* the owner announced that it is about to sleep
  alarm       \* a sender was told so since the queue was last armed

discardVars == <<sought, ahead, retained, returning>>
fifoVars == <<sent, queue, got, discardVars, armed, alarm>>

FifoInit ==
  /\ sent = {}
  /\ queue = <<>>
  /\ got = NoNotice
  /\ sought = NoNotice
  /\ ahead = 0
  /\ retained = <<>>
  /\ returning = FALSE
  /\ armed = FALSE
  /\ alarm = FALSE

Arrive(n) ==
  /\ armed' = FALSE
  /\ alarm' = (alarm \/ armed)
  /\ queue' = Append(queue, n)

\* A notice is sent once.
Send(n) ==
  /\ n \notin sent
  /\ sent' = sent \cup {n}
  /\ Arrive(n)
  /\ UNCHANGED <<got, discardVars>>

\* The oldest notice leaves for the scheduler, and only so outside a discard.
Deliver ==
  /\ sought = NoNotice
  /\ got = NoNotice /\ got' # NoNotice
  /\ queue # <<>>
  /\ got' = Head(queue)
  /\ queue' = Tail(queue)
  /\ UNCHANGED <<sent, discardVars, armed, alarm>>

Delivered ==
  /\ got' = NoNotice
  /\ UNCHANGED <<sent, queue, discardVars, armed, alarm>>

\* A discard goes at least through what is queued when it begins.
Begin ==
  /\ sought = NoNotice
  /\ sought' \in Notices
  /\ ahead' = Len(queue)
  /\ retained = <<>>
  /\ UNCHANGED <<sent, queue, got, retained, returning, armed, alarm>>

\* The notice it is for is dropped, every other one is kept.
Sift ==
  /\ sought # NoNotice
  /\ ~returning
  /\ queue # <<>>
  /\ queue' = Tail(queue)
  /\ retained' = IF Head(queue) = sought THEN retained
                 ELSE Append(retained, Head(queue))
  /\ ahead' = IF ahead = 0 THEN 0 ELSE ahead - 1
  /\ UNCHANGED <<sent, got, sought, returning, armed, alarm>>

Turn ==
  /\ sought # NoNotice
  /\ ahead = 0
  /\ returning' = TRUE
  /\ UNCHANGED <<sent, queue, got, sought, ahead, retained, armed, alarm>>

\* The kept notices go behind whatever arrived meanwhile, in their order.
PutBack ==
  /\ returning
  /\ retained # <<>>
  /\ Arrive(Head(retained))
  /\ retained' = Tail(retained)
  /\ UNCHANGED <<sent, got, sought, ahead, returning>>

End ==
  /\ returning
  /\ retained = <<>>
  /\ sought' = NoNotice
  /\ returning' = FALSE
  /\ UNCHANGED <<sent, queue, got, ahead, retained, armed, alarm>>

Arm ==
  /\ armed' = TRUE
  /\ alarm' = FALSE
  /\ queue = <<>>
  /\ UNCHANGED <<sent, queue, got, discardVars>>

Disarm ==
  /\ armed' = FALSE
  /\ UNCHANGED <<sent, queue, got, discardVars, alarm>>

FifoNext ==
  \/ Deliver
  \/ Delivered
  \/ Begin
  \/ Sift
  \/ Turn
  \/ PutBack
  \/ End
  \/ Arm
  \/ Disarm
  \/ queue' # queue /\ \E n \in Notices : Send(n)

Spec == FifoInit /\ [][FifoNext]_fifoVars
=============================================================================
