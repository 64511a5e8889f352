----------------------------- MODULE MCWaitCell -----------------------------
(* Finite instances of WaitCell.                                           *)
EXTENDS WaitCell, TLC

CONSTANTS t1, t2, h1, h2, x1, x2, s1, s2, c1, c2

\* A Parker that moves between tasks of two carriers.
SplitHubs == t1 :> h1 @@ t2 :> h2
SplitScopes == t1 :> x1 @@ t2 :> x2
SharedParkers == [c \in Cells |-> Tasks]
MixedCarriers == s1 :> h1 @@ s2 :> Outside

\* Two tasks of one scope on one carrier.
OneHub == t1 :> h1 @@ t2 :> h1
OneScope == t1 :> x1 @@ t2 :> x1

\* Each has a cell of its own, one of them its resident cell.
OwnParkers == c1 :> {t1} @@ c2 :> {t2}
=============================================================================
