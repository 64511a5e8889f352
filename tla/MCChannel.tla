----------------------------- MODULE MCChannel -----------------------------
(* A finite instance of Channel.                                           *)
EXTENDS Channels

CONSTANTS s1, s2, r1, r2

MCSpec == Chan!FairSpec

\* channel/wait.rs:28: whoever is woken and gives up passes the wake on, so
\* that no call that could return is left behind.
CallsReturn == Chan!CallsReturn
=============================================================================
