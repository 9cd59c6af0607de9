------------------------- MODULE RotatingUpstream -------------------------
(***************************************************************************)
(* recursor.RotatingUpstream: the list of upstream DNS servers every query *)
(* shares, handed out in turn under a mutex.  Servers are numbered from 0. *)
(***************************************************************************)
EXTENDS Integers

VARIABLES
    n,          \* number of upstream servers, fixed when the proxy is built
    index,      \* the server the next call returns
    uses        \* history: how often each server was returned

rotVars == <<n, index, uses>>

Servers == 0..(n - 1)

RotInit == n \in Nat /\ index = 0 /\ uses = [s \in Servers |-> 0]

\* With no server the modulus is never reached: servers[index] panics first.
Successor == (index + 1) % n

Take ==
    /\ n > 0
    /\ uses' = [uses EXCEPT ![index] = @ + 1]
    /\ index' = Successor
    /\ UNCHANGED n

RotSpec == RotInit /\ [][Take]_rotVars

-----------------------------------------------------------------------------
RotTypeOK ==
    /\ n \in Nat
    /\ index \in Nat /\ (n > 0 => index \in Servers)
    /\ uses \in [Servers -> Nat]

\* The servers before index have been returned once more than the others.
RotInv ==
    /\ RotTypeOK
    /\ \A s \in Servers : uses[s] = uses[n - 1] + (IF s < index THEN 1 ELSE 0)

\* Whatever the interleaving of the queries, no upstream is ever handed out
\* more than once more often than another.
Balanced == \A s, t \in Servers : uses[s] <= uses[t] + 1
=============================================================================
