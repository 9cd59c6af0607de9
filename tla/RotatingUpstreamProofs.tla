---------------------- MODULE RotatingUpstreamProofs ----------------------
(* The rotation is type correct and balanced for any number of servers. *)
EXTENDS RotatingUpstream, TLAPS

\* proxy.go:44: the next index is a server again, and it is the following one
\* unless the turn was the last server's.
LEMMA SuccessorIsServer ==
    ASSUME n \in Nat, n > 0, index \in Servers
    PROVE  /\ Successor \in Servers
           /\ Successor = IF index = n - 1 THEN 0 ELSE index + 1
<1>1. CASE index = n - 1
  <2>1. index + 1 = n
    BY <1>1 DEF Servers
  <2>2. n % n = 0
    BY SMT
  <2> QED
    BY <1>1, <2>1, <2>2 DEF Successor, Servers
<1>2. CASE index # n - 1
  <2>1. index + 1 \in 0..(n - 1)
    BY <1>2 DEF Servers
  <2>2. (index + 1) % n = index + 1
    BY <2>1, SMT
  <2> QED
    BY <1>2, <2>1, <2>2 DEF Successor, Servers
<1> QED
  BY <1>1, <1>2

\* proxy.go:44-50: no call of Next returns an index outside the list, and no
\* step changes the number of servers.
THEOREM RotTypeCorrect == RotSpec => []RotTypeOK
<1>1. RotInit => RotTypeOK
  BY DEF RotInit, RotTypeOK, Servers
<1>2. RotTypeOK /\ [Take]_rotVars => RotTypeOK'
  <2> SUFFICES ASSUME RotTypeOK, [Take]_rotVars PROVE RotTypeOK'
    OBVIOUS
  <2>1. CASE Take
    <3>1. n' = n /\ n \in Nat /\ n > 0 /\ index \in Servers
      BY <2>1 DEF Take, RotTypeOK
    <3>2. index' \in Servers
      BY <2>1, <3>1, SuccessorIsServer DEF Take
    <3>3. uses' \in [Servers -> Nat]
      BY <2>1, <3>1 DEF Take, RotTypeOK
    <3> QED
      BY <3>1, <3>2, <3>3 DEF RotTypeOK, Servers
  <2>2. CASE UNCHANGED rotVars
    BY <2>2 DEF rotVars, RotTypeOK, Servers
  <2> QED
    BY <2>1, <2>2
<1> QED
  BY <1>1, <1>2, PTL DEF RotSpec

\* The strengthening of Balanced: at each moment the servers before index have
\* been returned exactly once more than the last one, all others as often.
THEOREM RotInvariant == RotSpec => []RotInv
<1>1. RotInit => RotInv
  BY DEF RotInit, RotInv, RotTypeOK, Servers
<1>2. RotInv /\ RotTypeOK' /\ [Take]_rotVars => RotInv'
  <2> SUFFICES ASSUME RotInv, RotTypeOK', [Take]_rotVars PROVE RotInv'
    OBVIOUS
  <2>1. CASE Take
    <3>1. n' = n /\ n \in Nat /\ n > 0 /\ index \in Servers
      BY <2>1 DEF Take, RotInv, RotTypeOK
    <3>2. index' = IF index = n - 1 THEN 0 ELSE index + 1
      BY <2>1, <3>1, SuccessorIsServer DEF Take
    <3>3. n - 1 \in Servers /\ uses \in [Servers -> Nat]
      BY <3>1 DEF Servers, RotInv, RotTypeOK
    <3>4. \A s \in Servers : uses'[s] = uses[s] + (IF s = index THEN 1 ELSE 0)
      BY <2>1, <3>1, <3>3 DEF Take
    <3>5. ASSUME NEW s \in Servers
          PROVE  uses'[s] = uses'[n - 1] + (IF s < index' THEN 1 ELSE 0)
      <4>1. uses[s] = uses[n - 1] + (IF s < index THEN 1 ELSE 0)
        BY DEF RotInv
      <4>2. /\ uses[s] \in Nat /\ uses[n - 1] \in Nat
            /\ s \in 0..(n - 1) /\ index \in 0..(n - 1)
        BY <3>1, <3>3 DEF Servers
      <4>3. /\ uses'[s] = uses[s] + (IF s = index THEN 1 ELSE 0)
            /\ uses'[n - 1] = uses[n - 1] + (IF n - 1 = index THEN 1 ELSE 0)
        BY <3>3, <3>4
      <4>4. CASE index = n - 1
        BY <3>1, <3>2, <4>1, <4>2, <4>3, <4>4
      <4>5. CASE index # n - 1
        BY <3>1, <3>2, <4>1, <4>2, <4>3, <4>5
      <4> QED
        BY <4>4, <4>5
    <3> QED
      BY <3>1, <3>5 DEF RotInv, Servers
  <2>2. CASE UNCHANGED rotVars
    BY <2>2 DEF rotVars, RotInv, Servers
  <2> QED
    BY <2>1, <2>2
<1> QED
  BY <1>1, <1>2, RotTypeCorrect, PTL DEF RotSpec

\* proxy.go:44: whatever the interleaving of the queries that share the list, no
\* upstream is handed out more than once more often than another.
THEOREM RotationBalanced == RotSpec => []Balanced
<1>1. RotInv => Balanced
  <2> SUFFICES ASSUME RotInv, NEW s \in Servers, NEW t \in Servers
               PROVE  uses[s] <= uses[t] + 1
    BY DEF Balanced
  <2>1. n - 1 \in Servers /\ uses \in [Servers -> Nat]
    BY DEF RotInv, RotTypeOK, Servers
  <2>2. /\ uses[s] = uses[n - 1] + (IF s < index THEN 1 ELSE 0)
        /\ uses[t] = uses[n - 1] + (IF t < index THEN 1 ELSE 0)
    BY DEF RotInv
  <2>3. uses[n - 1] \in Nat
    BY <2>1
  <2> QED
    BY <2>2, <2>3
<1> QED
  BY <1>1, RotInvariant, PTL
=============================================================================
