-------------------------- MODULE DnsHandlerProofs --------------------------
(* The path of a DNS query, for any queries and configurations, with the *)
(* resolvers' choices left open (Spec) and made by the names (NameSpec). *)
EXTENDS NameResolution, WellFoundedInduction, SequenceTheorems, TLAPS

RotP == INSTANCE RotatingUpstreamProofs WITH n <- Len(Upstream)

\* The natural numbers in their order, as a relation.
NatOrder == {ss \in Nat \X Nat : ss[1] < ss[2]}

\* The order of the natural numbers has no descending chain.
LEMMA NatOrderIsWellFounded == IsWellFoundedOn(NatOrder, Nat)
BY NatLessThanWellFounded DEF OpToRel, NatOrder

\* A set of natural numbers that is not empty has a least element.
LEMMA NatMin ==
    ASSUME NEW T \in SUBSET Nat, T # {}
    PROVE  \E x \in T : \A y \in T : x <= y
<1>1. \E x \in T : \A y \in T : ~ (<<y, x>> \in NatOrder)
  BY NatOrderIsWellFounded, WFMin
<1>2. \A x, y \in Nat : y < x => <<y, x>> \in NatOrder
  <2>1. \A ss \in Nat \X Nat : ss[1] < ss[2] => ss \in NatOrder
    BY DEF NatOrder
  <2> SUFFICES ASSUME NEW x \in Nat, NEW y \in Nat, y < x PROVE <<y, x>> \in NatOrder
    OBVIOUS
  <2>2. <<y, x>> \in Nat \X Nat /\ <<y, x>>[1] = y /\ <<y, x>>[2] = x
    OBVIOUS
  <2> HIDE DEF NatOrder
  <2> QED
    BY <2>1, <2>2
<1>3. PICK x \in T : \A y \in T : ~ (<<y, x>> \in NatOrder)
  BY <1>1
<1>4. \A y \in T : ~(y < x)
  BY <1>2, <1>3
<1> QED
  BY <1>3, <1>4

\* The steps of queries, without the fairness that only liveness needs.
SafeSpec == Init /\ [][Next]_vars

\* A step of a named query is a step of a query: the names decide between the
\* resolver's outcomes and leave the path as it is.
LEMMA NamedStep == [NameNext]_nameVars => [Next]_vars
<1>1. ASSUME NEW q \in Queries, NameStep(q) PROVE Step(q)
  BY <1>1 DEF NameStep, Resolve, UpstreamAnswers, Fail, Continue, Step
<1>2. UNCHANGED nameVars => UNCHANGED vars
  BY DEF nameVars, vars
<1> QED
  BY <1>1, <1>2 DEF NameNext, Next

\* NameResolution implements DnsHandler: what is proved here of queries holds of
\* queries for any names, services, zones and search domains.
THEOREM NamesAreQueries == NameSpec => SafeSpec
<1>1. NameInit => Init
  BY DEF NameInit
<1> QED
  BY <1>1, NamedStep, PTL DEF NameSpec, SafeSpec

\* Both specifications of queries.
LEMMA BothAreQueries == Spec \/ NameSpec => SafeSpec
BY NamesAreQueries, PTL DEF Spec, SafeSpec

\* What every step leaves alone.
LEMMA FixedStep ==
    ASSUME [Next]_vars
    PROVE  UNCHANGED <<conf, kind, query>>
<1>1. ASSUME NEW q \in Queries, Step(q) PROVE UNCHANGED <<conf, kind, query>>
  BY <1>1 DEF Step, Refuse, Accept, ResolverAnswers, ResolverDeclines, ResolverLoses,
     FallBack, BeginRecursion, NoRecursion, LockRotation, ReadServer, AdvanceRotation,
     NoUpstream, ExchangeAccepted, ExchangeRejected, GiveUp
<1>2. CASE AllEnded \/ UNCHANGED vars
  BY <1>2 DEF AllEnded, vars
<1> QED
  BY <1>1, <1>2 DEF Next

-----------------------------------------------------------------------------
\* The numbers that bound a query.
LEMMA Numbers ==
    ASSUME conf \in Configs, Rot!RotTypeOK
    PROVE  /\ conf.recurse \in BOOLEAN /\ Resolvers \in Nat
           /\ Len(Upstream) \in Nat /\ Attempts \in Nat
           /\ Attempts >= 1 /\ Attempts >= Len(Upstream)
           /\ \A q \in Queries : Domains(q) \in Nat /\ Domains(q) <= GetBigger(Len(conf.search), 1)
           /\ GetBigger(Len(conf.search), 1) \in Nat
BY DnsAssumption DEF ConfigsAreWellFormed, Rot!RotTypeOK, Resolvers, Attempts, GetBigger, Domains

\* A product of positive numbers.
LEMMA Product ==
    ASSUME NEW a \in Nat, NEW b \in Nat, NEW c \in Nat, b <= c
    PROVE  /\ b * a \in Nat /\ b * a <= a * c
           /\ b >= 1 => b * a >= a
<1>1. b * a \in Nat /\ a * c \in Nat
  BY SMT
<1>2. b * a <= a * c
  BY SMT
<1>3. b >= 1 => b * a >= a
  BY SMT
<1> QED
  BY <1>1, <1>2, <1>3

\* The configuration and the questions do not change, nor what follows from them.
LEMMA FixedNumbers ==
    ASSUME UNCHANGED <<conf, query>>
    PROVE  /\ Upstream' = Upstream /\ Rot!Servers' = Rot!Servers
           /\ Attempts' = Attempts /\ Resolvers' = Resolvers
           /\ \A q \in Queries : Domains(q)' = Domains(q) /\ Budget(q)' = Budget(q)
<1>1. Upstream' = Upstream
  BY DEF Upstream
<1> QED
  BY <1>1 DEF Rot!Servers, Attempts, Resolvers, Domains, Budget

\* Between Lock and Unlock a query has the mutex; with a server in hand, index is
\* still at that server.
LockInv ==
    \A q \in Queries :
        /\ pc[q] \in {"locked", "taken"} => mu = {q}
        /\ pc[q] = "taken" => /\ Len(Upstream) > 0 /\ asked[q] # <<>>
                              /\ Last(asked[q]) = index

\* One step of one query keeps the types.
LEMMA TypeStep ==
    ASSUME TypeOK, LockInv, NEW q \in Queries, Step(q)
    PROVE  TypeOK'
<1>1. UNCHANGED <<conf, kind, query>>
  BY FixedStep DEF Next
<1>2. /\ Upstream' = Upstream /\ Rot!Servers' = Rot!Servers
      /\ Attempts' = Attempts /\ Resolvers' = Resolvers
  BY <1>1, FixedNumbers
<1>3. conf \in Configs /\ Rot!RotTypeOK
  BY DEF TypeOK
<1>4. /\ Resolvers \in Nat /\ Len(Upstream) \in Nat
      /\ Attempts \in Nat /\ GetBigger(Len(conf.search), 1) \in Nat
      /\ Domains(q) \in Nat /\ Domains(q) <= GetBigger(Len(conf.search), 1)
  BY <1>3, Numbers
<1>5. Attempts * GetBigger(Len(conf.search), 1) \in Nat
  BY <1>4, SMT
<1>6. /\ conf' \in Configs /\ kind' \in [Rot!Servers' -> {"good", "lame", "dead"}]
      /\ query' \in [Queries -> QueryClass] /\ conf'.search = conf.search
  BY <1>1, <1>2 DEF TypeOK
<1>7. pos' \in [Queries -> 0..Resolvers']
  <2>1. pos[q] \in 0..Resolvers /\ pos \in [Queries -> 0..Resolvers]
    BY DEF TypeOK
  <2>2. CASE ResolverDeclines(q)
    BY <1>2, <1>4, <2>1, <2>2 DEF ResolverDeclines
  <2>3. CASE UNCHANGED pos
    BY <1>2, <2>1, <2>3
  <2> QED
    BY <2>2, <2>3 DEF Step, Refuse, Accept, ResolverAnswers, ResolverLoses, FallBack,
       BeginRecursion, NoRecursion, LockRotation, ReadServer, AdvanceRotation, NoUpstream,
       ExchangeAccepted, ExchangeRejected, GiveUp
<1>8. todo' \in [Queries -> 0..(Attempts' * GetBigger(Len(conf'.search), 1))]
  <2>1. todo \in [Queries -> 0..(Attempts * GetBigger(Len(conf.search), 1))]
    BY DEF TypeOK
  <2>2. CASE BeginRecursion(q)
    <3>1. Budget(q) \in 0..(Attempts * GetBigger(Len(conf.search), 1))
      BY <1>4, <1>5, Product DEF Budget
    <3> QED
      BY <1>2, <1>6, <2>1, <2>2, <3>1 DEF BeginRecursion
  <2>3. CASE ExchangeRejected(q)
    <3>1. todo[q] - 1 \in 0..(Attempts * GetBigger(Len(conf.search), 1))
      BY <1>5, <2>1, <2>3 DEF ExchangeRejected
    <3> QED
      BY <1>2, <1>6, <2>1, <2>3, <3>1 DEF ExchangeRejected
  <2>4. CASE GiveUp(q)
    <3>1. 0 \in 0..(Attempts * GetBigger(Len(conf.search), 1))
      BY <1>5
    <3> QED
      BY <1>2, <1>6, <2>1, <2>4, <3>1 DEF GiveUp
  <2>5. CASE UNCHANGED todo
    BY <1>2, <1>6, <2>1, <2>5
  <2> QED
    BY <2>2, <2>3, <2>4, <2>5 DEF Step, Refuse, Accept, ResolverAnswers, ResolverDeclines,
       ResolverLoses, FallBack, NoRecursion, LockRotation, ReadServer, AdvanceRotation,
       NoUpstream, ExchangeAccepted
<1>9. asked' \in [Queries -> Seq(Rot!Servers')]
  <2>1. asked \in [Queries -> Seq(Rot!Servers)]
    BY DEF TypeOK
  <2>2. CASE ReadServer(q)
    <3>1. index \in Rot!Servers
      BY <1>3, <2>2 DEF ReadServer, Rot!RotTypeOK
    <3>2. Append(asked[q], index) \in Seq(Rot!Servers)
      BY <2>1, <3>1
    <3> QED
      BY <1>2, <2>1, <2>2, <3>2 DEF ReadServer
  <2>3. CASE UNCHANGED asked
    BY <1>2, <2>1, <2>3
  <2> QED
    BY <2>2, <2>3 DEF Step, Refuse, Accept, ResolverAnswers, ResolverDeclines, ResolverLoses,
       FallBack, BeginRecursion, NoRecursion, LockRotation, AdvanceRotation, NoUpstream,
       ExchangeAccepted, ExchangeRejected, GiveUp
<1>10. /\ pc' \in [Queries -> Places]
       /\ alone' \in [Queries -> BOOLEAN]
       /\ out' \in [Queries -> {"none", "refused", "answer", "servfail", "lost"}]
       /\ written' \in [Queries -> Nat]
  <2>1. /\ pc \in [Queries -> Places]
        /\ alone \in [Queries -> BOOLEAN]
        /\ out \in [Queries -> {"none", "refused", "answer", "servfail", "lost"}]
        /\ written \in [Queries -> Nat]
    BY DEF TypeOK
  <2>2. CASE Refuse(q) \/ Accept(q) \/ FallBack(q)
    BY <2>1, <2>2 DEF Refuse, Accept, FallBack, At, Write, Silent, Places
  <2>3. CASE ResolverAnswers(q) \/ ResolverDeclines(q) \/ ResolverLoses(q)
    BY <2>1, <2>3 DEF ResolverAnswers, ResolverDeclines, ResolverLoses, At, Write, Lose, Silent, Places
  <2>4. CASE BeginRecursion(q)
    BY <2>1, <2>4 DEF BeginRecursion, At, Silent, Places
  <2>5. CASE NoRecursion(q)
    <3>1. At(q, "recurse", "end") /\ Write(q, "servfail") /\ UNCHANGED alone
      BY <2>5 DEF NoRecursion
    <3> QED
      BY <2>1, <3>1 DEF At, Write, Places
  <2>6. CASE NoUpstream(q)
    BY <2>1, <2>6 DEF NoUpstream, At, Lose, Places
  <2>7. CASE LockRotation(q) \/ ReadServer(q) \/ AdvanceRotation(q)
    BY <2>1, <2>7 DEF LockRotation, ReadServer, AdvanceRotation, At, Silent, Places
  <2>8. CASE ExchangeAccepted(q) \/ ExchangeRejected(q) \/ GiveUp(q)
    BY <2>1, <2>8 DEF ExchangeAccepted, ExchangeRejected, GiveUp, At, Write, Silent, Places
  <2> QED
    BY <2>2, <2>3, <2>4, <2>5, <2>6, <2>7, <2>8 DEF Step
<1>11. Rot!RotTypeOK' /\ mu' \subseteq Queries
  <2>1. /\ index \in Nat /\ (Len(Upstream) > 0 => index \in Rot!Servers)
        /\ uses \in [Rot!Servers -> Nat] /\ mu \subseteq Queries
    BY DEF TypeOK, Rot!RotTypeOK
  <2>2. CASE AdvanceRotation(q)
    <3>1. pc[q] = "taken" /\ Len(Upstream) > 0 /\ Last(asked[q]) = index
      BY <2>2 DEF AdvanceRotation, At, LockInv
    <3>2. index' \in Rot!Servers
      BY <1>4, <2>1, <2>2, <3>1, RotP!SuccessorIsServer
      DEF AdvanceRotation, Rot!Successor, RotP!Successor, Rot!Servers, RotP!Servers
    <3>3. index' \in Nat
      BY <3>2 DEF Rot!Servers
    <3>4. uses' = [uses EXCEPT ![index] = @ + 1] /\ mu' = {}
      BY <2>2, <3>1 DEF AdvanceRotation
    <3>5. index \in Rot!Servers /\ uses \in [Rot!Servers -> Nat]
      BY <2>1, <3>1
    <3>6. uses' \in [Rot!Servers -> Nat]
      BY ONLY <3>4, <3>5
    <3> QED
      BY <1>2, <1>4, <3>2, <3>3, <3>4, <3>6 DEF Rot!RotTypeOK
  <2>3. CASE LockRotation(q) \/ NoUpstream(q)
    <3>1. UNCHANGED <<index, uses>> /\ mu' \subseteq Queries
      BY <2>3 DEF LockRotation, NoUpstream
    <3> QED
      BY <1>2, <1>4, <2>1, <3>1 DEF Rot!RotTypeOK
  <2>4. CASE UNCHANGED <<mu, index, uses>>
    BY <1>2, <1>4, <2>1, <2>4 DEF Rot!RotTypeOK
  <2> QED
    BY <2>2, <2>3, <2>4 DEF Step, Refuse, Accept, ResolverAnswers, ResolverDeclines,
       ResolverLoses, FallBack, BeginRecursion, NoRecursion, ReadServer, ExchangeAccepted,
       ExchangeRejected, GiveUp
<1> QED
  BY <1>6, <1>7, <1>8, <1>9, <1>10, <1>11 DEF TypeOK

\* A step of one query leaves the others where they are; only the rotation and
\* the memory of having had it alone may change for them.
LEMMA OtherQueries ==
    ASSUME TypeOK, NEW q \in Queries, NEW p \in Queries, p # q, Step(q)
    PROVE  /\ pc'[p] = pc[p] /\ todo'[p] = todo[p] /\ asked'[p] = asked[p]
           /\ out'[p] = out[p] /\ written'[p] = written[p]
           /\ \/ UNCHANGED index /\ alone'[p] = alone[p]
              \/ alone'[p] = (alone[p] /\ ~Recursing(p))
<1>1. pc'[p] = pc[p] /\ out'[p] = out[p] /\ written'[p] = written[p]
  <2>1. CASE \/ Refuse(q) \/ Accept(q) \/ ResolverAnswers(q) \/ ResolverDeclines(q)
             \/ ResolverLoses(q) \/ FallBack(q) \/ BeginRecursion(q)
    BY <2>1 DEF TypeOK, Refuse, Accept, ResolverAnswers, ResolverDeclines, ResolverLoses,
       FallBack, BeginRecursion, At, Write, Lose, Silent
  <2>2. CASE \/ NoRecursion(q) \/ LockRotation(q) \/ ReadServer(q) \/ AdvanceRotation(q)
             \/ NoUpstream(q) \/ ExchangeAccepted(q) \/ ExchangeRejected(q) \/ GiveUp(q)
    BY <2>2 DEF TypeOK, NoRecursion, LockRotation, ReadServer, AdvanceRotation, NoUpstream,
       ExchangeAccepted, ExchangeRejected, GiveUp, At, Write, Lose, Silent
  <2> QED
    BY <2>1, <2>2 DEF Step
<1>2. todo'[p] = todo[p]
  BY DEF TypeOK, Step, Refuse, Accept, ResolverAnswers, ResolverDeclines, ResolverLoses,
     FallBack, BeginRecursion, NoRecursion, LockRotation, ReadServer, AdvanceRotation,
     NoUpstream, ExchangeAccepted, ExchangeRejected, GiveUp
<1>3. CASE ReadServer(q) \/ AdvanceRotation(q)
  BY <1>1, <1>2, <1>3 DEF TypeOK, ReadServer, AdvanceRotation
<1>4. CASE ~ReadServer(q) /\ ~AdvanceRotation(q)
  <2>1. UNCHANGED <<index, asked, alone>>
    BY <1>4 DEF Step, Refuse, Accept, ResolverAnswers, ResolverDeclines, ResolverLoses,
       FallBack, BeginRecursion, NoRecursion, LockRotation, NoUpstream, ExchangeAccepted,
       ExchangeRejected, GiveUp
  <2> QED
    BY <1>1, <1>2, <2>1
<1> QED
  BY <1>3, <1>4

\* A step of one query keeps what holds while the mutex is held: no other query
\* has it then, so none moves index between the two steps of Next.
LEMMA LockStep ==
    ASSUME TypeOK, LockInv, NEW q \in Queries, Step(q)
    PROVE  LockInv'
<1> SUFFICES ASSUME NEW p \in Queries
             PROVE  /\ pc'[p] \in {"locked", "taken"} => mu' = {p}
                    /\ pc'[p] = "taken" => /\ Len(Upstream)' > 0 /\ asked'[p] # <<>>
                                           /\ Last(asked'[p]) = index'
  BY DEF LockInv
<1>1. pc \in [Queries -> Places] /\ asked[p] \in Seq(Rot!Servers) /\ DOMAIN asked = Queries
  BY DEF TypeOK
<1>2. /\ pc[p] \in {"locked", "taken"} => mu = {p}
      /\ pc[p] = "taken" => /\ Len(Upstream) > 0 /\ asked[p] # <<>>
                            /\ Last(asked[p]) = index
      /\ pc[q] \in {"locked", "taken"} => mu = {q}
  BY DEF LockInv
<1>3. Upstream' = Upstream
  BY FixedStep, FixedNumbers DEF Next
<1>4. p # q => pc'[p] = pc[p] /\ asked'[p] = asked[p]
  BY OtherQueries
<1>5. CASE LockRotation(q)
  BY <1>1, <1>2, <1>4, <1>5 DEF LockRotation, At
<1>6. CASE ReadServer(q)
  <2>1. UNCHANGED <<mu, index>>
    BY <1>6 DEF ReadServer
  <2>2. CASE p = q
    <3>1. /\ pc[p] = "locked" /\ Len(Upstream) > 0 /\ asked'[p] = Append(asked[p], index)
      BY <1>1, <1>6, <2>2 DEF ReadServer, At
    <3>2. index \in Rot!Servers
      BY <3>1 DEF TypeOK, Rot!RotTypeOK
    <3>3. asked'[p] # <<>> /\ Last(asked'[p]) = index
      BY <1>1, <3>1, <3>2 DEF Last
    <3> QED
      BY <1>2, <1>3, <2>1, <3>1, <3>3
  <2> QED
    BY <1>2, <1>3, <1>4, <2>1, <2>2
<1>7. CASE AdvanceRotation(q) \/ NoUpstream(q)
  <2>1. pc[q] \in {"locked", "taken"} /\ pc'[q] \in {"exchange", "end"}
    BY <1>1, <1>7 DEF AdvanceRotation, NoUpstream, At
  <2>2. p # q => pc[p] \notin {"locked", "taken"}
    BY <1>2, <2>1
  <2> QED
    BY <1>4, <2>1, <2>2
<1>8. CASE ~(LockRotation(q) \/ ReadServer(q) \/ AdvanceRotation(q) \/ NoUpstream(q))
  <2>1. UNCHANGED <<mu, index, asked>> /\ pc'[q] \notin {"locked", "taken"}
    BY <1>1, <1>8 DEF Step, Refuse, Accept, ResolverAnswers, ResolverDeclines, ResolverLoses,
       FallBack, BeginRecursion, NoRecursion, ExchangeAccepted, ExchangeRejected, GiveUp, At
  <2> QED
    BY <1>2, <1>3, <1>4, <2>1
<1> QED
  BY <1>5, <1>6, <1>7, <1>8

\* proxy.go:45-46: the mutex makes a critical section of Next, also when the empty
\* list panics in it.
THEOREM MutexHolds == Spec \/ NameSpec => [](TypeOK /\ LockInv)
<1>1. Init => TypeOK /\ LockInv
  <2> SUFFICES ASSUME Init PROVE TypeOK /\ LockInv
    OBVIOUS
  <2>1. Rot!RotTypeOK
    BY DEF Init, Rot!RotInit, Rot!RotTypeOK, Rot!Servers
  <2>2. /\ Resolvers \in Nat /\ Attempts \in Nat /\ GetBigger(Len(conf.search), 1) \in Nat
    BY <2>1, Numbers DEF Init
  <2>3. Attempts * GetBigger(Len(conf.search), 1) \in Nat
    BY <2>2, SMT
  <2> QED
    BY <2>1, <2>2, <2>3 DEF Init, TypeOK, LockInv, Places
<1>2. TypeOK /\ LockInv /\ [Next]_vars => TypeOK' /\ LockInv'
  <2> SUFFICES ASSUME TypeOK, LockInv, [Next]_vars PROVE TypeOK' /\ LockInv'
    OBVIOUS
  <2>1. CASE AllEnded \/ UNCHANGED vars
    <3>1. UNCHANGED vars
      BY <2>1 DEF AllEnded
    <3>2. /\ Upstream' = Upstream /\ Rot!Servers' = Rot!Servers
          /\ Attempts' = Attempts /\ Resolvers' = Resolvers
      BY <3>1, FixedNumbers DEF vars
    <3> QED
      BY <3>1, <3>2 DEF vars, TypeOK, Rot!RotTypeOK, LockInv
  <2> QED
    BY <2>1, TypeStep, LockStep DEF Next
<1> QED
  BY <1>1, <1>2, BothAreQueries, PTL DEF SafeSpec

\* The budget of exchanges, the position among the resolvers and the rotation
\* stay in their ranges, for any resolvers, search domains and upstreams.
THEOREM TypeCorrect == Spec \/ NameSpec => []TypeOK
BY MutexHolds, PTL

-----------------------------------------------------------------------------
\* proxy.go:44-50: Next of one query is one turn of the rotation, taken when its
\* index moves on, however the steps of the queries interleave.
THEOREM RefinesRotation == Spec \/ NameSpec => ImplementsRotation
<1>1. Init => Rot!RotInit
  BY DEF Init
<1>2. TypeOK /\ LockInv /\ [Next]_vars => [Rot!Take]_(Rot!rotVars)
  <2> SUFFICES ASSUME TypeOK, LockInv, [Next]_vars PROVE [Rot!Take]_(Rot!rotVars)
    OBVIOUS
  <2>1. Len(Upstream)' = Len(Upstream)
    BY FixedStep DEF Upstream
  <2>2. ASSUME NEW q \in Queries, AdvanceRotation(q) PROVE Rot!Take
    <3>1. Len(Upstream) > 0 /\ Last(asked[q]) = index
      BY <2>2 DEF AdvanceRotation, At, LockInv
    <3> QED
      BY <2>1, <2>2, <3>1 DEF AdvanceRotation, Rot!Take
  <2>3. ASSUME NEW q \in Queries, Step(q), ~AdvanceRotation(q) PROVE UNCHANGED <<index, uses>>
    BY <2>3 DEF Step, Refuse, Accept, ResolverAnswers, ResolverDeclines, ResolverLoses,
       FallBack, BeginRecursion, NoRecursion, LockRotation, ReadServer, NoUpstream,
       ExchangeAccepted, ExchangeRejected, GiveUp
  <2>4. CASE AllEnded \/ UNCHANGED vars
    BY <2>4 DEF AllEnded, vars, Rot!rotVars, Upstream
  <2> QED
    BY <2>1, <2>2, <2>3, <2>4 DEF Next, Rot!rotVars
<1> QED
  BY <1>1, <1>2, MutexHolds, BothAreQueries, PTL DEF SafeSpec, ImplementsRotation, Rot!RotSpec

\* What is proved of the rotation holds of the one the queries share: its index
\* always names a server, and no upstream is asked more than once more often
\* than another.
THEOREM SharedRotation == Spec \/ NameSpec => []Rot!RotTypeOK /\ []Rot!Balanced
<1>1. Rot!RotInit => RotP!RotInit
  BY DEF Rot!RotInit, RotP!RotInit, Rot!Servers, RotP!Servers
<1>2. [Rot!Take]_(Rot!rotVars) => [RotP!Take]_(RotP!rotVars)
  BY DEF Rot!Take, RotP!Take, Rot!rotVars, RotP!rotVars, Rot!Successor, RotP!Successor
<1>3. RotP!RotTypeOK => Rot!RotTypeOK
  BY DEF RotP!RotTypeOK, Rot!RotTypeOK, Rot!Servers, RotP!Servers
<1>4. RotP!Balanced => Rot!Balanced
  BY DEF RotP!Balanced, Rot!Balanced, Rot!Servers, RotP!Servers
<1> QED
  BY <1>1, <1>2, <1>3, <1>4, RefinesRotation, RotP!RotTypeCorrect, RotP!RotationBalanced, PTL
  DEF ImplementsRotation, Rot!RotSpec, RotP!RotSpec

-----------------------------------------------------------------------------
\* A query is without an outcome until it ends.
ReplyInv ==
    /\ OneReply
    /\ \A q \in Queries : pc[q] # "end" => out[q] = "none"

\* handler.go:51-84: replies are written by the step that ends a query, and only by
\* it.
THEOREM ReplyInvariant == Spec \/ NameSpec => []ReplyInv
<1>1. Init => ReplyInv
  BY DEF Init, ReplyInv, OneReply
<1>2. TypeOK /\ ReplyInv /\ [Next]_vars => ReplyInv'
  <2> SUFFICES ASSUME TypeOK, ReplyInv, [Next]_vars PROVE ReplyInv'
    OBVIOUS
  <2>1. ASSUME NEW q \in Queries, Step(q) PROVE ReplyInv'
    <3>1. /\ pc[q] # "end" /\ out[q] = "none" /\ written[q] = 0
          /\ pc \in [Queries -> Places]
          /\ out \in [Queries -> {"none", "refused", "answer", "servfail", "lost"}]
          /\ written \in [Queries -> Nat]
      BY <2>1 DEF ReplyInv, OneReply, TypeOK, Step, Refuse, Accept, ResolverAnswers,
         ResolverDeclines, ResolverLoses, FallBack, BeginRecursion, NoRecursion,
         LockRotation, ReadServer, AdvanceRotation, NoUpstream, ExchangeAccepted,
         ExchangeRejected, GiveUp, At
    <3>2. \/ pc'[q] # "end" /\ Silent
          \/ pc'[q] = "end" /\ (Lose(q) \/ \E what \in {"refused", "answer", "servfail"} : Write(q, what))
      BY <2>1, <3>1 DEF Step, Refuse, Accept, ResolverAnswers, ResolverDeclines,
         ResolverLoses, FallBack, BeginRecursion, NoRecursion, LockRotation, ReadServer,
         AdvanceRotation, NoUpstream, ExchangeAccepted, ExchangeRejected, GiveUp, At
    <3>3. /\ written'[q] = IF pc'[q] = "end" /\ out'[q] # "lost" THEN 1 ELSE 0
          /\ pc'[q] # "end" => out'[q] = "none"
      BY <3>1, <3>2 DEF Silent, Lose, Write
    <3> QED
      BY <2>1, <3>3, OtherQueries DEF ReplyInv, OneReply
  <2>2. CASE AllEnded \/ UNCHANGED vars
    BY <2>2 DEF AllEnded, vars, ReplyInv, OneReply
  <2> QED
    BY <2>1, <2>2 DEF Next
<1> QED
  BY <1>1, <1>2, TypeCorrect, BothAreQueries, PTL DEF SafeSpec

\* handler.go:51-84: no query gets two replies, and one that has ended without
\* a reply lost it to a panic or a record that cannot be packed.
THEOREM RepliesOnce == Spec \/ NameSpec => []OneReply
<1>1. ReplyInv => OneReply
  BY DEF ReplyInv
<1> QED
  BY <1>1, ReplyInvariant, PTL

-----------------------------------------------------------------------------
\* Exchanges made and exchanges left are the budget, from the first to the last.
ExchangeInv(q) ==
    /\ pc[q] \in {"idle", "resolve", "recurse"} => asked[q] = <<>>
    /\ Recursing(q) => conf.recurse /\ Domains(q) > 0 /\ todo[q] >= 1
    /\ pc[q] \in {"next", "locked"} => Len(asked[q]) + todo[q] = Budget(q)
    /\ pc[q] \in {"taken", "exchange"} =>
         Len(asked[q]) + todo[q] = Budget(q) + 1 /\ Len(asked[q]) >= 1
    /\ Len(asked[q]) > 0 => Len(Upstream) > 0
    /\ pc[q] = "end" /\ asked[q] # <<>> =>
         IF out[q] = "answer" THEN kind[Last(asked[q])] = "good"
         ELSE out[q] = "servfail" /\ Len(asked[q]) = Budget(q) /\ Budget(q) >= Attempts

\* The types of what a query counts.
LEMMA Counts ==
    ASSUME TypeOK, NEW q \in Queries
    PROVE  /\ asked[q] \in Seq(Rot!Servers) /\ Len(asked[q]) \in Nat
           /\ (asked[q] = <<>> <=> Len(asked[q]) = 0)
           /\ todo[q] \in Nat /\ Len(Upstream) \in Nat /\ Attempts \in Nat
           /\ Attempts >= 1 /\ Attempts >= Len(Upstream)
           /\ Domains(q) \in Nat /\ Budget(q) \in Nat
           /\ Domains(q) >= 1 => Budget(q) >= Attempts
<1>1. conf \in Configs /\ Rot!RotTypeOK
  BY DEF TypeOK
<1>2. /\ Len(Upstream) \in Nat /\ Attempts \in Nat /\ Attempts >= 1 /\ Attempts >= Len(Upstream)
      /\ Domains(q) \in Nat /\ GetBigger(Len(conf.search), 1) \in Nat
  BY <1>1, Numbers
<1>3. Budget(q) \in Nat /\ (Domains(q) >= 1 => Budget(q) >= Attempts)
  BY <1>2, Product DEF Budget
<1>4. asked[q] \in Seq(Rot!Servers)
  BY DEF TypeOK
<1>5. todo[q] \in Nat
  <2>1. todo[q] \in 0..(Attempts * GetBigger(Len(conf.search), 1))
    BY DEF TypeOK
  <2> QED
    BY <2>1
<1> QED
  BY <1>2, <1>3, <1>4, <1>5

\* A query's own steps keep its count of exchanges.
LEMMA ExchangeStep ==
    ASSUME TypeOK, NEW q \in Queries, ExchangeInv(q), Step(q)
    PROVE  ExchangeInv(q)'
<1>1. UNCHANGED <<conf, kind, query>>
  BY FixedStep DEF Next
<1>2. /\ Upstream' = Upstream /\ Attempts' = Attempts
      /\ Domains(q)' = Domains(q) /\ Budget(q)' = Budget(q)
  BY <1>1, FixedNumbers
<1>3. /\ asked[q] \in Seq(Rot!Servers) /\ Len(asked[q]) \in Nat
      /\ (asked[q] = <<>> <=> Len(asked[q]) = 0)
      /\ todo[q] \in Nat /\ Len(Upstream) \in Nat /\ Attempts \in Nat /\ Attempts >= 1
      /\ Domains(q) \in Nat /\ Budget(q) \in Nat
      /\ Domains(q) >= 1 => Budget(q) >= Attempts
  BY Counts
<1>4. /\ pc \in [Queries -> Places]
      /\ out \in [Queries -> {"none", "refused", "answer", "servfail", "lost"}]
      /\ todo \in [Queries -> 0..(Attempts * GetBigger(Len(conf.search), 1))]
      /\ asked \in [Queries -> Seq(Rot!Servers)]
  BY DEF TypeOK
<1>5. CASE \/ Refuse(q) \/ Accept(q) \/ ResolverAnswers(q) \/ ResolverDeclines(q)
           \/ ResolverLoses(q) \/ FallBack(q) \/ NoRecursion(q)
  <2>1. /\ pc[q] \in {"idle", "resolve", "recurse"}
        /\ pc'[q] \in {"resolve", "recurse", "end"} /\ UNCHANGED asked
    BY <1>4, <1>5 DEF Refuse, Accept, ResolverAnswers, ResolverDeclines, ResolverLoses,
       FallBack, NoRecursion, At
  <2> QED
    BY <1>3, <2>1 DEF ExchangeInv, Recursing
<1>6. CASE BeginRecursion(q)
  <2>1. /\ pc[q] = "recurse" /\ pc'[q] = "next" /\ UNCHANGED asked
        /\ todo'[q] = Budget(q) /\ conf.recurse /\ Domains(q) > 0
    BY <1>4, <1>6 DEF BeginRecursion, At
  <2> QED
    BY <1>1, <1>2, <1>3, <2>1 DEF ExchangeInv, Recursing
<1>7. CASE ReadServer(q)
  <2>1. /\ pc[q] = "locked" /\ pc'[q] = "taken" /\ UNCHANGED todo
        /\ asked'[q] = Append(asked[q], index) /\ Len(Upstream) > 0
    BY <1>4, <1>7 DEF ReadServer, At
  <2>2. Len(asked'[q]) = Len(asked[q]) + 1
    BY <1>3, <2>1
  <2>3. /\ conf'.recurse /\ Domains(q)' > 0 /\ todo'[q] >= 1
        /\ Len(asked'[q]) + todo'[q] = Budget(q)' + 1 /\ Len(asked'[q]) >= 1
    <3>1. /\ conf.recurse /\ Domains(q) > 0 /\ todo[q] >= 1
          /\ Len(asked[q]) + todo[q] = Budget(q)
      BY <2>1 DEF ExchangeInv, Recursing
    <3>2. Len(asked[q]) + 1 + todo[q] = Budget(q) + 1 /\ Len(asked[q]) + 1 >= 1
      <4>1. todo[q] \in Nat /\ Len(asked[q]) \in Nat /\ Budget(q) \in Nat
        BY <1>3
      <4> QED
        BY ONLY <3>1, <4>1
    <3>3. conf'.recurse /\ Domains(q)' > 0 /\ todo'[q] >= 1
      BY <1>1, <1>2, <2>1, <3>1
    <3> QED
      BY <1>2, <2>1, <2>2, <3>2, <3>3
  <2> QED
    BY <1>2, <2>1, <2>3 DEF ExchangeInv, Recursing
<1>8. CASE NoUpstream(q)
  <2>1. pc'[q] = "end" /\ UNCHANGED asked /\ Len(Upstream) = 0
    BY <1>4, <1>8 DEF NoUpstream, At
  <2> QED
    BY <1>2, <1>3, <2>1 DEF ExchangeInv, Recursing
<1>9. CASE ExchangeAccepted(q)
  <2>1. /\ pc[q] = "exchange" /\ pc'[q] = "end" /\ out'[q] = "answer"
        /\ UNCHANGED asked /\ kind[Last(asked[q])] = "good"
    BY <1>4, <1>9 DEF ExchangeAccepted, At, Write
  <2>2. Len(asked'[q]) > 0 => Len(Upstream') > 0
    BY <1>2, <2>1 DEF ExchangeInv
  <2>3. kind'[Last(asked'[q])] = "good"
    BY <1>1, <2>1
  <2> QED
    BY <2>1, <2>2, <2>3 DEF ExchangeInv, Recursing
<1>10. CASE ExchangeRejected(q)
  <2>1. /\ pc[q] = "exchange" /\ pc'[q] = "next" /\ todo'[q] = todo[q] - 1
        /\ todo[q] > 1 /\ UNCHANGED asked
    BY <1>4, <1>10 DEF ExchangeRejected, At
  <2>2. /\ conf'.recurse /\ Domains(q)' > 0 /\ todo'[q] >= 1
        /\ Len(asked'[q]) + todo'[q] = Budget(q)'
        /\ Len(asked'[q]) > 0 => Len(Upstream') > 0
    <3>1. /\ conf.recurse /\ Domains(q) > 0 /\ Len(asked[q]) + todo[q] = Budget(q) + 1
          /\ Len(asked[q]) > 0 => Len(Upstream) > 0
      BY <2>1 DEF ExchangeInv, Recursing
    <3>2. conf'.recurse /\ Domains(q)' > 0 /\ (Len(asked[q]) > 0 => Len(Upstream') > 0)
      BY <1>1, <1>2, <3>1
    <3>3. todo'[q] >= 1 /\ Len(asked[q]) + todo'[q] = Budget(q)'
      <4>1. todo[q] - 1 >= 1 /\ Len(asked[q]) + (todo[q] - 1) = Budget(q)
        <5>1. todo[q] > 1 /\ Len(asked[q]) + todo[q] = Budget(q) + 1
          BY <2>1, <3>1
        <5>2. todo[q] \in Nat /\ Len(asked[q]) \in Nat /\ Budget(q) \in Nat
          BY <1>3
        <5> QED
          BY ONLY <5>1, <5>2
      <4> QED
        BY <1>2, <2>1, <4>1
    <3> QED
      BY <2>1, <3>2, <3>3
  <2> QED
    BY <2>1, <2>2 DEF ExchangeInv, Recursing
<1>11. CASE GiveUp(q)
  <2>1. /\ pc[q] = "exchange" /\ pc'[q] = "end" /\ out'[q] = "servfail"
        /\ todo[q] = 1 /\ UNCHANGED asked
    BY <1>4, <1>11 DEF GiveUp, At, Write
  <2> QED
    BY <1>1, <1>2, <1>3, <2>1 DEF ExchangeInv, Recursing
<1>12. CASE LockRotation(q) \/ AdvanceRotation(q)
  <2>1. /\ \/ pc[q] = "next" /\ pc'[q] = "locked"
           \/ pc[q] = "taken" /\ pc'[q] = "exchange"
        /\ UNCHANGED <<todo, asked>>
    BY <1>4, <1>12 DEF LockRotation, AdvanceRotation, At
  <2> QED
    BY <1>1, <1>2, <2>1 DEF ExchangeInv, Recursing
<1> QED
  BY <1>5, <1>6, <1>7, <1>8, <1>9, <1>10, <1>11, <1>12 DEF Step

\* proxy.go:72-98: the two loops make exactly as many exchanges as domains and
\* attempts allow, whatever the other queries do.
THEOREM ExchangesCounted == Spec \/ NameSpec => [](\A q \in Queries : ExchangeInv(q))
<1>1. Init => \A q \in Queries : ExchangeInv(q)
  BY DEF Init, ExchangeInv, Recursing
<1>2. TypeOK /\ (\A q \in Queries : ExchangeInv(q)) /\ [Next]_vars
        => (\A q \in Queries : ExchangeInv(q))'
  <2> SUFFICES ASSUME TypeOK, \A q \in Queries : ExchangeInv(q), [Next]_vars,
                      NEW p \in Queries
               PROVE  ExchangeInv(p)'
    OBVIOUS
  <2>1. ASSUME NEW q \in Queries, Step(q), p # q PROVE ExchangeInv(p)'
    <3>1. /\ pc'[p] = pc[p] /\ todo'[p] = todo[p] /\ asked'[p] = asked[p] /\ out'[p] = out[p]
      BY <2>1, OtherQueries
    <3>2. /\ UNCHANGED <<conf, kind>> /\ Upstream' = Upstream /\ Attempts' = Attempts
          /\ Domains(p)' = Domains(p) /\ Budget(p)' = Budget(p)
      BY FixedStep, FixedNumbers
    <3> QED
      BY <3>1, <3>2 DEF ExchangeInv, Recursing
  <2>2. CASE AllEnded \/ UNCHANGED vars
    <3>1. UNCHANGED vars
      BY <2>2 DEF AllEnded
    <3>2. /\ Upstream' = Upstream /\ Attempts' = Attempts
          /\ Domains(p)' = Domains(p) /\ Budget(p)' = Budget(p)
      BY <3>1, FixedNumbers DEF vars
    <3> QED
      BY <3>1, <3>2 DEF vars, ExchangeInv, Recursing
  <2> QED
    BY <2>1, <2>2, ExchangeStep DEF Next
<1> QED
  BY <1>1, <1>2, TypeCorrect, BothAreQueries, PTL DEF SafeSpec

\* proxy.go:53-99: a query that asked an upstream ends in an answer of a good one
\* or, after no fewer exchanges than there are attempts, in SERVFAIL; it is
\* never lost.
THEOREM RecursionAnswers == Spec \/ NameSpec => []RecursionIsAnswered
<1>1. TypeOK /\ (\A q \in Queries : ExchangeInv(q)) => RecursionIsAnswered
  BY Counts DEF ExchangeInv, RecursionIsAnswered
<1> QED
  BY <1>1, TypeCorrect, ExchangesCounted, PTL

-----------------------------------------------------------------------------
\* The server that was handed out k turns ago, when there are n of them.
Behind(k) == IF k <= index THEN index - k ELSE index - k + Len(Upstream)

\* A query that has the rotation for itself has met no good server on the way:
\* the last ones it asked are those that the index has just passed.
AloneInv(q) ==
    /\ alone[q] /\ pc[q] \in {"next", "locked"} =>
         \A k \in 1..Len(Upstream) : k <= Len(asked[q]) => kind[Behind(k)] # "good"
    /\ alone[q] /\ pc[q] = "taken" =>
         \A k \in 1..Len(Upstream) : k < Len(asked[q]) => kind[Behind(k)] # "good"
    /\ alone[q] /\ pc[q] = "exchange" =>
         /\ Last(asked[q]) = Behind(1)
         /\ \A k \in 2..Len(Upstream) : k <= Len(asked[q]) => kind[Behind(k)] # "good"
    /\ out[q] = "servfail" /\ conf.recurse /\ Domains(q) > 0 /\ alone[q] =>
         \A s \in Rot!Servers : kind[s] # "good"

\* Every server is one of the last that were handed out.
LEMMA EveryServerBehind ==
    ASSUME Rot!RotTypeOK, NEW s \in Rot!Servers
    PROVE  \E k \in 1..Len(Upstream) : Behind(k) = s
<1>1. /\ Len(Upstream) \in Nat /\ Len(Upstream) > 0 /\ index \in 0..(Len(Upstream) - 1)
      /\ s \in 0..(Len(Upstream) - 1)
  BY DEF Rot!RotTypeOK, Rot!Servers
<1> DEFINE k == IF s < index THEN index - s ELSE index - s + Len(Upstream)
<1>2. k \in 1..Len(Upstream)
  BY <1>1
<1>3. Behind(k) = s
  BY <1>1 DEF Behind
<1> QED
  BY <1>2, <1>3

\* One more turn moves each of them back by one.
LEMMA BehindMoves ==
    ASSUME Rot!RotTypeOK, Len(Upstream) > 0, index' = Rot!Successor, Upstream' = Upstream
    PROVE  /\ Behind(1)' = index
           /\ \A k \in 2..Len(Upstream) : Behind(k)' = Behind(k - 1)
<1>1. /\ Len(Upstream) \in Nat /\ Len(Upstream) > 0 /\ index \in 0..(Len(Upstream) - 1)
  BY DEF Rot!RotTypeOK, Rot!Servers
<1>2. Rot!Successor = IF index = Len(Upstream) - 1 THEN 0 ELSE index + 1
  BY <1>1, RotP!SuccessorIsServer DEF Rot!Successor, RotP!Successor, RotP!Servers
<1>3. index' = IF index = Len(Upstream) - 1 THEN 0 ELSE index + 1
  BY <1>2
<1> QED
  BY <1>1, <1>3 DEF Behind

\* A query's own steps keep what it knows of the servers behind the index.
LEMMA AloneStep ==
    ASSUME TypeOK, LockInv, ReplyInv, NEW q \in Queries, ExchangeInv(q), AloneInv(q), Step(q)
    PROVE  AloneInv(q)'
<1>1. /\ UNCHANGED <<conf, kind, query>> /\ Upstream' = Upstream
      /\ Rot!Servers' = Rot!Servers /\ Domains(q)' = Domains(q)
  BY FixedStep, FixedNumbers DEF Next
<1>2. /\ asked[q] \in Seq(Rot!Servers) /\ Len(asked[q]) \in Nat
      /\ Len(Upstream) \in Nat /\ Attempts \in Nat /\ Attempts >= Len(Upstream)
      /\ Budget(q) \in Nat /\ Domains(q) \in Nat /\ (Domains(q) >= 1 => Budget(q) >= Attempts)
  BY Counts
<1>3. /\ pc \in [Queries -> Places]
      /\ out \in [Queries -> {"none", "refused", "answer", "servfail", "lost"}]
      /\ asked \in [Queries -> Seq(Rot!Servers)]
      /\ alone \in [Queries -> BOOLEAN]
      /\ Rot!RotTypeOK
  BY DEF TypeOK
<1>4. CASE \/ Refuse(q) \/ Accept(q) \/ ResolverAnswers(q) \/ ResolverDeclines(q)
           \/ ResolverLoses(q) \/ FallBack(q) \/ NoUpstream(q) \/ ExchangeAccepted(q)
  <2>1. /\ pc'[q] \in {"resolve", "recurse", "end"} /\ out'[q] # "servfail"
    BY <1>3, <1>4 DEF ReplyInv, Refuse, Accept, ResolverAnswers, ResolverDeclines, ResolverLoses,
       FallBack, NoUpstream, ExchangeAccepted, At, Write, Lose, Silent
  <2> QED
    BY <2>1 DEF AloneInv
<1>5. CASE NoRecursion(q)
  <2>1. pc'[q] = "end" /\ (~conf.recurse \/ Domains(q) = 0)
    BY <1>3, <1>5 DEF NoRecursion, At
  <2> QED
    BY <1>1, <2>1 DEF AloneInv
<1>6. CASE BeginRecursion(q)
  <2>1. pc[q] = "recurse" /\ pc'[q] = "next" /\ out'[q] = "none" /\ UNCHANGED asked
    BY <1>3, <1>6 DEF ReplyInv, BeginRecursion, At, Silent
  <2>2. Len(asked[q]) = 0
    BY <2>1 DEF ExchangeInv
  <2> QED
    BY <2>1, <2>2 DEF AloneInv
<1>7. CASE LockRotation(q) \/ ReadServer(q)
  <2>1. UNCHANGED <<index, alone>> /\ out'[q] = "none"
    BY <1>3, <1>7 DEF ReplyInv, LockRotation, ReadServer, At, Silent
  <2>2. \A k : Behind(k)' = Behind(k)
    BY <1>1, <2>1 DEF Behind
  <2>3. CASE LockRotation(q)
    <3>1. pc[q] = "next" /\ pc'[q] = "locked" /\ UNCHANGED asked
      BY <1>3, <2>3 DEF LockRotation, At
    <3> QED
      BY <1>1, <2>1, <2>2, <3>1 DEF AloneInv
  <2>4. CASE ReadServer(q)
    <3>1. pc[q] = "locked" /\ pc'[q] = "taken" /\ asked'[q] = Append(asked[q], index)
      BY <1>3, <2>4 DEF ReadServer, At
    <3>2. Len(asked'[q]) = Len(asked[q]) + 1
      BY <1>2, <3>1
    <3>3. ASSUME alone[q], NEW k \in 1..Len(Upstream), k < Len(asked'[q])
          PROVE  kind[Behind(k)] # "good"
      <4>1. k <= Len(asked[q])
        BY <1>2, <3>2, <3>3
      <4> QED
        BY <3>1, <3>3, <4>1 DEF AloneInv
    <3> QED
      BY <1>1, <2>1, <2>2, <3>1, <3>3 DEF AloneInv
  <2> QED
    BY <1>7, <2>3, <2>4
<1>8. CASE AdvanceRotation(q)
  <2>1. /\ pc[q] = "taken" /\ pc'[q] = "exchange" /\ out'[q] = "none"
        /\ UNCHANGED asked /\ alone'[q] = alone[q]
    BY <1>3, <1>8 DEF ReplyInv, AdvanceRotation, At, Silent
  <2>2. Len(Upstream) > 0 /\ Last(asked'[q]) = index
    BY <2>1 DEF LockInv
  <2>3. Behind(1)' = index /\ \A k \in 2..Len(Upstream) : Behind(k)' = Behind(k - 1)
    BY <1>1, <1>3, <1>8, <2>2, BehindMoves DEF AdvanceRotation
  <2>4. ASSUME alone[q], NEW k \in 2..Len(Upstream), k <= Len(asked'[q])
        PROVE  kind[Behind(k)'] # "good"
    <3>1. k - 1 \in 1..Len(Upstream) /\ k - 1 < Len(asked[q])
      BY <1>2, <2>1, <2>4
    <3> QED
      BY <2>1, <2>3, <2>4, <3>1 DEF AloneInv
  <2> QED
    BY <1>1, <2>1, <2>2, <2>3, <2>4 DEF AloneInv
<1>9. CASE ExchangeRejected(q) \/ GiveUp(q)
  <2>1. /\ pc[q] = "exchange" /\ UNCHANGED <<asked, alone, index>>
        /\ kind[Last(asked[q])] # "good"
    BY <1>9 DEF ExchangeRejected, GiveUp, At
  <2>2. \A k : Behind(k)' = Behind(k)
    BY <1>1, <2>1 DEF Behind
  <2>3. ASSUME alone[q], NEW k \in 1..Len(Upstream), k <= Len(asked[q])
        PROVE  kind[Behind(k)] # "good"
    <3>1. CASE k = 1
      BY <2>1, <2>3, <3>1 DEF AloneInv
    <3>2. CASE k # 1
      <4>1. k \in 2..Len(Upstream)
        BY <1>2, <3>2
      <4> QED
        BY <2>1, <2>3, <4>1 DEF AloneInv
    <3> QED
      BY <3>1, <3>2
  <2>4. CASE ExchangeRejected(q)
    <3>1. pc'[q] = "next" /\ out'[q] = "none"
      BY <1>3, <2>1, <2>4 DEF ReplyInv, ExchangeRejected, At, Silent
    <3> QED
      BY <1>1, <2>1, <2>2, <2>3, <3>1 DEF AloneInv
  <2>5. CASE GiveUp(q)
    <3>1. pc'[q] = "end" /\ todo[q] = 1
      BY <1>3, <2>5 DEF GiveUp, At
    <3>2. Len(asked[q]) >= Len(Upstream)
      BY <1>2, <2>1, <3>1 DEF ExchangeInv, Recursing
    <3>3. ASSUME alone[q], NEW s \in Rot!Servers PROVE kind[s] # "good"
      <4>1. PICK k \in 1..Len(Upstream) : Behind(k) = s
        BY <1>3, EveryServerBehind
      <4>2. k <= Len(asked[q])
        BY <1>2, <3>2
      <4> QED
        BY <2>3, <3>3, <4>1, <4>2
    <3> QED
      BY <1>1, <2>1, <3>1, <3>3 DEF AloneInv
  <2> QED
    BY <1>9, <2>4, <2>5
<1> QED
  BY <1>4, <1>5, <1>6, <1>7, <1>8, <1>9 DEF Step

\* proxy.go:72-98 with base.go:62: a query that has the rotation for itself ends
\* in SERVFAIL only when every upstream fails, for any number of upstreams,
\* attempts and search domains.
THEOREM AloneFindsGood == Spec \/ NameSpec => []AloneReachesGood
<1> DEFINE AllAlone == \A q \in Queries : AloneInv(q)
<1>1. Init => AllAlone
  BY DEF Init, AloneInv
<1>2. /\ TypeOK /\ LockInv /\ ReplyInv /\ (\A q \in Queries : ExchangeInv(q)) /\ AllAlone /\ [Next]_vars
      => AllAlone'
  <2> SUFFICES ASSUME TypeOK, LockInv, ReplyInv, \A q \in Queries : ExchangeInv(q), AllAlone,
                      [Next]_vars, NEW p \in Queries
               PROVE  AloneInv(p)'
    OBVIOUS
  <2>1. /\ UNCHANGED <<conf, kind>> /\ Upstream' = Upstream
        /\ Rot!Servers' = Rot!Servers /\ Domains(p)' = Domains(p)
    BY FixedStep, FixedNumbers
  <2>2. ASSUME NEW q \in Queries, Step(q), p # q PROVE AloneInv(p)'
    <3>1. pc'[p] = pc[p] /\ asked'[p] = asked[p] /\ out'[p] = out[p]
      BY <2>2, OtherQueries
    <3>2. CASE UNCHANGED index /\ alone'[p] = alone[p]
      <4>1. \A k : Behind(k)' = Behind(k)
        BY <2>1, <3>2 DEF Behind
      <4> QED
        BY <2>1, <3>1, <3>2, <4>1 DEF AloneInv
    <3>3. CASE alone'[p] = (alone[p] /\ ~Recursing(p))
      BY <2>1, <3>1, <3>3 DEF AloneInv, Recursing
    <3> QED
      BY <2>2, <3>2, <3>3, OtherQueries
  <2>3. CASE AllEnded \/ UNCHANGED vars
    <3>1. UNCHANGED vars
      BY <2>3 DEF AllEnded
    <3>2. \A k : Behind(k)' = Behind(k)
      BY <2>1, <3>1 DEF Behind, vars
    <3> QED
      BY <2>1, <3>1, <3>2 DEF vars, AloneInv
  <2> QED
    BY <2>2, <2>3, AloneStep DEF Next
<1>3. AllAlone => AloneReachesGood
  BY DEF AloneInv, AloneReachesGood
<1> QED
  BY <1>1, <1>2, <1>3, MutexHolds, ReplyInvariant, ExchangesCounted, BothAreQueries, PTL
  DEF SafeSpec
-----------------------------------------------------------------------------
\* What the loop of mergeUpstream has made after each of m servers.
Merging(f, b, upstream, servers, m) ==
    f = [i \in 0..m |-> IF i = 0 THEN upstream ELSE AddServer(b, f[i - 1], servers[i])]

\* The loop makes something: its recursive definition has a solution.
LEMMA MergingExists ==
    ASSUME NEW b, NEW upstream, NEW servers, NEW n \in Nat
    PROVE  \E f : Merging(f, b, upstream, servers, n)
<1> DEFINE T == {m \in Nat : ~ \E f : Merging(f, b, upstream, servers, m)}
<1>1. T \in SUBSET Nat
  OBVIOUS
<1>2. ASSUME T # {} PROVE FALSE
  <2>1. PICK m \in T : \A k \in T : m <= k
    BY <1>1, <1>2, NatMin
  <2>2. CASE m = 0
    <3>1. Merging([i \in 0..0 |-> upstream], b, upstream, servers, 0)
      BY DEF Merging
    <3> QED
      BY <2>1, <2>2, <3>1
  <2>3. CASE m # 0
    <3>1. m \in Nat /\ m - 1 \in Nat /\ m - 1 \notin T
      BY <1>1, <2>1, <2>3
    <3>2. PICK f : Merging(f, b, upstream, servers, m - 1)
      BY <3>1
    <3> DEFINE Turn(i) == AddServer(b, f[i - 1], servers[i])
               g == [i \in 0..m |-> IF i = m THEN Turn(m) ELSE f[i]]
    <3>3. \A i \in 0..(m - 1) : f[i] = IF i = 0 THEN upstream ELSE Turn(i)
      BY <3>2 DEF Merging
    <3>4. \A i \in 0..m : i # 0 => g[i - 1] = f[i - 1]
      BY <3>1
    <3>5. \A i \in 0..m : g[i] = IF i = 0 THEN upstream ELSE Turn(i)
      <4> HIDE DEF Turn
      <4> QED
        BY <2>3, <3>1, <3>3
    <3>6. \A i \in 0..m : g[i] = IF i = 0 THEN upstream ELSE AddServer(b, g[i - 1], servers[i])
      <4> HIDE DEF g
      <4> QED
        BY <3>4, <3>5
    <3>7. Merging(g, b, upstream, servers, m)
      <4>1. g = [i \in 0..m |-> g[i]]
        OBVIOUS
      <4> HIDE DEF g
      <4> QED
        BY <3>6, <4>1 DEF Merging
    <3> QED
      BY <2>1, <3>7
  <2> QED
    BY <2>2, <2>3
<1> QED
  BY <1>2

\* An upstream list with the loopback address only when the sidecar is not there.
NotItself(b, upstream) ==
    upstream \in Seq(STRING) /\ (b => \A i \in 1..Len(upstream) : upstream[i] # Localhost)

\* A sequence with one more piece holds the old ones and the new one.
LEMMA AppendedPieces ==
    ASSUME NEW S, NEW seq \in Seq(S), NEW e \in S, NEW i \in 1..Len(Append(seq, e))
    PROVE  \/ i \in 1..Len(seq) /\ Append(seq, e)[i] = seq[i]
           \/ Append(seq, e)[i] = e
OBVIOUS

\* base.go:66-71: one turn of the loop does.
LEMMA AddServerSkipsItself ==
    ASSUME NEW b \in BOOLEAN, NEW upstream, NotItself(b, upstream), NEW server \in STRING
    PROVE  NotItself(b, AddServer(b, upstream, server))
<1>1. upstream \in Seq(STRING)
  BY DEF NotItself
<1>2. CASE AddServer(b, upstream, server) = upstream
  BY <1>2
<1>3. CASE /\ AddServer(b, upstream, server) = Append(upstream, server)
           /\ b => server # Localhost
  <2>1. Append(upstream, server) \in Seq(STRING)
    BY <1>1, AppendProperties
  <2>2. ASSUME b, NEW i \in 1..Len(Append(upstream, server))
        PROVE  Append(upstream, server)[i] # Localhost
    <3>1. \/ i \in 1..Len(upstream) /\ Append(upstream, server)[i] = upstream[i]
          \/ Append(upstream, server)[i] = server
      BY <1>1, <2>2, AppendedPieces
    <3> QED
      BY <1>3, <2>2, <3>1 DEF NotItself
  <2> QED
    BY <1>3, <2>1, <2>2 DEF NotItself
<1> QED
  BY <1>2, <1>3 DEF AddServer

\* base.go:63-86: the loop keeps the sidecar out of the upstream servers.
LEMMA MergeSkipsItself ==
    ASSUME NEW b \in BOOLEAN, NEW upstream, NotItself(b, upstream), NEW servers \in Seq(STRING)
    PROVE  NotItself(b, MergeUpstream(b, upstream, servers))
<1> DEFINE n == Len(servers)
           merged == CHOOSE f : Merging(f, b, upstream, servers, n)
<1>1. n \in Nat
  OBVIOUS
<1>2. MergeUpstream(b, upstream, servers) = merged[n]
  BY DEF MergeUpstream, Merging
<1>3. Merging(merged, b, upstream, servers, n)
  <2> HIDE DEF n
  <2> QED
    BY <1>1, MergingExists
<1> HIDE DEF merged
<1>4. \A i \in 0..n : merged[i] = IF i = 0 THEN upstream ELSE AddServer(b, merged[i - 1], servers[i])
  BY <1>3 DEF Merging
<1> DEFINE T == {i \in 0..n : ~NotItself(b, merged[i])}
<1>5. ASSUME T # {} PROVE FALSE
  <2>1. T \in SUBSET Nat
    BY <1>1
  <2>2. PICK i \in T : \A k \in T : i <= k
    BY <1>5, <2>1, NatMin
  <2>3. i \in 0..n /\ ~NotItself(b, merged[i])
    BY <2>2
  <2>4. i # 0
    BY <1>1, <1>4, <2>3
  <2>5. i \in 1..n /\ i - 1 \in 0..n /\ i - 1 \notin T
    BY <1>1, <2>2, <2>3, <2>4
  <2>6. NotItself(b, merged[i - 1]) /\ servers[i] \in STRING
    BY <2>5
  <2>7. merged[i] = AddServer(b, merged[i - 1], servers[i])
    BY <1>4, <2>3, <2>4
  <2>8. NotItself(b, AddServer(b, merged[i - 1], servers[i]))
    BY <2>6, AddServerSkipsItself
  <2> QED
    BY <2>3, <2>7, <2>8
<1>6. n \in 0..n
  BY <1>1
<1>7. NotItself(b, merged[n])
  BY <1>5, <1>6
<1> QED
  BY <1>2, <1>7

\* base.go:43-45: so do the configured servers and those of resolv.conf together.
LEMMA UpstreamSkipsItself ==
    ASSUME conf \in Configs
    PROVE  NotItself(conf.bindLocalhost, Upstream)
<1> DEFINE b == conf.bindLocalhost
           first == MergeUpstream(b, <<>>, conf.nameServers)
<1>1. /\ b \in BOOLEAN
      /\ conf.nameServers \in Seq(STRING) /\ conf.resolvServers \in Seq(STRING)
  BY DnsAssumption DEF ConfigsAreWellFormed
<1>2. NotItself(b, <<>>)
  BY DEF NotItself
<1>3. NotItself(b, first)
  <2> HIDE DEF b
  <2> QED
    BY <1>1, <1>2, MergeSkipsItself
<1>4. NotItself(b, MergeUpstream(b, first, conf.resolvServers))
  <2> HIDE DEF b, first
  <2> QED
    BY <1>1, <1>3, MergeSkipsItself
<1> QED
  BY <1>4 DEF Upstream, UpstreamOf

\* base.go:81-86: a sidecar on the loopback address never sends a query to
\* itself, whatever servers the configuration and resolv.conf list.
THEOREM NeverAsksItself == Spec \/ NameSpec => []NoSelfQuery
<1>1. TypeOK => NoSelfQuery
  <2> SUFFICES ASSUME TypeOK, conf.bindLocalhost, NEW s \in Rot!Servers
               PROVE  Upstream[s + 1] # Localhost
    BY DEF NoSelfQuery
  <2>1. NotItself(conf.bindLocalhost, Upstream)
    BY UpstreamSkipsItself DEF TypeOK
  <2>2. Len(Upstream) \in Nat
    BY <2>1 DEF NotItself
  <2>3. s + 1 \in 1..Len(Upstream)
    BY <2>2 DEF Rot!Servers
  <2> QED
    BY <2>1, <2>3 DEF NotItself
<1> QED
  BY <1>1, TypeCorrect, PTL
=============================================================================
