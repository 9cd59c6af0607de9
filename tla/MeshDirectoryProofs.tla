------------------------ MODULE MeshDirectoryProofs ------------------------
(* The mesh resolver for any services, names and number of queries.         *)
EXTENDS MeshDirectory, FiniteSetTheorems, TLAPS

\* plugin.go:162-175: comparing the sizes and then looking for a service that is
\* gone decides whether the two lists differ at all.
LEMMA ComparisonIsExact ==
    ASSUME NEW c, NEW d, IsFiniteSet(c), IsFiniteSet(d)
    PROVE  IfServiceListChanged(c, d) <=> c # d
<1>1. ASSUME c # d, ~IfServiceListChanged(c, d) PROVE FALSE
  <2>1. /\ Cardinality(c) = Cardinality(d)
        /\ Cardinality(c) # 0 => c \subseteq d
    BY <1>1 DEF IfServiceListChanged
  <2>2. CASE Cardinality(c) = 0
    BY <1>1, <2>1, <2>2, FS_EmptySet
  <2>3. CASE Cardinality(c) # 0
    <3>1. c \in SUBSET d
      BY <2>1, <2>3
    <3> QED
      BY <1>1, <2>1, <3>1, FS_Subset
  <2> QED
    BY <2>2, <2>3
<1>2. ASSUME c = d PROVE ~IfServiceListChanged(c, d)
  BY <1>2 DEF IfServiceListChanged
<1> QED
  BY <1>1, <1>2

LEMMA HostsAreHosts ==
    ASSUME NEW services \in SUBSET Services
    PROVE  HostsOf(services) \in SUBSET Hosts
BY DirectoryAssumption DEF DirectoryIsWellFormed, HostsOf

LEMMA ResultsOfLookups ==
    ASSUME NEW q
    PROVE  Found(q) \in Results
BY DEF Found, Results

-----------------------------------------------------------------------------
\* Type correctness.
THEOREM TypeCorrect == Spec => []TypeOK
<1>1. Init => TypeOK
  BY DirectoryAssumption DEF Init, TypeOK, DirectoryIsWellFormed
<1>2. TypeOK /\ [Next]_vars => TypeOK'
  <2> SUFFICES ASSUME TypeOK, [Next]_vars PROVE TypeOK'
    OBVIOUS
  <2>1. ASSUME NEW s \in Services, ChangeRegistry(s) PROVE TypeOK'
    <3>1. changes' \in 0..MaxChanges
      BY <2>1, DirectoryAssumption DEF ChangeRegistry, TypeOK, DirectoryIsWellFormed
    <3>2. registry' \in SUBSET Services
      BY <2>1 DEF ChangeRegistry, TypeOK
    <3> QED
      BY <2>1, <3>1, <3>2 DEF ChangeRegistry, TypeOK, reload
  <2>2. CASE CancelContext
    BY <2>2 DEF CancelContext, TypeOK, reload
  <2>3. CASE Tick
    BY <2>3 DEF Tick, TypeOK
  <2>4. CASE SeeCancel
    BY <2>4 DEF SeeCancel, TypeOK
  <2>5. CASE GetServices
    BY <2>5 DEF GetServices, TypeOK
  <2>6. CASE GetServicesFails
    BY <2>6 DEF GetServicesFails, TypeOK
  <2>7. CASE DoReload
    <3>1. reply \in SUBSET Services /\ HostsOf(reply) \in SUBSET Hosts
      BY HostsAreHosts DEF TypeOK
    <3>2. table' \in [stored : BOOLEAN, hosts : SUBSET Hosts] /\ current' \in SUBSET Services
      <4>1. CASE IfServiceListChanged(current, reply)
        <5>1. table' = [stored |-> TRUE, hosts |-> HostsOf(reply)] /\ current' = reply
          BY <2>7, <4>1, Zenon DEF DoReload, UpdateLookupTable
        <5> QED
          BY <3>1, <5>1
      <4>2. CASE ~IfServiceListChanged(current, reply)
        <5>1. table' = table /\ current' = current
          BY <2>7, <4>2, Zenon DEF DoReload
        <5> QED
          BY <5>1 DEF TypeOK
      <4> QED
        BY <4>1, <4>2
    <3>3. seen' \in [Queries -> SUBSET SUBSET Services]
      BY <2>7, <3>1 DEF DoReload, TypeOK
    <3>4. /\ lastReply' \in SUBSET Services /\ reply' \in SUBSET Services
          /\ reloader' = "wait"
          /\ UNCHANGED <<registry, changes, ctx, pc, query, result>>
      BY <2>7, <3>1 DEF DoReload
    <3> QED
      BY <3>2, <3>3, <3>4 DEF TypeOK
  <2>8. ASSUME NEW q \in Queries, FirstLookup(q) PROVE TypeOK'
    <3>1. pc' \in [Queries -> {"idle", "second", "end"}]
      BY <2>8 DEF FirstLookup, Return, TypeOK
    <3>2. result' \in [Queries -> Results \cup {"none"}]
      BY <2>8, ResultsOfLookups DEF FirstLookup, Return, TypeOK, Results
    <3>3. seen' \in [Queries -> SUBSET SUBSET Services]
      BY <2>8 DEF FirstLookup, TypeOK
    <3> QED
      BY <2>8, <3>1, <3>2, <3>3 DEF FirstLookup, TypeOK, reload
  <2>9. ASSUME NEW q \in Queries, SecondLookup(q) PROVE TypeOK'
    <3>1. pc' \in [Queries -> {"idle", "second", "end"}]
      BY <2>9 DEF SecondLookup, Return, TypeOK
    <3>2. result' \in [Queries -> Results \cup {"none"}]
      BY <2>9, ResultsOfLookups DEF SecondLookup, Return, TypeOK, Results
    <3> QED
      BY <2>9, <3>1, <3>2 DEF SecondLookup, TypeOK, reload
  <2>10. CASE UNCHANGED vars
    BY <2>10 DEF vars, reload, TypeOK
  <2> QED
    BY <2>1, <2>2, <2>3, <2>4, <2>5, <2>6, <2>7, <2>8, <2>9, <2>10 DEF Next, Stopped
<1> QED
  BY <1>1, <1>2, PTL DEF Spec

-----------------------------------------------------------------------------
\* The list the reloader compares with is the one the table was built from, and
\* the last one Polaris returned, although an unchanged reply is dropped.
TableInv == current = lastReply /\ table.hosts = HostsOf(lastReply)

LEMMA TableInvariant == Spec => []TableInv
<1>1. Init => TableInv
  BY DEF Init, TableInv, HostsOf
<1>2. TypeOK /\ TableInv /\ [Next]_vars => TableInv'
  <2> SUFFICES ASSUME TypeOK, TableInv, [Next]_vars PROVE TableInv'
    OBVIOUS
  <2>1. CASE DoReload
    <3>1. IsFiniteSet(current) /\ IsFiniteSet(reply)
      BY DirectoryAssumption, FS_Subset DEF TypeOK, DirectoryIsWellFormed
    <3>2. CASE current # reply
      BY <2>1, <3>1, <3>2, ComparisonIsExact
      DEF DoReload, UpdateLookupTable, TableInv, HostsOf, TypeOK
    <3>3. CASE current = reply
      BY <2>1, <3>1, <3>3, ComparisonIsExact DEF DoReload, TableInv, HostsOf
    <3> QED
      BY <3>2, <3>3
  <2>2. CASE UNCHANGED <<current, table, lastReply>>
    BY <2>2 DEF TableInv, HostsOf
  <2>3. [Next]_vars /\ ~DoReload => UNCHANGED <<current, table, lastReply>>
    BY DEF Next, vars, reload, ChangeRegistry, CancelContext, Tick, SeeCancel, GetServices,
           GetServicesFails, FirstLookup, SecondLookup, Stopped
  <2> QED
    BY <2>1, <2>2, <2>3
<1> QED
  BY <1>1, <1>2, TypeCorrect, PTL DEF Spec

\* plugin.go:149-160: the table is never behind the last list.
THEOREM TableNeverBehind == Spec => []TableMatchesLastReply
<1>1. TableInv => TableMatchesLastReply
  BY DEF TableInv, TableMatchesLastReply
<1> QED
  BY <1>1, TableInvariant, PTL

-----------------------------------------------------------------------------
\* Between its two lookups a query has seen a list without its plain host, and
\* every list in force since; nothing is returned before a query ends.
LookupInv ==
    /\ TypeOK /\ TableInv
    /\ \A q \in Queries :
          pc[q] = "second" =>
              /\ query[q].name \in Matched
              /\ lastReply \in seen[q]
              /\ \E services \in seen[q] : Plain[query[q].name] \notin HostsOf(services)

LEMMA LookupInvariant == Spec => []LookupInv
<1>1. Init => LookupInv
  <2> SUFFICES ASSUME Init PROVE LookupInv
    OBVIOUS
  <2>1. TypeOK
    BY DirectoryAssumption DEF Init, TypeOK, DirectoryIsWellFormed
  <2>2. TableInv /\ \A q \in Queries : pc[q] = "idle"
    BY DEF Init, TableInv, HostsOf
  <2> QED
    BY <2>1, <2>2 DEF LookupInv
<1>2. LookupInv /\ TypeOK' /\ TableInv' /\ [Next]_vars => LookupInv'
  <2> SUFFICES ASSUME LookupInv, TypeOK', TableInv', [Next]_vars PROVE LookupInv'
    OBVIOUS
  <2>1. CASE UNCHANGED <<lastReply, pc, query, seen>>
    BY <2>1 DEF LookupInv, HostsOf
  <2>2. CASE DoReload
    <3>1. pc' = pc /\ query' = query /\ lastReply' = reply
      BY <2>2 DEF DoReload
    <3>2. \A q \in Queries : pc[q] = "second" => seen'[q] = seen[q] \cup {reply}
      BY <2>2 DEF DoReload
    <3> QED
      BY <3>1, <3>2 DEF LookupInv, HostsOf
  <2>3. ASSUME NEW q \in Queries, FirstLookup(q) PROVE LookupInv'
    <3>1. query' = query /\ lastReply' = lastReply
      BY <2>3 DEF FirstLookup, reload
    <3>2. \A p \in Queries \ {q} : pc'[p] = pc[p] /\ seen'[p] = seen[p]
      BY <2>3 DEF FirstLookup, Return, LookupInv, TypeOK
    <3>3. pc'[q] = "second" =>
             /\ query[q].name \in Matched /\ seen'[q] = {lastReply}
             /\ Plain[query[q].name] \notin HostsOf(lastReply)
      BY <2>3 DEF FirstLookup, Return, Lookup, LookupInv, TypeOK, TableInv
    <3> QED
      BY <3>1, <3>2, <3>3 DEF LookupInv, HostsOf
  <2>4. ASSUME NEW q \in Queries, SecondLookup(q) PROVE LookupInv'
    <3>1. query' = query /\ lastReply' = lastReply /\ seen' = seen
      BY <2>4 DEF SecondLookup, reload
    <3>2. pc'[q] = "end" /\ \A p \in Queries \ {q} : pc'[p] = pc[p]
      BY <2>4 DEF SecondLookup, Return, LookupInv, TypeOK
    <3> QED
      BY <3>1, <3>2 DEF LookupInv, HostsOf
  <2>5. \/ UNCHANGED <<lastReply, pc, query, seen>>
        \/ DoReload
        \/ \E q \in Queries : FirstLookup(q) \/ SecondLookup(q)
    BY DEF Next, vars, reload, ChangeRegistry, CancelContext, Tick, SeeCancel, GetServices,
           GetServicesFails, Stopped
  <2> QED
    BY <2>1, <2>2, <2>3, <2>4, <2>5
<1> QED
  BY <1>1, <1>2, TypeCorrect, TableInvariant, PTL DEF Spec

-----------------------------------------------------------------------------
(* The refinement, step by step                                            *)

\* plugin.go:96-105: the first lookup answers what the list in force promises, or
\* only notes that the query has come.
LEMMA FirstLookupStep ==
    ASSUME LookupInv, NEW q \in Queries, FirstLookup(q)
    PROVE  Ideal!Arrive(q) \/ Ideal!Answer(q)
<1> DEFINE name == query[q].name
<1>1. /\ pc[q] = "idle" /\ query' = query /\ lastReply' = lastReply
      /\ seen' = [seen EXCEPT ![q] = {lastReply}] /\ seen'[q] = {lastReply}
  BY DEF FirstLookup, reload, LookupInv, TypeOK
<1>2. table.hosts = HostsOf(lastReply) /\ HostsOf(lastReply) = Ideal!HostsOf(lastReply)
  BY DEF LookupInv, TableInv, HostsOf, Ideal!HostsOf
<1>3. CASE name \in Matched /\ ~Lookup(Plain[name])
  <2>1. pc' = [pc EXCEPT ![q] = "second"] /\ UNCHANGED result
    BY <1>3 DEF FirstLookup
  <2> QED
    BY <1>1, <2>1 DEF Ideal!Arrive
<1>4. CASE name \notin Matched \/ Lookup(Plain[name])
  <2> DEFINE r == IF name \notin Matched THEN "declined" ELSE Found(q)
  <2>1. Return(q, r)
    BY <1>4 DEF FirstLookup
  <2>2. r = Ideal!Promise(q, lastReply)
    BY <1>2, <1>4 DEF Ideal!Promise, Lookup, Found
  <2>3. r \in {"declined", "records", "empty"}
    BY DEF Found
  <2> HIDE DEF r
  <2>4. Ideal!MayReturn(q, r, {lastReply})
    BY <2>2 DEF Ideal!MayReturn
  <2>5. /\ pc[q] # "end" /\ pc' = [pc EXCEPT ![q] = "end"]
        /\ seen' = [seen EXCEPT ![q] = IF pc[q] = "idle" THEN {lastReply} ELSE @]
        /\ UNCHANGED <<lastReply, query>>
    BY <1>1, <2>1 DEF Return
  <2>6. Ideal!MayReturn(q, r, seen'[q]) /\ result' = [result EXCEPT ![q] = r]
    BY <1>1, <2>1, <2>4 DEF Return
  <2> QED
    BY <2>3, <2>5, <2>6 DEF Ideal!Answer
<1> QED
  BY <1>3, <1>4

\* plugin.go:105-113: the second lookup answers what the list in force promises,
\* or finds that the qualified host is missing now as the plain one was before.
LEMMA SecondLookupStep ==
    ASSUME LookupInv, NEW q \in Queries, SecondLookup(q)
    PROVE  Ideal!Answer(q)
<1> DEFINE name == query[q].name
           r == IF Lookup(Qualified[name]) THEN Found(q) ELSE "declined"
<1>1. pc[q] = "second" /\ Return(q, r) /\ UNCHANGED <<lastReply, query, seen>>
  BY DEF SecondLookup, reload
<1>2. \A services : HostsOf(services) = Ideal!HostsOf(services)
  BY DEF HostsOf, Ideal!HostsOf
<1>3. /\ table.hosts = HostsOf(lastReply) /\ name \in Matched /\ lastReply \in seen[q]
      /\ \E services \in seen[q] : Plain[name] \notin HostsOf(services)
  BY <1>1 DEF LookupInv, TableInv
<1>4. Ideal!MayReturn(q, r, seen[q])
  <2>1. CASE Lookup(Qualified[name])
    <3>1. r = Ideal!Promise(q, lastReply)
      BY <1>2, <1>3, <2>1 DEF Lookup, Found, Ideal!Promise
    <3> QED
      BY <1>3, <3>1 DEF Ideal!MayReturn
  <2>2. CASE ~Lookup(Qualified[name])
    <3>1. r = "declined" /\ Ideal!BothMissing(q, seen[q])
      BY <1>2, <1>3, <2>2 DEF Lookup, Ideal!BothMissing
    <3> QED
      BY <3>1 DEF Ideal!MayReturn
  <2> QED
    BY <2>1, <2>2
<1>5. r \in {"declined", "records", "empty"}
  BY DEF Found
<1> HIDE DEF r
<1>6. seen' = [seen EXCEPT ![q] = IF pc[q] = "idle" THEN {lastReply} ELSE @]
  BY <1>1 DEF LookupInv, TypeOK
<1> QED
  BY <1>1, <1>4, <1>5, <1>6 DEF Return, Ideal!Answer

\* plugin.go:149-160: a reload that succeeds puts the list of Polaris in force,
\* whether or not the table is built anew.
LEMMA DoReloadStep ==
    ASSUME LookupInv, DoReload
    PROVE  \E services \in SUBSET Services : Ideal!NewList(services)
<1>1. reply \in SUBSET Services
  BY DEF LookupInv, TypeOK
<1>2. Ideal!NewList(reply)
  BY DEF DoReload, Ideal!NewList
<1> QED
  BY <1>1, <1>2

LEMMA IdealStep ==
    ASSUME LookupInv, [Next]_vars
    PROVE  [Ideal!Next]_(Ideal!answerVars)
<1>1. CASE DoReload
  BY <1>1, DoReloadStep DEF Ideal!Next
<1>2. ASSUME NEW q \in Queries, FirstLookup(q) \/ SecondLookup(q)
      PROVE  Ideal!Next
  BY <1>2, FirstLookupStep, SecondLookupStep DEF Ideal!Next
<1>3. CASE UNCHANGED <<lastReply, pc, query, result, seen>>
  BY <1>3 DEF Ideal!answerVars
<1>4. \/ UNCHANGED <<lastReply, pc, query, result, seen>>
      \/ DoReload
      \/ \E q \in Queries : FirstLookup(q) \/ SecondLookup(q)
  BY DEF Next, vars, reload, ChangeRegistry, CancelContext, Tick, SeeCancel, GetServices,
         GetServicesFails, Stopped
<1> QED
  BY <1>1, <1>2, <1>3, <1>4

\* plugin.go:96-175: the reloader, the comparison of lists, the table and the two
\* lookups are together a resolver that answers from the list in force, whatever
\* the services, the names and the number of queries.
THEOREM RefinesMeshAnswers == Spec => ImplementsMeshAnswers
<1>1. Init => Ideal!Init
  BY DEF Init, Ideal!Init, QueryClass
<1>2. LookupInv /\ [Next]_vars => [Ideal!Next]_(Ideal!answerVars)
  BY IdealStep
<1> QED
  BY <1>1, <1>2, LookupInvariant, PTL DEF Spec, ImplementsMeshAnswers, Ideal!Spec

-----------------------------------------------------------------------------
(* What follows for the queries                                            *)

\* Of a resolver that answers from the list in force: what it returned is what
\* it may return on the lists the query has seen.
ReturnsAllowed ==
    \A q \in Queries :
        /\ pc[q] # "end" => result[q] = "none"
        /\ result[q] # "none" => Ideal!MayReturn(q, result[q], seen[q])

LEMMA IdealReturns ==
    ASSUME TypeOK, ReturnsAllowed, [Ideal!Next]_(Ideal!answerVars)
    PROVE  ReturnsAllowed'
<1>1. query' = query
  BY DEF Ideal!Next, Ideal!answerVars, Ideal!NewList, Ideal!Arrive, Ideal!Answer
<1>2. ASSUME NEW q \in Queries, pc'[q] = pc[q], result'[q] = result[q],
             result[q] # "none" => seen'[q] = seen[q]
      PROVE  /\ pc'[q] # "end" => result'[q] = "none"
             /\ result'[q] # "none" => Ideal!MayReturn(q, result[q], seen[q])'
  BY <1>1, <1>2 DEF ReturnsAllowed, Ideal!MayReturn, Ideal!Promise, Ideal!BothMissing,
     Ideal!HostsOf
<1>3. CASE UNCHANGED Ideal!answerVars
  BY <1>2, <1>3 DEF ReturnsAllowed, Ideal!answerVars
<1>4. ASSUME NEW services \in SUBSET Services, Ideal!NewList(services)
      PROVE  ReturnsAllowed'
  <2>1. \A q \in Queries : result[q] # "none" => seen'[q] = seen[q]
    BY <1>4 DEF Ideal!NewList, ReturnsAllowed
  <2> QED
    BY <1>2, <1>4, <2>1 DEF Ideal!NewList, ReturnsAllowed
<1>5. ASSUME NEW p \in Queries, Ideal!Arrive(p) PROVE ReturnsAllowed'
  <2>1. \A q \in Queries \ {p} : pc'[q] = pc[q] /\ seen'[q] = seen[q] /\ result'[q] = result[q]
    BY <1>5 DEF Ideal!Arrive, TypeOK
  <2>2. result'[p] = "none"
    BY <1>5 DEF Ideal!Arrive, ReturnsAllowed
  <2> QED
    BY <1>2, <2>1, <2>2 DEF ReturnsAllowed
<1>6. ASSUME NEW p \in Queries, Ideal!Answer(p) PROVE ReturnsAllowed'
  <2>1. \A q \in Queries \ {p} : pc'[q] = pc[q] /\ seen'[q] = seen[q] /\ result'[q] = result[q]
    BY <1>6 DEF Ideal!Answer, TypeOK
  <2>2. pc'[p] = "end" /\ Ideal!MayReturn(p, result'[p], seen'[p])
    BY <1>6 DEF Ideal!Answer, TypeOK
  <2>3. Ideal!MayReturn(p, result[p], seen[p])'
    BY <1>1, <2>2 DEF Ideal!MayReturn, Ideal!Promise, Ideal!BothMissing, Ideal!HostsOf
  <2> QED
    BY <1>2, <2>1, <2>2, <2>3 DEF ReturnsAllowed
<1> QED
  BY <1>3, <1>4, <1>5, <1>6 DEF Ideal!Next

\* Two lists that make a query be declined together: one of them does so alone,
\* or each of them has the host that the other lacks.
LEMMA DeclinedTogether ==
    ASSUME NEW q \in Queries, NEW lists \in SUBSET SUBSET Services, Ideal!BothMissing(q, lists)
    PROVE  \/ \E services \in lists : Ideal!Promise(q, services) = "declined"
           \/ /\ Plain[query[q].name] # Qualified[query[q].name]
              /\ {Plain[query[q].name], Qualified[query[q].name]} \subseteq HostsOf(Services)
<1> DEFINE plain == Plain[query[q].name]
           qualified == Qualified[query[q].name]
<1>1. \A services \in lists : Ideal!HostsOf(services) \subseteq HostsOf(Services)
  BY DEF HostsOf, Ideal!HostsOf
<1>2. PICK c \in lists : plain \notin Ideal!HostsOf(c)
  BY DEF Ideal!BothMissing
<1>3. PICK d \in lists : qualified \notin Ideal!HostsOf(d)
  BY DEF Ideal!BothMissing
<1>4. CASE qualified \notin Ideal!HostsOf(c)
  BY <1>2, <1>4 DEF Ideal!Promise
<1>5. CASE plain \notin Ideal!HostsOf(d)
  BY <1>3, <1>5 DEF Ideal!Promise
<1>6. CASE qualified \in Ideal!HostsOf(c) /\ plain \in Ideal!HostsOf(d)
  BY <1>1, <1>2, <1>6
<1> QED
  BY <1>4, <1>5, <1>6

\* plugin.go:96-114: although the two lookups of a query load the table apart, a
\* reload between them changes no answer, whatever the services and the names,
\* except for a name that has two hosts to be registered.  It follows from what
\* the resolver implements.
THEOREM AnswersAtomic == Spec => []AnswersAreAtomic
<1>1. Ideal!Init => ReturnsAllowed
  BY DEF Ideal!Init, ReturnsAllowed
<1>2. TypeOK /\ ReturnsAllowed /\ [Ideal!Next]_(Ideal!answerVars) => ReturnsAllowed'
  BY IdealReturns
<1>3. TypeOK /\ ReturnsAllowed => AnswersAreAtomic
  <2> SUFFICES ASSUME TypeOK, NEW q \in Queries, Ideal!MayReturn(q, result[q], seen[q])
               PROVE  \/ \E services \in seen[q] : result[q] = Ideal!Promise(q, services)
                      \/ /\ result[q] = "declined"
                         /\ Plain[query[q].name] # Qualified[query[q].name]
                         /\ {Plain[query[q].name], Qualified[query[q].name]}
                               \subseteq HostsOf(Services)
    BY DEF ReturnsAllowed, AnswersAreAtomic
  <2>1. seen[q] \in SUBSET SUBSET Services
    BY DEF TypeOK
  <2> QED
    BY <2>1, DeclinedTogether DEF Ideal!MayReturn
<1> QED
  BY <1>1, <1>2, <1>3, RefinesMeshAnswers, TypeCorrect, PTL DEF ImplementsMeshAnswers, Ideal!Spec
=============================================================================
