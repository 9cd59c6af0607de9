---------------------------- MODULE MeshAnswers ----------------------------
(***************************************************************************)
(* What the mesh resolver promises, whatever its reloader, its table and   *)
(* its two lookups do: it answers from the list of services in force.  A   *)
(* query that takes time may be answered from any list in force since it   *)
(* came; it is declined when one of them lacked the host of its name and   *)
(* one of them, not always the same, the host of its qualified name.       *)
(***************************************************************************)
CONSTANTS Services, HostOf, Queries, Names, Matched, Plain, Qualified

VARIABLES
    list,       \* the services in force
    pc,         \* where each query is
    query,      \* what each query asks
    result,     \* what the resolver returned for it
    seen        \* the lists in force since it came

answerVars == <<list, pc, query, result, seen>>

HostsOf(services) == {HostOf[s] : s \in services}

\* The result that one list gives.
Promise(q, services) ==
    IF query[q].name \notin Matched
       \/ {Plain[query[q].name], Qualified[query[q].name]} \cap HostsOf(services) = {}
    THEN "declined"
    ELSE IF query[q].qtype = "A" THEN "records" ELSE "empty"

\* The two hosts of a name are missing, but perhaps not from the same list.
BothMissing(q, lists) ==
    /\ \E services \in lists : Plain[query[q].name] \notin HostsOf(services)
    /\ \E services \in lists : Qualified[query[q].name] \notin HostsOf(services)

MayReturn(q, r, lists) ==
    \/ \E services \in lists : r = Promise(q, services)
    \/ r = "declined" /\ BothMissing(q, lists)

Init ==
    /\ list = {}
    /\ pc = [q \in Queries |-> "idle"]
    /\ query \in [Queries -> [name : Names, qtype : {"A", "other"}]]
    /\ result = [q \in Queries |-> "none"]
    /\ seen = [q \in Queries |-> {}]

NewList(services) ==
    /\ list' = services
    /\ seen' = [q \in Queries |->
                  IF pc[q] = "second" THEN seen[q] \cup {services} ELSE seen[q]]
    /\ UNCHANGED <<pc, query, result>>

\* A query that the list in force does not answer at once.
Arrive(q) ==
    /\ pc[q] = "idle"
    /\ pc' = [pc EXCEPT ![q] = "second"]
    /\ seen' = [seen EXCEPT ![q] = {list}]
    /\ UNCHANGED <<list, query, result>>

Answer(q) ==
    /\ pc[q] # "end"
    /\ pc' = [pc EXCEPT ![q] = "end"]
    /\ seen' = [seen EXCEPT ![q] = IF pc[q] = "idle" THEN {list} ELSE @]
    /\ \E r \in {"declined", "records", "empty"} :
          MayReturn(q, r, seen'[q]) /\ result' = [result EXCEPT ![q] = r]
    /\ UNCHANGED <<list, query>>

Next ==
    \/ \E services \in SUBSET Services : NewList(services)
    \/ \E q \in Queries : Arrive(q) \/ Answer(q)

Spec == Init /\ [][Next]_answerVars
=============================================================================
