--------------------------- MODULE MeshDirectory ---------------------------
(***************************************************************************)
(* The mesh resolver: a reloader goroutine asks Polaris for the services   *)
(* on every tick and swaps the lookup table when the list changed; query   *)
(* goroutines look a name up twice, as it is and with the sidecar's own    *)
(* namespace appended, loading the table anew each time.                   *)
(***************************************************************************)
EXTENDS Integers, FiniteSets

CONSTANTS
    Services,   \* service.namespace strings Polaris may list
    Hosts,      \* lower case host names, with the trailing dot
    HostOf,     \* the host a service is entered under
    Queries,    \* the queries received
    Names,      \* names a query may ask for
    Matched,    \* the names that end in the configured suffix
    Plain,      \* the host a name is first looked up as
    Qualified,  \* the host of the second lookup, with the own namespace
    MaxChanges  \* bound: changes of the service list

DirectoryIsWellFormed ==
    /\ IsFiniteSet(Services)
    /\ HostOf \in [Services -> Hosts]
    /\ Matched \subseteq Names
    /\ Plain \in [Names -> Hosts] /\ Qualified \in [Names -> Hosts]
    /\ MaxChanges \in Nat
ASSUME DirectoryAssumption == DirectoryIsWellFormed

VARIABLES
    registry,   \* the services Polaris has (external)
    changes,    \* changes made to it
    ctx,        \* is the context of the process cancelled?
    reloader,   \* where the reloader goroutine is
    reply,      \* the list GetServices is about to return to it
    current,    \* its currentServices
    table,      \* the lookup table, stored atomically
    lastReply,  \* history: the list of the last reload that succeeded
    pc,         \* where each query is
    query,      \* what each query asks
    result,     \* what the resolver returned for it
    seen        \* history: the lists in force since its first lookup

reload == <<reloader, reply, current, table, lastReply>>
vars == <<registry, changes, ctx, reload, pc, query, result, seen>>

\* The table has addresses for A questions only (name6 is always empty).
QueryClass == [name : Names, qtype : {"A", "other"}]
Results == {"declined", "records", "empty"}

HostsOf(services) == {HostOf[s] : s \in services}

\* An unknown record type that is answered like an unknown name.
FoundNxdomain(q) == IF query[q].qtype = "A" THEN "records" ELSE "nxdomain"

\* The hosts of a registry entry exist for A questions only; any other question
\* is answered NOERROR without records.
Found(q) == IF query[q].qtype = "A" THEN "records" ELSE "empty"

Init ==
    /\ registry \in SUBSET Services /\ changes = 0
    /\ ctx = "running"
    /\ reloader = "ask" /\ reply = {} /\ current = {} /\ lastReply = {}
    /\ table = [stored |-> FALSE, hosts |-> {}]
    /\ pc = [q \in Queries |-> "idle"]
    /\ query \in [Queries -> QueryClass]
    /\ result = [q \in Queries |-> "none"]
    /\ seen = [q \in Queries |-> {}]

(* Polaris and the process                                                 *)

ChangeRegistry(s) ==
    /\ changes < MaxChanges
    /\ changes' = changes + 1
    /\ registry' = IF s \in registry THEN registry \ {s} ELSE registry \cup {s}
    /\ UNCHANGED <<ctx, reload, pc, query, result, seen>>

CancelContext ==
    /\ ctx = "running"
    /\ ctx' = "cancelled"
    /\ UNCHANGED <<registry, changes, reload, pc, query, result, seen>>

(* The reloader                                                            *)

Tick ==
    /\ reloader = "wait"
    /\ reloader' = "ask"
    /\ UNCHANGED <<registry, changes, ctx, reply, current, table, lastReply,
                   pc, query, result, seen>>

\* A reloader that only listens to its ticker.
IgnoreCancel == FALSE

SeeCancel ==
    /\ reloader = "wait" /\ ctx = "cancelled"
    /\ reloader' = "stopped"
    /\ UNCHANGED <<registry, changes, ctx, reply, current, table, lastReply,
                   pc, query, result, seen>>

\* Polaris reads its list; the answer is on its way.
GetServices ==
    /\ reloader = "ask"
    /\ reloader' = "apply"
    /\ reply' = registry
    /\ UNCHANGED <<registry, changes, ctx, current, table, lastReply,
                   pc, query, result, seen>>

GetServicesFails ==
    /\ reloader \in {"ask", "apply"}
    /\ reloader' = "wait" /\ reply' = {}
    /\ UNCHANGED <<registry, changes, ctx, current, table, lastReply,
                   pc, query, result, seen>>

\* A comparison that stops at the sizes.
SizeChanged(currentServices, newServices) ==
    Cardinality(currentServices) # Cardinality(newServices)

IfServiceListChanged(currentServices, newServices) ==
    \/ Cardinality(currentServices) # Cardinality(newServices)
    \/ /\ Cardinality(currentServices) # 0
       /\ \E s \in currentServices : s \notin newServices

\* An update of the table that readers share, in place and name by name.
UpdateInPlace(services) ==
    table' = [stored |-> TRUE, hosts |-> table.hosts \cup HostsOf(services)]

UpdateLookupTable(services) == table' = [stored |-> TRUE, hosts |-> HostsOf(services)]

\* A doReload that builds the table once.
DoReloadOnce ==
    /\ reloader = "apply"
    /\ reloader' = "wait" /\ reply' = {}
    /\ lastReply' = reply /\ current' = reply
    /\ IF table.stored THEN UNCHANGED table ELSE UpdateLookupTable(reply)
    /\ seen' = [q \in Queries |->
                  IF pc[q] = "second" THEN seen[q] \cup {reply} ELSE seen[q]]
    /\ UNCHANGED <<registry, changes, ctx, pc, query, result>>

DoReload ==
    /\ reloader = "apply"
    /\ reloader' = "wait" /\ reply' = {}
    /\ lastReply' = reply
    /\ IF IfServiceListChanged(current, reply)
       THEN UpdateLookupTable(reply) /\ current' = reply
       ELSE UNCHANGED <<table, current>>
    /\ seen' = [q \in Queries |->
                  IF pc[q] = "second" THEN seen[q] \cup {reply} ELSE seen[q]]
    /\ UNCHANGED <<registry, changes, ctx, pc, query, result>>

(* A query                                                                 *)

Return(q, r) ==
    /\ pc' = [pc EXCEPT ![q] = "end"]
    /\ result' = [result EXCEPT ![q] = r]

\* An empty Load (no table yet) finds no host.
Lookup(host) == host \in table.hosts

\* LocalDNSServer.ServeDNS with the name as it is.
FirstLookup(q) ==
    /\ pc[q] = "idle"
    /\ seen' = [seen EXCEPT ![q] = {lastReply}]
    /\ IF query[q].name \notin Matched THEN Return(q, "declined")
       ELSE IF Lookup(Plain[query[q].name]) THEN Return(q, Found(q))
       ELSE pc' = [pc EXCEPT ![q] = "second"] /\ UNCHANGED result
    /\ UNCHANGED <<registry, changes, ctx, reload, query>>

\* The same with the namespace of the sidecar appended.
SecondLookup(q) ==
    /\ pc[q] = "second"
    /\ Return(q, IF Lookup(Qualified[query[q].name]) THEN Found(q) ELSE "declined")
    /\ UNCHANGED <<registry, changes, ctx, reload, query, seen>>

-----------------------------------------------------------------------------
Stopped == reloader = "stopped" /\ (\A q \in Queries : pc[q] = "end") /\ UNCHANGED vars

Next ==
    \/ \E s \in Services : ChangeRegistry(s)
    \/ CancelContext
    \/ Tick \/ SeeCancel \/ GetServices \/ GetServicesFails \/ DoReload
    \/ \E q \in Queries : FirstLookup(q) \/ SecondLookup(q)
    \/ Stopped

\* The ticker fires, and Polaris answers a reload again and again.
Spec ==
    /\ Init /\ [][Next]_vars
    /\ WF_vars(Tick) /\ SF_vars(SeeCancel)
    /\ WF_vars(GetServices \/ GetServicesFails) /\ SF_vars(DoReload) /\ SF_vars(GetServices)
    /\ \A q \in Queries : WF_vars(FirstLookup(q) \/ SecondLookup(q))

-----------------------------------------------------------------------------
(* Properties                                                              *)

TypeOK ==
    /\ registry \in SUBSET Services
    /\ changes \in 0..MaxChanges
    /\ ctx \in {"running", "cancelled"}
    /\ reloader \in {"ask", "apply", "wait", "stopped"}
    /\ reply \in SUBSET Services
    /\ current \in SUBSET Services
    /\ lastReply \in SUBSET Services
    /\ table \in [stored : BOOLEAN, hosts : SUBSET Hosts]
    /\ pc \in [Queries -> {"idle", "second", "end"}]
    /\ query \in [Queries -> QueryClass]
    /\ result \in [Queries -> Results \cup {"none"}]
    /\ seen \in [Queries -> SUBSET SUBSET Services]

\* Skipping the table when the list seems unchanged never leaves it behind: the
\* table always holds exactly the hosts of the last list Polaris returned, and
\* a failed reload leaves it alone.
TableMatchesLastReply == table.hosts = HostsOf(lastReply)

-----------------------------------------------------------------------------
\* With the last list Polaris returned for the list in force, the table, the
\* comparison of lists and the two lookups are those of a resolver that answers
\* from the list in force: a reload between the two lookups of a query never
\* makes it answer what no list says.
Ideal == INSTANCE MeshAnswers WITH list <- lastReply

ImplementsMeshAnswers == Ideal!Spec

\* So a query gets what both lookups would have returned on one list in force
\* while it ran.  Only a name whose two hosts can both be registered (a service
\* name with a dot) may be declined when the list changes from one of them to
\* the other.
AnswersAreAtomic ==
    \A q \in Queries :
        result[q] # "none" =>
            \/ \E services \in seen[q] : result[q] = Ideal!Promise(q, services)
            \/ /\ result[q] = "declined"
               /\ Plain[query[q].name] # Qualified[query[q].name]
               /\ {Plain[query[q].name], Qualified[query[q].name]} \subseteq HostsOf(Services)

\* Once the service list stays as it is, the table comes to agree with it,
\* unless the process is told to stop.
TableConverges ==
    \/ <>(ctx = "cancelled")
    \/ <>[](table.hosts = HostsOf(registry))

\* The reloader stops after cancellation.
ReloaderStops == ctx = "cancelled" ~> reloader = "stopped"
=============================================================================
