---------------------------- MODULE DnsHandler ----------------------------
(***************************************************************************)
(* The path of a DNS query through the sidecar: resolver.dnsHandler asks   *)
(* each naming resolver in turn and falls back to recursor.Proxy, whose    *)
(* upstream servers are shared by all queries in flight.  Every query runs *)
(* in a goroutine of its own.                                              *)
(***************************************************************************)
EXTENDS Integers, Sequences, SequencesExt

CONSTANTS
    Queries,        \* the queries received
    Localhost,      \* the loopback address
    Configs         \* the configurations the sidecar may be started with:
                    \*   resolvers      the enabled naming resolvers, in their order
                    \*   recurse        recursion configured, /etc/resolv.conf present
                    \*   bindLocalhost  does the sidecar listen on the loopback address?
                    \*   nameServers    the configured upstream servers
                    \*   resolvServers, attempts, search (the search domains):
                    \*                  those of /etc/resolv.conf

ConfigsAreWellFormed ==
    \A c \in Configs :
        /\ c.recurse \in BOOLEAN /\ c.bindLocalhost \in BOOLEAN
        /\ c.attempts \in Nat \ {0}
        /\ Len(c.search) \in Nat /\ Len(c.resolvers) \in Nat
        /\ c.nameServers \in Seq(STRING) /\ c.resolvServers \in Seq(STRING)
ASSUME DnsAssumption == ConfigsAreWellFormed

VARIABLES
    conf,           \* the configuration, fixed at the start
    mu,             \* who holds the mutex of the rotation
    index, uses,    \* the shared rotation
    kind,           \* how each upstream server behaves
    pc,             \* where each query is
    query,          \* what each query asks
    pos,            \* naming resolvers already asked
    todo,           \* exchanges HandleDNS may still try
    asked,          \* history: the upstream servers a query asked
    alone,          \* history: no other query used the rotation meanwhile
    out,            \* how the query ended
    written         \* history: replies written

vars == <<conf, mu, index, uses, kind, pc, query, pos, todo, asked, alone, out, written>>

-----------------------------------------------------------------------------
(* recursor.Config                                                         *)

\* One turn that only leaves out what is listed already.
AddServerOrSelf(bindLocalhost, upstream, server) ==
    IF Contains(upstream, server) THEN upstream ELSE Append(upstream, server)

\* One turn of mergeUpstream: a server not listed yet that is not the sidecar
\* itself (needSkip).
AddServer(bindLocalhost, upstream, server) ==
    IF Contains(upstream, server) \/ (server = Localhost /\ bindLocalhost)
    THEN upstream ELSE Append(upstream, server)

MergeUpstream(bindLocalhost, upstream, servers) ==
    LET merged[i \in 0..Len(servers)] ==
            IF i = 0 THEN upstream ELSE AddServer(bindLocalhost, merged[i - 1], servers[i])
    IN  merged[Len(servers)]

\* InitRecurseConfig: the configured servers come before those of resolv.conf.
UpstreamOf == [c \in Configs |->
    MergeUpstream(c.bindLocalhost,
                  MergeUpstream(c.bindLocalhost, <<>>, c.nameServers), c.resolvServers)]

Upstream == UpstreamOf[conf]

Smaller(a, b) == IF a < b THEN a ELSE b
GetBigger(a, b) == IF a > b THEN a ELSE b

Attempts == GetBigger(conf.attempts, Len(Upstream))

Rot == INSTANCE RotatingUpstream WITH n <- Len(Upstream)

\* Where a query is; from locked to taken it holds the mutex of the rotation.
Places == {"idle", "resolve", "recurse", "next", "locked", "taken", "exchange", "end"}

QueryClass == [qtype : {"none", "addr", "other"}, short : BOOLEAN]

\* expandQuery: a name with fewer dots than ndots is asked only with the search
\* domains appended, any other name only as it is.
Domains(q) == IF query[q].short THEN Len(conf.search) ELSE 1

Resolvers == Len(conf.resolvers)

Init ==
    /\ conf \in Configs
    /\ Rot!RotInit /\ mu = {}
    /\ kind \in [Rot!Servers -> {"good", "lame", "dead"}]
    /\ pc = [q \in Queries |-> "idle"]
    /\ query \in [Queries -> QueryClass]
    /\ pos = [q \in Queries |-> 0]
    /\ todo = [q \in Queries |-> 0]
    /\ asked = [q \in Queries |-> <<>>]
    /\ alone = [q \in Queries |-> TRUE]
    /\ out = [q \in Queries |-> "none"]
    /\ written = [q \in Queries |-> 0]

At(q, from, to) == pc[q] = from /\ pc' = [pc EXCEPT ![q] = to]

Write(q, what) ==
    /\ out' = [out EXCEPT ![q] = what]
    /\ written' = [written EXCEPT ![q] = @ + 1]

\* A recovered panic, or a message that cannot be packed: nothing is written.
Lose(q) ==
    /\ out' = [out EXCEPT ![q] = "lost"]
    /\ UNCHANGED written

Silent == UNCHANGED <<out, written>>

(* ServeDNS                                                                *)

\* A message without a question.  The default acceptance of the DNS library turns
\* such a message away before; the handler guards itself all the same.
Refuse(q) ==
    /\ query[q].qtype = "none"
    /\ At(q, "idle", "end")
    /\ Write(q, "refused")
    /\ UNCHANGED <<conf, mu, index, uses, kind, query, pos, todo, asked, alone>>

Accept(q) ==
    /\ query[q].qtype # "none"
    /\ At(q, "idle", IF query[q].qtype = "addr" THEN "resolve" ELSE "recurse")
    /\ Silent
    /\ UNCHANGED <<conf, mu, index, uses, kind, query, pos, todo, asked, alone>>

\* A resolver loop that goes on after a reply.
AnswerAndGoOn(q) ==
    /\ pos[q] < Resolvers
    /\ At(q, "resolve", "resolve")
    /\ pos' = [pos EXCEPT ![q] = @ + 1]
    /\ Write(q, "answer")
    /\ UNCHANGED <<conf, mu, index, uses, kind, query, todo, asked, alone>>

ResolverAnswers(q) ==
    /\ pos[q] < Resolvers
    /\ At(q, "resolve", "end")
    /\ Write(q, "answer")
    /\ UNCHANGED <<conf, mu, index, uses, kind, query, pos, todo, asked, alone>>

ResolverDeclines(q) ==
    /\ pos[q] < Resolvers
    /\ At(q, "resolve", "resolve")
    /\ pos' = [pos EXCEPT ![q] = @ + 1]
    /\ Silent
    /\ UNCHANGED <<conf, mu, index, uses, kind, query, todo, asked, alone>>

\* dnsagent: a name that begins with "_addr" indexes labels[-1] and panics; an
\* SRV question for an "_addr" name gives a nil record, which cannot be packed.
ResolverLoses(q) ==
    /\ pos[q] < Resolvers
    /\ At(q, "resolve", "end")
    /\ Lose(q)
    /\ UNCHANGED <<conf, mu, index, uses, kind, query, pos, todo, asked, alone>>

FallBack(q) ==
    /\ pos[q] = Resolvers
    /\ At(q, "resolve", "recurse")
    /\ Silent
    /\ UNCHANGED <<conf, mu, index, uses, kind, query, pos, todo, asked, alone>>

(* recursor.Proxy.HandleDNS                                                *)

\* A HandleDNS that gives up after one attempt per domain.
BudgetOneEach(q) == Domains(q)
Budget(q) == Domains(q) * Attempts

\* A nil proxy and a name that expands to nothing both give no response.
BeginRecursion(q) ==
    /\ conf.recurse /\ Domains(q) > 0
    /\ At(q, "recurse", "next")
    /\ todo' = [todo EXCEPT ![q] = Budget(q)]
    /\ Silent
    /\ UNCHANGED <<conf, mu, index, uses, kind, query, pos, asked, alone>>

NoRecursion(q) ==
    /\ ~conf.recurse \/ Domains(q) = 0
    /\ At(q, "recurse", "end")
    /\ Write(q, "servfail")
    /\ UNCHANGED <<conf, mu, index, uses, kind, query, pos, todo, asked, alone>>

Recursing(q) == pc[q] \in {"next", "locked", "taken", "exchange"}

\* A rotation without a mutex to wait for.
LockForgotten(q) ==
    /\ At(q, "next", "locked")
    /\ mu' = {q}
    /\ Silent
    /\ UNCHANGED <<conf, index, uses, kind, query, pos, todo, asked, alone>>

\* rotate.Next waits for the mutex, reads the server at index, and moves index on
\* before the mutex is free again.
LockRotation(q) ==
    /\ mu = {}
    /\ At(q, "next", "locked")
    /\ mu' = {q}
    /\ Silent
    /\ UNCHANGED <<conf, index, uses, kind, query, pos, todo, asked, alone>>

ReadServer(q) ==
    /\ Len(Upstream) > 0
    /\ At(q, "locked", "taken")
    /\ asked' = [asked EXCEPT ![q] = Append(@, index)]
    /\ Silent
    /\ UNCHANGED <<conf, mu, index, uses, kind, query, pos, todo, alone>>

AdvanceRotation(q) ==
    /\ At(q, "taken", "exchange")
    /\ index' = Rot!Successor
    /\ uses' = [uses EXCEPT ![Last(asked[q])] = @ + 1]
    /\ alone' = [p \in Queries |-> alone[p] /\ (p = q \/ ~Recursing(p))]
    /\ mu' = {}
    /\ Silent
    /\ UNCHANGED <<conf, kind, query, pos, todo, asked>>

\* servers[0] of an empty list panics; the deferred Unlock runs, ServeDNS recovers
\* and writes nothing.
NoUpstream(q) ==
    /\ Len(Upstream) = 0
    /\ At(q, "locked", "end")
    /\ mu' = {}
    /\ Lose(q)
    /\ UNCHANGED <<conf, index, uses, kind, query, pos, todo, asked, alone>>

\* NOERROR, NXDOMAIN or a truncated response is passed on.
ExchangeAccepted(q) ==
    /\ At(q, "exchange", "end")
    /\ kind[Last(asked[q])] = "good"
    /\ Write(q, "answer")
    /\ UNCHANGED <<conf, mu, index, uses, kind, query, pos, todo, asked, alone>>

\* A server asked again until it accepts, instead of the next one.
RetrySameServer(q) ==
    /\ At(q, "exchange", "exchange")
    /\ kind[Last(asked[q])] # "good"
    /\ Silent
    /\ UNCHANGED <<conf, mu, index, uses, kind, query, pos, todo, asked, alone>>

\* A loop that looks for the end of its attempts one time too late.
RejectPastLast(q) ==
    /\ At(q, "exchange", "next")
    /\ kind[Last(asked[q])] # "good"
    /\ todo' = [todo EXCEPT ![q] = @ - 1]
    /\ Silent
    /\ UNCHANGED <<conf, mu, index, uses, kind, query, pos, asked, alone>>

\* An error (dead) or any other response code (lame): the next attempt, then
\* the next domain.
ExchangeRejected(q) ==
    /\ At(q, "exchange", "next")
    /\ kind[Last(asked[q])] # "good" /\ todo[q] > 1
    /\ todo' = [todo EXCEPT ![q] = @ - 1]
    /\ Silent
    /\ UNCHANGED <<conf, mu, index, uses, kind, query, pos, asked, alone>>

GiveUp(q) ==
    /\ At(q, "exchange", "end")
    /\ kind[Last(asked[q])] # "good" /\ todo[q] = 1
    /\ todo' = [todo EXCEPT ![q] = 0]
    /\ Write(q, "servfail")
    /\ UNCHANGED <<conf, mu, index, uses, kind, query, pos, asked, alone>>

-----------------------------------------------------------------------------
Step(q) ==
    \/ Refuse(q) \/ Accept(q)
    \/ ResolverAnswers(q) \/ ResolverDeclines(q) \/ ResolverLoses(q) \/ FallBack(q)
    \/ BeginRecursion(q) \/ NoRecursion(q)
    \/ LockRotation(q) \/ ReadServer(q) \/ AdvanceRotation(q) \/ NoUpstream(q)
    \/ ExchangeAccepted(q) \/ ExchangeRejected(q) \/ GiveUp(q)

AllEnded == (\A q \in Queries : pc[q] = "end") /\ UNCHANGED vars

Next == (\E q \in Queries : Step(q)) \/ AllEnded

\* Every goroutine runs; exchanges and Polaris lookups have timeouts.
Spec == Init /\ [][Next]_vars /\ \A q \in Queries : WF_vars(Step(q))

-----------------------------------------------------------------------------
(* Properties                                                              *)

TypeOK ==
    /\ conf \in Configs
    /\ Rot!RotTypeOK /\ mu \subseteq Queries
    /\ kind \in [Rot!Servers -> {"good", "lame", "dead"}]
    /\ pc \in [Queries -> Places]
    /\ query \in [Queries -> QueryClass]
    /\ pos \in [Queries -> 0..Resolvers]
    /\ todo \in [Queries -> 0..(Attempts * GetBigger(Len(conf.search), 1))]
    /\ asked \in [Queries -> Seq(Rot!Servers)]
    /\ alone \in [Queries -> BOOLEAN]
    /\ out \in [Queries -> {"none", "refused", "answer", "servfail", "lost"}]
    /\ written \in [Queries -> Nat]

\* A query that has ended got exactly one reply, unless a panic or a record
\* that cannot be packed left it without any; none gets a second one.
OneReply ==
    \A q \in Queries :
        written[q] = IF pc[q] = "end" /\ out[q] # "lost" THEN 1 ELSE 0

\* The rotation covers every server in as many steps as there are servers and a
\* query has at least that many attempts (getBigger), so a query that had the
\* rotation for itself does not end in SERVFAIL while an upstream is good.
AloneReachesGood ==
    \A q \in Queries :
        /\ out[q] = "servfail" /\ conf.recurse /\ Domains(q) > 0 /\ alone[q]
        => \A s \in Rot!Servers : kind[s] # "good"

\* Recursion loses a query only when there is no upstream at all: otherwise it
\* ends in an answer or in SERVFAIL, and an answer came from a good server.
RecursionIsAnswered ==
    \A q \in Queries :
        asked[q] # <<>> /\ pc[q] = "end" =>
            IF out[q] = "answer" THEN kind[Last(asked[q])] = "good"
            ELSE out[q] = "servfail" /\ Len(asked[q]) >= Attempts

\* With the sidecar on the loopback address, no query is sent back to it.
NoSelfQuery ==
    conf.bindLocalhost => \A s \in Rot!Servers : uses[s] > 0 => Upstream[s + 1] # Localhost

\* Next is atomic though it reads and moves index in steps of its own: the queries
\* in flight together get the servers in turn, as RotatingUpstream hands them out,
\* and no turn of one is lost to another.
ImplementsRotation == Rot!RotSpec

\* Every query comes to an end.
EveryQueryEnds == \A q \in Queries : <>(pc[q] = "end")
=============================================================================
