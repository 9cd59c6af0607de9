# polaris-sidecar in TLA+

polaris-sidecar runs beside an application: it answers DNS questions from the
Polaris registry, and in mesh mode serves Envoy with certificates (SDS), rate
limits (RLS) and call metrics. This directory holds TLA+ modules of its core,
the TLC configurations that check them on small instances, and proofs that TLAPS
checks for every value of the constants. `PROJECT.json` ties each definition to
the lines it models, lists the runs, the mutants that show each property can
fail, the hazards the properties are for, the findings and the theorems.

    tlc -workers 2 -config DnsHandler.cfg MCDnsHandler    # one run
    tlapm SidecarLifecycleProofs.tla                      # one proof module

## 1. Inventory: the system's parts

| Part (source) | State it keeps | Operations | Interacts with | What makes it correct |
|---|---|---|---|---|
| Bootstrap (`bootstrap/entry.go`, `agent.go`) | context, error channel, WaitGroup | Start, runMainLoop, runServices | starts all services, reads their errors | a failure ends the process, a shutdown ends, a graceful one waited for the services |
| Configuration (`bootstrap/config`) | SidecarConfig | merge file, environment, flags; verify; build the services | every service | priority of the sources; runs what they ask for; which files break the start |
| Debug server (`debugger`) | http server | Run, Destroy | bootstrap | Destroy closes the listener |
| DNS server (`resolver/server.go`) | two listeners, the resolvers | Run, Destroy | resolvers, SDK context | one working set of listeners, resolvers destroyed last |
| DNS handler (`resolver/handler.go`) | none, one goroutine per query | ServeDNS | resolvers in turn, then the recursor | one reply per query |
| Recursor (`recursor`) | upstream list, shared rotation | HandleDNS, Next | upstream servers | a good server is found, its answer reaches the client as it is, the sidecar does not ask itself |
| dnsagent (`resolver/dnsagent`) | options | ServeDNS | Polaris GetOneInstance, SRV clients that ask for the target | the address of the service that was named, and of no other |
| Mesh resolver (`resolver/meshproxy`) | lookup table, current list | reload on a ticker, ServeDNS | Polaris GetServices, queries | the table follows the registry, answers are consistent |
| Metrics server (`mesh/metrics`) | last readings, cleaning counter | report on a ticker | Envoy's admin port, Polaris | each request reported once, the map does not grow |
| mTLS agent (`mesh/mtls`) | rotator, certificate, SDS snapshot | rotate, retry, Run, Destroy | CA, Envoy's stream | no certificate is in use for long after it should have been replaced |
| Rate limit server (`mesh/rls`) | gRPC server, limiter | Run, Destroy, ShouldRateLimit | Envoy, SDK context | cuts no request off, keeps the limit API while the sidecar runs |
| SDK context (`pkg/polaris`) | one process-wide context | create, hand out APIs, destroy | all of the above | outlives those who use it |
| Query names (`pkg/utils`) | none | ParseQname, MatchSuffix, AddQuota | both resolvers | the right service key |
| Logging, service account, command line | - | - | - | not modelled, see 8 |

Hard to test: the goroutines of five services that start, fail and stop in any
order around one channel and one WaitGroup; the rotation that concurrent queries
share; names to which clients append search domains and resolvers suffixes; the
table that is swapped while a query is between two lookups; counters
of Envoy that start anew; a CA that rejects, hangs or answers late; the order in
which four sources of configuration are merged. `PROJECT.json` lists 40 hazards,
each at its line with the properties that cover it.

## 2. Modules

| Module | Models | Kind |
|---|---|---|
| `SidecarLifecycle` | the process: Start, all Runs and Destroys, listeners, Envoy's stream | specification |
| `RateLimit` | the requests of Envoy and the limit API, beside `SidecarLifecycle` | specification (composition) |
| `SidecarLifecycleProofs` | `SidecarLifecycle` and `RateLimit` | 8 theorems |
| `RotatingUpstream` | the rotation of upstream servers, abstract | specification |
| `RotatingUpstreamProofs` | | 3 theorems |
| `DnsHandler`, `MCDnsHandler` | a query from ServeDNS to its reply; refines `RotatingUpstream` | specification, instance |
| `DnsHandlerProofs` | | 11 theorems |
| `DnsNames` | the operations on the text of a name | operators |
| `NameResolution`, `MCNameResolution` | `DnsHandler` with the names, the resolvers' answers and the reply | specification (composition), instance |
| `NameResolutionProofs` | | 6 theorems |
| `MeshAnswers` | a resolver that answers from the list in force, abstract | specification |
| `MeshDirectory`, `MCMeshDirectory` | reloader, lookup table, two-step lookups; refines `MeshAnswers` | specification, instance |
| `MeshDirectoryProofs` | | 4 theorems |
| `MtlsRotation` | rotator, CA client, SDS snapshot, with time | specification |
| `MtlsRotationProofs` | | 4 theorems |
| `EnvoyMetrics` | readings, differences, cleaning, call results | specification |
| `EnvoyMetricsProofs` | | 4 theorems |
| `SidecarConfig`, `MCSidecarConfig` | merge of the sources, verify, services, start | specification, instance |
| `SidecarConfigProofs` | | 4 theorems |

### SidecarLifecycle

A service is the state of its Run (`run`): `go` is the goroutine that has been
started and has not yet reached `wg.Add`; `start`, `serve`, `busy` (a report or a
rotation that looks at ctx only when it ends), `sendErr` (blocked on or about to
send to the error channel), `unwind` (the deferred function), `draining` and
`drained` (inside and after Destroy, before `wg.Done`), `done`. The debug server
calls `wg.Done` first and goes `unwind`, `stop`, `draining`, `done`. A listener
(`lsn`) is a goroutine that serves and then sends the result to the same channel.
`wg` is the counter, `waiter` the goroutine inside `wg.Wait`; a woken waiter that
finds the counter raised again panics, as in Go. `errCh` keeps its length and, up
to the one read of the main loop, its first message. One SDK context is shared by
all: any of three Destroys takes it down. What differs between the http, DNS
and gRPC libraries is in `Closed`, `ServeBegins` and `ServeRefused`.

### RateLimit

Each request of Envoy is a handler goroutine (`req`): `Receive` builds the quota request,
which is `nameless` when the domain or the namespace is empty (the code returns no error
for it), `GetQuota` needs a name and the SDK context, `Respond` is the verdict.
`GetQuotaFails` is every return without one: the SDK refuses a quota request without a
name or with a destroyed context, fails for a reason of its own, or gives no future, and
this code does not tell them apart. Every other step is a step of `SidecarLifecycle`
(`Lifecycle`), of which one is constrained: the Destroy of the rate limit server leaves
`draining` only when no handler runs, since it calls GracefulStop. Destroy has ended the
limit API before that, so requests in flight may fail.

### DnsHandler and RotatingUpstream

`RotatingUpstream` is what the recursor promises of its rotation: `Take` hands
out the next server. `DnsHandler` has one program counter per query. `pos` counts
the resolvers asked, `todo` the exchanges left of (domains x attempts), `asked`
the servers. `Next` is three actions: `LockRotation` waits for the mutex (`mu`, the
queries that hold it), `ReadServer` takes the server at the index, `AdvanceRotation`
moves the index and frees the mutex. That these are one `Take` of `RotatingUpstream`
follows from the mutex only; without it two queries take the same server. With an empty
list the read panics (`NoUpstream`) and the deferred Unlock runs. A resolver
answers, declines or loses the query (a recovered panic, a record that cannot be
packed); an upstream is good, lame (an error code) or dead. `UpstreamOf` computes
the merged server list from the configuration and `/etc/resolv.conf`.

### DnsNames and NameResolution

A name is a sequence of pieces of text, the dot being one of them; pieces that stand
together are one label. The code compares texts, so a suffix may begin inside a label; the
sequence keeps that, and a single character is never needed. `NameResolution` extends
`DnsHandler`: `question` is what a query asks, `reply` who answered, with which code and
data. Its steps are those of `DnsHandler`, where the choice of a resolver between
answering, declining and losing is now decided by `DnsAgent` (ServeDNS, ParseQname,
GetOneInstance, markRecord) and `MeshProxy` (the two lookups), and the exchange by the
name that `ExpandQuery` makes. `Answered` carries the data and the service it is about;
`Lost` is a recovered panic or a record that cannot be packed. The text before a label
`_addr` is `Hex` of an address in sixteen bytes, as the sidecar writes it, `Hex4` of an
IPv4 address in its four bytes, which makes an A record and no AAAA record, or another of
`HexWords`. Polaris holds still here: `MeshDirectory` has the registry that changes.

### MeshDirectory

One reloader (`ask`, `apply`, `wait`), whose reply is read from the registry in one
step and applied in another, so that both may be out of date; queries that load
the table at each of two lookups. `seen` is a history variable: the lists in force
since the first lookup of a query.

`MeshAnswers` is what a client may rely on: there is a list in force, and a query is
answered from a list in force since it came. It knows no reloader, table, comparison
or second lookup. With the last list Polaris returned for the list in force (and `seen`,
which records nothing else), `MeshDirectory` implements it: a reload is `NewList`, a first
lookup `Arrive` or `Answer`, the second `Answer`. It allows one thing a client might not
expect, because the code does it (`BothMissing`): a query is declined when the host of
its name was missing from one list and the qualified host from another.

### MtlsRotation

The rotator (`execute`, `call`, `sleep`, `wait`, `hung`, `returned`) with discrete time:
`timer` for the delay in progress, `took` for the call, `age` for the time since the CA
signed the certificate, which is any moment of the call that brought it, and `failures`
for the calls that failed since. A call is signed, rejected, fails, hangs for ever (the
HTTP client has no timeout) or takes up to `CallMax`. The lifetime that the sidecar asks
for (`option.go:132`) changes nothing the rotator does, so it is no part of the model:
`UseIsBounded` says how long a certificate is in use, to be compared with it. `Rejected`
does what the code does with an error status: a bundle without a certificate is published
and the action has succeeded (see 5).

### EnvoyMetrics

`counter` is Envoy's, `values` and `known` the map of the sidecar, `served` and
`reported` are histories. A tick cleans when due, then reports the difference to
the last reading of each instance listed. `Delay` is time that passes without a
tick, because a report takes long. A refused call result is refused for all
results of an instance in one report. `reported` is not continued once an
instance was forgotten, since the code then starts from nothing.

### SidecarConfig

`file`, `env` and `flags` hold each setting as a value, "unset" or "bad" (text that cannot
be parsed); each step is one function of `InitConfig`, then `initAgent` and the start.
Settings that differ only in name are represented by one of their kind (bind for all texts
and numbers, recurse for all switches); the list of resolvers, the options of both
resolvers and the level have their own rules in the code and are modelled each. `nulls`
are the sections and entries that the file sets to null: each becomes a nil pointer
(`nils`), and mergeEnv reads through all of them but the debugger and, when the environment
has no location, a location provider. The reload interval of a file
may be missing, negative or above zero. A step can end in `rejected` (exit -1), `panicked`
(recovered by Start, the process returns) or `crashed` (a goroutine panics).

## 3. What the runs show

| Run | Question | Instance | Result |
|---|---|---|---|
| `SidecarLifecycle` | does every shutdown and every failure end the process, what did a graceful one wait for, and does it complete without the timer? | dns and mtls | holds |
| `RateLimit` | do stopped servers stay stopped, does the SDK context outlive its users, is a request cut off? | dns and rls, 2 requests | holds |
| `DnsHandler` | one reply, a good server found, a shared rotation, for concurrent queries | 2 queries, 2 resolvers, up to 3 upstreams, 5 configurations | holds |
| `NameResolution` | does a name give its service's address and no other, does an SRV target resolve, which queries stay without a reply? | 356 questions, 6 services, 6 configurations | holds |
| `MeshDirectory` | does the table follow the registry, do two-step lookups implement answers from the list in force? | 4 services, 4 names, 1 query, 2 changes | holds |
| `MtlsRotation` | how long is a certificate in use, which failure waits for a period, does the rotator stop? | period and lifetime an hour (the defaults), call up to a quarter, 3 failures | holds |
| `EnvoyMetrics` | is each request reported once? | 1 instance, 2 kinds, 2 requests each, 1 restart | holds |
| `SidecarConfig` | do the settings follow their priority, does what runs follow the sources, which starts break? | 32 files, all environments and flags with at most two settings | holds |
| `GracefulMeansAllClosed` | has a graceful exit closed all components? | dns | violated |
| `MtlsRetry` | is a rejected signing retried? | period 2, delay 1 | violated |
| `DocumentedPriority` | is the documented priority kept for level and meshproxy, can the flag for route labels be used? | as SidecarConfig | violated |
| `DocumentedReplies` | are replies what comments and documents say? | as NameResolution | violated |

Why the instances are large enough:

- Lifecycle. The DNS service has two listeners, the mTLS agent a second message, an
  unbounded drain and the busy state; together they give every size relation
  between senders and channel. The instance of `RateLimit` has the two services
  that drop the SDK context; with two requests, one can be served while the other
  holds GracefulStop. The debug server, whose Destroy comes after `wg.Done`, and the
  metric service, an mTLS agent without a listener, are in no instance: the theorems
  about the WaitGroup, the listeners, the SDK context and the requests hold for
  every set of services.
- DnsHandler. Two queries are enough for one to take the other's turn; three
  servers against two attempts, no server at all, no search domain and the
  sidecar as its own nameserver are the configurations.
- NameResolution. Names of every form the code tells apart: a service alone, with its
  namespace, with a dot in it, in upper case; a host name for an address, the Polaris
  namespace, `_addr` with an address of either family, with an IPv4 address in four bytes,
  with other hexadecimal text, with none and at the front; a public name; each with no
  end, with either search domain, with the suffix and with both; a label that ends as a
  suffix begins. The configurations have ndots of 1 and 5, search domains in both orders
  (one ends the other), resolvers in both orders, suffixes, no recursion and no upstream.
  What a query does depends on no other query, so one is enough; `DnsHandler` has two.
- MeshDirectory. Two services that differ in case only, one whose name is the
  qualified name of another, a name that does not match; two changes let a list
  change and change back between two reloads. Queries do not interact, so one
  meets all interleavings with the reloader.
- MtlsRotation. A call may take longer than the delay between two tries, and the third
  failure in a row is counted: a period that were lost to a failure, or a failure whose
  call is not counted, shows. The proof covers the other values.
- EnvoyMetrics. The threshold and the waiting time are 2 and 2 for the code's 10
  ticks and 10 periods: a cleaning may come before, at and after the moment an
  instance becomes inactive. Instances share nothing but the cleaning counter.
- SidecarConfig. Two settings per source make every pair of sources, and every
  pair of settings of one source, meet; each section and entry is null in one file; the
  theorems cover all combinations.

Bounds (the only ones, beside the finite sets of names): `MaxChanges` (registry),
`MaxServed` and `MaxRestarts` (Envoy), `CallMax` (an answering CA), the exchanges of a
query, which the code bounds itself. They are guards of the environment's actions only.
`FailMax` and `AgeMax` stop two histories of `MtlsRotation` from counting on, and stop
nothing but the time that passes in a call that hangs.

Deadlock is checked in every run; a process, a query or a rotator that has ended
stutters by an action of its own.

## 4. Fairness

- Goroutines that can run do run (weak fairness of each service, listener, query,
  rotator and of the main loop). A goroutine inside a call of Envoy or the CA is
  not given fairness, since those HTTP clients have no timeout.
- `select` picks among ready cases at random, so a cancelled context is seen in
  the end although a ticker fires too: strong fairness of `SeeCancel`.
- Two premises are stated in the properties that need them and not in `Spec`. `Timer`:
  the 30 seconds pass (`ShutdownEnds`, `FailureEndsProcess`). `Patience`: they are long
  enough, and Envoy and the CA answer and Envoy closes its stream
  (`GracefulPathCompletes`). One specification so serves both questions.
- `RateSpec` and `NameSpec` have only safety properties and state no fairness.
- No fairness of signals, of broken listeners, of registry changes or restarts.
- Convergence assumes of the outside what it must: Polaris answers a reload again
  and again (`TableConverges`), the CA signs again and again
  (`RecoversFromRejection`), Envoy lists all its instances again and again
  (`AllReported`). `RotatorStops` and `ReloaderStops` need none of these.

## 5. Findings

1. `GracefulMeansAllClosed`: `wg.Add(1)` is called inside each service's goroutine,
   so a signal right after the start finds the counter at zero and Start logs that
   all components shut down gracefully.
2. `MtlsRetry`: the deferred `err = resp.Body.Close()` of CreateCertificate
   overwrites the error of a rejected signing. An empty bundle is published and
   the retry delay is never used.
3. `DocumentedPriority`, one conjunct each: the log level of file and environment is
   overwritten by an unset flag (config.go:320); the meshproxy flag is ignored unless a
   dnsagent flag is given (config.go:321); the flag for route labels stores a map where a
   string is decoded, and the process exits at the start (config.go:337). TLC stops at
   the shortest trace, which is that of the third; the other two conjuncts are violated
   as well when each is checked alone.
4. `DocumentedReplies`, one conjunct each: SetReply resets the code of an upstream's
   NXDOMAIN to NOERROR (common/dns.go:32); expandQuery asks a name below ndots only
   with search domains, so www.baidu.com fails in a container with ndots 5
   (proxy.go:104); the mesh resolver answers AAAA with NOERROR where its comments say
   NXDOMAIN (meshproxy/dns.go:141). TLC's trace is again that of the third; the other two
   conjuncts are violated as well when each is checked alone.

Read in the code while modelling, and in the models, but given no run of their own:

- `option.go:27` says a default period of 30 minutes, `option.go:92` makes it an hour,
  which equals the lifetime of the certificate: it expires before it is replaced, by as
  much as `UseIsBounded` allows beyond the period.
- `proxy.go:84` says the next server is tried after an error code; with concurrent
  queries the next attempt may meet the server that failed.
- `resolver/server.go:136` logs that all services stopped, also when a DNS listener
  had not started yet and comes up afterwards (`ServeBegins`).
- `debugger/server.go:44` calls `wg.Done` before Destroy (`DoneFirst`).
- `registry_proxy.go:48-49` sets the business filter on a request it does not send.
- `handler.go:39` and `util.go:64` compare texts, not labels: `webmesh.` matches the
  suffix `mesh` (`CutsLabel` in `NameResolution`).
- `common/dns.go:37` appends an OPT record after the message was truncated to the
  client's size, and to an upstream's response that may already have one.

## 6. What is proved

The theorem modules hold 44 theorems; the lemmas they rest on are beside them, and
`PROJECT.json` lists the 42 results worth knowing. Every invariant of a passing run,
and every action property, is stated by one of them. The named assumptions
(`EnabledAssumption`, `DnsAssumption`, `NameAssumption`, `DirectoryAssumption`,
`MtlsAssumption`, `MetricsAssumption`, `ConfigAssumption`) say that the constants have
their kind, and TLC evaluates them in the runs. `NameAssumption` says more of the
world outside: a question ends with a dot; a service of Polaris has a name and a
namespace, and no two have the same; no two addresses have the same hexadecimal
text, which is neither a dot nor `_addr`, and none is of both families; the lower
case of Polaris is polaris; and a search domain "." comes with ndots of at most one.

- `SidecarLifecycleProofs`, for every set of enabled services with dns in it.
  `CountInv`: wg is the number of services between `wg.Add` and `wg.Done`; by it a
  zero counter means nobody is in between. `DrainInv` carries that to the moment
  Wait returns: after the cancellation no counted service leaves `done`, and one
  that adds itself later only raises the counter. `OrderInv` is the strengthening
  for `NeverStuck` and `SdkOutlivesService`: no listener has a nil result and no
  service is past serving before ctx is cancelled or an error is in the channel.
  `StopInv` says that what Destroy has stopped does not come up again.
  `SlotInv` counts the error channel: who can send is a slot, and each message sent,
  the one the main loop read included, has taken one. There is one slot more than the
  channel has room when the agent has mTLS, and none otherwise, so a goroutine can
  find the channel full only in an agent with mTLS, when a signal and no error ended
  the main loop (`ChannelHasRoom`). This is the exception in `GracefulPathCompletes`.
- The same module, for every set of services and requests. A step of `RateLimit` is
  a step of `SidecarLifecycle` or leaves it alone, so the theorems above carry over;
  with them, and because a limiter past `draining` has no request in flight, a graceful
  exit cuts off no request of a limiter that was counted.
- `RotatingUpstreamProofs`, for any number of servers: `RotInv` (the servers before
  the index are one use ahead) is inductive and gives `Balanced`; uses the lemmas
  about the remainder stated there.
- `DnsHandlerProofs`, for any queries and configurations. `LockInv`: between Lock and
  Unlock a query holds the mutex alone, and a query with a server in hand finds the index
  still at it (`MutexHolds`). With it `RefinesRotation`: the advance of a query is the
  `Take` of the server it has read, so the queries share one `RotatingUpstream`, and
  `SharedRotation` brings its theorems over. `ReplyInv` ties the replies written to the
  end of a query. `ExchangeInv`: exchanges made and left are the budget, which gives
  `RecursionIsAnswered`. `AloneInv`: the servers just behind the index have all failed, as
  long as no other query moves the index; after as many turns as there are servers these
  are all of them. `NamesAreQueries`: `NameResolution` implements `DnsHandler`, so all of
  this holds with names too. `NeverAsksItself`: the server list is a recursive function on
  the positions of the configured one, and there is no least position (`NatMin`) at which
  it takes in the sidecar's own address.
- `NameResolutionProofs`, for any questions, services, suffixes, search domains and
  resolvers. Names are sequences, and the lemmas say what the operators on them do: what
  `IsSuffix` leaves, that a name splits at its last dot in one way, that the least
  position of a search exists (`NatMin`). Two invariants tie the state to them:
  `RepliesAreOutcomes` (a reply is what the resolver makes of that query's question) and
  `FirstAnswers` (no other answers before the first). The rest is about one question:
  an offered name leads `ParseQname` to its service's key (`NamesResolve`), a key found
  was the beginning of the name (`AnswersAreOwn`), the target that `EncodeIPAsFqdn`
  makes is read back as the address (`TargetsResolve`), and a lost query had one of the
  five reasons (`LossesNamed`).
- `MeshDirectoryProofs`, for all services and queries: `ComparisonIsExact` (sizes
  and one inclusion decide equality of finite sets) makes `TableInv` inductive;
  `LookupInv` says what a query between its lookups has seen, and with it
  `RefinesMeshAnswers` maps every step to one of `MeshAnswers` or to none. From that
  alone, and the types, follows `AnswersAtomic`: each query gets what one list in force
  gives, but for the names with two hosts of section 7.
- `MtlsRotationProofs`, for every period and every bound of a call: `UseInv` says at each
  place of the rotator how old the certificate may be with the time left and the failures
  so far, and gives `UseBounded`. `AnswerInv` (a wait follows an answered call, and the
  snapshot is what the last answer made of it) gives `WaitsForRejectionOnly`. `LateInv`
  shows that a call after the cancellation is the last.
- `EnvoyMetricsProofs`: `ReportInv` (reported plus what is not yet reported is at
  most what was served), `ReadingInv` (what was reported of an instance never
  forgotten is its last reading), `ForgetInv` (a cleaning comes within the threshold).
- `SidecarConfigProofs`, for all files, environments and flags: `PriorityInv` says
  after each merge that the configuration is what the sources merged so far give;
  `TwoTurns` that the switches of both resolvers do not disturb each other;
  `LastOfFour` and its like that the merges, one `Or` after the other, find the last
  source that speaks, which is how the properties read the sources. `NilInv` follows the
  nil pointers, the interval and the option of meshproxy from the file to the ticker.

Only model-checked: the liveness properties, since TLAPS has no rules here for fairness
and ENABLED. What the findings say is shown by the counterexamples of TLC.

## 7. Exceptions that the properties name

- `GracefulExitDrains` excludes the debug server, and services not counted yet.
- `NoRequestCutOff` speaks, for the same reason, of a limiter that was counted.
- `ServiceNameResolves` excludes names that end with a search domain by themselves, or
  with one that is listed before the one appended: Preprocess cuts too early there. It
  speaks of sidecars that ask dnsagent first, of services that a name can denote at all
  (`Nameable`: no dot at the end of the name, none in the namespace, and no namespace that is
  another spelling of Polaris), and not of names with the label `_addr` or of a suffix
  that ends with two dots.
- `NoForeignAnswer` excludes names that the code cuts inside a label, either where a
  search domain begins or where the suffix begins in what that left: with suffix `mesh`,
  `webmesh.ns.svc.` is first cut to `webmesh` and then to `web`.
- `SrvTargetResolves` excludes search domains and mesh services with the label `_addr`.
- `LossesAreNamed`: the five reasons, which are part of the property.
- `AloneReachesGood` speaks of a query that has the rotation to itself while it recurses.
- `AnswersAreAtomic` (and `BothMissing` in `MeshAnswers`): a service name that contains a dot gives one question two
  hosts; if the registry changes from one to the other between the lookups, the
  query is declined although each list alone would have answered.
- `NeverOverReported` excludes an instance the cleaning forgot: its counter is
  reported a second time. `ReportedIsLastReading` and `AllReported` also exclude
  instances with results that were dropped after three tries.
- `NoSelfQuery` speaks of 127.0.0.1, the one address the code compares.
- `UseIsBounded` excludes a CA that never answers and, where failures are counted up to
  `FailMax`, longer rows of them. Its bound is above the default lifetime: with the
  defaults the certificate does expire.
- `OnlyRejectionWaits` excludes a signing that the CA rejected: finding 2.
- `PriorityHolds` leaves the log level out, `ServicesFollowSources` counts the meshproxy
  flag only with a dnsagent flag: finding 3.
- `BrokenStartsAreNamed`: the causes, which are part of the property.

## 8. Not modelled

- The size of a DNS message, its truncation and the EDNS option (`common/dns.go`).
- In `NameResolution`: a registry or a lookup table that changes (`MeshDirectory` has
  it), and a search domain "." with ndots above one.
- The labels of a quota request (`buildQuotaRequest`): no property tells them apart.
- Settings without a rule of their own: ports, TTLs, suffixes, log rotation,
  location. In `SidecarConfig` also: a list with one resolver twice, an interval above
  292 years (which overflows), other options that do not decode, and a null location
  provider as the SDK reads it. A file is merged whole or rejected.
- The limits of the DNS library on the length of a label and of a name.
- The environment's durations of the mTLS options are natural numbers; "0s", which
  the rotator itself turns into 30 minutes, and negative ones are left out.
- The text of the delay in Envoy's stats, and parse errors of those stats.
- The secret discovery protocol inside go-control-plane, the Polaris SDK, zap, the
  DNS, http and gRPC libraries: modelled by what this code sees of them.
- Logging, version, service account files, certificate requests: no state that
  anything here depends on.

## 9. Plan

Done, in this order: lifecycle, DNS path, mesh directory, rotation, metrics,
configuration, names, rate limit; each with theorems, the last of them about names
and about the error channel.

Next:

1. `NameResolution` with a registry that changes, composed with `MeshDirectory`.
2. The location providers and the remaining settings of `SidecarConfig`.
