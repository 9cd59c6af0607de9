--------------------------- MODULE NameResolution ---------------------------
(***************************************************************************)
(* DnsHandler with the names: what each query asks, what dnsagent and the  *)
(* mesh resolver make of it, which names recursion asks upstream, and what *)
(* the reply says.  Polaris and the table of the mesh resolver stand still *)
(* here; MeshDirectory has the table that changes.                         *)
(***************************************************************************)
EXTENDS DnsHandler, DnsNames, FiniteSets

CONSTANTS
    Questions,      \* the questions: a record of qtype and name
    Polaris,        \* the services, each with the host of the instance that
                    \* GetOneInstance chooses
    V4, V6,         \* the hosts that are IP addresses; any other is a host name
    Hex,            \* the hexadecimal text of each address, in sixteen bytes
    Hex4,           \* that of each IPv4 address in four bytes
    HexWords,       \* texts that are hexadecimal without being an address
    Zone            \* the names that the upstream servers know

\* Configs has three more fields: ndots of resolv.conf, the suffix of each
\* resolver and the namespace of the sidecar.  A search domain "." is appended
\* to no name unless ndots is above one.  Two services of Polaris differ in name
\* or namespace, two addresses in their hexadecimal text.
NamesAreWellFormed ==
    /\ \A k \in Questions : /\ k.qtype \in {"A", "AAAA", "SRV", "TXT"}
                            /\ k.name \in Seq(STRING) /\ AddQuota(k.name) = k.name
    /\ \A s \in Polaris : {s.service, s.namespace} \subseteq Seq(STRING) \ {<<>>}
    /\ \A s, t \in Polaris : s.service = t.service /\ s.namespace = t.namespace => s = t
    /\ DOMAIN Hex = V4 \cup V6 /\ V4 \cap V6 = {}
    /\ \A h, i \in V4 \cup V6 : /\ Hex[h] \in STRING \ {".", "_addr"}
                                /\ Hex[h] = Hex[i] => h = i
    /\ DOMAIN Hex4 = V4
    /\ Lower \in [DOMAIN Lower -> STRING] /\ {".", "_addr", "polaris"} \cap DOMAIN Lower = {}
    /\ "Polaris" \in DOMAIN Lower /\ Lower["Polaris"] = "polaris"
    /\ \A c \in Configs : /\ c.ndots \in Nat /\ c.search \in Seq(Seq(STRING))
                          /\ Dot \in ToSet(c.search) => c.ndots <= 1
                          /\ c.resolvers \in Seq({"dnsagent", "meshproxy"})
                          /\ {c.namespace, c.suffix["dnsagent"]} \subseteq Seq(STRING)
ASSUME NameAssumption == NamesAreWellFormed

VARIABLES
    question,       \* what each query asks
    reply           \* what the reply says: who gave it, its code, its data and,
                    \* where they apply, the service or the name it is about

nameVars == <<conf, mu, index, uses, kind, pc, query, pos, todo, asked, alone, out,
              written, question, reply>>

NoReply == [from |-> "none", rcode |-> "none", data |-> <<>>, about |-> <<>>]

ClassOf(k) == [qtype |-> IF k.qtype \in {"A", "AAAA", "SRV"} THEN "addr" ELSE "other",
               short |-> Dots(k.name) < conf.ndots]

NameInit ==
    /\ Init
    /\ question \in [Queries -> Questions]
    /\ query = [q \in Queries |-> ClassOf(question[q])]
    /\ reply = [q \in Queries |-> NoReply]

-----------------------------------------------------------------------------
(* The naming resolvers.  An outcome is declined, lost, or answered with    *)
(* data about a service.                                                    *)

Declined == [kind |-> "declined", data |-> <<>>, about |-> <<>>]
Lost == [kind |-> "lost", data |-> <<>>, about |-> <<>>]
Answered(data, about) == [kind |-> "answered", data |-> data, about |-> about]

FullName(s) == s.service \o Dot \o s.namespace
Key(s) == <<s.service, s.namespace>>

\* encodeIPAsFqdn; a host that is no address has no hexadecimal text, and a name
\* that begins with a dot cannot be packed.
EncodeIPAsFqdn(host, s) == AddQuota(<<Hex[host], ".", "_addr", ".">> \o FullName(s))

\* The data of an A or AAAA record.  An A record of an IPv6 address holds zeros,
\* an AAAA record of an IPv4 address its mapped form; without an address both
\* are empty.
AddressData(qtype, host) ==
    IF host \in V4 THEN IF qtype = "A" THEN <<host>> ELSE <<"mapped", host>>
    ELSE IF host \in V6 THEN IF qtype = "A" THEN <<"zero">> ELSE <<host>>
    ELSE <<>>

\* A markRecord that asks for the instance of an address record, too.
MarkRecordNeedsInstance(qtype, host, s) ==
    IF s.service = <<>> \/ (qtype = "SRV" /\ host \notin V4 \cup V6) THEN Lost
    ELSE IF qtype = "SRV" THEN Answered(EncodeIPAsFqdn(host, s), Key(s))
    ELSE Answered(AddressData(qtype, host), Key(s))

\* markRecord.  Without an instance an SRV question gives a nil record.
MarkRecord(qtype, host, s) ==
    IF qtype = "SRV"
    THEN IF s.service = <<>> \/ host \notin V4 \cup V6 THEN Lost
         ELSE Answered(EncodeIPAsFqdn(host, s), Key(s))
    ELSE Answered(AddressData(qtype, host), Key(s))

NoInstance == [service |-> <<>>, namespace |-> <<>>, host |-> "none"]

\* resolverDiscovery.ServeDNS for a name with the label _addr.  The bytes before it
\* become the address of the record: sixteen fit both kinds, four cannot be packed
\* into an AAAA record, another number into none.
ServeAddr(qtype, name) ==
    LET i == AddrLabel(name)
        text == LabelBefore(name, i)
        hosts == {h \in V4 \cup V6 : <<Hex[h]>> = text}
        short == {h \in V4 : <<Hex4[h]>> = text}
    IN  IF i = 1 THEN Lost
        ELSE IF hosts # {} THEN MarkRecord(qtype, CHOOSE h \in hosts : TRUE, NoInstance)
        ELSE IF short # {} /\ qtype # "AAAA"
             THEN MarkRecord(qtype, CHOOSE h \in short : TRUE, NoInstance)
        ELSE IF short # {} \/ (Len(text) = 1 /\ text[1] \in HexWords) THEN Lost ELSE Declined

\* lookupFromPolaris: the services that a key names, none or one.
Lookup(key) == {s \in Polaris : s.service = key.service /\ s.namespace = key.namespace}

ServeService(qtype, name) ==
    LET m == MatchSuffix(name, AddQuota(conf.suffix["dnsagent"]))
        found == Lookup(ServiceKey(m.rest, conf.namespace))
    IN  IF ~m.matched \/ found = {} THEN Declined
        ELSE LET s == CHOOSE t \in found : TRUE IN MarkRecord(qtype, s.host, s)

\* A dnsagent that looks for _addr only in names with its suffix.
DnsAgentSuffixFirst(qtype, name) ==
    IF ~MatchSuffix(name, AddQuota(conf.suffix["dnsagent"])).matched THEN Declined
    ELSE IF AddrLabel(name) > 0 THEN ServeAddr(qtype, name) ELSE ServeService(qtype, name)

DnsAgent(qtype, name) ==
    IF AddrLabel(name) > 0 THEN ServeAddr(qtype, name) ELSE ServeService(qtype, name)

\* The table of the mesh resolver: every service of Polaris, in lower case.
Table == {ToLower(FullName(s) \o Dot) : s \in Polaris}

\* resolverMesh.ServeDNS: the name as it is, then with the namespace of the
\* sidecar.  Every address is the configured one, and only an IPv4 one.
MeshProxy(qtype, name) ==
    LET longer == RemoveQuota(name) \o Dot \o conf.namespace \o Dot
        found == {ToLower(name), ToLower(longer)} \cap Table
    IN  IF ~MatchSuffix(name, conf.suffix["meshproxy"]).matched \/ found = {} THEN Declined
        ELSE Answered(IF qtype = "A" THEN <<"dnsAnswerIp">> ELSE <<>>, <<>>)

\* A resolver works on the name without its search domain; the search domains
\* are those of the recursor.
ResolvedName(name) == IF conf.recurse THEN Preprocess(name, conf.search) ELSE name

Ask(resolver, k) ==
    IF resolver = "dnsagent" THEN DnsAgent(k.qtype, ResolvedName(k.name))
                             ELSE MeshProxy(k.qtype, ResolvedName(k.name))

Outcome(q) == Ask(conf.resolvers[pos[q] + 1], question[q])

-----------------------------------------------------------------------------
(* The handler                                                             *)

Reply(q, from, rcode, data, about) ==
    /\ reply' = [reply EXCEPT ![q] = [from |-> from, rcode |-> rcode, data |-> data,
                                      about |-> about]]
    /\ UNCHANGED question

NoWords == UNCHANGED <<question, reply>>

\* WriteDnsResponse begins with SetReply, which sets the code of the response to
\* NOERROR whatever it was.
WrittenRcode(rcode) == "NOERROR"

Resolve(q) ==
    \/ /\ ResolverAnswers(q) /\ Outcome(q).kind = "answered"
       /\ Reply(q, conf.resolvers[pos[q] + 1], WrittenRcode("NOERROR"),
                Outcome(q).data, Outcome(q).about)
    \/ ResolverDeclines(q) /\ Outcome(q).kind = "declined" /\ NoWords
    \/ ResolverLoses(q) /\ Outcome(q).kind = "lost" /\ NoWords

Expanded(q) == ExpandQuery(question[q].name, conf.ndots, conf.search)

\* The name that the next exchange asks: each has its attempts, in order.
Asking(q) == Expanded(q)[Len(Expanded(q)) - (todo[q] - 1) \div Attempts]

\* A good server knows the name, or answers NXDOMAIN.
UpstreamAnswers(q) ==
    /\ ExchangeAccepted(q)
    /\ LET known == Asking(q) \in Zone
       IN  Reply(q, "recursor", WrittenRcode(IF known THEN "NOERROR" ELSE "NXDOMAIN"),
                 IF known THEN <<"records">> ELSE <<>>, Asking(q))

Fail(q) ==
    /\ NoRecursion(q) \/ GiveUp(q)
    /\ Reply(q, "handler", "SERVFAIL", <<>>, <<>>)

Continue(q) ==
    /\ \/ Accept(q) \/ FallBack(q) \/ BeginRecursion(q)
       \/ LockRotation(q) \/ ReadServer(q) \/ AdvanceRotation(q) \/ NoUpstream(q)
       \/ ExchangeRejected(q)
    /\ NoWords

NameStep(q) == Resolve(q) \/ UpstreamAnswers(q) \/ Fail(q) \/ Continue(q)

NameNext ==
    \/ \E q \in Queries : NameStep(q)
    \/ AllEnded /\ NoWords

NameSpec == NameInit /\ [][NameNext]_nameVars

-----------------------------------------------------------------------------
(* Properties                                                              *)

\* The names by which README.md:22 offers a service to dnsagent:
\* <service>.<namespace>, in the namespace of the sidecar the service alone,
\* with the suffix of the resolver.  The Polaris servers are in namespace polaris.
OfferedNames(s) ==
    LET namespace == IF s.namespace = <<"Polaris">> THEN <<"polaris">> ELSE s.namespace
        full == s.service \o Dot \o namespace
        short == IF s.namespace = conf.namespace /\ LastDot(s.service) = 0 THEN {s.service} ELSE {}
        end == RemoveQuota(conf.suffix["dnsagent"])
    IN  {IF end = <<>> THEN n \o Dot ELSE n \o Dot \o end \o Dot : n \in {full} \cup short}

SearchEnds(name) ==
    IF conf.recurse THEN {i \in DOMAIN conf.search : IsSuffix(AddQuota(conf.search[i]), name)} ELSE {}

\* A client asks for a service by an offered name, with or without a search domain
\* appended.  Left out: a name that ends with a search domain itself, or with one
\* listed before the one appended.
AsksFor(name, s) ==
    \/ /\ name \in OfferedNames(s)
       /\ \A i \in SearchEnds(name) : conf.search[i] = Dot
    \/ \E i \in SearchEnds(name) :
          /\ \A j \in SearchEnds(name) : i <= j
          /\ \E n \in OfferedNames(s) : name = n \o AddQuota(conf.search[i])

\* The services that a name can denote at all: ParseQname takes what follows the
\* last dot for the namespace, and any spelling of polaris for Polaris.
Nameable(s) ==
    /\ RemoveQuota(s.service) = s.service
    /\ LastDot(s.namespace) = 0
    /\ ToLower(s.namespace) = <<"polaris">> => s.namespace = <<"Polaris">>

\* A client gets the address of the service it names, whether it appends a search
\* domain or not, when dnsagent comes first.  Left out: a name with the label _addr
\* and a suffix with two dots at its end.
ServiceNameResolves ==
    \A q \in Queries, s \in Polaris :
        LET end == RemoveQuota(conf.suffix["dnsagent"])
        IN  /\ pc[q] = "end" /\ question[q].qtype = "A" /\ s.host \in V4 /\ Nameable(s)
            /\ conf.resolvers # <<>> /\ conf.resolvers[1] = "dnsagent"
            /\ AddrLabel(question[q].name) = 0 /\ RemoveQuota(end) = end
            /\ AsksFor(question[q].name, s)
            => reply[q].from = "dnsagent" /\ reply[q].data = <<s.host>>

\* Does a search domain or the suffix begin inside a label of the name?
CutsLabel(name, end) ==
    /\ IsSuffix(end, name) /\ Len(end) < Len(name)
    /\ name[Len(name) - Len(end)] # "."

\* The address of a service is never given for the name of another: the name
\* begins with the service's, which dnsagent compares with the case it has, unless
\* the code cut a search domain off the name, or the suffix off what that left,
\* inside a label.
NoForeignAnswer ==
    \A q \in Queries, s \in Polaris :
        LET name == question[q].name
            suffix == AddQuota(conf.suffix["dnsagent"])
        IN  /\ reply[q].from = "dnsagent" /\ reply[q].about = Key(s)
            /\ \A i \in SearchEnds(name) :
                  conf.search[i] # Dot => ~CutsLabel(name, AddQuota(conf.search[i]))
            /\ suffix # Dot => ~CutsLabel(AddQuota(ResolvedName(name)), suffix)
            => /\ IsPrefix(s.service, name)
               /\ \E n \in OfferedNames(s) : IsPrefix(ToLower(n), ToLower(name))

\* The target of an SRV answer leads to the instance: asked for the address of
\* that name, the same sidecar gives the host, of IPv4 and of IPv6 alike.  Left
\* out: search domains and services of the mesh with the label _addr.
SrvTargetResolves ==
    \A q \in Queries, s \in Polaris :
        LET k == [qtype |-> IF s.host \in V4 THEN "A" ELSE "AAAA", name |-> reply[q].data]
            answers == {i \in DOMAIN conf.resolvers : Ask(conf.resolvers[i], k).kind # "declined"}
        IN  /\ reply[q].from = "dnsagent" /\ reply[q].about = Key(s)
            /\ question[q].qtype = "SRV"
            /\ \A i \in DOMAIN conf.search : ~Contains(conf.search[i], "_addr")
            /\ \A t \in Polaris : ~Contains(ToLower(FullName(t)), "_addr")
            => /\ answers # {}
               /\ \A i \in answers : Ask(conf.resolvers[i], k).data = <<s.host>>

\* A query is left without a reply only for one of five reasons: its name begins
\* with _addr; the text before _addr is hexadecimal of neither four nor sixteen
\* bytes; it is of four, and the question is for an IPv6 address; an SRV record has
\* no instance or no address to point to; recursion has no upstream.
LossesAreNamed ==
    \A q \in Queries :
        out[q] = "lost" =>
            \/ Len(Upstream) = 0
            \/ \E i \in DOMAIN question[q].name :
                  /\ question[q].name[i] = "_addr"
                  /\ \/ i = 1 \/ question[q].qtype = "SRV"
                     \/ question[q].name[i - 2] \in HexWords
                     \/ /\ question[q].qtype = "AAAA"
                        /\ \E h \in V4 : question[q].name[i - 2] = Hex4[h]
            \/ question[q].qtype = "SRV" /\ \E s \in Polaris : s.host \notin V4 \cup V6

\* What comments and documents say of replies: a response with NXDOMAIN is
\* returned (proxy.go:84-88), www.baidu.com resolves with recursion (development.md
\* :54-55), and the mesh resolver answers AAAA with NXDOMAIN (meshproxy/dns.go:58-61).
DocumentedReplies ==
    \A q \in Queries :
        /\ reply[q].from = "recursor" /\ reply[q].about \notin Zone => reply[q].rcode = "NXDOMAIN"
        /\ reply[q].from = "recursor" /\ question[q].name \in Zone => reply[q].data = <<"records">>
        /\ reply[q].from = "meshproxy" /\ question[q].qtype = "AAAA" => reply[q].rcode = "NXDOMAIN"
=============================================================================
