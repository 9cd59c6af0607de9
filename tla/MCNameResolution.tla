-------------------------- MODULE MCNameResolution --------------------------
(* Names, services and resolver configurations for TLC. *)
EXTENDS NameResolution

MCLower == [POLARIS |-> "polaris", Polaris |-> "polaris", WEB |-> "web"]

MCHex == [v4a |-> "hexA", v4b |-> "hexB", v6a |-> "hexC"]

MCHex4 == [v4a |-> "shortA", v4b |-> "shortB"]

MCPolaris == {
    [service |-> <<"web">>, namespace |-> <<"ns">>, host |-> "v4a"],
    [service |-> <<"web", ".", "blue">>, namespace |-> <<"ns">>, host |-> "v4b"],
    [service |-> <<"web">>, namespace |-> <<"other">>, host |-> "v6a"],
    \* Polaris tells upper case from lower, the mesh resolver does not
    [service |-> <<"WEB">>, namespace |-> <<"other">>, host |-> "v4b"],
    [service |-> <<"ext">>, namespace |-> <<"ns">>, host |-> "hostname"],
    [service |-> <<"checker">>, namespace |-> <<"Polaris">>, host |-> "v4b"]}

MCZone == {<<"www", ".", "site", ".">>, <<"web", ".", "ns", ".", "svc", ".">>}

\* What a client asks, before it appends a search domain.
Bases == {
    <<"web">>, <<"WEB">>, <<"web", ".", "ns">>, <<"web", ".", "blue", ".", "ns">>,
    <<"web", ".", "other">>, <<"WEB", ".", "other">>, <<"ext", ".", "ns">>, <<"checker", ".", "POLARIS">>,
    <<"checker", ".", "polaris">>, <<"www", ".", "site">>, <<"_addr", ".", "ns">>,
    <<"hexA", ".", "_addr", ".", "web", ".", "ns">>, <<"hexC", ".", "_addr", ".", "web">>,
    <<"beef", ".", "_addr", ".", "web">>, <<"shortA", ".", "_addr", ".", "web">>,
    <<"other", ".", "_addr", ".", "web">>,
    \* one label whose end is the beginning of a search domain or a suffix
    <<"web", "ns">>}

Tails == {<<>>, <<"mesh">>, <<"svc">>, <<"ns", ".", "svc">>, <<"mesh", ".", "ns", ".", "svc">>}

MCQuestions ==
    [qtype : {"A", "AAAA", "SRV", "TXT"},
     name : {AddQuota(b) \o IF t = <<>> THEN <<>> ELSE AddQuota(t) : b \in Bases, t \in Tails}
            \cup {<<"web", "ns", ".", "svc", ".">>, <<"web", "mesh", ".", "ns", ".", "svc", ".">>,
                    <<"web", "mesh", ".">>, <<"mesh", ".">>, Dot, <<"svc", ".">>}]

NoSuffix == [dnsagent |-> Dot, meshproxy |-> <<>>]

Host == [resolvers |-> <<"dnsagent">>, recurse |-> TRUE, bindLocalhost |-> TRUE,
         nameServers |-> <<"s1">>, resolvServers |-> <<"127.0.0.1">>, attempts |-> 2,
         search |-> <<Dot>>, ndots |-> 1, suffix |-> NoSuffix, namespace |-> <<"ns">>]

Container == [Host EXCEPT !.search = <<<<"ns", ".", "svc">>, <<"svc">>>>, !.ndots = 5]

MCConfigs == {
    Host, Container,
    [Container EXCEPT !.search = <<<<"svc">>, <<"ns", ".", "svc", ".">>>>, !.ndots = 1,
                      !.resolvers = <<"meshproxy", "dnsagent">>],
    [Container EXCEPT !.resolvers = <<"dnsagent", "meshproxy">>,
                      !.suffix = [dnsagent |-> <<"mesh">>, meshproxy |-> <<"mesh">>]],
    [Host EXCEPT !.recurse = FALSE, !.resolvers = <<"meshproxy">>, !.suffix.meshproxy = Dot],
    [Host EXCEPT !.nameServers = <<>>]}
=============================================================================
