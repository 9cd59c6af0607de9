---------------------------- MODULE MCDnsHandler ----------------------------
(* Small instances of DnsHandler for TLC. *)
EXTENDS DnsHandler

Plain == [resolvers |-> <<"dnsagent", "meshproxy">>, recurse |-> TRUE, bindLocalhost |-> TRUE,
          nameServers |-> <<"s1", "s2">>, resolvServers |-> <<"127.0.0.1", "s2">>,
          attempts |-> 2, search |-> <<"d1", "d2">>]

MCConfigs == {
    Plain,
    \* three servers against two attempts in /etc/resolv.conf
    [Plain EXCEPT !.resolvServers = <<"s3">>, !.search = <<"d1">>],
    \* the sidecar is the only nameserver: nothing is left to ask
    [Plain EXCEPT !.nameServers = <<>>, !.resolvServers = <<"127.0.0.1">>],
    [Plain EXCEPT !.search = <<>>, !.resolvers = <<"meshproxy">>],
    [Plain EXCEPT !.recurse = FALSE]}
=============================================================================
