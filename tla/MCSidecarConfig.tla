-------------------------- MODULE MCSidecarConfig --------------------------
(* Sources for TLC: every file of a few, and an environment and flags that    *)
(* give at most two settings each.                                            *)
EXTENDS SidecarConfig, FiniteSets

MCAddresses == {"0.0.0.0", "a1", "a2", "a3"}
MCLevels == KnownLevels \cup {"bogus"}

Off == [m \in MeshServices |-> "unset"]
NoFile == [state |-> "absent", bind |-> "unset", level |-> "unset", recurse |-> "unset",
           debug |-> "unset", mesh |-> Off, lists |-> FALSE, listed |-> {}, enabled |-> {},
           labels |-> "unset", meshOption |-> "none", nulls |-> {}]
PlainFile == [NoFile EXCEPT !.state = "read", !.bind = "a1", !.level = "warn",
                            !.recurse = "true", !.debug = "false",
                            !.mesh = [Off EXCEPT !["mtls"] = "true"]]
ListFile == [PlainFile EXCEPT !.lists = TRUE, !.listed = Registered, !.enabled = Registered,
                              !.labels = "file", !.meshOption = "interval"]

MCFiles == {NoFile, [NoFile EXCEPT !.state = "broken"], PlainFile,
            [ListFile EXCEPT !.listed = {}, !.enabled = {}],
            [ListFile EXCEPT !.listed = {"dnsagent"}, !.enabled = {"dnsagent"}],
            [ListFile EXCEPT !.listed = Names, !.enabled = Names]}
           \cup {[ListFile EXCEPT !.enabled = e, !.meshOption = o] :
                    e \in SUBSET Registered, o \in {"none", "other", "negative", "interval"}}
           \cup {[ListFile EXCEPT !.nulls = {n}] : n \in Nullable}

\* How many settings of a source are given?
Size(s, mesh) == Cardinality({k \in DOMAIN s \ {"mesh"} : s[k] # "unset"})
                 + Cardinality({m \in MeshServices : mesh[m] # "unset"})

MCEnvs == {e \in [bind : {"unset", "a2"}, level : {"unset", "debug"},
                  recurse : {"unset", "bad", "false"},
                  mesh : {[Off EXCEPT !["mtls"] = v] : v \in {"unset", "true", "false", "bad"}},
                  dnsagent : {"unset", "false", "bad"}, meshproxy : {"unset", "true", "bad"},
                  labels : {"unset", "env"}, reload : {"unset", "bad", "env"},
                  answer : {"unset", "env"}, location : {"unset", "env"}] : Size(e, e.mesh) <= 2}

MCFlags == {f \in [bind : {"unset", "a3"}, level : {"unset", "error", "bogus"},
                   recurse : {"unset", "bad", "true"}, dnsagent : {"unset", "bad", "true"},
                   meshproxy : {"unset", "bad", "true", "false"},
                   labels : {"unset", "bad", "flag"}] : Size(f, Off) <= 2}
=============================================================================
