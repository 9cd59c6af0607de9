--------------------------- MODULE SidecarConfig ---------------------------
(***************************************************************************)
(* How the sidecar comes to its configuration and to the set of services   *)
(* it runs: config.InitConfig merges the file, the environment and the     *)
(* flags over the defaults and verifies the result, bootstrap.initAgent    *)
(* builds what is enabled.  A setting is "unset" where a source leaves it  *)
(* out and "bad" where its text cannot be read.                            *)
(***************************************************************************)
EXTENDS Integers

CONSTANTS
    Addresses, Levels,  \* texts for the bind address and for the log level
    Files, Envs, Flags  \* what the three sources may hold

Registered == {"dnsagent", "meshproxy"}
Names == Registered \cup {"other"}
MeshServices == {"mtls", "metric", "rls"}
KnownLevels == {"debug", "info", "warn", "error", "fatal"}
Switch == {"true", "false"}
Readable == Switch \cup {"unset"}

\* What a file can set to null: a section, the section of a mesh service, an
\* entry of the list of resolvers, a location provider.  Each is a pointer, and
\* mergeEnv reads through all of them but the last two, the provider only where
\* the environment has a location.
Dereferenced == {"polaris", "recurse", "logger", "entry", "mesh"} \cup MeshServices
Nullable == Dereferenced \cup {"provider", "debugger"}

\* A file that lists resolvers replaces the whole list of the defaults;
\* meshOption says what the option of its meshproxy entry holds.  "negative" is
\* a number that is no time above 0, an interval of 0 is the same as none.
FileType ==
    [state : {"absent", "broken", "read"}, bind : Addresses \cup {"unset"},
     level : Levels \cup {"unset"}, recurse : Readable, debug : Readable,
     mesh : [MeshServices -> Readable], lists : BOOLEAN, listed : SUBSET Names,
     enabled : SUBSET Names, labels : {"unset", "file"},
     meshOption : {"none", "other", "negative", "interval"}, nulls : SUBSET Nullable]

\* A reload interval that is not above 0 counts as one that cannot be read.
EnvType ==
    [bind : Addresses \cup {"unset"}, level : Levels \cup {"unset"},
     recurse : Readable \cup {"bad"}, mesh : [MeshServices -> Readable \cup {"bad"}],
     dnsagent : Readable \cup {"bad"}, meshproxy : Readable \cup {"bad"},
     labels : {"unset", "env"}, reload : {"unset", "bad", "env"}, answer : {"unset", "env"},
     location : {"unset", "env"}]

FlagsType ==
    [bind : Addresses \cup {"unset"}, level : Levels \cup {"unset"},
     recurse : Readable \cup {"bad"}, dnsagent : Readable \cup {"bad"},
     meshproxy : Readable \cup {"bad"}, labels : {"unset", "bad", "flag"}]

\* What the sources are merged into.
ConfigType ==
    [bind : Addresses, level : Levels \cup {"unset"}, recurse : Switch, debug : Switch,
     mesh : [MeshServices -> Switch], listed : SUBSET Names, enabled : SUBSET Names,
     labels : {"unset", "file", "env", "flag"}, option : BOOLEAN,
     reload : {"unset", "negative", "default", "file", "env"}, nils : SUBSET Nullable]

SourcesAreWellFormed ==
    /\ "unset" \notin Addresses \cup Levels
    /\ "0.0.0.0" \in Addresses /\ KnownLevels \subseteq Levels
    /\ Files \subseteq FileType
    /\ \A f \in Files : f.enabled \subseteq f.listed
    /\ \A f \in Files : "entry" \in f.nulls => f.lists
    /\ Envs \subseteq EnvType /\ Flags \subseteq FlagsType
ASSUME ConfigAssumption == SourcesAreWellFormed

VARIABLES
    file, env, flags,   \* the sources, fixed at the start
    step,               \* how far the start has come, or how it ended
    why,                \* what made it end
    cfg,                \* the configuration so far
    services            \* the services initAgent has built

sources == <<file, env, flags>>
vars == <<sources, step, why, cfg, services>>

Ends == {"rejected", "panicked", "crashed", "running"}

-----------------------------------------------------------------------------
\* Defaults that leave the reload interval to the file.
DefaultWithoutInterval ==
    [bind |-> "0.0.0.0", level |-> "info", recurse |-> "false", debug |-> "true",
     mesh |-> [m \in MeshServices |-> "false"], listed |-> Registered,
     enabled |-> {"dnsagent"}, labels |-> "unset", option |-> TRUE, reload |-> "unset",
     nils |-> {}]

\* labels: the route labels of dnsagent; option, reload: has meshproxy an option
\* map, and the interval in it; nils: the pointers that are nil.
Default ==
    [bind |-> "0.0.0.0", level |-> "info", recurse |-> "false", debug |-> "true",
     mesh |-> [m \in MeshServices |-> "false"], listed |-> Registered,
     enabled |-> {"dnsagent"}, labels |-> "unset", option |-> TRUE, reload |-> "default",
     nils |-> {}]

Init ==
    /\ file \in Files /\ env \in Envs /\ flags \in Flags
    /\ step = "file" /\ why = "none" /\ cfg = Default /\ services = {}

\* A merge in which what is set stays.
FirstWins(value, lower) == IF lower # "unset" THEN lower ELSE value

\* getEnv*Value and the tests of len: what is left out, or cannot be read in the
\* environment, leaves the lower source in force.
Or(value, lower) == IF value \in {"unset", "bad"} THEN lower ELSE value

\* A switch for a resolver that need not be listed.
TurnUnlisted(listed, enabled, name, value) ==
    CASE value = "true" -> enabled \cup {name}
      [] value = "false" -> enabled \ {name}
      [] OTHER -> enabled

Turn(listed, enabled, name, value) ==
    CASE value = "true" -> enabled \cup ({name} \cap listed)
      [] value = "false" -> enabled \ {name}
      [] OTHER -> enabled

End(how, reason) ==
    /\ step' = how /\ why' = reason
    /\ UNCHANGED <<sources, cfg, services>>

Merged(next, c) ==
    /\ step' = next /\ cfg' = c
    /\ UNCHANGED <<sources, why, services>>

-----------------------------------------------------------------------------
(* config.InitConfig                                                       *)

FileIsBroken ==
    /\ step = "file" /\ file.state = "broken"
    /\ End("rejected", "file")

FileIsAbsent ==
    /\ step = "file" /\ file.state = "absent"
    /\ Merged("env", cfg)

FileInterval ==
    CASE file.meshOption = "interval" -> "file"
      [] file.meshOption = "negative" -> "negative"
      [] OTHER -> "unset"

MergeFile ==
    /\ step = "file" /\ file.state = "read"
    /\ LET c == [cfg EXCEPT
             !.bind = Or(file.bind, @), !.level = Or(file.level, @),
             !.recurse = Or(file.recurse, @), !.nils = file.nulls,
             !.debug = IF "debugger" \in file.nulls THEN "false" ELSE Or(file.debug, @),
             !.mesh = [m \in MeshServices |-> Or(file.mesh[m], cfg.mesh[m])]]
       IN  Merged("env",
             IF ~file.lists THEN c
             ELSE [c EXCEPT !.listed = file.listed, !.enabled = file.enabled,
                            !.labels = file.labels, !.option = file.meshOption # "none",
                            !.reload = FileInterval])

\* mergeEnv reads and writes through the pointers that the file may have set to nil.
NilPointer ==
    \/ cfg.nils \cap Dereferenced # {}
    \/ "provider" \in cfg.nils /\ env.location = "env"

\* An option of the environment is written into a map that may be nil.
NilOption ==
    /\ "meshproxy" \in cfg.listed /\ ~cfg.option
    /\ env.reload = "env" \/ env.answer = "env"

\* bootstrap.Start recovers the panic and returns: the process ends normally.
MergeEnvPanics ==
    /\ step = "env"
    /\ NilPointer \/ NilOption
    /\ End("panicked", "nil")

MergeEnv ==
    /\ step = "env" /\ ~NilPointer /\ ~NilOption
    /\ LET enabled == Turn(cfg.listed, cfg.enabled, "dnsagent", env.dnsagent)
       IN  Merged("flags", [cfg EXCEPT
             !.bind = Or(env.bind, @), !.level = Or(env.level, @),
             !.recurse = Or(env.recurse, @),
             !.mesh = [m \in MeshServices |-> Or(env.mesh[m], cfg.mesh[m])],
             !.enabled = Turn(cfg.listed, enabled, "meshproxy", env.meshproxy),
             !.labels = IF "dnsagent" \in cfg.listed THEN Or(env.labels, @) ELSE @,
             !.reload = IF "meshproxy" \in cfg.listed THEN Or(env.reload, @) ELSE @])

\* The flags of both resolvers are looked at only when one of dnsagent is given.
AgentFlags == flags.dnsagent # "unset" \/ flags.labels # "unset"

BadFlag ==
    \/ flags.recurse = "bad"
    \/ AgentFlags /\ \E n \in Registered \cap cfg.listed : flags[n] = "bad"

FlagIsBad ==
    /\ step = "flags" /\ BadFlag
    /\ End("rejected", "flag")

\* mergeBootConfig sets the level whether the flag is given or not.  The labels
\* of the flag are a map, those of the file and of the environment are texts.
MergeBootConfig ==
    /\ step = "flags" /\ ~BadFlag
    /\ LET c == [cfg EXCEPT !.bind = Or(flags.bind, @), !.level = flags.level,
                            !.recurse = Or(flags.recurse, @)]
           enabled == Turn(cfg.listed, cfg.enabled, "dnsagent", flags.dnsagent)
       IN  Merged("verify",
             IF ~AgentFlags THEN c
             ELSE [c EXCEPT
                     !.enabled = Turn(cfg.listed, enabled, "meshproxy", flags.meshproxy),
                     !.labels = IF "dnsagent" \in cfg.listed THEN Or(flags.labels, @) ELSE @])

\* The other checks of verify are about values this module leaves out.
Verified ==
    /\ cfg.level \in KnownLevels \cup {"unset"}
    /\ cfg.enabled \cap Registered # {}

VerifyFails ==
    /\ step = "verify" /\ ~Verified
    /\ End("rejected", "verify")

Verify ==
    /\ step = "verify" /\ Verified
    /\ Merged("init", cfg)

(* bootstrap.initAgent                                                     *)

\* Mesh services that do not ask for the mesh resolver.
MeshAlways == TRUE
MeshEnabled == "meshproxy" \in cfg.enabled

\* A resolver no plugin is registered for.
ResolverIsUnknown ==
    /\ step = "init" /\ ~(cfg.enabled \subseteq Registered)
    /\ End("rejected", "resolver")

\* parseOptions decodes the route labels into a text.
OptionsDoNotParse ==
    /\ step = "init" /\ "dnsagent" \in cfg.enabled /\ cfg.labels = "flag"
    /\ End("rejected", "options")

\* The logger, the SDK context, resolv.conf, the mTLS options.
AgentFails ==
    /\ step = "init"
    /\ End("rejected", "agent")

BuildServices ==
    /\ step = "init"
    /\ cfg.enabled \subseteq Registered
    /\ ~("dnsagent" \in cfg.enabled /\ cfg.labels = "flag")
    /\ step' = "start"
    /\ services' = {"dns"} \cup (IF cfg.debug = "true" THEN {"debug"} ELSE {})
                   \cup {m \in MeshServices : MeshEnabled /\ cfg.mesh[m] = "true"}
    /\ UNCHANGED <<sources, why, cfg>>

(* The services start                                                      *)

NoInterval == "meshproxy" \in cfg.enabled /\ cfg.reload \in {"unset", "negative"}

\* NewTicker panics on an interval of 0 or below, in a goroutine nobody recovers.
ReloaderCrashes ==
    /\ step = "start" /\ NoInterval
    /\ End("crashed", "interval")

Started ==
    /\ step = "start" /\ ~NoInterval
    /\ End("running", "none")

-----------------------------------------------------------------------------
Stopped == step \in Ends /\ UNCHANGED vars

Next ==
    \/ FileIsBroken \/ FileIsAbsent \/ MergeFile
    \/ MergeEnvPanics \/ MergeEnv
    \/ FlagIsBad \/ MergeBootConfig
    \/ VerifyFails \/ Verify
    \/ ResolverIsUnknown \/ OptionsDoNotParse \/ AgentFails \/ BuildServices
    \/ ReloaderCrashes \/ Started
    \/ Stopped

Spec == Init /\ [][Next]_vars

-----------------------------------------------------------------------------
(* Properties                                                              *)

TypeOK ==
    /\ file \in Files /\ env \in Envs /\ flags \in Flags
    /\ step \in {"file", "env", "flags", "verify", "init", "start"} \cup Ends
    /\ why \in {"none", "file", "nil", "flag", "verify", "resolver", "options", "agent",
                "interval"}
    /\ cfg \in ConfigType
    /\ cfg.enabled \subseteq cfg.listed
    /\ services \in SUBSET (MeshServices \cup {"dns", "debug"})

(* What the sources say, read without the merges: a setting is what the    *)
(* last of its sources says, in the order of base.go:59, that says anything. *)

Says(given) == {i \in DOMAIN given : given[i] \notin {"unset", "bad"}}
Last(given) ==
    LET said == Says(given)
    IN  IF said = {} THEN "unset"
        ELSE given[CHOOSE i \in said : \A j \in said : j <= i]

IsRead == file.state = "read"
ListIsRead == IsRead /\ file.lists
InFile(value) == IF IsRead THEN value ELSE "unset"
InList(value) == IF ListIsRead THEN value ELSE "unset"

\* Is a resolver enabled by the list of the file or of the defaults?
Listing(name) ==
    LET enabled == IF ListIsRead THEN file.enabled ELSE Default.enabled
    IN  IF name \in enabled THEN "true" ELSE "false"

\* The resolvers and services the sources ask for.  The meshproxy flag counts
\* only together with one of dnsagent (finding DocumentedPriority).
AsksFor(name) ==
    /\ name \in IF ListIsRead THEN file.listed ELSE Registered
    /\ Last(<<Listing(name), env[name], IF AgentFlags THEN flags[name] ELSE "unset">>) = "true"

AsksForMesh(m) == Last(<<Default.mesh[m], InFile(file.mesh[m]), env.mesh[m]>>) = "true"

AsksForDebug ==
    /\ ~(IsRead /\ "debugger" \in file.nulls)
    /\ Last(<<Default.debug, InFile(file.debug)>>) = "true"

\* A running sidecar has its address, its recursion and the route labels of
\* dnsagent from the last source that says anything of them, although three
\* functions merge them and a file may replace the list that holds the labels.
\* The log level is left out: mergeBootConfig overwrites it (DocumentedPriority).
PriorityHolds ==
    step = "running" =>
        /\ cfg.bind = Last(<<Default.bind, InFile(file.bind), env.bind, flags.bind>>)
        /\ cfg.recurse =
              Last(<<Default.recurse, InFile(file.recurse), env.recurse, flags.recurse>>)
        /\ "dnsagent" \in cfg.enabled =>
              cfg.labels = Last(<<InList(file.labels), env.labels, flags.labels>>)

\* What runs is exactly what the sources ask for: the resolvers, the debug
\* server, and a mesh service where its own switch and the mesh resolver are on.
\* So the flags that verify computes on the way (verify.go:72) lose nothing.
ServicesFollowSources ==
    step = "running" =>
        /\ cfg.enabled = {n \in Registered : AsksFor(n)}
        /\ services = {"dns"} \cup (IF AsksForDebug THEN {"debug"} ELSE {})
              \cup {m \in MeshServices : AsksForMesh(m) /\ AsksFor("meshproxy")}

\* A null that mergeEnv reads through, or an option of the environment for a
\* meshproxy entry that has no option map.
NilCause ==
    /\ IsRead
    /\ \/ file.nulls \cap Dereferenced # {}
       \/ "provider" \in file.nulls /\ env.location = "env"
       \/ /\ file.lists /\ "meshproxy" \in file.listed /\ file.meshOption = "none"
          /\ env.reload = "env" \/ env.answer = "env"

\* A meshproxy entry without an interval above 0, and none in the environment.
IntervalCause ==
    /\ ListIsRead /\ "meshproxy" \in file.listed
    /\ file.meshOption # "interval" /\ env.reload # "env"

\* verify looks neither at the sections that are null nor at the options of a
\* resolver.  The file alone, or with the environment, can bring the process
\* down while it starts, for these two causes and no other, and neither of them
\* is survived: not the first in the merge, nor the second at the ticker.
BrokenStartsAreNamed ==
    /\ step = "panicked" => NilCause
    /\ step = "crashed" => IntervalCause
    /\ step \in {"flags", "verify", "init", "start", "crashed", "running"} => ~NilCause
    /\ step = "running" /\ "meshproxy" \in cfg.enabled => ~IntervalCause

\* base.go:59: "order of priority is: file < environment < bootstrap", and
\* start.go:65-66 offers a flag for the route labels: it ends no start.
DocumentedPriority ==
    /\ step = "running" =>
        /\ Last(<<"info", cfg.level>>) =
              Last(<<Default.level, InFile(file.level), env.level, flags.level>>)
        /\ "meshproxy" \in cfg.listed =>
              ("meshproxy" \in cfg.enabled) =
                  (Last(<<Listing("meshproxy"), env.meshproxy, flags.meshproxy>>) = "true")
    /\ flags.labels = "flag" => why # "options"
=============================================================================
