------------------------ MODULE SidecarConfigProofs ------------------------
(* Theorems about SidecarConfig, for all files, environments and flags. *)
EXTENDS SidecarConfig, TLAPS

\* The parts of the type invariant a step can disturb.
StateOK ==
    /\ step \in {"file", "env", "flags", "verify", "init", "start"} \cup Ends
    /\ why \in {"none", "file", "nil", "flag", "verify", "resolver", "options", "agent",
                "interval"}
    /\ services \in SUBSET (MeshServices \cup {"dns", "debug"})

\* The merged configuration has the shape the services are built from.
CfgOK ==
    /\ cfg \in ConfigType
    /\ cfg.enabled \subseteq cfg.listed

\* The sources never change.
SourcesOK == file \in Files /\ env \in Envs /\ flags \in Flags

LEMMA SourceTypes ==
    ASSUME SourcesOK
    PROVE  file \in FileType /\ env \in EnvType /\ flags \in FlagsType
           /\ file.enabled \subseteq file.listed
  BY ConfigAssumption DEF SourcesOK, SourcesAreWellFormed

\* Turning a resolver on or off keeps the enabled ones among the listed ones.
LEMMA TurnStays ==
    ASSUME NEW listed, NEW enabled \in SUBSET listed, NEW n, NEW v
    PROVE  Turn(listed, enabled, n, v) \in SUBSET listed
  BY DEF Turn

\* Turn answers for the resolver it is about and leaves the others alone.
LEMMA TurnAnswers ==
    ASSUME NEW listed, NEW enabled \in SUBSET listed, NEW n \in listed,
           NEW v \in Readable \cup {"bad"}
    PROVE  (n \in Turn(listed, enabled, n, v)) =
              ("true" = Or(v, IF n \in enabled THEN "true" ELSE "false"))
  BY DEF Turn, Or, Readable, Switch

LEMMA TurnLeavesOthers ==
    ASSUME NEW listed, NEW enabled \in SUBSET listed, NEW n, NEW v, NEW m, m # n
    PROVE  (m \in Turn(listed, enabled, n, v)) = (m \in enabled)
  BY DEF Turn

-----------------------------------------------------------------------------
\* A merge keeps the type of a setting.
LEMMA OrKeepsType ==
    ASSUME NEW S, NEW lower \in S, NEW value \in S \cup {"unset", "bad"}
    PROVE  Or(value, lower) \in S
  BY DEF Or

LEMMA MeshKeepsType ==
    ASSUME NEW f \in [MeshServices -> Readable \cup {"bad"}],
           NEW g \in [MeshServices -> Switch]
    PROVE  [m \in MeshServices |-> Or(f[m], g[m])] \in [MeshServices -> Switch]
  BY DEF Or, Readable, Switch

LEMMA FileKeepsType ==
    ASSUME SourcesOK, CfgOK, MergeFile
    PROVE  CfgOK'
<1> DEFINE mesh == [m \in MeshServices |-> Or(file.mesh[m], cfg.mesh[m])]
           bind == Or(file.bind, cfg.bind)
           level == Or(file.level, cfg.level)
           recurse == Or(file.recurse, cfg.recurse)
           debug == IF "debugger" \in file.nulls THEN "false" ELSE Or(file.debug, cfg.debug)
           c == [cfg EXCEPT !.bind = bind, !.level = level, !.recurse = recurse,
                            !.nils = file.nulls, !.debug = debug, !.mesh = mesh]
<1>1. file \in FileType /\ file.enabled \subseteq file.listed
  BY SourceTypes
<1>2. /\ bind \in Addresses /\ level \in Levels \cup {"unset"}
      /\ recurse \in Switch /\ debug \in Switch /\ file.nulls \in SUBSET Nullable
  BY <1>1, OrKeepsType DEF CfgOK, ConfigType, FileType, Readable, Switch
<1>3. mesh \in [MeshServices -> Switch]
  BY <1>1, MeshKeepsType DEF CfgOK, ConfigType, FileType, Readable
<1>4. cfg' = c \/ cfg' = [c EXCEPT !.listed = file.listed, !.enabled = file.enabled,
                             !.labels = file.labels, !.option = file.meshOption # "none",
                             !.reload = FileInterval]
  BY DEF MergeFile, Merged
<1> HIDE DEF mesh, bind, level, recurse, debug
<1>5. c \in ConfigType /\ c.enabled \subseteq c.listed
  BY <1>2, <1>3 DEF CfgOK, ConfigType
<1>6. /\ file.listed \in SUBSET Names /\ file.enabled \in SUBSET Names
      /\ file.labels \in {"unset", "file"}
      /\ FileInterval \in {"unset", "negative", "file"}
  BY <1>1 DEF FileType, FileInterval
<1> HIDE DEF c
<1>7. CASE cfg' = c
  BY <1>5, <1>7 DEF CfgOK
<1>8. CASE cfg' = [c EXCEPT !.listed = file.listed, !.enabled = file.enabled,
                            !.labels = file.labels, !.option = file.meshOption # "none",
                            !.reload = FileInterval]
  <2>1. cfg' \in ConfigType
    BY <1>5, <1>6, <1>8 DEF ConfigType
  <2>2. cfg'.listed = file.listed /\ cfg'.enabled = file.enabled
    BY <1>5, <1>8 DEF ConfigType
  <2> QED
    BY <1>1, <2>1, <2>2 DEF CfgOK
<1> QED
  BY <1>4, <1>7, <1>8

LEMMA EnvKeepsType ==
    ASSUME SourcesOK, CfgOK, MergeEnv
    PROVE  CfgOK'
<1> DEFINE mesh == [m \in MeshServices |-> Or(env.mesh[m], cfg.mesh[m])]
           bind == Or(env.bind, cfg.bind)
           level == Or(env.level, cfg.level)
           recurse == Or(env.recurse, cfg.recurse)
           enabled == Turn(cfg.listed, Turn(cfg.listed, cfg.enabled, "dnsagent", env.dnsagent),
                           "meshproxy", env.meshproxy)
           labels == IF "dnsagent" \in cfg.listed THEN Or(env.labels, cfg.labels) ELSE cfg.labels
           reload == IF "meshproxy" \in cfg.listed THEN Or(env.reload, cfg.reload) ELSE cfg.reload
<1>1. env \in EnvType
  BY SourceTypes
<1>2. bind \in Addresses /\ level \in Levels \cup {"unset"} /\ recurse \in Switch
  BY <1>1, OrKeepsType DEF CfgOK, ConfigType, EnvType, Readable
<1>3. mesh \in [MeshServices -> Switch]
  BY <1>1, MeshKeepsType DEF CfgOK, ConfigType, EnvType
<1>4. labels \in {"unset", "file", "env", "flag"} /\ reload \in {"unset", "negative", "default", "file", "env"}
  BY <1>1 DEF CfgOK, ConfigType, EnvType, Or
<1>5. enabled \in SUBSET cfg.listed
  BY TurnStays DEF CfgOK
<1>6. cfg' = [cfg EXCEPT !.bind = bind, !.level = level, !.recurse = recurse, !.mesh = mesh,
                         !.enabled = enabled, !.labels = labels, !.reload = reload]
  BY DEF MergeEnv, Merged
<1> HIDE DEF mesh, bind, level, recurse, enabled, labels, reload
<1>7. QED
  BY <1>2, <1>3, <1>4, <1>5, <1>6 DEF CfgOK, ConfigType

LEMMA FlagsKeepType ==
    ASSUME SourcesOK, CfgOK, MergeBootConfig
    PROVE  CfgOK'
<1> DEFINE bind == Or(flags.bind, cfg.bind)
           recurse == Or(flags.recurse, cfg.recurse)
           enabled == Turn(cfg.listed, Turn(cfg.listed, cfg.enabled, "dnsagent", flags.dnsagent),
                           "meshproxy", flags.meshproxy)
           labels == IF "dnsagent" \in cfg.listed THEN Or(flags.labels, cfg.labels) ELSE cfg.labels
           c == [cfg EXCEPT !.bind = bind, !.level = flags.level, !.recurse = recurse]
<1>1. flags \in FlagsType
  BY SourceTypes
<1>2. bind \in Addresses /\ flags.level \in Levels \cup {"unset"} /\ recurse \in Switch
  BY <1>1, OrKeepsType DEF CfgOK, ConfigType, FlagsType, Readable
<1>3. labels \in {"unset", "file", "env", "flag"}
  BY <1>1 DEF CfgOK, ConfigType, FlagsType, Or
<1>4. enabled \in SUBSET cfg.listed
  BY TurnStays DEF CfgOK
<1>5. cfg' = c \/ cfg' = [c EXCEPT !.enabled = enabled, !.labels = labels]
  BY DEF MergeBootConfig, Merged
<1> HIDE DEF bind, recurse, enabled, labels
<1>6. QED
  BY <1>2, <1>3, <1>4, <1>5 DEF CfgOK, ConfigType

TypeInv == SourcesOK /\ StateOK /\ CfgOK

LEMMA TypeInvIsInductive == TypeInv /\ [Next]_vars => TypeInv'
<1> SUFFICES ASSUME TypeInv, [Next]_vars PROVE TypeInv'
  OBVIOUS
<1>1. SourcesOK'
  BY DEF TypeInv, SourcesOK, Next, vars, sources, FileIsBroken, FileIsAbsent, MergeFile,
         MergeEnvPanics, MergeEnv, FlagIsBad, MergeBootConfig, VerifyFails, Verify,
         ResolverIsUnknown, OptionsDoNotParse, AgentFails, BuildServices, ReloaderCrashes,
         Started, Stopped, End, Merged
<1>2. StateOK'
  BY DEF TypeInv, StateOK, Next, vars, FileIsBroken, FileIsAbsent, MergeFile,
         MergeEnvPanics, MergeEnv, FlagIsBad, MergeBootConfig, VerifyFails, Verify,
         ResolverIsUnknown, OptionsDoNotParse, AgentFails, BuildServices, ReloaderCrashes,
         Started, Stopped, End, Merged, Ends
<1>3. CfgOK'
  <2>1. CASE MergeFile \/ MergeEnv \/ MergeBootConfig
    BY <2>1, FileKeepsType, EnvKeepsType, FlagsKeepType DEF TypeInv
  <2>2. CASE cfg' = cfg
    BY <2>2 DEF TypeInv, CfgOK
  <2>3. QED
    BY <2>1, <2>2 DEF Next, vars, FileIsBroken, FileIsAbsent, MergeEnvPanics, FlagIsBad,
         VerifyFails, Verify, ResolverIsUnknown, OptionsDoNotParse, AgentFails,
         BuildServices, ReloaderCrashes, Started, Stopped, End, Merged
<1>4. QED
  BY <1>1, <1>2, <1>3 DEF TypeInv

LEMMA TypeInvHolds == Spec => []TypeInv
<1>1. Init => TypeInv
  BY ConfigAssumption DEF Init, TypeInv, SourcesOK, StateOK, CfgOK, ConfigType, Default, Registered,
     Names, Switch, MeshServices, SourcesAreWellFormed, KnownLevels
<1>2. QED
  BY <1>1, TypeInvIsInductive, PTL DEF Spec

\* Type correctness: no merge of file, environment and flags gives a setting a
\* value of another kind, and only listed resolvers are ever enabled.
THEOREM TypeCorrect == Spec => []TypeOK
<1>1. TypeInv => TypeOK
  BY DEF TypeInv, SourcesOK, StateOK, CfgOK, TypeOK
<1>2. QED
  BY <1>1, TypeInvHolds, PTL

-----------------------------------------------------------------------------
(* Each merge puts one more source above what is there already: after each *)
(* of them the configuration is what the sources merged so far say, by     *)
(* priority.  A setting is a text, a resolver a membership in a set that   *)
(* the file may have replaced.                                             *)

Settings(inFile, inEnv, flag) ==
    /\ cfg.bind = Or(flag.bind, Or(inEnv.bind, Or(InFile(inFile.bind), Default.bind)))
    /\ cfg.recurse = Or(flag.recurse,
                        Or(inEnv.recurse, Or(InFile(inFile.recurse), Default.recurse)))

\* What only the file can give, and the labels, which it gives with its list.
Given ==
    /\ cfg.listed = IF ListIsRead THEN file.listed ELSE Registered
    /\ cfg.debug = IF IsRead /\ "debugger" \in file.nulls THEN "false"
                   ELSE Or(InFile(file.debug), Default.debug)

Labels(inEnv, flag) ==
    "dnsagent" \in cfg.listed => cfg.labels = Or(flag.labels, Or(inEnv.labels, InList(file.labels)))

Mesh(inEnv) ==
    \A m \in MeshServices : cfg.mesh[m] = Or(inEnv[m], Or(InFile(file.mesh[m]), Default.mesh[m]))

Resolvers(inEnv, flag) ==
    \A n \in Registered \cap cfg.listed :
        (n \in cfg.enabled) = ("true" = Or(flag[n], Or(inEnv[n], Listing(n))))

\* A source that says nothing yet.
Silent == [bind |-> "unset", recurse |-> "unset", dnsagent |-> "unset", meshproxy |-> "unset",
           labels |-> "unset"]
SilentMesh == [m \in MeshServices |-> "unset"]

\* The flags, as far as they are looked at.
Heeded == [n \in Registered |-> IF AgentFlags THEN flags[n] ELSE "unset"]

AtFile == step = "file" => cfg = Default
AtEnv == step = "env" =>
    /\ Settings(file, Silent, Silent) /\ Mesh(SilentMesh) /\ Resolvers(Silent, Silent)
    /\ Labels(Silent, Silent) /\ Given
AtFlags == step = "flags" =>
    /\ Settings(file, env, Silent) /\ Mesh(env.mesh) /\ Resolvers(env, Silent)
    /\ Labels(env, Silent) /\ Given
AtEnd == step \in {"verify", "init", "start", "running"} =>
    /\ Settings(file, env, flags) /\ Mesh(env.mesh) /\ Resolvers(env, Heeded)
    /\ Labels(env, flags) /\ Given

PriorityInv == AtFile /\ AtEnv /\ AtFlags /\ AtEnd

LEMMA TwoTurns ==
    ASSUME NEW listed, NEW enabled \in SUBSET listed,
           NEW a \in Readable \cup {"bad"}, NEW b \in Readable \cup {"bad"},
           NEW n \in Registered \cap listed
    PROVE  (n \in Turn(listed, Turn(listed, enabled, "dnsagent", a), "meshproxy", b)) =
              ("true" = Or(IF n = "dnsagent" THEN a ELSE b,
                           IF n \in enabled THEN "true" ELSE "false"))
<1> DEFINE once == Turn(listed, enabled, "dnsagent", a)
<1>1. once \in SUBSET listed
  BY TurnStays
<1>2. CASE n = "dnsagent"
  <2>1. (n \in once) = ("true" = Or(a, IF n \in enabled THEN "true" ELSE "false"))
    BY <1>2, TurnAnswers
  <2>2. (n \in Turn(listed, once, "meshproxy", b)) = (n \in once)
    BY <1>1, <1>2, TurnLeavesOthers
  <2>3. QED
    BY <2>1, <2>2, <1>2
<1>3. CASE n = "meshproxy"
  <2>1. (n \in once) = (n \in enabled)
    BY <1>3, TurnLeavesOthers
  <2> HIDE DEF once
  <2>2. (n \in Turn(listed, once, "meshproxy", b)) =
           ("true" = Or(b, IF n \in once THEN "true" ELSE "false"))
    BY <1>1, <1>3, TurnAnswers
  <2>3. QED
    BY <2>1, <2>2, <1>3 DEF once
<1>4. QED
  BY <1>2, <1>3 DEF Registered

LEMMA FileMerges ==
    ASSUME TypeInv, PriorityInv, FileIsAbsent \/ MergeFile
    PROVE  (/\ Settings(file, Silent, Silent) /\ Mesh(SilentMesh) /\ Resolvers(Silent, Silent)
            /\ Labels(Silent, Silent) /\ Given)'
<1>1. cfg = Default
  BY DEF PriorityInv, AtFile, FileIsAbsent, MergeFile
<1>2. CASE FileIsAbsent
  <2>1. cfg' = Default /\ file' = file /\ file.state = "absent"
    BY <1>1, <1>2 DEF FileIsAbsent, Merged, sources
  <2>2. QED
    BY <2>1 DEF Settings, Mesh, Resolvers, Labels, Given, Silent, SilentMesh, InFile, InList,
       IsRead, ListIsRead, Or, Listing, Default, Registered
<1>3. CASE MergeFile
  <2>1. /\ file' = file /\ file.state = "read"
        /\ cfg'.bind = Or(file.bind, Default.bind)
        /\ cfg'.recurse = Or(file.recurse, Default.recurse)
        /\ \A m \in MeshServices : cfg'.mesh[m] = Or(file.mesh[m], Default.mesh[m])
        /\ cfg'.enabled = IF file.lists THEN file.enabled ELSE Default.enabled
        /\ cfg'.listed = IF file.lists THEN file.listed ELSE Registered
        /\ cfg'.labels = IF file.lists THEN file.labels ELSE "unset"
        /\ cfg'.debug = IF "debugger" \in file.nulls THEN "false" ELSE Or(file.debug, Default.debug)
    BY <1>1, <1>3 DEF MergeFile, Merged, sources, Default
  <2>2. (Settings(file, Silent, Silent) /\ Mesh(SilentMesh))'
    BY <2>1 DEF Settings, Mesh, Silent, SilentMesh, InFile, IsRead, Or
  <2>3. (Resolvers(Silent, Silent) /\ Labels(Silent, Silent) /\ Given)'
    BY <2>1 DEF Resolvers, Labels, Given, Silent, InFile, InList, IsRead, ListIsRead, Or,
       Listing, Registered
  <2>4. QED
    BY <2>2, <2>3
<1>4. QED
  BY <1>2, <1>3

LEMMA EnvMerges ==
    ASSUME TypeInv, PriorityInv, MergeEnv
    PROVE  (/\ Settings(file, env, Silent) /\ Mesh(env.mesh) /\ Resolvers(env, Silent)
            /\ Labels(env, Silent) /\ Given)'
<1>1. /\ Settings(file, Silent, Silent) /\ Mesh(SilentMesh) /\ Resolvers(Silent, Silent)
      /\ Labels(Silent, Silent) /\ Given
  BY DEF PriorityInv, AtEnv, MergeEnv
<1>2. /\ file' = file /\ env' = env /\ cfg'.listed = cfg.listed
      /\ cfg'.bind = Or(env.bind, cfg.bind)
      /\ cfg'.recurse = Or(env.recurse, cfg.recurse)
      /\ \A m \in MeshServices : cfg'.mesh[m] = Or(env.mesh[m], cfg.mesh[m])
      /\ cfg'.enabled = Turn(cfg.listed, Turn(cfg.listed, cfg.enabled, "dnsagent", env.dnsagent),
                             "meshproxy", env.meshproxy)
      /\ cfg'.labels = IF "dnsagent" \in cfg.listed THEN Or(env.labels, cfg.labels) ELSE cfg.labels
      /\ cfg'.debug = cfg.debug
  BY DEF MergeEnv, Merged, sources, TypeInv, CfgOK, ConfigType
<1>3. Settings(file, env, Silent)' /\ Mesh(env.mesh)' /\ Labels(env, Silent)' /\ Given'
  <2>1. Settings(file, env, Silent)' /\ Mesh(env.mesh)'
    BY <1>1, <1>2 DEF Settings, Mesh, Silent, SilentMesh, InFile, IsRead, Or
  <2>2. Labels(env, Silent)' /\ Given'
    BY <1>1, <1>2 DEF Labels, Given, Silent, InFile, InList, IsRead, ListIsRead, Or
  <2>3. QED
    BY <2>1, <2>2
<1>4. env \in EnvType
  BY SourceTypes DEF TypeInv
<1>5. ASSUME NEW n \in Registered \cap cfg.listed
      PROVE  (n \in cfg'.enabled) = ("true" = Or(env[n], Listing(n)))
  <2>1. (n \in cfg'.enabled) =
           ("true" = Or(IF n = "dnsagent" THEN env.dnsagent ELSE env.meshproxy,
                        IF n \in cfg.enabled THEN "true" ELSE "false"))
    BY <1>2, <1>4, TwoTurns DEF EnvType, TypeInv, CfgOK
  <2>2. (IF n \in cfg.enabled THEN "true" ELSE "false") = Listing(n)
    BY <1>1 DEF Resolvers, Silent, Or, Listing, Registered
  <2>3. QED
    BY <2>1, <2>2 DEF Registered
<1>6. Resolvers(env, Silent)'
  BY <1>2, <1>5 DEF Resolvers, Silent, Or, Listing, Registered, ListIsRead, IsRead
<1>7. QED
  BY <1>3, <1>6

LEMMA FlagsMerge ==
    ASSUME TypeInv, PriorityInv, MergeBootConfig
    PROVE  (/\ Settings(file, env, flags) /\ Mesh(env.mesh) /\ Resolvers(env, Heeded)
            /\ Labels(env, flags) /\ Given)'
<1>1. /\ Settings(file, env, Silent) /\ Mesh(env.mesh) /\ Resolvers(env, Silent)
      /\ Labels(env, Silent) /\ Given
  BY DEF PriorityInv, AtFlags, MergeBootConfig
<1>2. /\ file' = file /\ env' = env /\ flags' = flags /\ cfg'.listed = cfg.listed
      /\ cfg'.bind = Or(flags.bind, cfg.bind)
      /\ cfg'.recurse = Or(flags.recurse, cfg.recurse)
      /\ cfg'.mesh = cfg.mesh
      /\ cfg'.enabled = IF AgentFlags
            THEN Turn(cfg.listed, Turn(cfg.listed, cfg.enabled, "dnsagent", flags.dnsagent),
                      "meshproxy", flags.meshproxy)
            ELSE cfg.enabled
      /\ cfg'.labels = IF AgentFlags /\ "dnsagent" \in cfg.listed
                       THEN Or(flags.labels, cfg.labels) ELSE cfg.labels
      /\ cfg'.debug = cfg.debug
  BY DEF MergeBootConfig, Merged, sources, TypeInv, CfgOK, ConfigType
<1>3. Settings(file, env, flags)' /\ Mesh(env.mesh)' /\ Labels(env, flags)' /\ Given'
  <2>1. Settings(file, env, flags)' /\ Mesh(env.mesh)'
    BY <1>1, <1>2 DEF Settings, Mesh, Silent, InFile, IsRead, Or
  <2>2. Labels(env, flags)' /\ Given'
    BY <1>1, <1>2 DEF Labels, Given, Silent, InFile, InList, IsRead, ListIsRead, Or, AgentFlags
  <2>3. QED
    BY <2>1, <2>2
<1>4. flags \in FlagsType
  BY SourceTypes DEF TypeInv
<1>5. ASSUME NEW n \in Registered \cap cfg.listed
      PROVE  (n \in cfg'.enabled) = ("true" = Or(Heeded[n], Or(env[n], Listing(n))))
  <2>1. (n \in cfg.enabled) = ("true" = Or(env[n], Listing(n)))
    BY <1>1 DEF Resolvers, Silent, Or, Registered
  <2>2. CASE ~AgentFlags
    BY <1>2, <2>1, <2>2 DEF Heeded, Or
  <2>3. CASE AgentFlags
    <3>1. (n \in cfg'.enabled) =
             ("true" = Or(IF n = "dnsagent" THEN flags.dnsagent ELSE flags.meshproxy,
                          IF n \in cfg.enabled THEN "true" ELSE "false"))
      BY <1>2, <1>4, <2>3, TwoTurns DEF FlagsType, TypeInv, CfgOK
    <3>2. Heeded[n] = IF n = "dnsagent" THEN flags.dnsagent ELSE flags.meshproxy
      BY <2>3 DEF Heeded, Registered
    <3>3. QED
      BY <2>1, <3>1, <3>2 DEF Or
  <2>4. QED
    BY <2>2, <2>3
<1>6. Heeded' = Heeded /\ \A n : Listing(n)' = Listing(n)
  BY <1>2 DEF Heeded, AgentFlags, Listing, ListIsRead, IsRead
<1>7. Resolvers(env, Heeded)'
  BY <1>2, <1>5, <1>6 DEF Resolvers
<1>8. QED
  BY <1>3, <1>7

LEMMA PriorityInvIsInductive == TypeInv /\ PriorityInv /\ [Next]_vars => PriorityInv'
<1> SUFFICES ASSUME TypeInv, PriorityInv, [Next]_vars PROVE PriorityInv'
  OBVIOUS
<1>1. CASE FileIsAbsent \/ MergeFile
  <2>1. step' = "env"
    BY <1>1 DEF FileIsAbsent, MergeFile, Merged
  <2>2. QED
    BY <1>1, <2>1, FileMerges DEF PriorityInv, AtFile, AtEnv, AtFlags, AtEnd
<1>2. CASE MergeEnv
  <2>1. step' = "flags"
    BY <1>2 DEF MergeEnv, Merged
  <2>2. QED
    BY <1>2, <2>1, EnvMerges DEF PriorityInv, AtFile, AtEnv, AtFlags, AtEnd
<1>3. CASE MergeBootConfig
  <2>1. step' = "verify"
    BY <1>3 DEF MergeBootConfig, Merged
  <2>2. QED
    BY <1>3, <2>1, FlagsMerge DEF PriorityInv, AtFile, AtEnv, AtFlags, AtEnd
<1>4. CASE UNCHANGED vars
  BY <1>4 DEF PriorityInv, AtFile, AtEnv, AtFlags, AtEnd, vars, sources, Settings, Mesh,
       Resolvers, Labels, Given, InFile, InList, IsRead, ListIsRead, Listing, Heeded, AgentFlags
<1>5. CASE UNCHANGED <<sources, cfg>> /\ step' \in {"rejected", "panicked", "crashed"}
  BY <1>5 DEF PriorityInv, AtFile, AtEnv, AtFlags, AtEnd
<1>6. CASE /\ UNCHANGED <<sources, cfg>>
           /\ step \in {"verify", "init", "start"} /\ step' \in {"init", "start", "running"}
  BY <1>6 DEF PriorityInv, AtFile, AtEnv, AtFlags, AtEnd, sources, Settings, Mesh,
       Resolvers, Labels, Given, InFile, InList, IsRead, ListIsRead, Listing, Heeded, AgentFlags
<1>7. QED
  BY <1>1, <1>2, <1>3, <1>4, <1>5, <1>6 DEF Next, FileIsBroken, MergeEnvPanics, FlagIsBad,
     VerifyFails, Verify, ResolverIsUnknown, OptionsDoNotParse, AgentFails, BuildServices,
     ReloaderCrashes, Started, Stopped, End, Merged

LEMMA PriorityInvHolds == Spec => []PriorityInv
<1>1. Init => PriorityInv
  BY DEF Init, PriorityInv, AtFile, AtEnv, AtFlags, AtEnd
<1>2. QED
  BY <1>1, TypeInvHolds, PriorityInvIsInductive, PTL DEF Spec

-----------------------------------------------------------------------------
(* The properties ask for the last of the sources that says anything, the  *)
(* merges put one source over the other: the two come to the same.         *)

\* The last source is the one that says something and has none that does after it.
LEMMA LastIs ==
    ASSUME NEW given, DOMAIN given \subseteq Int, NEW i \in Says(given),
           \A j \in Says(given) : j <= i
    PROVE  Last(given) = given[i]
<1>1. Says(given) \subseteq Int
  BY DEF Says
<1>2. \A k \in Says(given) : (\A j \in Says(given) : j <= k) => k = i
  BY <1>1
<1>3. (CHOOSE k \in Says(given) : \A j \in Says(given) : j <= k) = i
  BY <1>2
<1>4. QED
  BY <1>3 DEF Last

LEMMA LastOfTwo ==
    ASSUME NEW a, NEW b, a # "bad"
    PROVE  Last(<<a, b>>) = Or(b, a)
<1> DEFINE s == <<a, b>>
<1> SUFFICES Last(s) = Or(b, a)
  OBVIOUS
<1>1. DOMAIN s = {1, 2} /\ s[1] = a /\ s[2] = b
  OBVIOUS
<1>2. Says(s) = {k \in {1, 2} : s[k] \notin {"unset", "bad"}}
  BY <1>1 DEF Says
<1> HIDE DEF s
<1>3. CASE b \notin {"unset", "bad"}
  BY <1>1, <1>2, <1>3, LastIs DEF Or
<1>4. CASE b \in {"unset", "bad"} /\ a # "unset"
  BY <1>1, <1>2, <1>4, LastIs DEF Or
<1>5. CASE b \in {"unset", "bad"} /\ a = "unset"
  <2>1. Says(s) = {}
    BY <1>1, <1>2, <1>5
  <2>2. QED
    BY <1>5, <2>1 DEF Last, Or
<1>6. QED
  BY <1>3, <1>4, <1>5

LEMMA LastOfThree ==
    ASSUME NEW a, NEW b, NEW c, a # "bad"
    PROVE  Last(<<a, b, c>>) = Or(c, Or(b, a))
<1> DEFINE s == <<a, b, c>>
<1> SUFFICES Last(s) = Or(c, Or(b, a))
  OBVIOUS
<1>1. DOMAIN s = {1, 2, 3} /\ s[1] = a /\ s[2] = b /\ s[3] = c
  OBVIOUS
<1>2. Says(s) = {k \in {1, 2, 3} : s[k] \notin {"unset", "bad"}}
  BY <1>1 DEF Says
<1> HIDE DEF s
<1>3. CASE c \notin {"unset", "bad"}
  BY <1>1, <1>2, <1>3, LastIs DEF Or
<1>4. CASE c \in {"unset", "bad"} /\ b \notin {"unset", "bad"}
  BY <1>1, <1>2, <1>4, LastIs DEF Or
<1>5. CASE c \in {"unset", "bad"} /\ b \in {"unset", "bad"} /\ a # "unset"
  BY <1>1, <1>2, <1>5, LastIs DEF Or
<1>6. CASE c \in {"unset", "bad"} /\ b \in {"unset", "bad"} /\ a = "unset"
  <2>1. Says(s) = {}
    BY <1>1, <1>2, <1>6
  <2>2. QED
    BY <1>6, <2>1 DEF Last, Or
<1>7. QED
  BY <1>3, <1>4, <1>5, <1>6

LEMMA LastOfFour ==
    ASSUME NEW a, NEW b, NEW c, NEW d, a \notin {"unset", "bad"}
    PROVE  Last(<<a, b, c, d>>) = Or(d, Or(c, Or(b, a)))
<1> DEFINE s == <<a, b, c, d>>
<1> SUFFICES Last(s) = Or(d, Or(c, Or(b, a)))
  OBVIOUS
<1>1. DOMAIN s = {1, 2, 3, 4} /\ s[1] = a /\ s[2] = b /\ s[3] = c /\ s[4] = d
  OBVIOUS
<1>2. Says(s) = {k \in {1, 2, 3, 4} : s[k] \notin {"unset", "bad"}}
  BY <1>1 DEF Says
<1> HIDE DEF s
<1>3. CASE d \notin {"unset", "bad"}
  BY <1>1, <1>2, <1>3, LastIs DEF Or
<1>4. CASE d \in {"unset", "bad"} /\ c \notin {"unset", "bad"}
  BY <1>1, <1>2, <1>4, LastIs DEF Or
<1>5. CASE d \in {"unset", "bad"} /\ c \in {"unset", "bad"} /\ b \notin {"unset", "bad"}
  BY <1>1, <1>2, <1>5, LastIs DEF Or
<1>6. CASE d \in {"unset", "bad"} /\ c \in {"unset", "bad"} /\ b \in {"unset", "bad"}
  BY <1>1, <1>2, <1>6, LastIs DEF Or
<1>7. QED
  BY <1>3, <1>4, <1>5, <1>6

\* A running sidecar has its address, its recursion and the labels of dnsagent
\* from the last source that says anything of them, for every file, environment
\* and command line (InitConfig, base.go:58).
THEOREM SettingsByPriority == Spec => []PriorityHolds
<1>1. TypeInv /\ PriorityInv => PriorityHolds
  <2> SUFFICES ASSUME TypeInv, PriorityInv, step = "running" PROVE PriorityHolds
    BY DEF PriorityHolds
  <2>1. Settings(file, env, flags) /\ Labels(env, flags)
    BY DEF PriorityInv, AtEnd
  <2>2. cfg.bind = Last(<<Default.bind, InFile(file.bind), env.bind, flags.bind>>)
    BY <2>1, LastOfFour DEF Settings, Default
  <2>3. cfg.recurse = Last(<<Default.recurse, InFile(file.recurse), env.recurse, flags.recurse>>)
    BY <2>1, LastOfFour DEF Settings, Default
  <2>4. ASSUME "dnsagent" \in cfg.enabled
        PROVE  cfg.labels = Last(<<InList(file.labels), env.labels, flags.labels>>)
    <3>1. "dnsagent" \in cfg.listed
      BY <2>4 DEF TypeInv, CfgOK
    <3>2. InList(file.labels) # "bad"
      BY SourceTypes DEF TypeInv, FileType, InList
    <3>3. QED
      BY <2>1, <3>1, <3>2, LastOfThree DEF Labels
  <2>5. QED
    BY <2>2, <2>3, <2>4 DEF PriorityHolds
<1>2. QED
  BY <1>1, TypeInvHolds, PriorityInvHolds, PTL

\* The services that are built go with the resolvers and switches of the merged
\* configuration, and with nothing that is not registered.
ServicesInv ==
    step \in {"start", "running"} =>
        /\ cfg.enabled \subseteq Registered
        /\ services = {"dns"} \cup (IF cfg.debug = "true" THEN {"debug"} ELSE {})
              \cup {m \in MeshServices : "meshproxy" \in cfg.enabled /\ cfg.mesh[m] = "true"}

LEMMA ServicesInvHolds == Spec => []ServicesInv
<1>1. Init => ServicesInv
  BY DEF Init, ServicesInv
<1>2. ServicesInv /\ [Next]_vars => ServicesInv'
  <2> SUFFICES ASSUME ServicesInv, [Next]_vars PROVE ServicesInv'
    OBVIOUS
  <2>1. CASE BuildServices
    BY <2>1 DEF ServicesInv, BuildServices, MeshEnabled
  <2>2. CASE step' \notin {"start", "running"}
    BY <2>2 DEF ServicesInv
  <2>3. CASE UNCHANGED <<cfg, services>> /\ step \in {"start", "running"}
    BY <2>3 DEF ServicesInv
  <2>4. QED
    BY <2>1, <2>2, <2>3 DEF Next, vars, FileIsBroken, FileIsAbsent, MergeFile, MergeEnvPanics,
       MergeEnv, FlagIsBad, MergeBootConfig, VerifyFails, Verify, ResolverIsUnknown,
       OptionsDoNotParse, AgentFails, ReloaderCrashes, Started, Stopped, End, Merged, Ends
<1>3. QED
  BY <1>1, <1>2, PTL DEF Spec

\* The resolvers and services that run are exactly those the sources ask for,
\* from the first line of the file to the last flag (config.InitConfig,
\* bootstrap.initAgent).
THEOREM ServicesAsAsked == Spec => []ServicesFollowSources
<1>1. TypeInv /\ PriorityInv /\ ServicesInv => ServicesFollowSources
  <2> SUFFICES ASSUME TypeInv, PriorityInv, ServicesInv, step = "running"
               PROVE  ServicesFollowSources
    BY DEF ServicesFollowSources
  <2>1. Mesh(env.mesh) /\ Resolvers(env, Heeded) /\ Given
    BY DEF PriorityInv, AtEnd
  <2>2. /\ cfg.enabled \subseteq Registered /\ cfg.enabled \subseteq cfg.listed
        /\ services = {"dns"} \cup (IF cfg.debug = "true" THEN {"debug"} ELSE {})
              \cup {m \in MeshServices : "meshproxy" \in cfg.enabled /\ cfg.mesh[m] = "true"}
    BY DEF ServicesInv, TypeInv, CfgOK
  <2>3. ASSUME NEW n \in Registered
        PROVE  (n \in cfg.enabled) = AsksFor(n)
    <3>1. Listing(n) # "bad"
      BY DEF Listing
    <3>2. Last(<<Listing(n), env[n], IF AgentFlags THEN flags[n] ELSE "unset">>) =
             Or(IF AgentFlags THEN flags[n] ELSE "unset", Or(env[n], Listing(n)))
      BY <3>1, LastOfThree
    <3>3. CASE n \in cfg.listed
      BY <2>1, <3>2, <3>3 DEF Resolvers, Given, Heeded, AsksFor
    <3>4. CASE n \notin cfg.listed
      <4>1. n \notin cfg.enabled
        BY <2>2, <3>4
      <4>2. ~(n \in IF ListIsRead THEN file.listed ELSE Registered)
        BY <2>1, <3>4 DEF Given
      <4>3. ~AsksFor(n)
        BY <4>2, Zenon DEF AsksFor
      <4>4. AsksFor(n) \in BOOLEAN
        BY DEF AsksFor
      <4>5. QED
        BY <4>1, <4>3, <4>4
    <3>5. QED
      BY <3>3, <3>4
  <2>4. cfg.enabled = {n \in Registered : AsksFor(n)}
    BY <2>2, <2>3
  <2>5. ("meshproxy" \in cfg.enabled) = AsksFor("meshproxy")
    BY <2>3 DEF Registered
  <2>6. \A m \in MeshServices : (cfg.mesh[m] = "true") = AsksForMesh(m)
    <3>1. ASSUME NEW m \in MeshServices
          PROVE  cfg.mesh[m] = Last(<<Default.mesh[m], InFile(file.mesh[m]), env.mesh[m]>>)
      <4>1. Default.mesh[m] = "false"
        BY DEF Default
      <4>2. QED
        BY <2>1, <4>1, LastOfThree DEF Mesh
    <3>2. QED
      BY <3>1 DEF AsksForMesh
  <2>7. (cfg.debug = "true") = AsksForDebug
    <3>1. Last(<<Default.debug, InFile(file.debug)>>) = Or(InFile(file.debug), Default.debug)
      BY LastOfTwo DEF Default
    <3>2. QED
      BY <2>1, <3>1 DEF Given, AsksForDebug
  <2>8. QED
    BY <2>2, <2>4, <2>5, <2>6, <2>7 DEF ServicesFollowSources
<1>2. QED
  BY <1>1, TypeInvHolds, PriorityInvHolds, ServicesInvHolds, PTL

-----------------------------------------------------------------------------
(* What is left of the file after its merge: the nulls as nil pointers, the *)
(* option map and the interval of meshproxy if the file lists its resolvers, *)
(* the defaults otherwise.  An interval of the environment comes after it.  *)

Bare == cfg.reload \in {"unset", "negative"}

AfterFile ==
    step # "file" =>
        /\ cfg.nils = IF IsRead THEN file.nulls ELSE {}
        /\ cfg.listed = IF ListIsRead THEN file.listed ELSE Registered
        /\ ~cfg.option <=> ListIsRead /\ file.meshOption = "none"

Intervals ==
    /\ step = "env" => (Bare <=> ListIsRead /\ file.meshOption # "interval")
    /\ step \in {"flags", "verify", "init", "start"} /\ "meshproxy" \in cfg.listed =>
          (Bare <=> IntervalCause)

NilInv ==
    /\ step = "file" => cfg = Default
    /\ AfterFile
    /\ Intervals
    /\ step \in {"flags", "verify", "init", "start"} => ~NilCause
    /\ BrokenStartsAreNamed

LEMMA NilGuard ==
    ASSUME TypeInv, AfterFile, step = "env"
    PROVE  NilPointer \/ NilOption <=> NilCause
<1>1. NilPointer <=>
         IsRead /\ (file.nulls \cap Dereferenced # {} \/ ("provider" \in file.nulls /\ env.location = "env"))
  BY DEF NilPointer, AfterFile
<1>2. NilOption <=>
         /\ ListIsRead /\ "meshproxy" \in file.listed /\ file.meshOption = "none"
         /\ env.reload = "env" \/ env.answer = "env"
  BY DEF NilOption, AfterFile
<1>3. QED
  BY <1>1, <1>2 DEF NilCause, ListIsRead

LEMMA NilInvIsInductive == TypeInv /\ NilInv /\ [Next]_vars => NilInv'
<1> SUFFICES ASSUME TypeInv, NilInv, [Next]_vars PROVE NilInv'
  OBVIOUS
<1> USE DEF NilInv, AfterFile, Intervals, BrokenStartsAreNamed
<1>1. UNCHANGED sources
  BY DEF Next, vars, FileIsBroken, FileIsAbsent, MergeFile, MergeEnvPanics, MergeEnv,
     FlagIsBad, MergeBootConfig, VerifyFails, Verify, ResolverIsUnknown, OptionsDoNotParse,
     AgentFails, BuildServices, ReloaderCrashes, Started, Stopped, End, Merged
<1>2. /\ IsRead' = IsRead /\ ListIsRead' = ListIsRead /\ file' = file
      /\ NilCause' = NilCause /\ IntervalCause' = IntervalCause
  BY <1>1 DEF sources, IsRead, ListIsRead, NilCause, IntervalCause
<1>3. CASE FileIsAbsent \/ FileIsBroken
  <2>1. cfg' = Default /\ ~IsRead /\ ~ListIsRead /\ step' \in {"env", "rejected"}
    BY <1>3 DEF FileIsAbsent, FileIsBroken, Merged, End, IsRead, ListIsRead
  <2>2. QED
    BY <1>2, <2>1 DEF Default, Bare
<1>4. CASE MergeFile
  <2>1. cfg = Default /\ IsRead /\ (ListIsRead <=> file.lists) /\ step' = "env"
    BY <1>4 DEF MergeFile, Merged, IsRead, ListIsRead
  <2>2. /\ cfg'.nils = file.nulls
        /\ cfg'.listed = IF file.lists THEN file.listed ELSE Registered
        /\ cfg'.option = IF file.lists THEN file.meshOption # "none" ELSE TRUE
        /\ cfg'.reload = IF file.lists THEN FileInterval ELSE "default"
    BY <1>4, <2>1 DEF MergeFile, Merged, Default
  <2>3. FileInterval \in {"unset", "negative"} <=> file.meshOption # "interval"
    BY SourceTypes DEF FileInterval, TypeInv, FileType
  <2>4. Bare' <=> ListIsRead /\ file.meshOption # "interval"
    BY <2>1, <2>2, <2>3 DEF Bare
  <2>5. QED
    BY <1>2, <2>1, <2>2, <2>4
<1>5. CASE MergeEnv
  <2>1. /\ step = "env" /\ step' = "flags" /\ ~NilPointer /\ ~NilOption
        /\ cfg'.listed = cfg.listed /\ cfg'.option = cfg.option /\ cfg'.nils = cfg.nils
        /\ cfg'.reload = IF "meshproxy" \in cfg.listed THEN Or(env.reload, cfg.reload)
                                                       ELSE cfg.reload
    BY <1>5 DEF MergeEnv, Merged, TypeInv, CfgOK, ConfigType
  <2>2. env.reload \in {"unset", "bad", "env"}
    BY SourceTypes DEF TypeInv, EnvType
  <2>3. "meshproxy" \in cfg.listed => (Bare' <=> IntervalCause)
    BY <2>1, <2>2 DEF Bare, Or, IntervalCause
  <2>4. ~NilCause
    BY <2>1, NilGuard
  <2>5. QED
    BY <1>2, <2>1, <2>3, <2>4
<1>6. CASE MergeBootConfig
  <2>1. /\ step = "flags" /\ step' = "verify"
        /\ cfg'.listed = cfg.listed /\ cfg'.option = cfg.option
        /\ cfg'.reload = cfg.reload /\ cfg'.nils = cfg.nils
    BY <1>6 DEF MergeBootConfig, Merged, TypeInv, CfgOK, ConfigType
  <2>2. QED
    BY <1>2, <2>1 DEF Bare
<1>7. CASE MergeEnvPanics
  <2>1. step = "env" /\ step' = "panicked" /\ cfg' = cfg /\ NilCause
    BY <1>7, NilGuard DEF MergeEnvPanics, End
  <2>2. QED
    BY <1>2, <2>1
<1>8. CASE ReloaderCrashes \/ Started
  <2>1. step = "start" /\ cfg' = cfg /\ step' \in {"crashed", "running"}
    BY <1>8 DEF ReloaderCrashes, Started, End
  <2>2. /\ step' = "crashed" => "meshproxy" \in cfg.enabled /\ Bare
        /\ step' = "running" => ~("meshproxy" \in cfg.enabled /\ Bare)
    BY <1>8 DEF ReloaderCrashes, Started, End, NoInterval, Bare
  <2>3. cfg.enabled \subseteq cfg.listed
    BY DEF TypeInv, CfgOK
  <2>4. QED
    BY <1>2, <2>1, <2>2, <2>3
<1>9. CASE /\ cfg' = cfg
           /\ step \in {"flags", "verify", "init"} /\ step' \in {"init", "start", "rejected"}
  BY <1>2, <1>9 DEF Bare
<1>10. CASE UNCHANGED vars
  BY <1>2, <1>10 DEF vars, Bare
<1>11. QED
  BY <1>3, <1>4, <1>5, <1>6, <1>7, <1>8, <1>9, <1>10 DEF Next, FlagIsBad,
     VerifyFails, Verify, ResolverIsUnknown, OptionsDoNotParse, AgentFails, BuildServices,
     Stopped, End, Merged

\* The process breaks while it starts for a null of the file, a missing option
\* map or a missing interval, and survives none of them (config.go:238-278,
\* meshproxy/plugin.go:120).
THEOREM StartsBreakForTheseOnly == Spec => []BrokenStartsAreNamed
<1>1. Init => NilInv
  BY DEF Init, NilInv, AfterFile, Intervals, BrokenStartsAreNamed
<1>2. NilInv => BrokenStartsAreNamed
  BY DEF NilInv
<1>3. QED
  BY <1>1, <1>2, TypeInvHolds, NilInvIsInductive, PTL DEF Spec
=============================================================================
