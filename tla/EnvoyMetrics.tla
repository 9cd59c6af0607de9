--------------------------- MODULE EnvoyMetrics ---------------------------
(***************************************************************************)
(* The metric server: on every tick it reads the cumulative request        *)
(* counters Envoy keeps per upstream instance, reports the difference to   *)
(* the last reading to Polaris, one call result per request, and from time *)
(* to time forgets the instances it has not seen for long.                 *)
(***************************************************************************)
EXTENDS Integers

CONSTANTS
    Hosts,          \* upstream instances (InstanceMetricKey)
    CleanThreshold, \* ticks between two cleanings
    Inactive,       \* an instance unseen for longer than this is forgotten,
                    \* in periods of the ticker
    MaxServed,      \* bound: requests of each kind per instance
    MaxRestarts     \* bound: times Envoy starts a counter anew

MetricsBoundsAreNatural ==
    /\ CleanThreshold \in Nat \ {0} /\ Inactive \in Nat
    /\ MaxServed \in Nat /\ MaxRestarts \in Nat
ASSUME MetricsAssumption == MetricsBoundsAreNatural

Kinds == {"success", "error"}
Zero == [d \in Kinds |-> 0]

VARIABLES
    counter,    \* Envoy's counters
    values,     \* the last reading of each known instance
    known,      \* the keys of the values map
    idle,       \* time since the last reading, up to Inactive + 1
    cleanCounter,
    served,     \* history: requests each instance really served
    restarts,   \* history: counters Envoy started anew
    reported,   \* history: call results Polaris accepted, until the instance is
                \* forgotten once
    unseen,     \* history: ticks since the last reading, while known
    lost,       \* history: instances of which call results were given up
    forgotten   \* history: instances that were forgotten once

readings == <<values, known, idle, cleanCounter>>
past == <<reported, unseen, lost, forgotten>>
vars == <<counter, readings, served, restarts, past>>

Init ==
    /\ counter = [h \in Hosts |-> Zero]
    /\ values = [h \in Hosts |-> Zero] /\ known = {}
    /\ idle = [h \in Hosts |-> 0] /\ cleanCounter = 0
    /\ served = [h \in Hosts |-> Zero] /\ restarts = 0
    /\ reported = [h \in Hosts |-> Zero]
    /\ unseen = [h \in Hosts |-> 0]
    /\ lost = {} /\ forgotten = {}

(* Envoy                                                                   *)

Serve(h, d) ==
    /\ served[h][d] < MaxServed
    /\ served' = [served EXCEPT ![h][d] = @ + 1]
    /\ counter' = [counter EXCEPT ![h][d] = @ + 1]
    /\ UNCHANGED <<readings, restarts, past>>

\* Envoy restarts, or drops an instance and learns of it again.
StartCounterAnew(h) ==
    /\ restarts < MaxRestarts
    /\ restarts' = restarts + 1
    /\ counter' = [counter EXCEPT ![h] = Zero]
    /\ UNCHANGED <<readings, served, past>>

(* metrics.Server.Run                                                      *)

OneMore(n) == IF n <= Inactive THEN n + 1 ELSE n

\* A report that takes long (three tries with a pause for each call result, or
\* an Envoy that does not answer): time passes, the ticker drops its ticks.
Delay ==
    /\ \E h \in known : idle[h] <= Inactive
    /\ idle' = [h \in Hosts |-> OneMore(idle[h])]
    /\ UNCHANGED <<counter, values, known, cleanCounter, served, restarts, past>>

\* A cleaning that is due one tick too late.
CleaningDueLate == cleanCounter + 1 > CleanThreshold
CleaningDue == cleanCounter + 1 >= CleanThreshold

\* Known instances without a reading for more than Inactive periods, when the
\* next tick comes.
Outdated == {h \in known : OneMore(idle[h]) > Inactive}

\* A cleaning that only resets its counter.
KeptForever == known

\* The keys left when the tick begins its report: cleaning comes first.
Kept == IF CleaningDue THEN known \ Outdated ELSE known

\* A difference that forgets that an unsigned counter may have fallen.
FullDifference(h, d) == counter[h][d]

\* A first reading that is taken for the base of the next one only.
SkipFirst(h, d) ==
    IF h \in Kept /\ counter[h][d] > values[h][d] THEN counter[h][d] - values[h][d] ELSE 0

\* The requests since the last reading: all of them for an instance that is not
\* known, none when the counter has fallen.
Difference(h, d) ==
    IF h \notin Kept THEN counter[h][d]
    ELSE IF counter[h][d] > values[h][d] THEN counter[h][d] - values[h][d] ELSE 0

\* What every tick does, with the instances Envoy lists and those among them
\* whose call results Polaris refuses three times.
Report(listed, refused) ==
    /\ cleanCounter' = IF CleaningDue THEN 0 ELSE cleanCounter + 1
    /\ known' = Kept \cup listed
    /\ values' = [h \in Hosts |-> IF h \in listed THEN counter[h]
                                  ELSE IF h \in Kept THEN values[h] ELSE Zero]
    /\ idle' = [h \in Hosts |-> IF h \in listed \/ h \notin Kept THEN 0 ELSE OneMore(idle[h])]
    /\ forgotten' = forgotten \cup (known \ Kept)
    /\ reported' = [h \in Hosts |-> [d \in Kinds |->
                      IF h \in listed \ (refused \cup forgotten')
                      THEN reported[h][d] + Difference(h, d) ELSE reported[h][d]]]
    /\ unseen' = [h \in Hosts |-> IF h \in listed \/ h \notin Kept THEN 0 ELSE unseen[h] + 1]
    /\ lost' = lost \cup {h \in refused : \E d \in Kinds : Difference(h, d) > 0}
    /\ UNCHANGED <<counter, served, restarts>>

\* Envoy cannot be asked, or its answer cannot be read: only the cleaning.
TickWithoutAnswer == Report({}, {})

\* Polaris accepts every call result.
Tick(listed) == Report(listed, {})

TickRefused(listed, refused) ==
    /\ refused # {} /\ refused \subseteq listed
    /\ Report(listed, refused)

-----------------------------------------------------------------------------
Next ==
    \/ \E h \in Hosts, d \in Kinds : Serve(h, d)
    \/ \E h \in Hosts : StartCounterAnew(h)
    \/ Delay
    \/ TickWithoutAnswer
    \/ \E listed \in SUBSET Hosts : Tick(listed)
    \/ \E listed, refused \in SUBSET Hosts : TickRefused(listed, refused)

\* Again and again Envoy lists all its instances and Polaris takes the results.
Spec == Init /\ [][Next]_vars /\ WF_vars(Tick(Hosts))

-----------------------------------------------------------------------------
(* Properties                                                              *)

TypeOK ==
    /\ counter \in [Hosts -> [Kinds -> Nat]]
    /\ values \in [Hosts -> [Kinds -> Nat]]
    /\ known \in SUBSET Hosts
    /\ idle \in [Hosts -> 0..(Inactive + 1)]
    /\ cleanCounter \in 0..(CleanThreshold - 1)
    /\ served \in [Hosts -> [Kinds -> 0..MaxServed]]
    /\ restarts \in 0..MaxRestarts
    /\ reported \in [Hosts -> [Kinds -> Nat]]
    /\ unseen \in [Hosts -> Nat]
    /\ lost \in SUBSET Hosts /\ forgotten \in SUBSET Hosts

\* Whatever Envoy's restarts, its absences and refused results, Polaris is never
\* told of more requests than there were, unless the instance was forgotten in
\* between: then the whole counter is reported a second time (server.go:101).
NeverOverReported ==
    \A h \in Hosts \ forgotten, d \in Kinds : reported[h][d] <= served[h][d]

\* Without a restart, a refusal or a cleaning in between, what Polaris knows is
\* exactly the last reading: no request is dropped or counted twice.
ReportedIsLastReading ==
    restarts = 0 =>
        \A h \in known \ (lost \cup forgotten) : reported[h] = values[h]

\* server.go:100: the map does not keep what is gone.  An instance Envoy no
\* longer lists is dropped at the latest one cleaning after it became inactive.
MapForgets == \A h \in known : unseen[h] < Inactive + CleanThreshold

\* When the traffic ends, every request has been reported in the end.
AllReported ==
    \/ <>(lost # {} \/ forgotten # {} \/ restarts > 0)
    \/ <>[](\A h \in Hosts, d \in Kinds : reported[h][d] = served[h][d])
=============================================================================
