------------------------ MODULE EnvoyMetricsProofs ------------------------
(* The metric server for any instances, thresholds and amounts of traffic. *)
EXTENDS EnvoyMetrics, TLAPS

\* Each of the three kinds of tick is a Report.
LEMMA TicksReport ==
    ASSUME \/ TickWithoutAnswer
           \/ \E listed \in SUBSET Hosts : Tick(listed)
           \/ \E listed, refused \in SUBSET Hosts : TickRefused(listed, refused)
    PROVE  \E listed, refused \in SUBSET Hosts :
               refused \subseteq listed /\ Report(listed, refused)
<1>1. CASE TickWithoutAnswer
  BY <1>1 DEF TickWithoutAnswer
<1>2. ASSUME NEW listed \in SUBSET Hosts, Tick(listed)
      PROVE  \E l, r \in SUBSET Hosts : r \subseteq l /\ Report(l, r)
  <2>1. {} \in SUBSET Hosts /\ {} \subseteq listed /\ Report(listed, {})
    BY <1>2 DEF Tick
  <2> QED
    BY <2>1
<1>3. ASSUME NEW listed \in SUBSET Hosts, NEW refused \in SUBSET Hosts,
             TickRefused(listed, refused)
      PROVE  \E l, r \in SUBSET Hosts : r \subseteq l /\ Report(l, r)
  BY <1>3 DEF TickRefused
<1> QED
  BY <1>1, <1>2, <1>3

LEMMA DifferenceType ==
    ASSUME TypeOK, NEW h \in Hosts, NEW d \in Kinds
    PROVE  /\ counter[h][d] \in Nat /\ values[h][d] \in Nat /\ reported[h][d] \in Nat
           /\ served[h][d] \in Nat /\ Difference(h, d) \in Nat
<1>1. counter[h][d] \in Nat /\ values[h][d] \in Nat /\ reported[h][d] \in Nat
  BY DEF TypeOK
<1>2. served[h][d] \in Nat
  BY MetricsAssumption DEF TypeOK, MetricsBoundsAreNatural
<1>3. Difference(h, d) \in Nat
  BY <1>1 DEF Difference
<1> QED
  BY <1>1, <1>2, <1>3

\* Type correctness: no difference of two readings is negative, although the
\* counters of the code are unsigned and may fall.
THEOREM TypeCorrect == Spec => []TypeOK
<1>1. Init => TypeOK
  BY MetricsAssumption DEF Init, TypeOK, MetricsBoundsAreNatural, Zero
<1>2. TypeOK /\ [Next]_vars => TypeOK'
  <2> SUFFICES ASSUME TypeOK, [Next]_vars PROVE TypeOK'
    OBVIOUS
  <2>1. ASSUME NEW h \in Hosts, NEW d \in Kinds, Serve(h, d) PROVE TypeOK'
    <3>1. served' \in [Hosts -> [Kinds -> 0..MaxServed]]
      BY <2>1, MetricsAssumption DEF Serve, TypeOK, MetricsBoundsAreNatural
    <3>2. counter' \in [Hosts -> [Kinds -> Nat]]
      BY <2>1 DEF Serve, TypeOK
    <3> QED
      BY <2>1, <3>1, <3>2 DEF Serve, TypeOK, readings, past
  <2>2. ASSUME NEW h \in Hosts, StartCounterAnew(h) PROVE TypeOK'
    <3>1. restarts' \in 0..MaxRestarts
      BY <2>2, MetricsAssumption DEF StartCounterAnew, TypeOK, MetricsBoundsAreNatural
    <3>2. counter' \in [Hosts -> [Kinds -> Nat]]
      BY <2>2 DEF StartCounterAnew, TypeOK, Zero
    <3> QED
      BY <2>2, <3>1, <3>2 DEF StartCounterAnew, TypeOK, readings, past
  <2>3. CASE Delay
    <3>1. idle' \in [Hosts -> 0..(Inactive + 1)]
      BY <2>3, MetricsAssumption DEF Delay, OneMore, TypeOK, MetricsBoundsAreNatural
    <3> QED
      BY <2>3, <3>1 DEF Delay, TypeOK, past
  <2>4. ASSUME NEW listed \in SUBSET Hosts, NEW refused \in SUBSET Hosts,
               refused \subseteq listed, Report(listed, refused)
        PROVE  TypeOK'
    <3>1. cleanCounter' \in 0..(CleanThreshold - 1)
      BY <2>4, MetricsAssumption DEF Report, CleaningDue, TypeOK, MetricsBoundsAreNatural
    <3>2. known' \in SUBSET Hosts /\ lost' \in SUBSET Hosts /\ forgotten' \in SUBSET Hosts
      BY <2>4 DEF Report, Kept, TypeOK
    <3>3. values' \in [Hosts -> [Kinds -> Nat]]
      BY <2>4 DEF Report, TypeOK, Zero
    <3>4. idle' \in [Hosts -> 0..(Inactive + 1)]
      BY <2>4, MetricsAssumption DEF Report, OneMore, TypeOK, MetricsBoundsAreNatural
    <3>5. reported' \in [Hosts -> [Kinds -> Nat]]
      BY <2>4, DifferenceType DEF Report, TypeOK
    <3>6. unseen' \in [Hosts -> Nat]
      BY <2>4 DEF Report, TypeOK
    <3> QED
      BY <2>4, <3>1, <3>2, <3>3, <3>4, <3>5, <3>6 DEF Report, TypeOK
  <2>5. CASE UNCHANGED vars
    BY <2>5 DEF vars, readings, past, TypeOK
  <2> QED
    BY <2>1, <2>2, <2>3, <2>4, <2>5, TicksReport DEF Next
<1> QED
  BY <1>1, <1>2, PTL DEF Spec

-----------------------------------------------------------------------------
\* What is reported and what the next reading would add is never more than what
\* was served; nothing is reported of an instance that is not known yet.
ReportInv ==
    \A h \in Hosts \ forgotten, d \in Kinds :
        /\ counter[h][d] <= served[h][d] /\ reported[h][d] <= served[h][d]
        /\ h \in known /\ counter[h][d] > values[h][d] =>
               reported[h][d] + (counter[h][d] - values[h][d]) <= served[h][d]
        /\ h \notin known => reported[h][d] = 0

LEMMA ReportStep ==
    ASSUME TypeOK, ReportInv, NEW listed \in SUBSET Hosts, NEW refused \in SUBSET Hosts,
           refused \subseteq listed, Report(listed, refused)
    PROVE  ReportInv'
<1> SUFFICES ASSUME NEW h \in Hosts \ forgotten', NEW d \in Kinds
             PROVE  /\ counter'[h][d] <= served'[h][d] /\ reported'[h][d] <= served'[h][d]
                    /\ h \in known' /\ counter'[h][d] > values'[h][d] =>
                           reported'[h][d] + (counter'[h][d] - values'[h][d]) <= served'[h][d]
                    /\ h \notin known' => reported'[h][d] = 0
  BY DEF ReportInv
<1>1. /\ h \in Hosts \ forgotten /\ (h \in known => h \in Kept)
      /\ counter' = counter /\ served' = served /\ known' = Kept \cup listed
      /\ Kept \subseteq known
  BY DEF Report, Kept
<1>2. /\ counter[h][d] <= served[h][d] /\ reported[h][d] <= served[h][d]
      /\ h \in known /\ counter[h][d] > values[h][d] =>
             reported[h][d] + (counter[h][d] - values[h][d]) <= served[h][d]
      /\ h \notin known => reported[h][d] = 0
  BY <1>1 DEF ReportInv
<1>3. reported'[h][d] = IF h \in listed \ refused
                        THEN reported[h][d] + Difference(h, d) ELSE reported[h][d]
  BY DEF Report
<1>4. reported[h][d] + Difference(h, d) <= served[h][d]
  BY <1>1, <1>2, DifferenceType DEF Difference
<1>5. CASE h \in listed
  <2>1. values'[h][d] = counter[h][d]
    BY <1>5 DEF Report
  <2> QED
    BY <1>1, <1>2, <1>3, <1>4, <1>5, <2>1, DifferenceType
<1>6. CASE h \notin listed
  <2>1. h \in Kept => values'[h][d] = values[h][d]
    BY <1>6 DEF Report
  <2> QED
    BY <1>1, <1>2, <1>3, <1>6, <2>1, DifferenceType
<1> QED
  BY <1>5, <1>6

\* server.go:206-300: whatever Envoy's restarts, its absences and the results
\* Polaris refuses, no instance is reported more requests than it served, until
\* it is forgotten once.
THEOREM NoOverReport == Spec => []NeverOverReported
<1>1. Init => ReportInv
  BY DEF Init, ReportInv, Zero
<1>2. TypeOK /\ ReportInv /\ [Next]_vars => ReportInv'
  <2> SUFFICES ASSUME TypeOK, ReportInv, [Next]_vars PROVE ReportInv'
    OBVIOUS
  <2>1. ASSUME NEW h \in Hosts, NEW d \in Kinds, Serve(h, d) PROVE ReportInv'
    <3>1. \A g \in Hosts, k \in Kinds :
            /\ counter'[g][k] = counter[g][k] + (IF g = h /\ k = d THEN 1 ELSE 0)
            /\ served'[g][k] = served[g][k] + (IF g = h /\ k = d THEN 1 ELSE 0)
      BY <2>1, DifferenceType DEF Serve, TypeOK
    <3>2. UNCHANGED <<values, known, reported, forgotten>>
      BY <2>1 DEF Serve, readings, past
    <3> QED
      BY <3>1, <3>2, DifferenceType DEF ReportInv
  <2>2. ASSUME NEW h \in Hosts, StartCounterAnew(h) PROVE ReportInv'
    <3>1. \A g \in Hosts, k \in Kinds : counter'[g][k] = IF g = h THEN 0 ELSE counter[g][k]
      BY <2>2 DEF StartCounterAnew, TypeOK, Zero
    <3>2. UNCHANGED <<values, known, served, reported, forgotten>>
      BY <2>2 DEF StartCounterAnew, readings, past
    <3> QED
      BY <3>1, <3>2, DifferenceType DEF ReportInv
  <2>3. CASE Delay \/ UNCHANGED vars
    BY <2>3 DEF Delay, vars, readings, past, ReportInv
  <2>4. ASSUME NEW listed \in SUBSET Hosts, NEW refused \in SUBSET Hosts,
               refused \subseteq listed, Report(listed, refused)
        PROVE  ReportInv'
    BY <2>4, ReportStep
  <2> QED
    BY <2>1, <2>2, <2>3, <2>4, TicksReport DEF Next
<1>3. ReportInv => NeverOverReported
  BY DEF ReportInv, NeverOverReported
<1> QED
  BY <1>1, <1>2, <1>3, TypeCorrect, PTL DEF Spec

-----------------------------------------------------------------------------
\* Ticks without a reading are ticks of at least one period each, and since the
\* last cleaning there were cleanCounter of them.
ForgetInv ==
    \A h \in known :
        /\ unseen[h] <= idle[h] \/ idle[h] = Inactive + 1
        /\ unseen[h] <= Inactive + cleanCounter

\* server.go:94-104: for every threshold and waiting time, the map keeps no
\* instance longer than both together after its last reading.
THEOREM MapIsCleaned == Spec => []MapForgets
<1>1. Init => ForgetInv
  BY DEF Init, ForgetInv
<1>2. TypeOK /\ ForgetInv /\ [Next]_vars => ForgetInv'
  <2> SUFFICES ASSUME TypeOK, ForgetInv, [Next]_vars PROVE ForgetInv'
    OBVIOUS
  <2>1. CASE UNCHANGED <<known, unseen, idle, cleanCounter>>
    BY <2>1 DEF ForgetInv
  <2>2. CASE Delay
    <3>1. \A h \in Hosts : idle'[h] = OneMore(idle[h]) /\ idle[h] \in 0..(Inactive + 1)
                           /\ unseen[h] \in Nat
      BY <2>2 DEF Delay, TypeOK
    <3>2. UNCHANGED <<known, unseen, cleanCounter>> /\ known \subseteq Hosts
      BY <2>2 DEF Delay, past, TypeOK
    <3> QED
      BY <3>1, <3>2, MetricsAssumption DEF ForgetInv, OneMore, MetricsBoundsAreNatural
  <2>3. ASSUME NEW listed \in SUBSET Hosts, NEW refused \in SUBSET Hosts,
               refused \subseteq listed, Report(listed, refused)
        PROVE  ForgetInv'
    <3> SUFFICES ASSUME NEW h \in known'
                 PROVE  /\ unseen'[h] <= idle'[h] \/ idle'[h] = Inactive + 1
                        /\ unseen'[h] <= Inactive + cleanCounter'
      BY DEF ForgetInv
    <3>1. /\ h \in Hosts /\ idle[h] \in 0..(Inactive + 1) /\ unseen[h] \in Nat
          /\ cleanCounter \in Nat /\ cleanCounter' \in Nat /\ Inactive \in Nat
      BY <2>3, MetricsAssumption
      DEF Report, Kept, CleaningDue, TypeOK, MetricsBoundsAreNatural
    <3>2. CASE h \in listed
      <4>1. unseen'[h] = 0 /\ idle'[h] = 0
        BY <2>3, <3>1, <3>2 DEF Report
      <4> QED
        BY <3>1, <4>1
    <3>3. CASE h \notin listed
      <4>1. h \in Kept /\ h \in known
        BY <2>3, <3>3 DEF Report, Kept
      <4>2. unseen'[h] = unseen[h] + 1 /\ idle'[h] = OneMore(idle[h])
        BY <2>3, <3>1, <3>3, <4>1 DEF Report
      <4>3. /\ unseen[h] <= idle[h] \/ idle[h] = Inactive + 1
            /\ unseen[h] <= Inactive + cleanCounter
        BY <4>1 DEF ForgetInv
      <4>4. CASE CleaningDue
        <5>1. OneMore(idle[h]) <= Inactive
          BY <3>1, <4>1, <4>4 DEF Kept, Outdated, OneMore
        <5> QED
          BY <3>1, <4>2, <4>3, <5>1 DEF OneMore
      <4>5. CASE ~CleaningDue
        <5>1. cleanCounter' = cleanCounter + 1
          BY <2>3, <4>5 DEF Report
        <5> QED
          BY <3>1, <4>2, <4>3, <5>1 DEF OneMore
      <4> QED
        BY <4>4, <4>5
    <3> QED
      BY <3>2, <3>3
  <2>4. ASSUME NEW h \in Hosts, NEW d \in Kinds, Serve(h, d) \/ StartCounterAnew(h)
        PROVE  UNCHANGED <<known, unseen, idle, cleanCounter>>
    BY <2>4 DEF Serve, StartCounterAnew, readings, past
  <2>5. ASSUME NEW h \in Hosts, StartCounterAnew(h)
        PROVE  UNCHANGED <<known, unseen, idle, cleanCounter>>
    BY <2>5 DEF StartCounterAnew, readings, past
  <2>6. CASE UNCHANGED vars
    BY <2>1, <2>6 DEF vars, readings, past
  <2> QED
    BY <2>1, <2>2, <2>3, <2>4, <2>5, <2>6, TicksReport DEF Next
<1>3. TypeOK /\ ForgetInv => MapForgets
  BY MetricsAssumption DEF TypeOK, ForgetInv, MapForgets, MetricsBoundsAreNatural
<1> QED
  BY <1>1, <1>2, <1>3, TypeCorrect, PTL DEF Spec

-----------------------------------------------------------------------------
\* While Envoy has not started a counter anew, no reading is ahead of it, and what
\* was reported is the last reading; of an instance not known yet it is nothing.
ReadingInv ==
    restarts = 0 =>
        \A h \in Hosts, d \in Kinds :
            /\ h \in known => values[h][d] <= counter[h][d]
            /\ h \notin lost \cup forgotten =>
                   reported[h][d] = IF h \in known THEN values[h][d] ELSE 0

\* A report keeps it: the difference closes the gap, or is given up and the
\* instance is known to have lost it.
LEMMA ReadingStep ==
    ASSUME TypeOK, ReadingInv, NEW listed \in SUBSET Hosts, NEW refused \in SUBSET Hosts,
           refused \subseteq listed, Report(listed, refused)
    PROVE  ReadingInv'
<1> SUFFICES ASSUME restarts = 0, NEW h \in Hosts, NEW d \in Kinds
             PROVE  /\ h \in known' => values'[h][d] <= counter'[h][d]
                    /\ h \notin lost' \cup forgotten' =>
                           reported'[h][d] = IF h \in known' THEN values'[h][d] ELSE 0
  BY DEF ReadingInv, Report
<1>1. /\ counter' = counter /\ known' = Kept \cup listed /\ Kept \subseteq known
      /\ (h \in known \ Kept => h \in forgotten')
      /\ lost \subseteq lost' /\ forgotten \subseteq forgotten'
  BY DEF Report, Kept
<1>2. /\ h \in known => values[h][d] <= counter[h][d]
      /\ h \notin lost \cup forgotten =>
             reported[h][d] = IF h \in known THEN values[h][d] ELSE 0
  BY DEF ReadingInv
<1>3. /\ counter[h][d] \in Nat /\ values[h][d] \in Nat /\ reported[h][d] \in Nat
      /\ Difference(h, d) \in Nat
  BY DifferenceType
<1>4. CASE h \in listed
  <2>1. values'[h][d] = counter[h][d]
    BY <1>4 DEF Report
  <2>2. ASSUME h \notin lost' \cup forgotten' PROVE reported'[h][d] = counter[h][d]
    <3>1. /\ h \notin lost \cup forgotten /\ (h \in known => h \in Kept)
          /\ reported[h][d] + Difference(h, d) = counter[h][d]
      BY <1>1, <1>2, <1>3, <2>2 DEF Difference
    <3>2. h \in refused => Difference(h, d) = 0
      BY <1>3, <2>2, DifferenceType DEF Report
    <3>3. reported'[h][d] = IF h \in refused THEN reported[h][d]
                            ELSE reported[h][d] + Difference(h, d)
      BY <1>4, <2>2 DEF Report
    <3> QED
      BY <1>3, <3>1, <3>2, <3>3
  <2> QED
    BY <1>1, <1>3, <1>4, <2>1, <2>2
<1>5. CASE h \notin listed
  <2>1. reported'[h][d] = reported[h][d]
    BY <1>5 DEF Report
  <2>2. h \in Kept => values'[h][d] = values[h][d]
    BY <1>5 DEF Report
  <2> QED
    BY <1>1, <1>2, <1>5, <2>1, <2>2
<1> QED
  BY <1>4, <1>5

\* server.go:206-300: while Envoy runs on, Polaris has been told exactly the last
\* reading of each instance of which no result was given up.
THEOREM LastReadingReported == Spec => []ReportedIsLastReading
<1>1. Init => ReadingInv
  BY DEF Init, ReadingInv, Zero
<1>2. TypeOK /\ ReadingInv /\ [Next]_vars => ReadingInv'
  <2> SUFFICES ASSUME TypeOK, ReadingInv, [Next]_vars PROVE ReadingInv'
    OBVIOUS
  <2>1. ASSUME NEW h \in Hosts, NEW d \in Kinds, Serve(h, d) PROVE ReadingInv'
    <3>1. \A g \in Hosts, k \in Kinds : counter'[g][k] >= counter[g][k]
      BY <2>1, DifferenceType DEF Serve, TypeOK
    <3>2. \A g \in Hosts, k \in Kinds : counter'[g][k] \in Nat
      BY <2>1 DEF Serve, TypeOK
    <3>3. UNCHANGED <<values, known, reported, lost, forgotten, restarts>>
      BY <2>1 DEF Serve, readings, past
    <3> QED
      BY <3>1, <3>2, <3>3, DifferenceType DEF ReadingInv
  <2>2. ASSUME NEW h \in Hosts, StartCounterAnew(h) PROVE ReadingInv'
    BY <2>2, MetricsAssumption
    DEF StartCounterAnew, ReadingInv, TypeOK, MetricsBoundsAreNatural
  <2>3. CASE Delay \/ UNCHANGED vars
    BY <2>3 DEF Delay, vars, readings, past, ReadingInv
  <2>4. ASSUME NEW listed \in SUBSET Hosts, NEW refused \in SUBSET Hosts,
               refused \subseteq listed, Report(listed, refused)
        PROVE  ReadingInv'
    BY <2>4, ReadingStep
  <2> QED
    BY <2>1, <2>2, <2>3, <2>4, TicksReport DEF Next
<1>3. TypeOK /\ ReadingInv => ReportedIsLastReading
  <2> SUFFICES ASSUME TypeOK, ReadingInv, restarts = 0,
                      NEW h \in known \ (lost \cup forgotten)
               PROVE  reported[h] = values[h]
    BY DEF ReportedIsLastReading
  <2>1. h \in Hosts /\ reported[h] \in [Kinds -> Nat] /\ values[h] \in [Kinds -> Nat]
    BY DEF TypeOK
  <2>2. \A d \in Kinds : reported[h][d] = values[h][d]
    BY <2>1 DEF ReadingInv
  <2> QED
    BY <2>1, <2>2
<1> QED
  BY <1>1, <1>2, <1>3, TypeCorrect, PTL DEF Spec
=============================================================================
