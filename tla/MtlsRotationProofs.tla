------------------------ MODULE MtlsRotationProofs ------------------------
(* The certificate rotation for any periods, lifetimes and answer times.   *)
EXTENDS MtlsRotation, TLAPS

LEMMA PeriodsAreNatural ==
    /\ RotatePeriod \in Nat /\ RotatePeriod > 0
    /\ CallMax \in Nat /\ FailMax \in Nat /\ RetryDelay = 1
BY MtlsAssumption DEF TimesAreNatural, RotatePeriod, EnvDefaultDuration, RetryDelay

\* Each further failure adds a call and a delay to the longest use.
LEMMA LongestGrows ==
    /\ Longest(0) = RotatePeriod + 2 * CallMax
    /\ \A f \in Nat : /\ Longest(f) \in Nat
                      /\ Longest(f + 1) = Longest(f) + CallMax + RetryDelay
                      /\ Longest(f) >= RotatePeriod + 2 * CallMax
<1>1. ASSUME NEW f \in Nat, NEW c \in Nat
      PROVE  f * c \in Nat /\ (f + 1) * c = f * c + c /\ 0 * c = 0
  OBVIOUS
<1>2. CallMax + RetryDelay \in Nat
  BY PeriodsAreNatural
<1>3. QED
  BY <1>1, <1>2, PeriodsAreNatural DEF Longest

LEMMA AgeMaxIsEnough == AgeMax \in Nat /\ CallMax <= AgeMax
  BY PeriodsAreNatural, LongestGrows DEF AgeMax

\* Type correctness: timers never run below zero.
THEOREM TypeCorrect == Spec => []TypeOK
<1>1. Init => TypeOK
  BY PeriodsAreNatural, AgeMaxIsEnough DEF Init, TypeOK
<1>2. TypeOK /\ [Next]_vars => TypeOK'
  <2> SUFFICES ASSUME TypeOK, [Next]_vars PROVE TypeOK'
    OBVIOUS
  <2> USE PeriodsAreNatural, AgeMaxIsEnough DEF TypeOK, OneMoreFailure
  <2>1. CASE Cancel
    BY <2>1 DEF Cancel
  <2>2. CASE Call
    BY <2>2 DEF Call
  <2>3. CASE SleepOver \/ PeriodOver \/ SeeCancel
    BY <2>3 DEF SleepOver, PeriodOver, SeeCancel
  <2>4. CASE TickIdle
    BY <2>4 DEF TickIdle, Older
  <2>5. CASE Signed \/ Rejected
    BY <2>5 DEF Signed, Rejected, Wait
  <2>6. CASE Fails
    BY <2>6 DEF Fails, Wait, Retry
  <2>7. CASE Hangs
    BY <2>7 DEF Hangs
  <2>8. CASE TickCall
    BY <2>8 DEF TickCall, Older
  <2>9. CASE TickHung
    BY <2>9 DEF TickHung, Older
  <2>10. CASE UNCHANGED vars
    BY <2>10 DEF vars
  <2> QED
    BY <2>1, <2>2, <2>3, <2>4, <2>5, <2>6, <2>7, <2>8, <2>9, <2>10
    DEF Next, Rotator, Answer, Ended
<1> QED
  BY <1>1, <1>2, PTL DEF Spec

-----------------------------------------------------------------------------
\* The age of the certificate follows from where the rotator is: the part of the
\* period that is over, the calls and delays that failed, the time the current
\* call has taken.  A wait after a failed call is one that ctx.Done ends at once.
Started(f) == Longest(f) - CallMax

UseInv ==
    secret = "signed" /\ failures < FailMax =>
        \/ rot = "wait" /\ failures = 0 /\ age + timer <= Started(0)
        \/ rot = "wait" /\ ctx = "cancelled" /\ timer > 0 /\ age <= Longest(failures)
        \/ rot = "execute" /\ age <= Started(failures)
        \/ rot = "sleep" /\ age + timer <= Started(failures)
        \/ rot = "call" /\ age <= Started(failures) + took
        \/ rot = "returned" /\ age <= Longest(failures)
        \/ rot = "hung"

LEMMA UseStep == TypeOK /\ UseInv /\ [Next]_vars => UseInv'
<1> SUFFICES ASSUME TypeOK, UseInv, [Next]_vars PROVE UseInv'
  OBVIOUS
<1>1. failures \in Nat /\ age \in Nat /\ timer \in Nat /\ took \in Nat /\ took <= CallMax
  BY PeriodsAreNatural, AgeMaxIsEnough DEF TypeOK
<1>2. /\ Longest(failures) \in Nat /\ Longest(0) = RotatePeriod + 2 * CallMax
      /\ Longest(failures + 1) = Longest(failures) + CallMax + RetryDelay
  BY <1>1, LongestGrows
<1> USE PeriodsAreNatural, <1>1, <1>2 DEF UseInv, Started
<1>3. CASE Cancel \/ UNCHANGED vars
  BY <1>3 DEF Cancel, vars
<1>4. CASE Call
  BY <1>4 DEF Call
<1>5. CASE SleepOver
  BY <1>5 DEF SleepOver
<1>6. CASE PeriodOver
  BY <1>6 DEF PeriodOver
<1>7. CASE SeeCancel
  BY <1>7 DEF SeeCancel
<1>8. CASE TickIdle
  <2>1. age' <= age + 1 /\ timer' = timer - 1 /\ age' \in Nat
    BY <1>8 DEF TickIdle, Older
  <2>2. QED
    BY <1>8, <2>1 DEF TickIdle
<1>9. CASE Signed
  <2>1. /\ age' \in 0..took /\ timer' = RotatePeriod /\ rot' = "wait" /\ failures' = 0
    BY <1>9 DEF Signed, Wait
  <2>2. age' + timer' <= Started(0)
    BY <2>1
  <2>3. QED
    BY <2>1, <2>2
<1>10. CASE Rejected
  BY <1>10 DEF Rejected
<1>11. CASE Fails
  <2>1. CASE failures + 1 < FailMax /\ secret = "signed"
    <3>1. /\ failures' = failures + 1 /\ age' = age /\ secret' = secret
          /\ age <= Longest(failures) /\ ctx' = ctx
      BY <1>11, <2>1 DEF Fails, OneMoreFailure
    <3>2. \/ rot' = "wait" /\ timer' = RotatePeriod /\ ctx = "cancelled"
          \/ rot' = "sleep" /\ timer' = RetryDelay
      BY <1>11 DEF Fails, Wait, Retry, TypeOK
    <3>3. Longest(failures') = Longest(failures) + CallMax + RetryDelay
      BY <3>1
    <3>4. QED
      BY <3>1, <3>2, <3>3
  <2>2. CASE ~(failures + 1 < FailMax /\ secret = "signed")
    BY <1>11, <2>2 DEF Fails, OneMoreFailure
  <2>3. QED
    BY <2>1, <2>2
<1>12. CASE Hangs
  BY <1>12 DEF Hangs
<1>13. CASE TickCall
  <2>1. age' <= age + 1 /\ took' = took + 1 /\ age' \in Nat
    BY <1>13 DEF TickCall, Older
  <2>2. QED
    BY <1>13, <2>1 DEF TickCall
<1>14. CASE TickHung
  BY <1>14 DEF TickHung
<1> QED
  BY <1>3, <1>4, <1>5, <1>6, <1>7, <1>8, <1>9, <1>10, <1>11, <1>12, <1>13, <1>14
  DEF Next, Rotator, Answer, Ended

\* rotate.go:34-65: for any period, any delay of the CA and any number of failed
\* calls, the certificate Envoy holds was signed no longer ago than a period, two
\* calls, and a call and a delay for each failure, unless a call never ends.
THEOREM UseBounded == Spec => []UseIsBounded
<1>1. Init => UseInv
  BY DEF Init, UseInv
<1>2. TypeOK /\ UseInv => UseIsBounded
  <2> SUFFICES ASSUME TypeOK, UseInv, secret = "signed", rot # "hung", failures < FailMax
               PROVE  age <= Longest(failures)
    BY DEF UseIsBounded
  <2>1. failures \in Nat /\ age \in Nat /\ timer \in Nat /\ took \in Nat /\ took <= CallMax
    BY PeriodsAreNatural, AgeMaxIsEnough DEF TypeOK
  <2>2. Longest(failures) \in Nat
    BY <2>1, LongestGrows
  <2>3. QED
    BY <2>1, <2>2, PeriodsAreNatural DEF UseInv, Started
<1> QED
  BY <1>1, <1>2, UseStep, TypeCorrect, PTL DEF Spec

-----------------------------------------------------------------------------
\* A call made after the cancellation leads to a wait that ends by ctx.Done only,
\* because its timer has just been set and nobody lets it run out.
LateInv ==
    \/ lateCalls = 0
    \/ /\ lateCalls = 1 /\ ctx = "cancelled"
       /\ \/ rot \in {"call", "hung", "returned"}
          \/ rot = "wait" /\ timer > 0

\* rotate.go:34-47: sleeps and calls do not look at ctx, but at most one call is
\* made after the cancellation, and thus the rotator is not kept from ending.
THEOREM OneLateCall == Spec => []AtMostOneLateCall
<1>1. Init => LateInv
  BY DEF Init, LateInv
<1>2. TypeOK /\ LateInv /\ [Next]_vars => LateInv'
  <2> SUFFICES ASSUME TypeOK, LateInv, [Next]_vars PROVE LateInv'
    OBVIOUS
  <2> USE PeriodsAreNatural DEF TypeOK, LateInv
  <2>1. CASE Call
    BY <2>1 DEF Call
  <2>2. CASE Signed \/ Rejected
    BY <2>2 DEF Signed, Rejected, Wait
  <2>3. CASE Fails
    BY <2>3 DEF Fails, Wait, Retry
  <2>4. CASE TickIdle
    BY <2>4 DEF TickIdle
  <2>5. CASE Cancel \/ SleepOver \/ PeriodOver \/ SeeCancel \/ Hangs \/ TickCall \/ TickHung
             \/ UNCHANGED vars
    BY <2>5 DEF Cancel, SleepOver, PeriodOver, SeeCancel, Hangs, TickCall, TickHung, vars
  <2> QED
    BY <2>1, <2>2, <2>3, <2>4, <2>5 DEF Next, Rotator, Answer, Ended
<1>3. LateInv => AtMostOneLateCall
  BY DEF LateInv, AtMostOneLateCall
<1> QED
  BY <1>1, <1>2, <1>3, TypeCorrect, PTL DEF Spec

\* A call that failed is followed by a wait only after the cancellation, and a
\* snapshot is what the last call that was answered made of it.
AnswerInv ==
    /\ rot = "wait" /\ ctx = "running" => outcome \in {"signed", "rejected"}
    /\ outcome = "signed" => secret = "signed"

\* rotate.go:34-47: before Envoy has a signed certificate the rotator waits for a
\* period only where the CA rejected the signing, whatever else the calls return.
THEOREM WaitsForRejectionOnly == Spec => []OnlyRejectionWaits
<1>1. Init => AnswerInv
  BY DEF Init, AnswerInv
<1>2. AnswerInv /\ [Next]_vars => AnswerInv'
  <2> SUFFICES ASSUME AnswerInv, [Next]_vars PROVE AnswerInv'
    OBVIOUS
  <2> USE DEF AnswerInv
  <2>1. CASE Signed \/ Rejected
    BY <2>1 DEF Signed, Rejected
  <2>2. CASE Fails
    BY <2>2 DEF Fails, Wait, Retry
  <2>3. CASE Cancel \/ Call \/ SleepOver \/ PeriodOver \/ SeeCancel \/ Hangs
             \/ TickIdle \/ TickCall \/ TickHung \/ UNCHANGED vars
    BY <2>3 DEF Cancel, Call, SleepOver, PeriodOver, SeeCancel, Hangs, TickIdle, TickCall,
                TickHung, vars
  <2> QED
    BY <2>1, <2>2, <2>3 DEF Next, Rotator, Answer, Ended
<1>3. AnswerInv => OnlyRejectionWaits
  BY DEF AnswerInv, OnlyRejectionWaits
<1> QED
  BY <1>1, <1>2, <1>3, PTL DEF Spec
=============================================================================
