--------------------------- MODULE MtlsRotation ---------------------------
(***************************************************************************)
(* The certificate rotation of the mTLS agent: rotator.Run calls           *)
(* certManager.GetBundle, which asks the CA to sign a new key, and puts    *)
(* the bundle into the SDS snapshot Envoy reads.  Time is discrete.        *)
(***************************************************************************)
EXTENDS Integers

CONSTANTS
    Hour,               \* time units of an hour
    EnvRotatePeriod,    \* POLARIS_SIDECAR_MTLS_ROTATE_PERIOD, 0 when unset
    CallMax,            \* bound: a CA that answers does so within this time
    FailMax             \* bound: failed calls in a row are counted up to this

TimesAreNatural ==
    /\ Hour \in Nat \ {0} /\ EnvRotatePeriod \in Nat
    /\ CallMax \in Nat /\ FailMax \in Nat
ASSUME MtlsAssumption == TimesAreNatural

EnvDefaultDuration(env, def) == IF env # 0 THEN env ELSE def

\* Option.init: InitMeshMtls sets only CAServer, the rest comes from the
\* environment or from the defaults.
RotatePeriod == EnvDefaultDuration(EnvRotatePeriod, Hour)

\* One second by default: the shortest time the model tells apart.
RetryDelay == 1

\* The longest a certificate is in use when this many calls in a row have failed
\* since it was signed: it reaches Envoy up to CallMax late, a period goes by,
\* and each call takes up to CallMax, with a delay after those that fail.
Longest(failed) == RotatePeriod + 2 * CallMax + failed * (CallMax + RetryDelay)

\* Bound: ages are counted up to this.
AgeMax == Longest(FailMax) + 1

VARIABLES
    ctx,        \* is the context of the process cancelled?
    rot,        \* where the rotator goroutine is
    timer,      \* time left of the delay it sleeps or waits for
    took,       \* time the current call of the CA has taken
    outcome,    \* how the last call of the CA ended
    secret,     \* the SDS snapshot: none yet, a signed bundle, an empty one
    age,        \* time since the CA signed the certificate in the snapshot
    failures,   \* history: failed calls since the snapshot was made
    lateCalls   \* history: calls begun after the cancellation

vars == <<ctx, rot, timer, took, outcome, secret, age, failures, lateCalls>>

Init ==
    /\ ctx = "running" /\ rot = "execute" /\ timer = 0 /\ took = 0
    /\ outcome = "none" /\ secret = "none" /\ age = 0
    /\ failures = 0 /\ lateCalls = 0

Cancel ==
    /\ ctx = "running"
    /\ ctx' = "cancelled"
    /\ UNCHANGED <<rot, timer, took, outcome, secret, age, failures, lateCalls>>

(* rotator.execute                                                         *)

Call ==
    /\ rot = "execute"
    /\ rot' = "call" /\ took' = 0
    /\ lateCalls' = IF ctx = "cancelled" THEN lateCalls + 1 ELSE lateCalls
    /\ UNCHANGED <<ctx, timer, outcome, secret, age, failures>>

Wait == rot' = "wait" /\ timer' = RotatePeriod
Retry == rot' = "sleep" /\ timer' = RetryDelay

\* UpdateSecrets, and the action has succeeded.  The lifetime runs from the
\* moment the CA signed, which is any moment of the call.
Signed ==
    /\ rot = "call"
    /\ outcome' = "signed" /\ secret' = "signed" /\ failures' = 0
    /\ age' \in 0..took
    /\ Wait
    /\ UNCHANGED <<ctx, took, lateCalls>>

\* The CA answers with an error status or a body that does not decode.
\* CreateCertificate returns the error, but its deferred Body.Close assigns nil
\* to the named result: GetBundle makes a bundle without a certificate and
\* UpdateSecrets publishes it.
Rejected ==
    /\ rot = "call"
    /\ outcome' = "rejected" /\ secret' = "empty" /\ age' = 0 /\ failures' = 0
    /\ Wait
    /\ UNCHANGED <<ctx, took, lateCalls>>

OneMoreFailure == IF failures < FailMax THEN failures + 1 ELSE failures

\* A retry loop that does not look at ctx.
FailsAndRetries ==
    /\ rot = "call"
    /\ outcome' = "failed" /\ failures' = OneMoreFailure
    /\ Retry
    /\ UNCHANGED <<ctx, took, secret, age, lateCalls>>

\* An action that is left for the next period when it fails.
FailsAndWaits ==
    /\ rot = "call"
    /\ outcome' = "failed" /\ failures' = OneMoreFailure
    /\ Wait
    /\ UNCHANGED <<ctx, took, secret, age, lateCalls>>

\* No connection, or Body.Close itself fails: sleep and try again, unless ctx is
\* cancelled.
Fails ==
    /\ rot = "call"
    /\ outcome' = "failed" /\ failures' = OneMoreFailure
    /\ IF ctx = "cancelled" THEN Wait ELSE Retry
    /\ UNCHANGED <<ctx, took, secret, age, lateCalls>>

\* The HTTP client has no timeout and the request ignores ctx.
Hangs ==
    /\ rot = "call"
    /\ rot' = "hung" /\ outcome' = "failed"
    /\ UNCHANGED <<ctx, timer, took, secret, age, failures, lateCalls>>

\* time.Sleep(retryDelay) ends; ctx is looked at only after the next call.
SleepOver ==
    /\ rot = "sleep" /\ timer = 0
    /\ rot' = "execute"
    /\ UNCHANGED <<ctx, timer, took, outcome, secret, age, failures, lateCalls>>

(* rotator.Run                                                             *)

\* A rotation that happens once.
OnlyOnce == FALSE

PeriodOver ==
    /\ rot = "wait" /\ timer = 0
    /\ rot' = "execute"
    /\ UNCHANGED <<ctx, timer, took, outcome, secret, age, failures, lateCalls>>

IgnoreCancel == FALSE

\* The check of ctx after the first execute and the select of the loop.
SeeCancel ==
    /\ rot = "wait" /\ ctx = "cancelled"
    /\ rot' = "returned"
    /\ UNCHANGED <<ctx, timer, took, outcome, secret, age, failures, lateCalls>>

(* Time                                                                    *)

Older == IF secret = "signed" /\ age < AgeMax THEN age + 1 ELSE age

\* A timer that goes on below zero.
TickPastZero ==
    /\ rot \in {"sleep", "wait"} /\ ctx = "running" /\ timer >= 0
    /\ timer' = timer - 1 /\ age' = Older
    /\ UNCHANGED <<ctx, rot, took, outcome, secret, failures, lateCalls>>

\* A sleeping or waiting rotator lets time pass until it is due; one that has
\* seen ctx.Done is due at once.
TickIdle ==
    /\ rot = "sleep" \/ (rot = "wait" /\ ctx = "running")
    /\ timer > 0
    /\ timer' = timer - 1 /\ age' = Older
    /\ UNCHANGED <<ctx, rot, took, outcome, secret, failures, lateCalls>>

TickCall ==
    /\ rot = "call" /\ took < CallMax
    /\ took' = took + 1 /\ age' = Older
    /\ UNCHANGED <<ctx, rot, timer, outcome, secret, failures, lateCalls>>

TickHung ==
    /\ rot = "hung" /\ Older # age
    /\ age' = Older
    /\ UNCHANGED <<ctx, rot, timer, took, outcome, secret, failures, lateCalls>>

-----------------------------------------------------------------------------
Ended == rot \in {"returned", "hung"} /\ UNCHANGED vars

Rotator == Call \/ SleepOver \/ PeriodOver \/ TickIdle

Answer == Signed \/ Rejected \/ Fails \/ Hangs

Next == Cancel \/ Rotator \/ SeeCancel \/ Answer \/ TickCall \/ TickHung \/ Ended

\* The goroutine runs, time passes, each call of the CA ends or is given up for
\* lost, and a CA that is asked again and again signs again and again.
Spec ==
    /\ Init /\ [][Next]_vars
    /\ WF_vars(Rotator) /\ SF_vars(SeeCancel)
    /\ WF_vars(Answer) /\ SF_vars(Signed)

-----------------------------------------------------------------------------
(* Properties                                                              *)

TypeOK ==
    /\ ctx \in {"running", "cancelled"}
    /\ rot \in {"execute", "call", "sleep", "wait", "hung", "returned"}
    /\ timer \in 0..(RotatePeriod + RetryDelay)
    /\ took \in 0..CallMax
    /\ outcome \in {"none", "signed", "rejected", "failed"}
    /\ secret \in {"none", "signed", "empty"}
    /\ age \in 0..AgeMax
    /\ failures \in 0..FailMax
    /\ lateCalls \in Nat

\* A certificate is not in use for longer than a period, two calls, and a call
\* and a delay for each call that failed: a failure costs a short delay and never
\* a period, and a reply that comes late costs once when the certificate is
\* signed and once when it is replaced.  With the defaults (option.go:92, 132) the
\* period alone is the lifetime, so the certificate does expire, by no more than
\* the rest of this sum.  A CA that never answers is excluded by name.
UseIsBounded ==
    secret = "signed" /\ rot # "hung" /\ failures < FailMax => age <= Longest(failures)

\* A call that fails is not left for the next period: while the process runs and
\* Envoy has no signed certificate, the rotator waits for a period only where the
\* CA has rejected the last signing, whose empty bundle it takes for a success
\* (finding MtlsRetry).
OnlyRejectionWaits ==
    rot = "wait" /\ ctx = "running" /\ secret # "signed" => outcome = "rejected"

\* Although neither the sleep nor the call looks at ctx, the agent asks the CA
\* at most once after the process was told to stop.
AtMostOneLateCall == lateCalls <= 1

\* After cancellation the rotator returns, unless the CA leaves it hanging.
RotatorStops == ctx = "cancelled" ~> rot \in {"returned", "hung"}

\* An empty bundle is replaced by a signed one in the end.
RecoversFromRejection ==
    secret = "empty" ~> secret = "signed" \/ ctx = "cancelled" \/ rot = "hung"

\* option.go:30: FailedRetryDelay is the retry interval when the rotation action
\* failed, so the rotator does not wait for a whole period after a signing that
\* failed.
FailedSigningIsRetried == rot = "wait" /\ ctx = "running" => outcome = "signed"
=============================================================================
