------------------------- MODULE SidecarLifecycle -------------------------
(***************************************************************************)
(* The life of one sidecar process: bootstrap.Start builds the agent,      *)
(* starts every service in its own goroutine, waits for a signal or for    *)
(* the first error, cancels the context and waits for the services, at     *)
(* most 30 seconds.  A service is the Run and Destroy of one of the five   *)
(* packages; a listener is the goroutine a Run starts to serve a socket.   *)
(***************************************************************************)
EXTENDS Integers, FiniteSets

CONSTANT Enabled    \* the services the configuration builds

Services == {"debug", "dns", "mtls", "metric", "rls"}

\* InitDnsResolver never returns a nil server without an error, so the DNS
\* service is part of every agent.
EnabledIsServices == Enabled \subseteq Services /\ "dns" \in Enabled
ASSUME EnabledAssumption == EnabledIsServices

Listeners == {"http", "udp", "tcp", "sds", "rate"}

Owner == [http |-> "debug", udp |-> "dns", tcp |-> "dns",
          sds |-> "mtls", rate |-> "rls"]

VARIABLES
    main,       \* where bootstrap.Start is
    cause,      \* why ctx was cancelled; "none" while it is not
    waiter,     \* the goroutine that calls wg.Wait and closes done
    wg,         \* counter of the WaitGroup
    errCh,      \* the buffered error channel: its length and, until the main loop
                \* has read its one message, what the first one is
    run,        \* where each service's Run is
    lsn,        \* where each listener goroutine is
    sdk,        \* is the shared SDK context alive, and who holds an API of it
    stream,     \* does Envoy hold an SDS stream open
    atCancel    \* history: services counted by wg when ctx was cancelled

vars == <<main, cause, waiter, wg, errCh, run, lsn, sdk, stream, atCancel>>

Ended == {"initFailed", "graceful", "forced", "crashed"}

RunStates == {"absent", "go", "start", "sendErr", "serve", "busy", "unwind",
              "stop", "draining", "drained", "done"}

ListenerStates == {"none", "go", "up", "closing", "retErr", "retNil", "gone"}

Alive == main \notin Ended
Cancelled == cause # "none"

-----------------------------------------------------------------------------
(* The error channel and the wait group                                    *)

\* One slot per service is one short: the DNS service has two listeners.
Capacity == Cardinality(Enabled) + Cardinality(Enabled \cap {"dns"})

Full == errCh.size = Capacity

Send(m) == /\ ~Full
           /\ errCh' = [size |-> errCh.size + 1,
                       head |-> IF main = "loop" /\ errCh.size = 0 THEN m ELSE errCh.head]

\* Services whose deferred function calls wg.Done before Destroy.
AllDoneFirst == Services
DoneFirst == {"debug"}

\* Has Run of c added itself to wg, and not yet called wg.Done?
Counted(c) == \/ run[c] \in {"start", "sendErr", "serve", "busy", "unwind"}
              \/ c \notin DoneFirst /\ run[c] \in {"draining", "drained"}

\* Has Destroy of c begun to close what c serves?
Stopped(c) == run[c] \in {"draining", "drained", "done"}

Goto(c, to) == run' = [run EXCEPT ![c] = to]

-----------------------------------------------------------------------------
Init ==
    /\ main = "init" /\ cause = "none" /\ waiter = "idle" /\ wg = 0
    /\ errCh = [size |-> 0, head |-> "none"]
    /\ run = [c \in Services |-> "absent"]
    /\ lsn = [l \in Listeners |-> "none"]
    /\ sdk = [up |-> FALSE, holders |-> {}]
    /\ stream = FALSE
    /\ atCancel = {}

(* bootstrap.Start                                                         *)

\* initAgent returns an error: os.Exit(-1).
InitFails ==
    /\ main = "init"
    /\ main' = "initFailed"
    /\ UNCHANGED <<cause, waiter, wg, errCh, run, lsn, sdk, stream, atCancel>>

\* initAgent creates the SDK context, the resolvers take APIs of it, and
\* runServices starts one goroutine per service.
StartServices ==
    /\ main = "init"
    /\ main' = "loop"
    /\ run' = [c \in Services |-> IF c \in Enabled THEN "go" ELSE "absent"]
    /\ sdk' = [up |-> TRUE, holders |-> {"dns"}]
    /\ UNCHANGED <<cause, waiter, wg, errCh, lsn, stream, atCancel>>

Cancel(why) ==
    /\ cause' = why
    /\ main' = "drain"
    /\ atCancel' = {c \in Services : run[c] \notin {"absent", "go"}}

CatchSignal ==
    /\ main = "loop"
    /\ Cancel("signal")
    /\ errCh' = [errCh EXCEPT !.head = "none"]
    /\ UNCHANGED <<waiter, wg, run, lsn, sdk, stream>>

\* A main loop that logs the error and goes on.
ReadErrorAndGoOn ==
    /\ main = "loop" /\ errCh.size > 0
    /\ errCh' = [size |-> errCh.size - 1, head |-> "none"]
    /\ UNCHANGED <<main, cause, waiter, wg, run, lsn, sdk, stream, atCancel>>

\* The first message ends the loop.  err.Error() of a nil error panics, the
\* panic is recovered before cancel is called, and Start waits for ctx.Done.
ReadError ==
    /\ main = "loop" /\ errCh.size > 0
    /\ errCh' = [size |-> errCh.size - 1, head |-> "none"]
    /\ IF errCh.head = "nil"
       THEN main' = "stuck" /\ UNCHANGED <<cause, atCancel>>
       ELSE Cancel("error")
    /\ UNCHANGED <<waiter, wg, run, lsn, sdk, stream>>

\* wg.Wait returns at once when the counter is zero.
StartWaiter ==
    /\ main = "drain" /\ waiter = "idle"
    /\ waiter' = IF wg = 0 THEN "returned" ELSE "asleep"
    /\ UNCHANGED <<main, cause, wg, errCh, run, lsn, sdk, stream, atCancel>>

\* A woken Wait that finds the counter above zero again panics ("WaitGroup is
\* reused before previous Wait has returned"); nothing recovers in that
\* goroutine, so the process dies.
WakeWaiter ==
    /\ Alive /\ waiter = "woken"
    /\ IF wg = 0 THEN waiter' = "returned" /\ UNCHANGED main
                 ELSE main' = "crashed" /\ UNCHANGED waiter
    /\ UNCHANGED <<cause, wg, errCh, run, lsn, sdk, stream, atCancel>>

ExitGraceful ==
    /\ main = "drain" /\ waiter = "returned"
    /\ main' = "graceful"
    /\ UNCHANGED <<cause, waiter, wg, errCh, run, lsn, sdk, stream, atCancel>>

\* A Start without the 30 second case of the select.
NoForcedExit == main = "drain" /\ UNCHANGED vars

ExitForced ==
    /\ main = "drain"
    /\ main' = "forced"
    /\ UNCHANGED <<cause, waiter, wg, errCh, run, lsn, sdk, stream, atCancel>>

-----------------------------------------------------------------------------
(* Run and Destroy of a service                                            *)

\* A Run that forgets wg.Add(1).
SkipAdd(c) ==
    /\ Alive /\ run[c] = "go"
    /\ Goto(c, "start")
    /\ UNCHANGED <<main, cause, waiter, wg, errCh, lsn, sdk, stream, atCancel>>

AddSelf(c) ==
    /\ Alive /\ run[c] = "go"
    /\ wg' = wg + 1
    /\ Goto(c, "start")
    /\ UNCHANGED <<main, cause, waiter, errCh, lsn, sdk, stream, atCancel>>

Hold(c) == sdk' = [sdk EXCEPT !.holders = @ \cup ({c} \cap {"metric", "rls"})]

\* Listeners are opened and the serving goroutines started.  The mTLS agent
\* goes straight into its first certificate rotation.
StartOk(c) ==
    /\ Alive /\ run[c] = "start"
    /\ Goto(c, IF c = "mtls" THEN "busy" ELSE "serve")
    /\ lsn' = [l \in Listeners |-> IF Owner[l] = c THEN "go" ELSE lsn[l]]
    /\ Hold(c)
    /\ UNCHANGED <<main, cause, waiter, wg, errCh, stream, atCancel>>

\* A port in use, no API, no socket directory; the rate limit server can also
\* fail on its certificate, when it already holds the limit API.
StartFails(c) ==
    /\ Alive /\ run[c] = "start" /\ c # "dns"
    /\ Goto(c, "sendErr")
    /\ \/ UNCHANGED sdk
       \/ c = "rls" /\ Hold(c)
    /\ UNCHANGED <<main, cause, waiter, wg, errCh, lsn, stream, atCancel>>

SendRunError(c) ==
    /\ Alive /\ run[c] = "sendErr"
    /\ Send("err")
    /\ Goto(c, "unwind")
    /\ UNCHANGED <<main, cause, waiter, wg, lsn, sdk, stream, atCancel>>

\* Metric reports and certificate rotations look at ctx only between two.
BeginWork(c) ==
    /\ Alive /\ c \in {"mtls", "metric"} /\ run[c] = "serve"
    /\ Goto(c, "busy")
    /\ UNCHANGED <<main, cause, waiter, wg, errCh, lsn, sdk, stream, atCancel>>

FinishWork(c) ==
    /\ Alive /\ run[c] = "busy"
    /\ Goto(c, "serve")
    /\ UNCHANGED <<main, cause, waiter, wg, errCh, lsn, sdk, stream, atCancel>>

\* A Run that does not wait for ctx.Done.
ReturnAtOnce(c) ==
    /\ Alive /\ run[c] = "serve"
    /\ Goto(c, IF c = "mtls" THEN "sendErr" ELSE "unwind")
    /\ UNCHANGED <<main, cause, waiter, wg, errCh, lsn, sdk, stream, atCancel>>

\* The rotator of the mTLS agent returns ctx.Err(), which Run sends.
SeeCancel(c) ==
    /\ Alive /\ run[c] = "serve" /\ Cancelled
    /\ Goto(c, IF c = "mtls" THEN "sendErr" ELSE "unwind")
    /\ UNCHANGED <<main, cause, waiter, wg, errCh, lsn, sdk, stream, atCancel>>

\* http.Server.Shutdown makes Serve return ErrServerClosed, a DNS listener
\* returns nil, a gRPC one returns nil once GracefulStop is over.
Closed(l) == IF lsn[l] # "up" THEN lsn[l]
             ELSE CASE l = "http" -> "retErr"
                    [] l \in {"udp", "tcp"} -> "retNil"
                    [] OTHER -> "closing"

DropSdk == sdk' = [sdk EXCEPT !.up = FALSE]

\* A Destroy that closes no listener.
BeginDestroyLeavesOpen(c) ==
    /\ Alive /\ run[c] = IF c \in DoneFirst THEN "stop" ELSE "unwind"
    /\ Goto(c, "draining")
    /\ UNCHANGED <<main, cause, waiter, wg, errCh, lsn, sdk, stream, atCancel>>

\* The rate limit and metric servers destroy their API, and with it the shared
\* SDK context, before anything else.  A DNS listener that has not started
\* yet is not closed: ShutdownContext only reports that it is not started.
BeginDestroy(c) ==
    /\ Alive /\ run[c] = IF c \in DoneFirst THEN "stop" ELSE "unwind"
    /\ Goto(c, "draining")
    /\ lsn' = [l \in Listeners |-> IF Owner[l] = c THEN Closed(l) ELSE lsn[l]]
    /\ IF c \in sdk.holders \ {"dns"} THEN DropSdk ELSE UNCHANGED sdk
    /\ UNCHANGED <<main, cause, waiter, wg, errCh, stream, atCancel>>

\* GracefulStop of the mTLS agent waits for Envoy's stream; the other waits
\* are bounded.  The resolvers are destroyed last.
EndDestroy(c) ==
    /\ Alive /\ run[c] = "draining"
    /\ c = "mtls" => ~stream
    /\ Goto(c, IF c \in DoneFirst THEN "done" ELSE "drained")
    /\ lsn' = [l \in Listeners |->
                 IF Owner[l] = c /\ lsn[l] = "closing" THEN "retNil" ELSE lsn[l]]
    /\ IF c = "dns" THEN DropSdk ELSE UNCHANGED sdk
    /\ UNCHANGED <<main, cause, waiter, wg, errCh, stream, atCancel>>

\* A wg.Done that is skipped when Run ends with an error.
ReleaseUnlessError(c) ==
    /\ Alive /\ run[c] = IF c \in DoneFirst THEN "unwind" ELSE "drained"
    /\ wg' = IF cause = "error" THEN wg ELSE wg - 1
    /\ waiter' = IF wg' = 0 /\ waiter = "asleep" THEN "woken" ELSE waiter
    /\ Goto(c, IF c \in DoneFirst THEN "stop" ELSE "done")
    /\ UNCHANGED <<main, cause, errCh, lsn, sdk, stream, atCancel>>

\* wg.Done; the last one wakes the waiter.
Release(c) ==
    /\ Alive /\ run[c] = IF c \in DoneFirst THEN "unwind" ELSE "drained"
    /\ wg' = wg - 1
    /\ waiter' = IF wg' = 0 /\ waiter = "asleep" THEN "woken" ELSE waiter
    /\ Goto(c, IF c \in DoneFirst THEN "stop" ELSE "done")
    /\ UNCHANGED <<main, cause, errCh, lsn, sdk, stream, atCancel>>

-----------------------------------------------------------------------------
(* The listener goroutines                                                 *)

MoveListener(l, to) ==
    /\ lsn' = [lsn EXCEPT ![l] = to]
    /\ UNCHANGED <<main, cause, waiter, wg, run, sdk, stream, atCancel>>

\* A listener of any library that serves although it was stopped.
ServeBeginsAnyway(l) ==
    /\ Alive /\ lsn[l] = "go"
    /\ MoveListener(l, "up")
    /\ UNCHANGED errCh

\* http and gRPC servers refuse to serve once stopped; a DNS server does not.
ServeBegins(l) ==
    /\ Alive /\ lsn[l] = "go"
    /\ Owner[l] = "dns" \/ ~Stopped(Owner[l])
    /\ MoveListener(l, "up")
    /\ UNCHANGED errCh

\* A stopped server, or a DNS address in use.
ServeRefused(l) ==
    /\ Alive /\ lsn[l] = "go"
    /\ Owner[l] = "dns" \/ Stopped(Owner[l])
    /\ MoveListener(l, "retErr")
    /\ UNCHANGED errCh

ServeBreaks(l) ==
    /\ Alive /\ lsn[l] = "up"
    /\ MoveListener(l, "retErr")
    /\ UNCHANGED errCh

\* errChan <- Serve(...)
SendResult(l) ==
    /\ Alive /\ lsn[l] \in {"retErr", "retNil"}
    /\ Send(IF lsn[l] = "retNil" THEN "nil" ELSE "err")
    /\ MoveListener(l, "gone")

(* Envoy                                                                   *)

OpenStream ==
    /\ Alive /\ lsn["sds"] = "up" /\ ~stream
    /\ stream' = TRUE
    /\ UNCHANGED <<main, cause, waiter, wg, errCh, run, lsn, sdk, atCancel>>

CloseStream ==
    /\ Alive /\ stream
    /\ stream' = FALSE
    /\ UNCHANGED <<main, cause, waiter, wg, errCh, run, lsn, sdk, atCancel>>

-----------------------------------------------------------------------------
AfterExit == ~Alive /\ UNCHANGED vars

MainStep == ReadError \/ StartWaiter \/ WakeWaiter \/ ExitGraceful

RunStep(c) == \/ AddSelf(c) \/ StartOk(c) \/ StartFails(c) \/ SendRunError(c)
              \/ BeginDestroy(c) \/ EndDestroy(c) \/ Release(c)

ListenerStep(l) == ServeBegins(l) \/ ServeRefused(l) \/ SendResult(l)

Next ==
    \/ InitFails \/ StartServices \/ CatchSignal \/ MainStep \/ ExitForced
    \/ \E c \in Services : RunStep(c) \/ SeeCancel(c) \/ BeginWork(c) \/ FinishWork(c)
    \/ \E l \in Listeners : ListenerStep(l) \/ ServeBreaks(l)
    \/ OpenStream \/ CloseStream
    \/ AfterExit

\* Goroutines that can run do run; select picks among ready cases at random,
\* so a cancelled context is eventually seen.  Nothing is assumed of signals,
\* of work that calls Envoy or the CA (their HTTP clients have no timeout) and
\* of Envoy closing its stream, and the timer is fair only where a property
\* says so.
CodeFairness ==
    /\ WF_vars(MainStep)
    /\ \A c \in Services : WF_vars(RunStep(c)) /\ SF_vars(SeeCancel(c))
    /\ \A l \in Listeners : WF_vars(ListenerStep(l))

Spec == Init /\ [][Next]_vars /\ CodeFairness

\* The 30 seconds pass.
Timer == WF_vars(ExitForced)

\* Within the 30 seconds, with an Envoy and a CA that answer and an Envoy that
\* leaves.
Patience ==
    /\ [](main # "forced")
    /\ \A c \in {"mtls", "metric"} : WF_vars(FinishWork(c))
    /\ WF_vars(CloseStream)

-----------------------------------------------------------------------------
(* Properties                                                              *)

\* Type invariant: the counter of the WaitGroup never goes below zero (a
\* panic in wg.Done) and the error channel never holds more than its buffer.
TypeOK ==
    /\ main \in {"init", "loop", "stuck", "drain"} \cup Ended
    /\ cause \in {"none", "signal", "error"}
    /\ waiter \in {"idle", "asleep", "woken", "returned"}
    /\ wg \in Nat
    /\ errCh \in [size : 0..Capacity, head : {"none", "err", "nil"}]
    /\ run \in [Services -> RunStates]
    /\ lsn \in [Listeners -> ListenerStates]
    /\ sdk \in [up : BOOLEAN, holders : SUBSET Services]
    /\ stream \in BOOLEAN
    /\ atCancel \in SUBSET Services

\* Several listeners end with a nil error (entry.go:71 would panic on it, and
\* the recovered panic would leave Start waiting for a ctx nobody cancels), but
\* the main loop never reads one: a listener returns nil only after its server
\* was stopped, and no server is stopped before ctx is cancelled.
NeverStuck == main # "stuck"

\* When Start logs that all components shut down gracefully, each service that
\* was counted by the WaitGroup when ctx was cancelled has finished Destroy.
\* The debug server, which calls wg.Done before Destroy, is the exception.
GracefulExitDrains ==
    main = "graceful" => \A c \in atCancel \ {"debug"} : run[c] = "done"

\* After Destroy of the debug, mTLS or rate limit server nothing of it serves,
\* even when Destroy overtook the goroutine that was to start serving.
StoppedStaysStopped ==
    \A l \in Listeners \ {"udp", "tcp"} :
        run[Owner[l]] \in {"drained", "done"} => lsn[l] \notin {"up", "closing"}

\* The SDK context every service shares is destroyed only when the process is
\* ending, or is about to because an error waits for the main loop.
SdkOutlivesService ==
    main \in {"loop", "drain"} /\ ~sdk.up => Cancelled \/ errCh.size > 0

\* Once ctx is cancelled the process ends, whatever Envoy, the CA or a full
\* error channel do to the services (entry.go:46).
ShutdownEnds == Timer => (Cancelled ~> ~Alive)

\* A service that cannot start, or whose listener breaks, ends the process.
FailureEndsProcess ==
    Timer => (((\E c \in Services : run[c] = "sendErr") \/ (\E l \in Listeners : lsn[l] = "retErr"))
                ~> ~Alive)

\* Within the 30 seconds, when Envoy and the CA answer and Envoy leaves, the
\* graceful path completes by itself unless the second message of the mTLS agent
\* left no slot for the error of some Run.
GracefulPathCompletes ==
    Patience => (Cancelled ~> \/ main \in {"graceful", "crashed"}
                              \/ /\ \E c \in Services : run[c] = "sendErr"
                                 /\ Full /\ cause = "signal" /\ lsn["sds"] = "gone")

\* entry.go:36 says Start waits for all components to finish closing, and
\* entry.go:45 logs that all of them shut down.
GracefulMeansAllClosed ==
    main = "graceful" => \A c \in Enabled : run[c] = "done"
=============================================================================
