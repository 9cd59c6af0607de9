----------------------------- MODULE RateLimit -----------------------------
(***************************************************************************)
(* The rate limit server beside the life of the process: the requests of   *)
(* Envoy, each handled by ShouldRateLimit in a goroutine of the gRPC       *)
(* server, use the limit API of the SDK context that the services share,   *)
(* while Destroy ends that API first and then stops the server.            *)
(***************************************************************************)
EXTENDS SidecarLifecycle

CONSTANT Requests   \* the requests Envoy may have in flight at once

VARIABLE req        \* where the handler of each request is

rateVars == <<main, cause, waiter, wg, errCh, run, lsn, sdk, stream, atCancel, req>>

InFlight == {r \in Requests : req[r] # "idle"}

RateInit == Init /\ req = [r \in Requests |-> "idle"]

Move(r, from, to) == req[r] = from /\ req' = [req EXCEPT ![r] = to]

\* gRPC hands over a request while the server serves, and while a connection
\* it is closing gracefully has not heard of it.  buildQuotaRequest returns an
\* empty quota request, and no error, for an empty domain or namespace.
Receive(r) ==
    /\ Alive /\ lsn["rate"] \in {"up", "closing"}
    /\ \E built \in {"named", "nameless"} : Move(r, "idle", built)
    /\ UNCHANGED vars

\* GetQuota takes a quota request with a service, while the SDK context lives.
GetQuota(r) ==
    /\ Alive /\ sdk.up
    /\ Move(r, "named", "asked")
    /\ UNCHANGED vars

\* GetQuota returns an error, for a quota request without a service, for a
\* destroyed SDK context or for a reason of its own, or it returns no future:
\* ShouldRateLimit returns without a verdict.
GetQuotaFails(r) ==
    /\ Alive
    /\ \E built \in {"named", "nameless"} : Move(r, built, "idle")
    /\ UNCHANGED vars

\* future.Get gives a verdict, also when the context was destroyed meanwhile.
Respond(r) ==
    /\ Alive
    /\ Move(r, "asked", "idle")
    /\ UNCHANGED vars

\* A Destroy that calls Stop.
StopAtOnce == TRUE

\* GracefulStop, the second half of Destroy, returns when no handler runs.
GracefulStop ==
    run["rls"] = "draining" /\ run'["rls"] # "draining" => InFlight = {}

Lifecycle == Next /\ GracefulStop /\ UNCHANGED req

Handle(r) == Receive(r) \/ GetQuota(r) \/ GetQuotaFails(r) \/ Respond(r)

RateNext == Lifecycle \/ \E r \in Requests : Handle(r)

RateSpec == RateInit /\ [][RateNext]_rateVars

-----------------------------------------------------------------------------
(* Properties                                                              *)

RateTypeOK ==
    /\ TypeOK
    /\ req \in [Requests -> {"idle", "named", "nameless", "asked"}]

\* A graceful exit cuts no request off: when Start reports it, the handlers of
\* a rate limit server that was counted when ctx was cancelled have all returned.
NoRequestCutOff ==
    main = "graceful" /\ "rls" \in atCancel => InFlight = {}
=============================================================================
