----------------------- MODULE SidecarLifecycleProofs -----------------------
(* The life of the process for every set of enabled services, alone (Spec)  *)
(* and with the requests of Envoy beside it (RateSpec).                     *)
EXTENDS RateLimit, FiniteSetTheorems, TLAPS

LEMMA ServicesFinite == IsFiniteSet(Services)
<1>1. IsFiniteSet({})
  BY FS_EmptySet
<1>2. IsFiniteSet({} \cup {"debug"})
  BY <1>1, FS_AddElement, Zenon
<1>3. IsFiniteSet(({} \cup {"debug"}) \cup {"dns"})
  BY <1>2, FS_AddElement, Zenon
<1>4. IsFiniteSet((({} \cup {"debug"}) \cup {"dns"}) \cup {"mtls"})
  BY <1>3, FS_AddElement, Zenon
<1>5. IsFiniteSet(((({} \cup {"debug"}) \cup {"dns"}) \cup {"mtls"}) \cup {"metric"})
  BY <1>4, FS_AddElement, Zenon
<1>6. IsFiniteSet((((({} \cup {"debug"}) \cup {"dns"}) \cup {"mtls"}) \cup {"metric"}) \cup {"rls"})
  BY <1>5, FS_AddElement, Zenon
<1>7. Services = (((({} \cup {"debug"}) \cup {"dns"}) \cup {"mtls"}) \cup {"metric"}) \cup {"rls"}
  BY DEF Services
<1> QED
  BY <1>6, <1>7

LEMMA CapacityIsNat == Capacity \in Nat
<1>1. IsFiniteSet(Enabled) /\ IsFiniteSet(Enabled \cap {"dns"})
  BY EnabledAssumption, ServicesFinite, FS_Subset, FS_Intersection DEF EnabledIsServices
<1> QED
  BY <1>1, FS_CardinalityType DEF Capacity

LEMMA OwnerIsService == \A l \in Listeners : Owner[l] \in Services
BY DEF Listeners, Owner, Services

LEMMA GotoMoves ==
    ASSUME run \in [Services -> RunStates], NEW c \in Services, NEW to \in RunStates, Goto(c, to)
    PROVE  /\ run' \in [Services -> RunStates] /\ run'[c] = to
           /\ \A d \in Services \ {c} : run'[d] = run[d]
BY DEF Goto

\* A message leaves the channel within its buffer.
LEMMA SendFits ==
    ASSUME errCh \in [size : 0..Capacity, head : {"none", "err", "nil"}],
           NEW m \in {"err", "nil"}, Send(m)
    PROVE  /\ errCh' \in [size : 0..Capacity, head : {"none", "err", "nil"}]
           /\ errCh'.size = errCh.size + 1
<1>1. errCh.size + 1 \in 0..Capacity
  BY CapacityIsNat DEF Send, Full
<1>2. (IF main = "loop" /\ errCh.size = 0 THEN m ELSE errCh.head) \in {"none", "err", "nil"}
  OBVIOUS
<1> QED
  BY <1>1, <1>2 DEF Send

-----------------------------------------------------------------------------
(* The wait group counts                                                   *)

CountedServices == {c \in Services : Counted(c)}

\* The counter is the number of services between wg.Add and wg.Done; with it
\* wg.Done never finds zero.
CountInv ==
    /\ TypeOK /\ wg = Cardinality(CountedServices)
    /\ main = "init" => \A c \in Services : run[c] = "absent"

LEMMA CountedFinite ==
    IsFiniteSet(CountedServices) /\ Cardinality(CountedServices) \in Nat
BY ServicesFinite, FS_Subset, FS_CardinalityType DEF CountedServices

LEMMA CountStays ==
    ASSUME run \in [Services -> RunStates], NEW c \in Services, NEW to \in RunStates,
           Goto(c, to), Counted(c) <=> Counted(c)'
    PROVE  CountedServices' = CountedServices
<1>1. \A d \in Services : Counted(d) <=> Counted(d)'
  BY GotoMoves DEF Counted
<1> QED
  BY <1>1 DEF CountedServices

\* The part of the state AddSelf, Release and the other steps of a Run leave to
\* be checked when run moves from one state of RunStates to another.
LEMMA TypeOfRunStep ==
    ASSUME TypeOK, NEW c \in Services, NEW to \in RunStates, Goto(c, to),
           wg' \in Nat, waiter' \in {"idle", "asleep", "woken", "returned"},
           errCh' \in [size : 0..Capacity, head : {"none", "err", "nil"}],
           lsn' \in [Listeners -> ListenerStates],
           sdk' \in [up : BOOLEAN, holders : SUBSET Services],
           UNCHANGED <<main, cause, stream, atCancel>>
    PROVE  TypeOK'
<1>1. run' \in [Services -> RunStates]
  BY GotoMoves DEF TypeOK
<1> QED
  BY <1>1 DEF TypeOK

LEMMA TypeOfSdk ==
    ASSUME TypeOK, NEW c \in Services
    PROVE  /\ Hold(c) => sdk' \in [up : BOOLEAN, holders : SUBSET Services]
           /\ DropSdk => sdk' \in [up : BOOLEAN, holders : SUBSET Services]
<1>1. sdk \in [up : BOOLEAN, holders : SUBSET Services]
  BY DEF TypeOK
<1>2. ASSUME Hold(c) PROVE sdk' \in [up : BOOLEAN, holders : SUBSET Services]
  <2>1. sdk.holders \cup ({c} \cap {"metric", "rls"}) \in SUBSET Services
    BY <1>1
  <2> QED
    BY <1>1, <1>2, <2>1 DEF Hold
<1>3. ASSUME DropSdk PROVE sdk' \in [up : BOOLEAN, holders : SUBSET Services]
  BY <1>1, <1>3 DEF DropSdk
<1> QED
  BY <1>2, <1>3

LEMMA RunStepCounts ==
    ASSUME CountInv, NEW c \in Services,
           RunStep(c) \/ SeeCancel(c) \/ BeginWork(c) \/ FinishWork(c)
    PROVE  CountInv'
<1> USE DEF CountInv
<1>0. run \in [Services -> RunStates] /\ main' # "init"
  BY DEF TypeOK, RunStep, AddSelf, StartOk, StartFails, SendRunError, BeginDestroy, EndDestroy,
         Release, SeeCancel, BeginWork, FinishWork
<1>1. CASE AddSelf(c)
  <2>1. Goto(c, "start") /\ "start" \in RunStates
    BY <1>1 DEF AddSelf, RunStates
  <2>2. ~Counted(c) /\ Counted(c)'
    BY <1>0, <1>1, <2>1, GotoMoves DEF AddSelf, Counted, DoneFirst
  <2>3. CountedServices' = CountedServices \cup {c} /\ c \notin CountedServices
    BY <1>0, <2>1, <2>2, GotoMoves DEF CountedServices, Counted
  <2>4. Cardinality(CountedServices') = Cardinality(CountedServices) + 1
    BY <2>3, CountedFinite, FS_AddElement
  <2>5. TypeOK'
    BY <1>1, <2>1, TypeOfRunStep DEF AddSelf, TypeOK
  <2> QED
    BY <1>1, <2>4, <2>5 DEF AddSelf
<1>2. CASE StartOk(c)
  <2>1. PICK to \in {"busy", "serve"} : Goto(c, to)
    BY <1>2 DEF StartOk
  <2>2. to \in RunStates
    BY <2>1 DEF RunStates
  <2>3. Counted(c) <=> Counted(c)'
    BY <1>0, <1>2, <2>1, <2>2, GotoMoves DEF StartOk, Counted
  <2>4. lsn' \in [Listeners -> ListenerStates]
    BY <1>2 DEF StartOk, TypeOK, ListenerStates
  <2> QED
    BY <1>0, <1>2, <2>1, <2>2, <2>3, <2>4, CountStays, TypeOfRunStep, TypeOfSdk DEF StartOk, TypeOK
<1>3. CASE StartFails(c)
  <2>1. Goto(c, "sendErr") /\ "sendErr" \in RunStates
    BY <1>3 DEF StartFails, RunStates
  <2>2. Counted(c) <=> Counted(c)'
    BY <1>0, <1>3, <2>1, GotoMoves DEF StartFails, Counted
  <2>3. sdk' \in [up : BOOLEAN, holders : SUBSET Services]
    BY <1>3, TypeOfSdk DEF StartFails, TypeOK
  <2> QED
    BY <1>0, <1>3, <2>1, <2>2, <2>3, CountStays, TypeOfRunStep DEF StartFails, TypeOK
<1>4. CASE SendRunError(c)
  <2>1. Goto(c, "unwind") /\ "unwind" \in RunStates
    BY <1>4 DEF SendRunError, RunStates
  <2>2. Counted(c) <=> Counted(c)'
    BY <1>0, <1>4, <2>1, GotoMoves DEF SendRunError, Counted
  <2>3. errCh' \in [size : 0..Capacity, head : {"none", "err", "nil"}]
    BY <1>4, SendFits DEF SendRunError, TypeOK
  <2> QED
    BY <1>0, <1>4, <2>1, <2>2, <2>3, CountStays, TypeOfRunStep DEF SendRunError, TypeOK
<1>5. CASE BeginDestroy(c)
  <2>1. Goto(c, "draining") /\ "draining" \in RunStates
    BY <1>5 DEF BeginDestroy, RunStates
  <2>2. Counted(c) <=> Counted(c)'
    BY <1>0, <1>5, <2>1, GotoMoves DEF BeginDestroy, Counted
  <2>3. lsn' \in [Listeners -> ListenerStates]
    <3>1. \A l \in Listeners : Closed(l) \in ListenerStates
      BY DEF Closed, TypeOK, ListenerStates
    <3> QED
      BY <1>5, <3>1 DEF BeginDestroy, TypeOK
  <2>4. sdk' \in [up : BOOLEAN, holders : SUBSET Services]
    BY <1>5, TypeOfSdk DEF BeginDestroy, TypeOK
  <2> QED
    BY <1>0, <1>5, <2>1, <2>2, <2>3, <2>4, CountStays, TypeOfRunStep DEF BeginDestroy, TypeOK
<1>6. CASE EndDestroy(c)
  <2>1. PICK to \in {"done", "drained"} : Goto(c, to) /\ (to = "done" <=> c \in DoneFirst)
    BY <1>6 DEF EndDestroy
  <2>2. to \in RunStates
    BY <2>1 DEF RunStates
  <2>3. Counted(c) <=> Counted(c)'
    BY <1>0, <1>6, <2>1, <2>2, GotoMoves DEF EndDestroy, Counted
  <2>4. lsn' \in [Listeners -> ListenerStates]
    BY <1>6 DEF EndDestroy, TypeOK, ListenerStates
  <2>5. sdk' \in [up : BOOLEAN, holders : SUBSET Services]
    BY <1>6, TypeOfSdk DEF EndDestroy, TypeOK
  <2> QED
    BY <1>0, <1>6, <2>1, <2>2, <2>3, <2>4, <2>5, CountStays, TypeOfRunStep DEF EndDestroy, TypeOK
<1>7. CASE Release(c)
  <2>1. PICK to \in {"stop", "done"} : Goto(c, to) /\ (to = "stop" <=> c \in DoneFirst)
    BY <1>7 DEF Release
  <2>2. to \in RunStates
    BY <2>1 DEF RunStates
  <2>3. Counted(c) /\ ~Counted(c)'
    BY <1>0, <1>7, <2>1, <2>2, GotoMoves DEF Release, Counted
  <2>4. CountedServices' = CountedServices \ {c} /\ c \in CountedServices
    BY <1>0, <2>1, <2>2, <2>3, GotoMoves DEF CountedServices, Counted
  <2>5. /\ Cardinality(CountedServices') = Cardinality(CountedServices) - 1
        /\ Cardinality(CountedServices') \in Nat
    BY <2>4, CountedFinite, FS_RemoveElement, FS_CardinalityType
  <2>6. wg' \in Nat /\ waiter' \in {"idle", "asleep", "woken", "returned"}
    BY <1>7, <2>5 DEF Release, TypeOK
  <2>7. TypeOK'
    BY <1>7, <2>1, <2>2, <2>6, TypeOfRunStep DEF Release, TypeOK
  <2> QED
    BY <1>7, <2>5, <2>7 DEF Release
<1>8. CASE SeeCancel(c)
  <2>1. PICK to \in {"sendErr", "unwind"} : Goto(c, to)
    BY <1>8 DEF SeeCancel
  <2>2. to \in RunStates
    BY <2>1 DEF RunStates
  <2>3. Counted(c) <=> Counted(c)'
    BY <1>0, <1>8, <2>1, <2>2, GotoMoves DEF SeeCancel, Counted
  <2> QED
    BY <1>0, <1>8, <2>1, <2>2, <2>3, CountStays, TypeOfRunStep DEF SeeCancel, TypeOK
<1>9. CASE BeginWork(c)
  <2>1. Goto(c, "busy") /\ "busy" \in RunStates
    BY <1>9 DEF BeginWork, RunStates
  <2>2. Counted(c) <=> Counted(c)'
    BY <1>0, <1>9, <2>1, GotoMoves DEF BeginWork, Counted
  <2> QED
    BY <1>0, <1>9, <2>1, <2>2, CountStays, TypeOfRunStep DEF BeginWork, TypeOK
<1>10. CASE FinishWork(c)
  <2>1. Goto(c, "serve") /\ "serve" \in RunStates
    BY <1>10 DEF FinishWork, RunStates
  <2>2. Counted(c) <=> Counted(c)'
    BY <1>0, <1>10, <2>1, GotoMoves DEF FinishWork, Counted
  <2> QED
    BY <1>0, <1>10, <2>1, <2>2, CountStays, TypeOfRunStep DEF FinishWork, TypeOK
<1> QED
  BY <1>1, <1>2, <1>3, <1>4, <1>5, <1>6, <1>7, <1>8, <1>9, <1>10 DEF RunStep

LEMMA MainStepCounts ==
    ASSUME CountInv,
           InitFails \/ StartServices \/ CatchSignal \/ MainStep \/ ExitForced
    PROVE  CountInv'
<1> USE DEF CountInv
<1>1. CASE StartServices
  <2>1. /\ run' \in [Services -> RunStates]
        /\ \A c \in Services : run'[c] \in {"absent", "go"}
    BY <1>1 DEF StartServices, RunStates
  <2>2. sdk' \in [up : BOOLEAN, holders : SUBSET Services]
    BY <1>1 DEF StartServices, Services
  <2>3. TypeOK'
    BY <1>1, <2>1, <2>2 DEF StartServices, TypeOK
  <2>4. CountedServices' = {}
    BY <2>1 DEF CountedServices, Counted
  <2>5. CountedServices = {} /\ wg = 0
    BY <1>1, FS_EmptySet DEF StartServices, CountedServices, Counted
  <2> QED
    BY <1>1, <2>3, <2>4, <2>5, FS_EmptySet DEF StartServices
<1>2. CASE UNCHANGED <<run, wg>>
  <2>1. CountedServices' = CountedServices
    BY <1>2 DEF CountedServices, Counted
  <2>2. TypeOK'
    <3>1. CASE InitFails
      BY <3>1 DEF InitFails, TypeOK, Ended
    <3>2. CASE CatchSignal
      BY <3>2 DEF CatchSignal, Cancel, TypeOK
    <3>3. CASE ReadError
      <4>1. errCh' \in [size : 0..Capacity, head : {"none", "err", "nil"}]
        BY <3>3, CapacityIsNat DEF ReadError, TypeOK
      <4> QED
        BY <3>3, <4>1 DEF ReadError, Cancel, TypeOK
    <3>4. CASE StartWaiter
      BY <3>4 DEF StartWaiter, TypeOK
    <3>5. CASE WakeWaiter
      BY <3>5 DEF WakeWaiter, TypeOK, Ended
    <3>6. CASE ExitGraceful
      BY <3>6 DEF ExitGraceful, TypeOK, Ended
    <3>7. CASE ExitForced
      BY <3>7 DEF ExitForced, TypeOK, Ended
    <3>8. CASE StartServices
      BY <1>1, <3>8
    <3> QED
      BY <3>1, <3>2, <3>3, <3>4, <3>5, <3>6, <3>7, <3>8 DEF MainStep
  <2>3. main' = "init" => main = "init"
    BY <1>2 DEF InitFails, StartServices, CatchSignal, MainStep, ReadError, Cancel, StartWaiter,
           WakeWaiter, ExitGraceful, ExitForced
  <2> QED
    BY <1>2, <2>1, <2>2, <2>3
<1>3. StartServices \/ UNCHANGED <<run, wg>>
  BY DEF InitFails, CatchSignal, MainStep, ReadError, StartWaiter, WakeWaiter, ExitGraceful,
         ExitForced
<1> QED
  BY <1>1, <1>2, <1>3

LEMMA ListenerStepCounts ==
    ASSUME CountInv, NEW l \in Listeners, ListenerStep(l) \/ ServeBreaks(l)
    PROVE  CountInv'
<1>1. PICK to \in ListenerStates : MoveListener(l, to)
  BY DEF ListenerStep, ServeBegins, ServeRefused, SendResult, ServeBreaks, ListenerStates
<1>2. lsn' \in [Listeners -> ListenerStates]
  BY <1>1 DEF MoveListener, CountInv, TypeOK
<1>3. errCh' \in [size : 0..Capacity, head : {"none", "err", "nil"}]
  <2>1. CASE SendResult(l)
    BY <2>1, SendFits DEF SendResult, CountInv, TypeOK
  <2>2. CASE ~SendResult(l)
    BY <2>2 DEF ListenerStep, ServeBegins, ServeRefused, ServeBreaks, CountInv, TypeOK
  <2> QED
    BY <2>1, <2>2
<1>4. CountedServices' = CountedServices
  BY <1>1 DEF MoveListener, CountedServices, Counted
<1> QED
  BY <1>1, <1>2, <1>3, <1>4 DEF MoveListener, CountInv, TypeOK

\* Nothing is counted before the services start.
LEMMA CountInit == Init => CountInv
<1> SUFFICES ASSUME Init PROVE CountInv
  OBVIOUS
<1>1. errCh \in [size : 0..Capacity, head : {"none", "err", "nil"}]
  BY CapacityIsNat DEF Init
<1>2. sdk \in [up : BOOLEAN, holders : SUBSET Services]
  BY DEF Init
<1>3. TypeOK
  BY <1>1, <1>2 DEF Init, TypeOK, RunStates, ListenerStates
<1>4. CountedServices = {}
  BY DEF Init, CountedServices, Counted
<1> QED
  BY <1>3, <1>4, FS_EmptySet DEF Init, CountInv

\* Every step keeps the counter equal to the number of counted services.
LEMMA CountStep == CountInv /\ [Next]_vars => CountInv'
<1> SUFFICES ASSUME CountInv, [Next]_vars PROVE CountInv'
  OBVIOUS
<1>1. CASE InitFails \/ StartServices \/ CatchSignal \/ MainStep \/ ExitForced
  BY <1>1, MainStepCounts
<1>2. ASSUME NEW c \in Services,
             RunStep(c) \/ SeeCancel(c) \/ BeginWork(c) \/ FinishWork(c)
      PROVE  CountInv'
  BY <1>2, RunStepCounts
<1>3. ASSUME NEW l \in Listeners, ListenerStep(l) \/ ServeBreaks(l) PROVE CountInv'
  BY <1>3, ListenerStepCounts
<1>4. CASE OpenStream \/ CloseStream \/ UNCHANGED vars
  <2>1. CountedServices' = CountedServices
    BY <1>4 DEF OpenStream, CloseStream, vars, CountedServices, Counted
  <2> QED
    BY <1>4, <2>1 DEF OpenStream, CloseStream, vars, CountInv, TypeOK
<1> QED
  BY <1>1, <1>2, <1>3, <1>4 DEF Next, AfterExit

\* entry.go:31 and the five Run functions: the counter of the WaitGroup is the
\* number of services that have called Add and not yet Done.
LEMMA WaitGroupCounts == Spec => []CountInv
BY CountInit, CountStep, PTL DEF Spec

\* wg.Done never panics on a zero counter, and no message is lost to a full
\* error channel: a sender waits.
THEOREM TypeCorrect == Spec => []TypeOK
<1>1. CountInv => TypeOK
  BY DEF CountInv
<1> QED
  BY <1>1, WaitGroupCounts, PTL

-----------------------------------------------------------------------------
(* The graceful exit                                                       *)

Drained == \A c \in atCancel \ {"debug"} : run[c] = "done"

\* A service counted at the cancellation never becomes uncounted but by its
\* wg.Done, and only the debug server has something left to do after it.
DrainInv ==
    /\ waiter # "idle" => main \notin {"init", "loop"}
    /\ \A c \in atCancel : run[c] \notin {"absent", "go"}
    /\ \A c \in Services \ DoneFirst : run[c] # "stop"
    /\ waiter = "returned" => Drained
    /\ main = "graceful" => waiter = "returned"

LEMMA ZeroIsDrained ==
    ASSUME CountInv, DrainInv, wg = 0
    PROVE  Drained
<1>1. CountedServices = {}
  BY CountedFinite, FS_EmptySet DEF CountInv
<1>2. ASSUME NEW c \in atCancel \ {"debug"} PROVE run[c] = "done"
  <2>1. c \in Services /\ run[c] \in RunStates /\ c \notin DoneFirst
    BY DEF CountInv, TypeOK, DoneFirst
  <2>2. run[c] \notin {"absent", "go", "stop"}
    BY <2>1 DEF DrainInv
  <2>3. ~Counted(c)
    BY <1>1, <2>1 DEF CountedServices
  <2> QED
    BY <2>1, <2>2, <2>3 DEF Counted, RunStates
<1> QED
  BY <1>2 DEF Drained

LEMMA RunStepDrains ==
    ASSUME CountInv, DrainInv, NEW c \in Services,
           RunStep(c) \/ SeeCancel(c) \/ BeginWork(c) \/ FinishWork(c)
    PROVE  DrainInv'
<1>1. /\ main' = main /\ atCancel' = atCancel /\ atCancel \subseteq Services
      /\ run \in [Services -> RunStates]
  BY DEF CountInv, TypeOK, RunStep, AddSelf, StartOk, StartFails, SendRunError, BeginDestroy,
         EndDestroy, Release, SeeCancel, BeginWork, FinishWork
<1>2. PICK to \in RunStates \ {"absent", "go"} :
         Goto(c, to) /\ run[c] \notin {"absent", "done"} /\ (to = "stop" => c \in DoneFirst)
  BY DEF RunStep, AddSelf, StartOk, StartFails, SendRunError, BeginDestroy, EndDestroy,
         Release, SeeCancel, BeginWork, FinishWork, RunStates
<1>3. /\ run'[c] = to /\ \A d \in Services \ {c} : run'[d] = run[d]
  BY <1>1, <1>2, GotoMoves
<1>4. \/ waiter' = waiter
      \/ waiter = "asleep" /\ waiter' = "woken"
  BY DEF RunStep, AddSelf, StartOk, StartFails, SendRunError, BeginDestroy, EndDestroy,
         Release, SeeCancel, BeginWork, FinishWork
<1>5. waiter' = "returned" => Drained'
  <2>1. SUFFICES ASSUME waiter' = "returned", NEW d \in atCancel \ {"debug"}
                 PROVE  run'[d] = "done"
    BY <1>1 DEF Drained
  <2>2. run[d] = "done" /\ d # c /\ d \in Services
    BY <1>1, <1>2, <1>4, <2>1 DEF DrainInv, Drained
  <2> QED
    BY <1>3, <2>2
<1>6. \A d \in atCancel' : run'[d] \notin {"absent", "go"}
  BY <1>1, <1>2, <1>3 DEF DrainInv
<1>7. \A d \in Services \ DoneFirst : run'[d] # "stop"
  BY <1>2, <1>3 DEF DrainInv
<1> QED
  BY <1>1, <1>4, <1>5, <1>6, <1>7 DEF DrainInv, DoneFirst

LEMMA MainStepDrains ==
    ASSUME CountInv, DrainInv,
           InitFails \/ StartServices \/ CatchSignal \/ MainStep \/ ExitForced
    PROVE  DrainInv'
<1> USE DEF DrainInv, Drained
<1>1. CASE InitFails
  BY <1>1 DEF InitFails
<1>2. CASE StartServices
  <2>1. atCancel = {}
    BY <1>2 DEF StartServices, CountInv, TypeOK
  <2>2. \A c \in Services : run'[c] \in {"absent", "go"}
    BY <1>2 DEF StartServices
  <2> QED
    BY <1>2, <2>1, <2>2 DEF StartServices
<1>3. CASE CatchSignal
  BY <1>3 DEF CatchSignal, Cancel
<1>4. CASE ReadError
  BY <1>4 DEF ReadError, Cancel
<1>5. CASE StartWaiter
  <2>1. CASE wg = 0
    BY <1>5, <2>1, ZeroIsDrained DEF StartWaiter
  <2>2. CASE wg # 0
    BY <1>5, <2>2 DEF StartWaiter
  <2> QED
    BY <2>1, <2>2
<1>6. CASE WakeWaiter
  <2>1. CASE wg = 0
    BY <1>6, <2>1, ZeroIsDrained DEF WakeWaiter
  <2>2. CASE wg # 0
    BY <1>6, <2>2 DEF WakeWaiter
  <2> QED
    BY <2>1, <2>2
<1>7. CASE ExitGraceful
  BY <1>7 DEF ExitGraceful
<1>8. CASE ExitForced
  BY <1>8 DEF ExitForced
<1> QED
  BY <1>1, <1>2, <1>3, <1>4, <1>5, <1>6, <1>7, <1>8 DEF MainStep

\* No service is counted before the cancellation.
LEMMA DrainInit == Init => DrainInv
BY DEF Init, DrainInv, Drained

\* Every step keeps what a graceful exit relies on.
LEMMA DrainStep == CountInv /\ DrainInv /\ [Next]_vars => DrainInv'
<1> SUFFICES ASSUME CountInv, DrainInv, [Next]_vars PROVE DrainInv'
  OBVIOUS
<1>1. CASE InitFails \/ StartServices \/ CatchSignal \/ MainStep \/ ExitForced
  BY <1>1, MainStepDrains
<1>2. ASSUME NEW c \in Services,
             RunStep(c) \/ SeeCancel(c) \/ BeginWork(c) \/ FinishWork(c)
      PROVE  DrainInv'
  BY <1>2, RunStepDrains
<1>3. CASE UNCHANGED <<main, waiter, run, atCancel>>
  BY <1>3 DEF DrainInv, Drained, DoneFirst
<1>4. ASSUME NEW l \in Listeners, ListenerStep(l) \/ ServeBreaks(l)
      PROVE  UNCHANGED <<main, waiter, run, atCancel>>
  BY <1>4 DEF ListenerStep, ServeBegins, ServeRefused, SendResult, ServeBreaks, MoveListener
<1>5. CASE OpenStream \/ CloseStream \/ UNCHANGED vars
  BY <1>3, <1>5 DEF OpenStream, CloseStream, vars
<1> QED
  BY <1>1, <1>2, <1>3, <1>4, <1>5 DEF Next, AfterExit

\* entry.go:45: when Start reports a graceful shutdown, each service that had
\* joined the WaitGroup before the cancellation has finished Destroy, except the
\* debug server, for every set of enabled services.
THEOREM GracefulExitIsDrained == Spec => []GracefulExitDrains
<1>1. DrainInv => GracefulExitDrains
  BY DEF DrainInv, Drained, GracefulExitDrains
<1> QED
  BY <1>1, DrainInit, DrainStep, WaitGroupCounts, PTL DEF Spec

-----------------------------------------------------------------------------
(* What stops when                                                         *)

LeftServing == {"unwind", "stop", "draining", "drained", "done"}

\* Nothing is stopped before the cancellation but a service that failed to
\* start, which has no listener and whose error waits in the channel.
OrderInv ==
    /\ main \in {"init", "loop"} => ~Cancelled
    /\ main = "drain" => Cancelled
    /\ main # "stuck" /\ errCh.head # "nil"
    /\ \A l \in Listeners : lsn[l] \in {"closing", "retNil"} => Cancelled
    /\ \A l \in Listeners : lsn[l] # "none" => run[Owner[l]] \in {"serve", "busy"} \/ Cancelled
    /\ main = "loop" /\ (\E c \in Services : run[c] \in LeftServing) => errCh.size > 0
    /\ main = "loop" /\ ~sdk.up => errCh.size > 0

LEMMA RunStepOrders ==
    ASSUME CountInv, OrderInv, NEW c \in Services,
           RunStep(c) \/ SeeCancel(c) \/ BeginWork(c) \/ FinishWork(c)
    PROVE  OrderInv'
<1> USE OwnerIsService DEF OrderInv
<1>0. /\ main' = main /\ cause' = cause /\ run \in [Services -> RunStates]
      /\ errCh.size \in Nat
  BY CapacityIsNat DEF CountInv, TypeOK, RunStep, AddSelf, StartOk, StartFails, SendRunError,
         BeginDestroy, EndDestroy, Release, SeeCancel, BeginWork, FinishWork
<1>1. CASE AddSelf(c)
  BY <1>0, <1>1, GotoMoves DEF AddSelf, RunStates, LeftServing, Cancelled
<1>2. CASE StartOk(c)
  <2>1. /\ run'[c] \in {"busy", "serve"} /\ \A d \in Services \ {c} : run'[d] = run[d]
        /\ errCh' = errCh /\ sdk'.up = sdk.up
    BY <1>0, <1>2 DEF StartOk, Goto, Hold, CountInv, TypeOK
  <2>2. \A l \in Listeners : lsn'[l] = IF Owner[l] = c THEN "go" ELSE lsn[l]
    BY <1>2 DEF StartOk
  <2> QED
    BY <1>0, <2>1, <2>2 DEF Cancelled, LeftServing
<1>3. CASE StartFails(c)
  <2>1. /\ run'[c] = "sendErr" /\ \A d \in Services \ {c} : run'[d] = run[d]
        /\ run[c] = "start" /\ lsn' = lsn /\ errCh' = errCh /\ sdk'.up = sdk.up
    BY <1>0, <1>3 DEF StartFails, Goto, Hold, CountInv, TypeOK
  <2> QED
    BY <1>0, <2>1 DEF Cancelled, LeftServing
<1>4. CASE SendRunError(c)
  <2>1. /\ run'[c] = "unwind" /\ \A d \in Services \ {c} : run'[d] = run[d]
        /\ run[c] = "sendErr" /\ lsn' = lsn
    BY <1>0, <1>4 DEF SendRunError, Goto
  <2>2. errCh'.size > 0 /\ errCh'.head # "nil"
    BY <1>0, <1>4 DEF SendRunError, Send
  <2> QED
    BY <1>0, <2>1, <2>2 DEF Cancelled
<1>5. CASE BeginDestroy(c)
  <2>1. /\ run'[c] = "draining" /\ \A d \in Services \ {c} : run'[d] = run[d]
        /\ run[c] \in {"stop", "unwind"} /\ errCh' = errCh
    BY <1>0, <1>5 DEF BeginDestroy, Goto
  <2>2. main = "loop" => errCh.size > 0
    BY <2>1 DEF LeftServing
  <2>3. \A l \in Listeners : lsn'[l] = IF Owner[l] = c THEN Closed(l) ELSE lsn[l]
    BY <1>5 DEF BeginDestroy
  <2>4. \A l \in Listeners : Owner[l] = c /\ lsn[l] # "none" => Cancelled
    BY <2>1
  <2>5. \A l \in Listeners : lsn[l] = "none" => Closed(l) = "none"
    BY DEF Closed
  <2>6. ASSUME NEW l \in Listeners
        PROVE  /\ lsn'[l] \in {"closing", "retNil"} => Cancelled
               /\ lsn'[l] # "none" => run'[Owner[l]] \in {"serve", "busy"} \/ Cancelled
    <3>1. CASE Owner[l] = c
      BY <2>3, <2>4, <2>5, <3>1
    <3>2. CASE Owner[l] # c
      BY <2>1, <2>3, <3>2
    <3> QED
      BY <3>1, <3>2
  <2>7. main = "loop" /\ ~sdk'.up => errCh'.size > 0
    BY <2>1, <2>2
  <2> QED
    BY <1>0, <2>1, <2>2, <2>6, <2>7 DEF Cancelled
<1>6. CASE EndDestroy(c)
  <2>1. /\ run'[c] \in {"done", "drained"} /\ \A d \in Services \ {c} : run'[d] = run[d]
        /\ run[c] = "draining" /\ errCh' = errCh
    BY <1>0, <1>6 DEF EndDestroy, Goto
  <2>2. main = "loop" => errCh.size > 0
    BY <2>1 DEF LeftServing
  <2>3. \A l \in Listeners :
           lsn'[l] = IF Owner[l] = c /\ lsn[l] = "closing" THEN "retNil" ELSE lsn[l]
    BY <1>6 DEF EndDestroy
  <2> QED
    BY <1>0, <2>1, <2>2, <2>3 DEF Cancelled, LeftServing
<1>7. CASE Release(c)
  <2>1. /\ run'[c] \in {"done", "stop"} /\ \A d \in Services \ {c} : run'[d] = run[d]
        /\ run[c] \in {"unwind", "drained"} /\ errCh' = errCh /\ lsn' = lsn /\ sdk' = sdk
    BY <1>0, <1>7 DEF Release, Goto
  <2> QED
    BY <1>0, <2>1 DEF Cancelled, LeftServing
<1>8. CASE SeeCancel(c)
  <2>1. /\ run'[c] \in {"sendErr", "unwind"} /\ \A d \in Services \ {c} : run'[d] = run[d]
        /\ Cancelled /\ errCh' = errCh /\ lsn' = lsn /\ sdk' = sdk
    BY <1>0, <1>8 DEF SeeCancel, Goto
  <2> QED
    BY <1>0, <2>1 DEF Cancelled, LeftServing
<1>9. CASE BeginWork(c) \/ FinishWork(c)
  <2>1. /\ run'[c] \in {"busy", "serve"} /\ \A d \in Services \ {c} : run'[d] = run[d]
        /\ errCh' = errCh /\ lsn' = lsn /\ sdk' = sdk
    BY <1>0, <1>9 DEF BeginWork, FinishWork, Goto
  <2> QED
    BY <1>0, <2>1 DEF Cancelled, LeftServing
<1> QED
  BY <1>1, <1>2, <1>3, <1>4, <1>5, <1>6, <1>7, <1>8, <1>9 DEF RunStep

LEMMA MainStepOrders ==
    ASSUME CountInv, OrderInv,
           InitFails \/ StartServices \/ CatchSignal \/ MainStep \/ ExitForced
    PROVE  OrderInv'
<1> USE OwnerIsService DEF OrderInv
<1>1. CASE InitFails
  BY <1>1 DEF InitFails, Cancelled
<1>2. CASE StartServices
  <2>1. \A c \in Services : run[c] = "absent" /\ run'[c] \in {"absent", "go"}
    BY <1>2 DEF StartServices, CountInv
  <2>2. \A l \in Listeners : lsn'[l] = "none"
    BY <1>2, <2>1 DEF StartServices
  <2>3. sdk'.up /\ errCh' = errCh /\ cause' = cause
    BY <1>2 DEF StartServices
  <2> QED
    BY <1>2, <2>1, <2>2, <2>3 DEF StartServices, Cancelled, LeftServing
<1>3. CASE CatchSignal
  <2>1. errCh'.head = "none"
    BY <1>3 DEF CatchSignal, CountInv, TypeOK
  <2> QED
    BY <1>3, <2>1 DEF CatchSignal, Cancel, Cancelled
<1>4. CASE ReadError
  <2>1. errCh'.head = "none" /\ Cancel("error")
    BY <1>4 DEF ReadError
  <2> QED
    BY <1>4, <2>1 DEF ReadError, Cancel, Cancelled
<1>5. CASE StartWaiter \/ WakeWaiter \/ ExitGraceful \/ ExitForced
  BY <1>5 DEF StartWaiter, WakeWaiter, ExitGraceful, ExitForced, Cancelled
<1> QED
  BY <1>1, <1>2, <1>3, <1>4, <1>5 DEF MainStep

LEMMA ListenerStepOrders ==
    ASSUME CountInv, OrderInv, NEW l \in Listeners, ListenerStep(l) \/ ServeBreaks(l)
    PROVE  OrderInv'
<1> USE DEF OrderInv
<1>1. PICK to \in {"up", "retErr", "gone"} :
        /\ lsn' = [lsn EXCEPT ![l] = to] /\ lsn[l] # "none"
        /\ UNCHANGED <<main, cause, run, sdk>>
  BY DEF ListenerStep, ServeBegins, ServeRefused, SendResult, ServeBreaks, MoveListener
<1>2. lsn'[l] = to /\ \A m \in Listeners \ {l} : lsn'[m] = lsn[m]
  BY <1>1 DEF CountInv, TypeOK
<1>3. errCh'.head # "nil" /\ (errCh.size > 0 => errCh'.size > 0)
  <2>1. CASE SendResult(l)
    <3>1. main = "loop" => lsn[l] # "retNil"
      OBVIOUS
    <3> QED
      BY <2>1, <3>1, CapacityIsNat DEF SendResult, Send, CountInv, TypeOK
  <2>2. CASE ~SendResult(l)
    BY <2>2 DEF ListenerStep, ServeBegins, ServeRefused, ServeBreaks
  <2> QED
    BY <2>1, <2>2
<1> QED
  BY <1>1, <1>2, <1>3 DEF Cancelled

\* Nothing is stopped when the process begins.
LEMMA OrderInit == Init => OrderInv
BY DEF Init, OrderInv, Cancelled

\* Every step keeps the order in which things stop.
LEMMA OrderStep == CountInv /\ OrderInv /\ [Next]_vars => OrderInv'
<1> SUFFICES ASSUME CountInv, OrderInv, [Next]_vars PROVE OrderInv'
  OBVIOUS
<1>1. CASE InitFails \/ StartServices \/ CatchSignal \/ MainStep \/ ExitForced
  BY <1>1, MainStepOrders
<1>2. ASSUME NEW c \in Services,
             RunStep(c) \/ SeeCancel(c) \/ BeginWork(c) \/ FinishWork(c)
      PROVE  OrderInv'
  BY <1>2, RunStepOrders
<1>3. ASSUME NEW l \in Listeners, ListenerStep(l) \/ ServeBreaks(l) PROVE OrderInv'
  BY <1>3, ListenerStepOrders
<1>4. CASE OpenStream \/ CloseStream \/ UNCHANGED vars
  BY <1>4 DEF OpenStream, CloseStream, vars, OrderInv, Cancelled, LeftServing
<1> QED
  BY <1>1, <1>2, <1>3, <1>4 DEF Next, AfterExit

LEMMA Ordered == Spec => []OrderInv
BY OrderInit, OrderStep, WaitGroupCounts, PTL DEF Spec

\* entry.go:71: the main loop never reads a nil error, so that it never panics
\* there and leaves Start waiting for a context that nobody cancels.
THEOREM MainLoopNeverStuck == Spec => []NeverStuck
<1>1. OrderInv => NeverStuck
  BY DEF OrderInv, NeverStuck
<1> QED
  BY <1>1, Ordered, PTL

\* pkg/polaris/client.go: no service destroys the shared SDK context while the
\* others run on, unless an error already waits to end the process.
THEOREM SdkContextOutlives == Spec => []SdkOutlivesService
<1>1. OrderInv => SdkOutlivesService
  BY DEF OrderInv, SdkOutlivesService
<1> QED
  BY <1>1, Ordered, PTL

-----------------------------------------------------------------------------
(* No listener outlives Destroy                                            *)

StopInv ==
    \A l \in Listeners \ {"udp", "tcp"} :
        /\ Stopped(Owner[l]) => lsn[l] # "up"
        /\ run[Owner[l]] \in {"drained", "done"} => lsn[l] # "closing"

\* No listener is up when the process begins.
LEMMA StopInit == Init => StopInv
BY DEF Init, StopInv

\* No step brings up a listener whose server was stopped.
LEMMA StopStep == CountInv /\ StopInv /\ [Next]_vars => StopInv'
<1> SUFFICES ASSUME CountInv, StopInv, [Next]_vars,
                    NEW l \in Listeners \ {"udp", "tcp"}
             PROVE  /\ Stopped(Owner[l])' => lsn'[l] # "up"
                    /\ run'[Owner[l]] \in {"drained", "done"} => lsn'[l] # "closing"
  BY DEF StopInv
<1>0. /\ run \in [Services -> RunStates] /\ lsn \in [Listeners -> ListenerStates]
      /\ Owner[l] \in Services /\ Owner[l] # "dns"
  BY OwnerIsService DEF CountInv, TypeOK, Listeners, Owner
<1> USE DEF StopInv
<1>1. CASE UNCHANGED <<run, lsn>>
  BY <1>1 DEF Stopped
<1>2. CASE StartServices
  BY <1>0, <1>2 DEF StartServices, Stopped
<1>3. ASSUME NEW c \in Services, AddSelf(c) \/ StartFails(c) \/ SendRunError(c) \/ SeeCancel(c)
                                 \/ BeginWork(c) \/ FinishWork(c)
      PROVE  /\ Stopped(Owner[l])' => lsn'[l] # "up"
             /\ run'[Owner[l]] \in {"drained", "done"} => lsn'[l] # "closing"
  <2>1. PICK to \in {"start", "sendErr", "unwind", "busy", "serve"} : Goto(c, to) /\ lsn' = lsn
    BY <1>3 DEF AddSelf, StartFails, SendRunError, SeeCancel, BeginWork, FinishWork
  <2> QED
    BY <1>0, <2>1 DEF Goto, Stopped
<1>4. ASSUME NEW c \in Services, StartOk(c)
      PROVE  /\ Stopped(Owner[l])' => lsn'[l] # "up"
             /\ run'[Owner[l]] \in {"drained", "done"} => lsn'[l] # "closing"
  BY <1>0, <1>4 DEF StartOk, Goto, Stopped
<1>5. ASSUME NEW c \in Services, BeginDestroy(c)
      PROVE  /\ Stopped(Owner[l])' => lsn'[l] # "up"
             /\ run'[Owner[l]] \in {"drained", "done"} => lsn'[l] # "closing"
  <2>1. Closed(l) # "up"
    BY DEF Closed
  <2> QED
    BY <1>0, <1>5, <2>1 DEF BeginDestroy, Goto, Stopped
<1>6. ASSUME NEW c \in Services, EndDestroy(c) \/ Release(c)
      PROVE  /\ Stopped(Owner[l])' => lsn'[l] # "up"
             /\ run'[Owner[l]] \in {"drained", "done"} => lsn'[l] # "closing"
  <2>1. CASE EndDestroy(c)
    BY <1>0, <2>1 DEF EndDestroy, Goto, Stopped
  <2>2. CASE Release(c)
    BY <1>0, <2>2 DEF Release, Goto, Stopped, DoneFirst
  <2> QED
    BY <1>6, <2>1, <2>2
<1>7. ASSUME NEW m \in Listeners, ListenerStep(m) \/ ServeBreaks(m)
      PROVE  /\ Stopped(Owner[l])' => lsn'[l] # "up"
             /\ run'[Owner[l]] \in {"drained", "done"} => lsn'[l] # "closing"
  <2>1. CASE ServeBegins(m)
    BY <1>0, <2>1 DEF ServeBegins, MoveListener, Stopped
  <2>2. PICK to \in {"up", "retErr", "gone"} : lsn' = [lsn EXCEPT ![m] = to] /\ run' = run
    BY <1>7 DEF ListenerStep, ServeBegins, ServeRefused, SendResult, ServeBreaks, MoveListener
  <2>3. CASE ~ServeBegins(m)
    BY <1>0, <1>7, <2>3 DEF ListenerStep, ServeRefused, SendResult, ServeBreaks, MoveListener,
                            Stopped
  <2> QED
    BY <2>1, <2>3
<1>8. CASE InitFails \/ CatchSignal \/ MainStep \/ ExitForced \/ OpenStream \/ CloseStream
           \/ UNCHANGED vars
  BY <1>1, <1>8 DEF InitFails, CatchSignal, MainStep, ReadError, StartWaiter, WakeWaiter,
                    ExitGraceful, ExitForced, OpenStream, CloseStream, vars
<1> QED
  BY <1>2, <1>3, <1>4, <1>5, <1>6, <1>7, <1>8 DEF Next, RunStep, AfterExit

\* Destroy of the debug, mTLS and rate limit server: nothing of it serves
\* afterwards, in whatever order its goroutines were scheduled.
THEOREM StoppedListenersStay == Spec => []StoppedStaysStopped
<1>1. StopInv => StoppedStaysStopped
  BY DEF StopInv, StoppedStaysStopped, Stopped
<1> QED
  BY <1>1, StopInit, StopStep, WaitGroupCounts, PTL DEF Spec

-----------------------------------------------------------------------------
(* Room in the error channel                                               *)

Unwound(c) == run[c] \in LeftServing

\* Who can send at most one message: the goroutines of an agent, by slot.  A Run
\* and its listener share a slot when only one of them ever sends; the second
\* DNS listener and the listener of the mTLS agent have a slot of their own.
Slot == [http |-> "debug", udp |-> "dns", tcp |-> "tcp", sds |-> "sds", rate |-> "rls"]

Slots == (Enabled \cup {"tcp"}) \cup {s \in {"sds"} : "mtls" \in Enabled}

\* No message of slot x is still to be sent.
Taken(x) ==
    \/ \E l \in Listeners : Slot[l] = x /\ lsn[l] = "gone"
    \/ x \in {"mtls", "metric"} /\ Unwound(x)
    \/ x \in {"debug", "rls"} /\ Unwound(x) /\ \A l \in Listeners : Owner[l] = x => lsn[l] = "none"

TakenSlots == {x \in Slots : Taken(x)}

\* A goroutine of slot x is at its errChan <- err.
WaitsToSend(x) ==
    \/ x \in Services /\ run[x] = "sendErr"
    \/ \E l \in Listeners : Slot[l] = x /\ lsn[l] \in {"retErr", "retNil"}

\* The message the main loop has read.
ErrorRead == IF cause = "error" THEN 1 ELSE 0

ListenersFollowRun ==
    /\ run["dns"] # "sendErr"
    /\ \A c \in Services : run[c] # "absent" => c \in Enabled
    /\ \A l \in Listeners : lsn[l] # "none" =>
          /\ run[Owner[l]] \notin {"absent", "go", "start"}
          /\ Owner[l] # "mtls" => run[Owner[l]] # "sendErr"

\* Each message sent, the one read included, has a slot of its own.
SlotInv == ListenersFollowRun /\ errCh.size + ErrorRead <= Cardinality(TakenSlots)

\* A full channel keeps a goroutine waiting only when the mTLS agent has sent, or
\* is sending, its second message, a signal and no error has ended the main loop,
\* and every other goroutine is through.
OnlyMtlsFillsChannel ==
    \A x \in Slots : WaitsToSend(x) /\ Full =>
        "mtls" \in Enabled /\ cause = "signal" /\ \A y \in Slots \ {x} : Taken(y)

LEMMA SlotsBound ==
    /\ IsFiniteSet(Slots) /\ Cardinality(Slots) \in Nat
    /\ Cardinality(Slots) <= Capacity + 1
    /\ "mtls" \notin Enabled => Cardinality(Slots) <= Capacity
<1>1. IsFiniteSet(Enabled) /\ Cardinality(Enabled) \in Nat
  BY EnabledAssumption, ServicesFinite, FS_Subset, FS_CardinalityType DEF EnabledIsServices
<1>2. Enabled \cap {"dns"} = {"dns"}
  BY EnabledAssumption DEF EnabledIsServices
<1>3. Capacity = Cardinality(Enabled) + 1
  BY <1>2, FS_Singleton DEF Capacity
<1>4. "tcp" \notin Enabled
  BY EnabledAssumption DEF EnabledIsServices, Services
<1>5. IsFiniteSet(Enabled \cup {"tcp"}) /\ Cardinality(Enabled \cup {"tcp"}) = Capacity
  BY <1>1, <1>3, <1>4, FS_AddElement
<1>6. CASE "mtls" \in Enabled
  <2>1. Slots = (Enabled \cup {"tcp"}) \cup {"sds"}
    BY <1>6 DEF Slots
  <2>2. /\ IsFiniteSet((Enabled \cup {"tcp"}) \cup {"sds"})
        /\ Cardinality((Enabled \cup {"tcp"}) \cup {"sds"}) \in {Capacity, Capacity + 1}
    BY <1>5, FS_AddElement
  <2> QED
    BY <1>6, <2>1, <2>2, CapacityIsNat
<1>7. CASE "mtls" \notin Enabled
  <2>1. Slots = Enabled \cup {"tcp"}
    BY <1>7 DEF Slots
  <2> QED
    BY <1>5, <2>1, CapacityIsNat
<1> QED
  BY <1>6, <1>7

\* A slot stays taken while no Run and no listener goes back.
LEMMA TakenStays ==
    ASSUME \A c \in Services : Unwound(c) => Unwound(c)',
           \A l \in Listeners : lsn[l] = "gone" => lsn'[l] = "gone",
           \A l \in Listeners : Unwound(Owner[l]) /\ lsn[l] = "none" => lsn'[l] = "none"
    PROVE  /\ TakenSlots \subseteq TakenSlots'
           /\ Cardinality(TakenSlots) <= Cardinality(TakenSlots')
           /\ Cardinality(TakenSlots') \in Nat /\ Cardinality(TakenSlots) \in Nat
           /\ \A x \in Slots : ~Taken(x) /\ Taken(x)' =>
                Cardinality(TakenSlots) + 1 <= Cardinality(TakenSlots')
<1>1. \A x : Taken(x) => Taken(x)'
  BY DEF Taken, Services
<1>2. TakenSlots \subseteq TakenSlots' /\ TakenSlots' \subseteq Slots
  BY <1>1 DEF TakenSlots, Slots
<1>3. IsFiniteSet(TakenSlots') /\ IsFiniteSet(TakenSlots)
  BY <1>2, SlotsBound, FS_Subset
<1>4. /\ Cardinality(TakenSlots) <= Cardinality(TakenSlots')
      /\ Cardinality(TakenSlots') \in Nat /\ Cardinality(TakenSlots) \in Nat
  BY <1>2, <1>3, FS_Subset, FS_CardinalityType
<1>5. ASSUME NEW x \in Slots, ~Taken(x), Taken(x)'
      PROVE  Cardinality(TakenSlots) + 1 <= Cardinality(TakenSlots')
  <2>1. x \notin TakenSlots /\ TakenSlots \cup {x} \subseteq TakenSlots'
    BY <1>2, <1>5 DEF TakenSlots, Slots
  <2>2. Cardinality(TakenSlots \cup {x}) = Cardinality(TakenSlots) + 1
    BY <1>3, <2>1, FS_AddElement
  <2>3. Cardinality(TakenSlots \cup {x}) <= Cardinality(TakenSlots')
    BY <1>3, <2>1, FS_Subset
  <2> QED
    BY <2>2, <2>3
<1> QED
  BY <1>2, <1>4, <1>5

\* What a step of Run c does to run and lsn.
LEMMA RunStepMoves ==
    ASSUME CountInv, ListenersFollowRun, NEW c \in Services,
           RunStep(c) \/ SeeCancel(c) \/ BeginWork(c) \/ FinishWork(c)
    PROVE  /\ ListenersFollowRun' /\ cause' = cause
           /\ \A d \in Services : Unwound(d) => Unwound(d)'
           /\ \A l \in Listeners : lsn[l] = "gone" => lsn'[l] = "gone"
           /\ \A l \in Listeners : Unwound(Owner[l]) /\ lsn[l] = "none" => lsn'[l] = "none"
           /\ errCh' = errCh \/ SendRunError(c)
<1>0. run \in [Services -> RunStates] /\ lsn \in [Listeners -> ListenerStates]
  BY DEF CountInv, TypeOK
<1>a. "dns" \in Services /\ \A l \in Listeners : Owner[l] \in Services
  BY OwnerIsService DEF Services
<1> DEFINE Moved(to) == /\ Goto(c, to) /\ to \in RunStates
                        /\ run'[c] = to /\ \A d \in Services \ {c} : run'[d] = run[d]
<1>b. \A to \in RunStates : Goto(c, to) => Moved(to)
  BY <1>0, GotoMoves
<1> HIDE DEF Moved
<1>1. CASE AddSelf(c)
  <2>1. Moved("start")
    BY <1>1, <1>b DEF AddSelf, RunStates
  <2> QED
    BY <1>1, <2>1, <1>a DEF AddSelf, Moved, ListenersFollowRun, Unwound, LeftServing
<1>2. CASE StartOk(c)
  <2>1. PICK to \in {"busy", "serve"} : Moved(to)
    BY <1>2, <1>b DEF StartOk, RunStates
  <2>2. \A l \in Listeners : lsn'[l] = IF Owner[l] = c THEN "go" ELSE lsn[l]
    BY <1>2 DEF StartOk
  <2> QED
    BY <1>2, <2>1, <2>2, <1>a DEF StartOk, Moved, ListenersFollowRun, Unwound, LeftServing
<1>3. CASE StartFails(c)
  <2>1. Moved("sendErr")
    BY <1>3, <1>b DEF StartFails, RunStates
  <2> QED
    BY <1>3, <2>1, <1>a DEF StartFails, Moved, ListenersFollowRun, Unwound, LeftServing
<1>4. CASE SendRunError(c)
  <2>1. Moved("unwind")
    BY <1>4, <1>b DEF SendRunError, RunStates
  <2> QED
    BY <1>4, <2>1, <1>a DEF SendRunError, Moved, ListenersFollowRun, Unwound, LeftServing
<1>5. CASE BeginDestroy(c)
  <2>1. Moved("draining")
    BY <1>5, <1>b DEF BeginDestroy, RunStates
  <2>2. \A l \in Listeners : /\ lsn[l] = "none" <=> lsn'[l] = "none"
                             /\ lsn[l] = "gone" => lsn'[l] = "gone"
    BY <1>5 DEF BeginDestroy, Closed
  <2>3. run[c] \in {"stop", "unwind"} /\ errCh' = errCh /\ cause' = cause
    BY <1>5 DEF BeginDestroy
  <2> QED
    BY <2>1, <2>2, <2>3, <1>a DEF Moved, ListenersFollowRun, Unwound, LeftServing
<1>6. CASE EndDestroy(c)
  <2>1. PICK to \in {"done", "drained"} : Moved(to)
    BY <1>6, <1>b DEF EndDestroy, RunStates
  <2>2. \A l \in Listeners : /\ lsn[l] = "none" <=> lsn'[l] = "none"
                             /\ lsn[l] = "gone" => lsn'[l] = "gone"
    BY <1>6 DEF EndDestroy
  <2>3. run[c] = "draining" /\ errCh' = errCh /\ cause' = cause
    BY <1>6 DEF EndDestroy
  <2> QED
    BY <2>1, <2>2, <2>3, <1>a DEF Moved, ListenersFollowRun, Unwound, LeftServing
<1>7. CASE Release(c)
  <2>1. PICK to \in {"done", "stop"} : Moved(to)
    BY <1>7, <1>b DEF Release, RunStates
  <2>2. run[c] \in {"unwind", "drained"} /\ errCh' = errCh /\ cause' = cause /\ lsn' = lsn
    BY <1>7 DEF Release
  <2> QED
    BY <2>1, <2>2, <1>a DEF Moved, ListenersFollowRun, Unwound, LeftServing
<1>8. CASE SeeCancel(c)
  <2>1. PICK to \in {"sendErr", "unwind"} : Moved(to) /\ (to = "sendErr" => c = "mtls")
    BY <1>8, <1>b DEF SeeCancel, RunStates
  <2>2. run[c] = "serve" /\ errCh' = errCh /\ cause' = cause /\ lsn' = lsn
    BY <1>8 DEF SeeCancel
  <2> QED
    BY <2>1, <2>2, <1>a DEF Moved, ListenersFollowRun, Unwound, LeftServing
<1>9. CASE BeginWork(c) \/ FinishWork(c)
  <2>1. PICK to \in {"busy", "serve"} : Moved(to)
    BY <1>9, <1>b DEF BeginWork, FinishWork, RunStates
  <2>2. run[c] \in {"busy", "serve"} /\ errCh' = errCh /\ cause' = cause /\ lsn' = lsn
    BY <1>9 DEF BeginWork, FinishWork
  <2> QED
    BY <2>1, <2>2, <1>a DEF Moved, ListenersFollowRun, Unwound, LeftServing
<1> QED
  BY <1>1, <1>2, <1>3, <1>4, <1>5, <1>6, <1>7, <1>8, <1>9 DEF RunStep

LEMMA RunStepSlots ==
    ASSUME CountInv, SlotInv, NEW c \in Services,
           RunStep(c) \/ SeeCancel(c) \/ BeginWork(c) \/ FinishWork(c)
    PROVE  SlotInv'
<1>1. /\ ListenersFollowRun' /\ cause' = cause
      /\ \A d \in Services : Unwound(d) => Unwound(d)'
      /\ \A l \in Listeners : lsn[l] = "gone" => lsn'[l] = "gone"
      /\ \A l \in Listeners : Unwound(Owner[l]) /\ lsn[l] = "none" => lsn'[l] = "none"
      /\ errCh' = errCh \/ SendRunError(c)
  BY RunStepMoves DEF SlotInv
<1>2. /\ Cardinality(TakenSlots) <= Cardinality(TakenSlots')
      /\ Cardinality(TakenSlots') \in Nat /\ Cardinality(TakenSlots) \in Nat
      /\ \A x \in Slots : ~Taken(x) /\ Taken(x)' =>
           Cardinality(TakenSlots) + 1 <= Cardinality(TakenSlots')
  BY <1>1, TakenStays
<1>3. errCh.size \in Nat /\ ErrorRead' = ErrorRead /\ ErrorRead \in 0..1
  BY <1>1, CapacityIsNat DEF CountInv, TypeOK, ErrorRead
<1>4. CASE errCh' = errCh
  BY <1>1, <1>2, <1>3, <1>4 DEF SlotInv
<1>5. CASE SendRunError(c)
  <2>1. c \in Slots /\ c # "dns" /\ run[c] = "sendErr" /\ lsn' = lsn
    BY <1>5 DEF SendRunError, SlotInv, ListenersFollowRun, Slots
  <2>2. Unwound(c)'
    BY <1>5, GotoMoves DEF SendRunError, CountInv, TypeOK, RunStates, Unwound, LeftServing
  <2>3. c # "mtls" => \A l \in Listeners : Owner[l] = c => lsn[l] = "none"
    BY <2>1 DEF SlotInv, ListenersFollowRun
  <2>4. ~Taken(c)
    BY <2>1, <2>3 DEF Taken, Unwound, LeftServing, Slot, Owner, Listeners, Services
  <2>5. Taken(c)'
    BY <2>1, <2>2, <2>3 DEF Taken, Services
  <2>6. errCh'.size = errCh.size + 1
    BY <1>5 DEF SendRunError, Send
  <2>7. Cardinality(TakenSlots) + 1 <= Cardinality(TakenSlots')
    BY <1>2, <2>1, <2>4, <2>5
  <2> QED
    BY <1>1, <1>2, <1>3, <2>6, <2>7 DEF SlotInv
<1> QED
  BY <1>1, <1>4, <1>5

LEMMA ListenerStepSlots ==
    ASSUME CountInv, SlotInv, NEW l \in Listeners, ListenerStep(l) \/ ServeBreaks(l)
    PROVE  SlotInv'
<1>1. PICK to \in {"up", "retErr", "gone"} :
        /\ lsn' = [lsn EXCEPT ![l] = to] /\ lsn[l] \notin {"none", "gone"}
        /\ UNCHANGED <<cause, run>>
        /\ \/ errCh' = errCh
           \/ to = "gone" /\ errCh'.size = errCh.size + 1
  BY DEF ListenerStep, ServeBegins, ServeRefused, SendResult, ServeBreaks, MoveListener, Send
<1>2. lsn'[l] = to /\ \A m \in Listeners \ {l} : lsn'[m] = lsn[m]
  BY <1>1 DEF CountInv, TypeOK
<1>3. ListenersFollowRun'
  BY <1>1, <1>2 DEF SlotInv, ListenersFollowRun
<1>4. /\ Cardinality(TakenSlots) <= Cardinality(TakenSlots')
      /\ Cardinality(TakenSlots') \in Nat /\ Cardinality(TakenSlots) \in Nat
      /\ \A x \in Slots : ~Taken(x) /\ Taken(x)' =>
           Cardinality(TakenSlots) + 1 <= Cardinality(TakenSlots')
  <2>1. /\ \A d \in Services : Unwound(d) => Unwound(d)'
        /\ \A m \in Listeners : lsn[m] = "gone" => lsn'[m] = "gone"
        /\ \A m \in Listeners : Unwound(Owner[m]) /\ lsn[m] = "none" => lsn'[m] = "none"
    BY <1>1, <1>2 DEF Unwound, LeftServing
  <2> QED
    BY <2>1, TakenStays
<1>5. errCh.size \in Nat /\ ErrorRead' = ErrorRead /\ ErrorRead \in 0..1
  BY <1>1, CapacityIsNat DEF CountInv, TypeOK, ErrorRead
<1>6. CASE errCh' = errCh
  BY <1>3, <1>4, <1>5, <1>6 DEF SlotInv
<1>7. CASE to = "gone" /\ errCh'.size = errCh.size + 1
  <2>1. Owner[l] \in Enabled
    BY <1>1, OwnerIsService DEF SlotInv, ListenersFollowRun
  <2>2. Slot[l] \in Slots
    BY <2>1 DEF Slot, Slots, Owner, Listeners
  <2>3. Taken(Slot[l])'
    BY <1>2, <1>7 DEF Taken
  <2>4. ~Taken(Slot[l])
    BY <1>1 DEF Taken, Slot, Owner, Listeners
  <2> QED
    BY <1>3, <1>4, <1>5, <1>7, <2>2, <2>3, <2>4 DEF SlotInv
<1> QED
  BY <1>1, <1>6, <1>7

LEMMA MainStepSlots ==
    ASSUME CountInv, SlotInv,
           InitFails \/ StartServices \/ CatchSignal \/ MainStep \/ ExitForced
    PROVE  SlotInv'
<1>0. errCh.size \in Nat /\ ErrorRead \in 0..1 /\ ErrorRead' \in 0..1
  BY CapacityIsNat DEF CountInv, TypeOK, ErrorRead
<1>1. (lsn' = lsn /\ run' = run) \/ StartServices
  BY DEF InitFails, StartServices, CatchSignal, MainStep, ReadError, StartWaiter, WakeWaiter,
         ExitGraceful, ExitForced
<1>2. errCh'.size + ErrorRead' <= errCh.size + ErrorRead
  <2>1. CASE ReadError
    <3>1. errCh'.size = errCh.size - 1
      BY <2>1 DEF ReadError
    <3>2. ErrorRead' \in {ErrorRead, 1}
      BY <2>1 DEF ReadError, Cancel, ErrorRead
    <3> QED
      BY <1>0, <3>1, <3>2
  <2>2. CASE CatchSignal
    <3>1. errCh'.size = errCh.size /\ ErrorRead' = 0
      BY <2>2 DEF CatchSignal, Cancel, ErrorRead, CountInv, TypeOK
    <3> QED
      BY <1>0, <3>1
  <2>3. CASE ~ReadError /\ ~CatchSignal
    <3>1. errCh' = errCh /\ cause' = cause
      BY <2>3 DEF InitFails, StartServices, MainStep, StartWaiter, WakeWaiter, ExitGraceful,
                  ExitForced
    <3> QED
      BY <1>0, <3>1 DEF ErrorRead
  <2> QED
    BY <2>1, <2>2, <2>3
<1>3. /\ ListenersFollowRun'
      /\ \A d \in Services : Unwound(d) => Unwound(d)'
  <2>1. CASE StartServices
    <3>1. \A d \in Services : /\ run[d] = "absent"
                              /\ run'[d] = IF d \in Enabled THEN "go" ELSE "absent"
      BY <2>1 DEF StartServices, CountInv
    <3>2. \A l \in Listeners : lsn'[l] = "none"
      BY <2>1, <3>1, OwnerIsService DEF StartServices, SlotInv, ListenersFollowRun
    <3> QED
      BY <3>1, <3>2 DEF ListenersFollowRun, Unwound, LeftServing, Services
  <2>2. CASE lsn' = lsn /\ run' = run
    BY <2>2 DEF ListenersFollowRun, SlotInv, Unwound, LeftServing
  <2> QED
    BY <1>1, <2>1, <2>2
<1>4. lsn' = lsn
  BY <1>1 DEF StartServices
<1>5. /\ Cardinality(TakenSlots) <= Cardinality(TakenSlots')
      /\ Cardinality(TakenSlots') \in Nat /\ Cardinality(TakenSlots) \in Nat
  BY <1>3, <1>4, TakenStays
<1>6. errCh'.size \in Int
  BY <1>0, CapacityIsNat DEF InitFails, StartServices, CatchSignal, MainStep, ReadError,
     StartWaiter, WakeWaiter, ExitGraceful, ExitForced, CountInv, TypeOK
<1> QED
  BY <1>0, <1>2, <1>3, <1>5, <1>6 DEF SlotInv

\* Nothing is sent when the process begins.
LEMMA SlotInit == Init => SlotInv
<1> SUFFICES ASSUME Init PROVE SlotInv
  OBVIOUS
<1>1. Cardinality(TakenSlots) \in Nat
  <2>1. TakenSlots \subseteq Slots
    BY DEF TakenSlots
  <2> QED
    BY <2>1, SlotsBound, FS_Subset, FS_CardinalityType
<1>2. errCh.size = 0 /\ ErrorRead = 0
  BY DEF Init, ErrorRead
<1>3. ListenersFollowRun
  BY DEF Init, ListenersFollowRun, Services
<1> QED
  BY <1>1, <1>2, <1>3 DEF SlotInv

\* Every step that sends a message takes a slot.
LEMMA SlotStep == CountInv /\ SlotInv /\ [Next]_vars => SlotInv'
<1> SUFFICES ASSUME CountInv, SlotInv, [Next]_vars PROVE SlotInv'
  OBVIOUS
<1>1. CASE InitFails \/ StartServices \/ CatchSignal \/ MainStep \/ ExitForced
  BY <1>1, MainStepSlots
<1>2. ASSUME NEW c \in Services,
             RunStep(c) \/ SeeCancel(c) \/ BeginWork(c) \/ FinishWork(c)
      PROVE  SlotInv'
  BY <1>2, RunStepSlots
<1>3. ASSUME NEW l \in Listeners, ListenerStep(l) \/ ServeBreaks(l) PROVE SlotInv'
  BY <1>3, ListenerStepSlots
<1>4. CASE OpenStream \/ CloseStream \/ UNCHANGED vars
  <2>1. UNCHANGED <<cause, errCh, run, lsn>>
    BY <1>4 DEF OpenStream, CloseStream, vars
  <2>2. TakenSlots' = TakenSlots /\ ErrorRead' = ErrorRead
    BY <2>1 DEF TakenSlots, Taken, Unwound, LeftServing, ErrorRead, Slots
  <2> QED
    BY <2>1, <2>2 DEF SlotInv, ListenersFollowRun
<1> QED
  BY <1>1, <1>2, <1>3, <1>4 DEF Next, AfterExit

\* A slot is not taken while its goroutine waits.
LEMMA WaitingIsNotTaken ==
    ASSUME CountInv, SlotInv, NEW x \in Slots, WaitsToSend(x)
    PROVE  ~Taken(x)
<1> USE DEF SlotInv, ListenersFollowRun
<1>1. CASE x \in Services /\ run[x] = "sendErr"
  <2>1. x # "dns" /\ ~Unwound(x)
    BY <1>1 DEF Unwound, LeftServing
  <2>2. x # "mtls" => \A l \in Listeners : Owner[l] = x => lsn[l] = "none"
    BY <1>1
  <2> QED
    BY <1>1, <2>1, <2>2 DEF Taken, Slot, Owner, Listeners, Services
<1>2. ASSUME NEW l \in Listeners, Slot[l] = x, lsn[l] \in {"retErr", "retNil"}
      PROVE  ~Taken(x)
  BY <1>2 DEF Taken, Slot, Owner, Listeners
<1> QED
  BY <1>1, <1>2 DEF WaitsToSend

\* agent.go:92 gives the channel one slot per service and one more for the
\* second DNS listener.  A goroutine that wants to report finds it full only in
\* an agent with mTLS, whose Run and listener both send, and only when the main
\* loop left on a signal and so read none: for every set of services.
THEOREM ChannelHasRoom == Spec => []OnlyMtlsFillsChannel
<1>1. ASSUME CountInv, OrderInv, SlotInv PROVE OnlyMtlsFillsChannel
  <2>1. SUFFICES ASSUME NEW x \in Slots, WaitsToSend(x), Full
                 PROVE  "mtls" \in Enabled /\ cause = "signal" /\ \A y \in Slots \ {x} : Taken(y)
    BY DEF OnlyMtlsFillsChannel
  <2>2. TakenSlots \subseteq Slots \ {x}
    BY <1>1, <2>1, WaitingIsNotTaken DEF TakenSlots
  <2>3. /\ IsFiniteSet(Slots \ {x}) /\ Cardinality(Slots \ {x}) = Cardinality(Slots) - 1
    BY SlotsBound, FS_RemoveElement
  <2>4. /\ IsFiniteSet(TakenSlots) /\ Cardinality(TakenSlots) <= Cardinality(Slots) - 1
        /\ Cardinality(Slots \ {x}) = Cardinality(TakenSlots) => Slots \ {x} = TakenSlots
    BY <2>2, <2>3, FS_Subset
  <2>5. Cardinality(TakenSlots) \in Nat
    BY <2>4, FS_CardinalityType
  <2>6. Capacity + ErrorRead <= Cardinality(TakenSlots) /\ ErrorRead \in 0..1
    BY <1>1, <2>1 DEF SlotInv, Full, ErrorRead
  <2>7. "mtls" \in Enabled /\ ErrorRead = 0 /\ Cardinality(Slots \ {x}) = Cardinality(TakenSlots)
    BY <2>3, <2>4, <2>5, <2>6, SlotsBound, CapacityIsNat
  <2>8. \A y \in Slots \ {x} : Taken(y)
    BY <2>4, <2>7 DEF TakenSlots
  <2>9. "sds" \in Slots /\ "mtls" \in Slots /\ "sds" \notin Services
    BY <2>7 DEF Slots, Services
  <2>10. lsn["sds"] # "none"
    BY <2>1, <2>8, <2>9 DEF Taken, WaitsToSend, Slot, Listeners
  <2>11. Unwound("mtls") \/ run["mtls"] = "sendErr"
    BY <2>1, <2>8, <2>9 DEF Taken, WaitsToSend, Slot, Listeners
  <2>12. cause # "none"
    BY <1>1, <2>10, <2>11 DEF OrderInv, Owner, Listeners, Unwound, LeftServing, Cancelled
  <2> QED
    BY <1>1, <2>7, <2>8, <2>12 DEF ErrorRead, CountInv, TypeOK
<1> QED
  BY <1>1, Ordered, SlotInit, SlotStep, WaitGroupCounts, PTL DEF Spec

-----------------------------------------------------------------------------
(* The requests of Envoy beside the process, for any number of them.        *)

\* A step of the process with requests is a step of the process alone.
LEMMA RateImplementsNext == [RateNext]_rateVars => [Next]_vars
<1> SUFFICES ASSUME [RateNext]_rateVars PROVE [Next]_vars
  OBVIOUS
<1>1. CASE Lifecycle
  BY <1>1 DEF Lifecycle
<1>2. ASSUME NEW r \in Requests, Handle(r) PROVE UNCHANGED vars
  BY <1>2 DEF Handle, Receive, GetQuota, GetQuotaFails, Respond
<1>3. CASE UNCHANGED rateVars
  BY <1>3 DEF rateVars, vars
<1> QED
  BY <1>1, <1>2, <1>3 DEF RateNext

\* What the process alone never does, it does not do beside the requests.
LEMMA LifecycleHolds == RateSpec => [](CountInv /\ DrainInv /\ OrderInv /\ StopInv)
<1>1. RateInit => Init
  BY DEF RateInit
<1> QED
  BY <1>1, RateImplementsNext, CountInit, CountStep, DrainInit, DrainStep,
     OrderInit, OrderStep, StopInit, StopStep, PTL DEF RateSpec

-----------------------------------------------------------------------------
(* No request outlives the server                                          *)

\* Once Destroy of the rate limit server is over, no handler runs; none
\* starts, because nothing serves any more.
RateInv ==
    /\ req \in [Requests -> {"idle", "named", "nameless", "asked"}]
    /\ run["rls"] \in {"drained", "done"} => InFlight = {}

\* The server gets to the end of its Destroy only by draining.
LEMMA DrainsBeforeDone ==
    ASSUME CountInv, Next, run'["rls"] \in {"drained", "done"}
    PROVE  run["rls"] \in {"draining", "drained", "done"}
<1>0. /\ run \in [Services -> RunStates] /\ "rls" \in Services /\ "rls" \notin DoneFirst
      /\ "rls" # "mtls"
  BY DEF CountInv, TypeOK, Services, DoneFirst
<1>1. CASE UNCHANGED run
  BY <1>1
<1>2. CASE StartServices
  BY <1>0, <1>2 DEF StartServices
<1>3. ASSUME NEW c \in Services, AddSelf(c) \/ StartOk(c) \/ StartFails(c) \/ SendRunError(c)
                                 \/ SeeCancel(c) \/ BeginWork(c) \/ FinishWork(c) \/ BeginDestroy(c)
      PROVE  run["rls"] \in {"draining", "drained", "done"}
  <2>1. PICK to \in {"start", "busy", "serve", "sendErr", "unwind", "draining"} : Goto(c, to)
    BY <1>3 DEF AddSelf, StartOk, StartFails, SendRunError, SeeCancel, BeginWork, FinishWork,
                BeginDestroy
  <2> QED
    BY <1>0, <2>1 DEF Goto
<1>4. ASSUME NEW c \in Services, EndDestroy(c) PROVE run["rls"] \in {"draining", "drained", "done"}
  BY <1>0, <1>4 DEF EndDestroy, Goto
<1>5. ASSUME NEW c \in Services, Release(c) PROVE run["rls"] \in {"draining", "drained", "done"}
  BY <1>0, <1>5 DEF Release, Goto
<1>6. ASSUME NEW l \in Listeners, ListenerStep(l) \/ ServeBreaks(l) PROVE UNCHANGED run
  BY <1>6 DEF ListenerStep, ServeBegins, ServeRefused, SendResult, ServeBreaks, MoveListener
<1>7. CASE InitFails \/ CatchSignal \/ MainStep \/ ExitForced \/ OpenStream \/ CloseStream \/ AfterExit
  BY <1>1, <1>7 DEF InitFails, CatchSignal, MainStep, ReadError, StartWaiter, WakeWaiter,
                    ExitGraceful, ExitForced, OpenStream, CloseStream, AfterExit, vars
<1> QED
  BY <1>1, <1>2, <1>3, <1>4, <1>5, <1>6, <1>7 DEF Next, RunStep

\* GracefulStop lets Destroy end only without requests, and a stopped listener
\* hands over none.
LEMMA RateStep == CountInv /\ StopInv /\ RateInv /\ [RateNext]_rateVars => RateInv'
<1> SUFFICES ASSUME CountInv, StopInv, RateInv, [RateNext]_rateVars PROVE RateInv'
  OBVIOUS
<1>1. CASE Lifecycle
  <2>1. req' = req /\ InFlight' = InFlight
    BY <1>1 DEF Lifecycle, InFlight
  <2>2. ASSUME run'["rls"] \in {"drained", "done"} PROVE InFlight = {}
    <3>1. run["rls"] \in {"draining", "drained", "done"}
      BY <1>1, <2>2, DrainsBeforeDone DEF Lifecycle
    <3> QED
      BY <1>1, <2>2, <3>1 DEF Lifecycle, GracefulStop, RateInv
  <2> QED
    BY <2>1, <2>2 DEF RateInv
<1>2. ASSUME NEW r \in Requests, Receive(r) PROVE RateInv'
  <2>1. "rate" \in Listeners \ {"udp", "tcp"} /\ Owner["rate"] = "rls"
    BY DEF Listeners, Owner
  <2>2. run["rls"] \notin {"drained", "done"} /\ run' = run
    BY <1>2, <2>1 DEF StopInv, Stopped, Receive, vars
  <2> QED
    BY <1>2, <2>2 DEF RateInv, Receive, Move
<1>3. ASSUME NEW r \in Requests, GetQuota(r) \/ GetQuotaFails(r) \/ Respond(r) PROVE RateInv'
  <2>1. PICK from \in {"named", "nameless", "asked"}, to \in {"asked", "idle"} :
            Move(r, from, to) /\ run' = run
    BY <1>3 DEF GetQuota, GetQuotaFails, Respond, vars
  <2>2. r \in InFlight
    BY <2>1 DEF Move, InFlight
  <2> QED
    BY <2>1, <2>2 DEF Move, RateInv
<1>4. CASE UNCHANGED rateVars
  BY <1>4 DEF rateVars, RateInv, InFlight
<1> QED
  BY <1>1, <1>2, <1>3, <1>4 DEF RateNext, Handle

\* ShouldRateLimit and Destroy of the rate limit server: the requests of a
\* running process are well formed.
THEOREM RateTypeCorrect == RateSpec => []RateTypeOK
<1>1. RateInit => RateInv
  BY DEF RateInit, Init, RateInv, InFlight, Services
<1>2. CountInv /\ RateInv => RateTypeOK
  BY DEF CountInv, RateInv, RateTypeOK
<1> QED
  BY <1>1, <1>2, RateStep, LifecycleHolds, PTL DEF RateSpec

\* A graceful exit has let every request in flight finish, whatever was
\* enabled and however many requests there were.
THEOREM GracefulExitAnswers == RateSpec => []NoRequestCutOff
<1>1. RateInit => RateInv
  BY DEF RateInit, Init, RateInv, InFlight, Services
<1>2. DrainInv /\ RateInv => NoRequestCutOff
  BY DEF DrainInv, Drained, RateInv, NoRequestCutOff
<1> QED
  BY <1>1, <1>2, RateStep, LifecycleHolds, PTL DEF RateSpec
=============================================================================
