------------------------------- MODULE Routing -------------------------------
(***************************************************************************)
(* From what the lambdas ask to what a venue streams, for one provider:    *)
(* the registrar's worker and its table (app/dispatcher/registrar.go,      *)
(* table.go), the provider manager that starts and stops the adapter       *)
(* (app/provider/manager.go) and the subscription manager between them     *)
(* (infra/adapters/shared/subscription_manager.go).                        *)
(*                                                                         *)
(* A route of a type is the set of symbols its filters admit; the empty    *)
(* set is no route.  Each start of the provider makes an instance with its *)
(* own subscription manager, named by its number in Starts.                *)
(***************************************************************************)
EXTENDS Integers, FiniteSets

CONSTANTS
    Lambdas, Types, Symbols,
    Asks,           \* the routes each lambda may ask for
    MaxStarts,      \* how often the provider is started
    MaxFaults       \* calls to the venue that fail, and adapters that do not start

Starts == 1..MaxStarts
Routes == [Types -> SUBSET Symbols]
NoRoutes == [t \in Types |-> {}]

ASSUME RoutingAssumption ==
    /\ MaxStarts \in Nat /\ MaxFaults \in Nat
    /\ Asks \in [Lambdas -> SUBSET Routes]

VARIABLES
    reg, signal,    \* what each lambda has registered, and the registrar's signal
    table,          \* the routing table
    want, todo,                      \* the registrar's worker: its snapshot, the types to treat
    astray,                          \* types whose routes need not be what the lambdas ask for
    status, cur, cached,             \* the provider: status, instance (0: none), kept routes
    starts, spc, kept, left,         \* the starts under way
    cancelled,                       \* the instances whose context is cancelled
    active, venue,                   \* per instance: the routes recorded, and those streamed
    act,                             \* the activation each actor is in
    faults,
    broken, calm, overtaken          \* what has happened: types for which a call has failed, no
                                     \* overlaps, a provider removed while it started

lambdaVars   == <<reg, signal>>
workerVars   == <<table, want, todo, astray>>
providerVars == <<status, cur, cached, cancelled>>
startVars    == <<starts, spc, kept, left>>
subVars      == <<active, venue, act>>
history      == <<faults, broken, calm, overtaken>>
vars == <<lambdaVars, workerVars, providerVars, startVars, subVars, history>>

Worker == 0
Actors == {Worker} \union Starts
Idle == [at |-> "idle"]
Steps == [at : {"known", "remove", "add", "record", "drop"}, on : Starts,
          type : Types, route : SUBSET Symbols, old : SUBSET Symbols]

RoutingTypeOK ==
    /\ reg \in [Lambdas -> Routes] /\ signal \in BOOLEAN
    /\ table \in Routes /\ want \in Routes /\ todo \subseteq Types /\ astray \subseteq Types
    /\ status \in {"absent", "pending", "starting", "running", "stopped", "failed"}
    /\ cur \in 0..starts /\ (cur # 0 <=> status = "running")
    /\ cached \in Routes /\ kept \in [Starts -> Routes] /\ left \in [Starts -> SUBSET Types]
    /\ starts \in 0..MaxStarts
    /\ spc \in [Starts -> {"none", "create", "reapply", "done", "over"}]
    /\ cancelled \subseteq Starts
    /\ active \in [Starts -> Routes] /\ venue \in [Starts -> Routes]
    /\ act \in [Actors -> Steps \union {Idle}]
    /\ faults \in 0..MaxFaults /\ broken \subseteq Types /\ calm \in BOOLEAN /\ overtaken \in BOOLEAN

\* A process starts with no provider, or with one restored from the database
\* together with the routes of an earlier run.
Init ==
    /\ reg = [l \in Lambdas |-> NoRoutes] /\ signal = FALSE
    /\ table = NoRoutes /\ want = NoRoutes /\ todo = {}
    /\ \/ status = "absent" /\ cached = NoRoutes
       \/ status = "stopped" /\ cached \in {NoRoutes} \union UNION {Asks[l] : l \in Lambdas}
    /\ cur = 0 /\ cancelled = {}
    /\ starts = 0 /\ spc = [g \in Starts |-> "none"]
    /\ kept = [g \in Starts |-> NoRoutes] /\ left = [g \in Starts |-> {}]
    /\ active = [g \in Starts |-> NoRoutes] /\ venue = [g \in Starts |-> NoRoutes]
    /\ act = [a \in Actors |-> Idle]
    /\ faults = 0 /\ broken = {} /\ calm = TRUE /\ overtaken = FALSE
    /\ astray = {t \in Types : cached[t] # {}}

Starting(g) == spc[g] \in {"create", "reapply"}
AnyStarting == \E g \in Starts : Starting(g)
RegistrarBusy == signal \/ todo # {}

Fault == faults < MaxFaults /\ faults' = faults + 1 /\ UNCHANGED <<calm, overtaken>>
NoFault == UNCHANGED history

-------------------------------------------------------------------------------
(* Lambdas *)

\* A lambda registers when it has found the provider running; a provider that
\* stops in between is one that stops before the worker wakes.
Register(l, routes) ==
    /\ cur # 0
    /\ reg' = [reg EXCEPT ![l] = routes]
    /\ signal' = TRUE
    /\ UNCHANGED <<workerVars, providerVars, startVars, subVars, history>>

Unregister(l) ==
    /\ reg[l] # NoRoutes
    /\ reg' = [reg EXCEPT ![l] = NoRoutes]
    /\ signal' = TRUE
    /\ UNCHANGED <<workerVars, providerVars, startVars, subVars, history>>

-------------------------------------------------------------------------------
(* Activate and Deactivate of the subscription manager *)

Enter(a, step) == act' = [act EXCEPT ![a] = step]
To(a, pc) == Enter(a, [act[a] EXCEPT !.at = pc])

\* Nobody else sees the routes of an instance that has been cancelled: a call
\* under way on it returns, with an error or without.
Attached(a, pc) == act[a].at = pc /\ act[a].on \notin cancelled
Adrift(a) == act[a] # Idle /\ act[a].on \in cancelled /\ UNCHANGED <<active, venue>> /\ NoFault

Removals(a) == a.old \ a.route
Additions_Swapped(a) == a.old \ a.route
Additions(a) == a.route \ a.old

\* The look at the active routes; what follows runs without the lock.
Activate(a, g, t, route) ==
    LET old == active[g][t]
    IN  Enter(a, [on |-> g, type |-> t, route |-> route, old |-> old,
                  at |-> IF old = route THEN "known"
                         ELSE IF old \subseteq route THEN "add" ELSE "remove"])

Stream(a, route) == venue' = [venue EXCEPT ![act[a].on][act[a].type] = route]
Streamed(a) == venue[act[a].on][act[a].type]

Remove(a) ==
    /\ Attached(a, "remove")
    /\ Stream(a, Streamed(a) \ Removals(act[a]))
    /\ To(a, IF Additions(act[a]) = {} THEN "record" ELSE "add")
    /\ UNCHANGED active /\ NoFault

Add(a) ==
    /\ Attached(a, "add")
    /\ Stream(a, Streamed(a) \union Additions(act[a]))
    /\ To(a, "record")
    /\ UNCHANGED active /\ NoFault

Subscribing(a) == Remove(a) \/ Add(a)

\* A call to the venue fails, and with it the activation.
CallFails(a) ==
    /\ \E pc \in {"remove", "add", "drop"} : Attached(a, pc)
    /\ Fault /\ broken' = broken \union {act[a].type}
    /\ UNCHANGED <<active, venue>>

\* The route was active already.
Known(a) == Attached(a, "known") /\ UNCHANGED <<active, venue>> /\ NoFault

Record(a) ==
    /\ Attached(a, "record")
    /\ active' = [active EXCEPT ![act[a].on][act[a].type] = act[a].route]
    /\ UNCHANGED venue /\ NoFault

\* Deactivate has forgotten the route and unsubscribes it.
Drop(a) ==
    /\ Attached(a, "drop")
    /\ Stream(a, Streamed(a) \ act[a].old)
    /\ UNCHANGED active /\ NoFault

-------------------------------------------------------------------------------
(* The registrar *)

Desired == [t \in Types |-> UNION {reg[l][t] : l \in Lambdas}]

\* The worker takes the signal and looks at the registrations; the signals of
\* several changes are one.  What differs from the table is to be treated.
Wake ==
    /\ todo = {} /\ signal
    /\ signal' = FALSE
    /\ todo' = {t \in Types : table[t] # Desired[t]}
    /\ want' = IF todo' = {} THEN NoRoutes ELSE Desired
    /\ astray' = {t \in astray : table[t] # Desired[t] \/ table[t] = {}}
    /\ calm' = (calm /\ ~AnyStarting)
    /\ UNCHANGED <<reg, table, providerVars, startVars, subVars, faults, broken, overtaken>>

\* Obsolete routes come first.
Turn(t) == t \in todo /\ act[Worker] = Idle /\ (want[t] = {} \/ \A u \in todo : want[u] # {})

Treated(t) == todo' = todo \ {t} /\ want' = IF todo = {t} THEN NoRoutes ELSE want

\* Without a running provider the route stays as it is until the next signal.
Skip(t) ==
    /\ Turn(t) /\ cur = 0
    /\ Treated(t) /\ astray' = astray \union {t}
    /\ UNCHANGED <<lambdaVars, table, providerVars, startVars, subVars, history>>

ActivateRoute(t) ==
    /\ Turn(t) /\ cur # 0 /\ want[t] # {}
    /\ Activate(Worker, cur, t, want[t])
    /\ UNCHANGED <<lambdaVars, workerVars, providerVars, startVars, active, venue, history>>

Follow(t, route) == table' = [table EXCEPT ![t] = route] /\ astray' = astray \ {t}

\* Deactivate forgets the route, and then unsubscribes it if there was one.
DeactivateRoute(t) ==
    /\ Turn(t) /\ cur # 0 /\ want[t] = {}
    /\ active' = [active EXCEPT ![cur][t] = {}]
    /\ IF active[cur][t] = {}
       THEN Treated(t) /\ Follow(t, {}) /\ UNCHANGED act
       ELSE /\ Enter(Worker, [at |-> "drop", on |-> cur, type |-> t, route |-> {},
                              old |-> active[cur][t]])
            /\ UNCHANGED workerVars
    /\ UNCHANGED <<lambdaVars, providerVars, startVars, venue, history>>

WorkerStep ==
    /\ Subscribing(Worker)
    /\ UNCHANGED <<lambdaVars, workerVars, providerVars, startVars>>

\* The call has returned: the table follows it, or stays as it was.
Routed ==
    /\ \/ (Known(Worker) \/ Record(Worker) \/ Drop(Worker) \/ Adrift(Worker))
          /\ Follow(act[Worker].type, act[Worker].route)
       \/ (CallFails(Worker) \/ Adrift(Worker)) /\ UNCHANGED <<table, astray>>
    /\ Enter(Worker, Idle)
    /\ Treated(act[Worker].type)
    /\ UNCHANGED <<lambdaVars, providerVars, startVars>>

Registrar ==
    \/ Wake \/ WorkerStep \/ Routed
    \/ \E t \in Types : Skip(t) \/ ActivateRoute(t) \/ DeactivateRoute(t)

-------------------------------------------------------------------------------
(* Control calls to the provider manager *)

Create ==
    /\ status = "absent"
    /\ status' = "pending" /\ cached' = NoRoutes
    /\ UNCHANGED <<cur, cancelled, lambdaVars, workerVars, startVars, subVars, history>>

Startable_WhileStarting == status \notin {"absent", "running"}
Startable == status \notin {"absent", "running", "starting"}

\* prepareProviderStart; the start itself is another goroutine or the caller.
Prepare ==
    /\ Startable
    /\ starts < MaxStarts
    /\ status' = "starting"
    /\ starts' = starts + 1
    /\ spc' = [spc EXCEPT ![starts'] = "create"]
    /\ kept' = [kept EXCEPT ![starts'] = cached]
    /\ calm' = (calm /\ ~RegistrarBusy)
    /\ UNCHANGED <<left, cur, cached, cancelled, lambdaVars, workerVars, subVars, faults, broken, overtaken>>

Kept(g) == active[g]

\* stopProviderLocked keeps the routes that were active; cancelling the instance
\* closes its connections.
Cancel(g) ==
    /\ cancelled' = cancelled \union {g}
    /\ active' = [active EXCEPT ![g] = NoRoutes]
    /\ venue' = [venue EXCEPT ![g] = NoRoutes]

NoInstance == 0

Disturbed == RegistrarBusy \/ AnyStarting

\* StopProvider, and Update of a running provider, which may then be prepared again.
Stop ==
    /\ status = "running"
    /\ cached' = Kept(cur) /\ Cancel(cur)
    /\ status' = "stopped" /\ cur' = NoInstance
    /\ calm' = (calm /\ ~Disturbed)
    /\ UNCHANGED <<lambdaVars, workerVars, startVars, act, faults, broken, overtaken>>

\* Remove stops the provider and forgets it, whatever it was doing.
Delete ==
    /\ status # "absent"
    /\ IF cur = 0 THEN UNCHANGED <<cancelled, active, venue>> ELSE Cancel(cur)
    /\ status' = "absent" /\ cur' = NoInstance /\ cached' = NoRoutes
    /\ calm' = (calm /\ ~Disturbed /\ table = NoRoutes)
    /\ overtaken' = (overtaken \/ status = "starting")
    /\ astray' = {t \in astray : Desired[t] # {}}
    /\ UNCHANGED <<lambdaVars, table, want, todo, startVars, act, faults, broken>>

-------------------------------------------------------------------------------
(* A start *)

SGoto(g, pc) == spc' = [spc EXCEPT ![g] = pc]
Forget(g) == SGoto(g, "over") /\ kept' = [kept EXCEPT ![g] = NoRoutes]

StartFailed == "failed"

\* registry.Create fails, and recordProviderStartFailure resets whatever bears the name.
MakeFails(g) ==
    /\ spc[g] = "create"
    /\ Fault /\ UNCHANGED broken
    /\ Forget(g)
    /\ IF status = "absent" THEN UNCHANGED <<status, cur>> ELSE status' = StartFailed /\ cur' = NoInstance
    /\ UNCHANGED <<starts, left, cached, cancelled, lambdaVars, workerVars, subVars>>

\* It has made the adapter, and recordProviderStartSuccess finds the provider by name.
RecordStart(g) ==
    /\ spc[g] = "create"
    /\ IF status = "absent"
       THEN /\ Forget(g) /\ cancelled' = cancelled \union {g}
            /\ UNCHANGED <<left, status, cur>>
       ELSE /\ SGoto(g, "reapply") /\ status' = "running" /\ cur' = g
            /\ left' = [left EXCEPT ![g] = {t \in Types : kept[g][t] # {}}]
            /\ UNCHANGED <<cancelled, kept>>
    /\ UNCHANGED <<starts, cached, lambdaVars, workerVars, subVars, history>>

\* The routes kept from the last run are activated one by one.
Reapply(g) ==
    /\ spc[g] = "reapply" /\ act[g] = Idle
    /\ \E t \in left[g] :
         /\ left' = [left EXCEPT ![g] = @ \ {t}]
         /\ Activate(g, g, t, kept[g][t])
    /\ UNCHANGED <<spc, starts, kept, active, venue, lambdaVars, workerVars, providerVars, history>>

StartStep(g) ==
    /\ \/ Subscribing(g)
       \/ (Known(g) \/ Record(g) \/ CallFails(g) \/ Adrift(g)) /\ Enter(g, Idle)
    /\ UNCHANGED <<lambdaVars, workerVars, providerVars, startVars>>

\* clearCachedRoutes, by name, and the dispatcher's runtime is started.
Clear(g) ==
    /\ spc[g] = "reapply" /\ act[g] = Idle /\ left[g] = {}
    /\ SGoto(g, "done")
    /\ cached' = IF kept[g] # NoRoutes /\ status = "running" THEN NoRoutes ELSE cached
    /\ kept' = [kept EXCEPT ![g] = NoRoutes]
    /\ UNCHANGED <<starts, left, status, cur, cancelled, lambdaVars, workerVars, subVars, history>>

Start(g) == MakeFails(g) \/ RecordStart(g) \/ Reapply(g) \/ StartStep(g) \/ Clear(g)

-------------------------------------------------------------------------------
Next ==
    \/ \E l \in Lambdas : Unregister(l) \/ \E routes \in Asks[l] : Register(l, routes)
    \/ Registrar
    \/ Create \/ Prepare \/ Stop \/ Delete
    \/ \E g \in Starts : Start(g)

Spec == Init /\ [][Next]_vars

-------------------------------------------------------------------------------
(* Properties *)

\* A started adapter is the provider's instance or has been cancelled: no stop,
\* restart or failure leaves one running that nobody can stop.  (A provider
\* removed while it starts is the exception: the start is recorded by name.)
NoOrphan ==
    ~overtaken => \A g \in Starts : spc[g] \in {"reapply", "done"} => g = cur \/ g \in cancelled

\* A provider that is starting, and so can be neither started nor updated, has a
\* start under way that will settle it, also when it was removed and created
\* again in the meantime.
StartIsUnderWay == status = "starting" => \E g \in Starts : spc[g] = "create"

Quiet == ~RegistrarBusy /\ ~AnyStarting

\* The running provider streams what the lambdas ask for, and the routing table says
\* so, between changes and through any number of restarts and failed starts.  Excepted
\* are types for which a call to the venue has failed; histories in which a start or a
\* stop has overlapped the registrar's work; and, until the registrar treats the type
\* again or finds the table right, types that astray names: what the last run left in
\* the database and no lambda asks for, and what lambdas gave up while there was no
\* running provider.  Those are streamed as recorded, and as the table has it.
RoutesHold ==
    calm /\ Quiet /\ cur # 0 =>
        \A t \in Types \ broken :
            /\ active[cur][t] = venue[cur][t]
            /\ table[t] # {} => table[t] = active[cur][t]
            /\ t \notin astray => table[t] = Desired[t] /\ venue[cur][t] = Desired[t]
===============================================================================
