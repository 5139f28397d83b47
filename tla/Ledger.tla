--------------------------------- MODULE Ledger ---------------------------------
(***************************************************************************)
(* What Postgres keeps of one provider, of an order placed with it, and of *)
(* a balance (infra/persistence/postgres), and who writes it: the provider *)
(* manager after each call (app/provider/manager.go), which reads its      *)
(* snapshots after it has let go of its lock, and the lambdas on each      *)
(* report and balance (app/lambda/core/base.go).                           *)
(*                                                                         *)
(* Reports and balances reach the lambdas in any order, and more than once *)
(* (two lambdas may take the same order for theirs, and the outbox hands   *)
(* events over again).  The ids of orders are ones that the store takes;   *)
(* that those of SubmitOrder are not is the subject of OrderFlow.          *)
(***************************************************************************)
EXTENDS Integers, Sequences, FiniteSetsExt

CONSTANTS
    Clients,        \* calls to the provider manager that may be under way at once
    Ordered,       \* of the order
    None,
    MaxRequests, MaxLives, MaxSent, MaxFailures
                    \* bounds: calls, starts, reports and balances together, and
                    \* failures (of the store, of starts) and crashes

States == {"PENDING", "ACK", "PARTIAL", "FILLED", "CANCELLED"}
Statuses == {"pending", "starting", "running", "stopped", "failed"}
Snapshots == [status : Statuses] \union [kept : BOOLEAN]
Reported == [life : Nat, id : Nat, state : States, cum : 0..Ordered]

ASSUME LedgerAssumption ==
    /\ Ordered \in Nat \ {0}
    /\ {MaxRequests, MaxLives, MaxSent, MaxFailures} \subseteq Nat
    /\ None \notin Statuses \union States /\ None \notin Snapshots /\ None \notin Reported

VARIABLES
    status, kept,        \* the manager: the provider's status, whether it keeps routes
    provider, route,     \* the tables providers (a status or None) and provider_routes
    work, copy,          \* the calls: what each has still to do, the snapshot it has read
    life, serial,        \* adapters started, and the last event id of the running one
    order, executions,   \* the order's row: its state or None; its executions
    tx,                  \* the report of the transaction that holds the order's row, or None
    balances,            \* the balances of an asset
    reported, credits,   \* all that was ever sent: reports, and the second of each balance
    requests, failures,
    crossed, booked, lives, newest  \* only record what has happened

managerVars == <<status, kept, work, copy, requests, crossed>>
tableVars   == <<provider, route>>
adapterVars == <<life, serial, reported, credits>>
orderVars   == <<order, executions, tx, booked, lives>>
balanceVars == <<balances, newest>>
ledgerVars  == <<managerVars, tableVars, adapterVars, orderVars, balanceVars, failures>>

LedgerInit ==
    /\ status = "absent" /\ kept = FALSE /\ provider = None /\ route = FALSE
    /\ work = [c \in Clients |-> <<>>] /\ copy = [c \in Clients |-> None]
    /\ life = 0 /\ serial = 0 /\ reported = {} /\ credits = <<>>
    /\ order = None /\ executions = {} /\ tx = None
    /\ balances = {}
    /\ requests = 0 /\ failures = 0
    /\ crossed = FALSE /\ booked = 0 /\ lives = {} /\ newest = 0

Failure == failures < MaxFailures /\ failures' = failures + 1
NoFailure == UNCHANGED failures
MaySend == Cardinality(reported) + Len(credits) < MaxSent
Calm == \A c \in Clients : work[c] = <<>>

-------------------------------------------------------------------------------
(* Calls to the provider manager: each changes the state under the lock, and then
   has things to do without it *)

Begin(c, steps) ==
    /\ work[c] = <<>> /\ requests < MaxRequests
    /\ requests' = requests + 1
    /\ work' = [work EXCEPT ![c] = steps]
    /\ UNCHANGED <<copy, tableVars, adapterVars, orderVars, balanceVars, failures>>

\* Calls overlap; what they leave stale stays so until a stop that is alone.
Overlapping == crossed' = (crossed \/ ~Calm)

Create(c) ==
    /\ status = "absent"
    /\ Begin(c, <<"save">>) /\ Overlapping
    /\ status' = "pending" /\ kept' = FALSE

\* prepareProviderStart; the start itself follows in the same or another goroutine.
Prepare(c) ==
    /\ status \notin {"absent", "running", "starting"}
    /\ Begin(c, <<"save", "launch">>) /\ Overlapping
    /\ status' = "starting"
    /\ UNCHANGED kept

AfterStop == <<"save", "routes">>

\* stopProviderLocked keeps the routes that are active.
StopProvider(c) ==
    /\ status = "running"
    /\ Begin(c, AfterStop)
    /\ crossed' = ~Calm
    /\ status' = "stopped" /\ kept' \in BOOLEAN

Update(c) ==
    /\ status \notin {"absent", "starting"}
    /\ Begin(c, IF status = "running" THEN <<"routes", "save">> ELSE <<"save">>) /\ Overlapping
    /\ IF status = "running" THEN status' = "stopped" /\ kept' \in BOOLEAN ELSE UNCHANGED <<status, kept>>

Remove(c) ==
    /\ status # "absent"
    /\ Begin(c, <<"delete", "deleteRoutes">>) /\ Overlapping
    /\ status' = "absent" /\ kept' = FALSE

\* The handlers of the control API; a request may be two calls (create and start).
Request(c) == Create(c) \/ Prepare(c) \/ StopProvider(c) \/ Update(c) \/ Remove(c)

-------------------------------------------------------------------------------
(* What the calls do after that *)

Doing(c, step) == work[c] # <<>> /\ Head(work[c]) = step
Then(c, steps) == /\ work' = [work EXCEPT ![c] = steps]
                  /\ copy' = [copy EXCEPT ![c] = None]
Done(c) == Then(c, Tail(work[c]))

\* A failure of the store is logged; the row is then stale as after an overlap.
StoreFails(c) ==
    /\ Failure /\ crossed' = TRUE
    /\ UNCHANGED <<tableVars, balanceVars>>
Stored == NoFailure /\ UNCHANGED crossed

\* A provider that is gone is not saved.
Copy(c, fields) ==
    /\ copy[c] = None
    /\ IF status = "absent" THEN Done(c)
       ELSE copy' = [copy EXCEPT ![c] = fields] /\ UNCHANGED work

SnapshotFor(c)    == Doing(c, "save") /\ Copy(c, [status |-> status])
RouteSnapshots(c) == Doing(c, "routes") /\ Copy(c, [kept |-> kept])

Snapshot(c) ==
    /\ SnapshotFor(c) \/ RouteSnapshots(c)
    /\ UNCHANGED <<status, kept, requests, crossed, tableVars, adapterVars, orderVars, balanceVars, failures>>

SaveProvider(c) ==
    /\ Doing(c, "save") /\ copy[c] # None
    /\ \/ provider' = copy[c].status /\ Stored /\ UNCHANGED <<route, balanceVars>>
       \/ StoreFails(c)
    /\ Done(c)

\* Routes, orders, executions and balances refer to the id of the provider's row.
HasProviderId == provider # None

\* One transaction; without an id nothing is saved.
SaveRoutes(c) ==
    /\ Doing(c, "routes") /\ copy[c] # None
    /\ \/ route' = (copy[c].kept /\ HasProviderId) /\ Stored /\ UNCHANGED <<provider, balanceVars>>
       \/ StoreFails(c)
    /\ Done(c)

\* orders.provider_id restricts the delete; routes and balances go with the provider.
DeleteProvider(c) ==
    /\ Doing(c, "delete")
    /\ \/ /\ order = None /\ Stored
          /\ provider' = None /\ route' = FALSE /\ balances' = {} /\ newest' = 0
       \/ order # None /\ Stored /\ UNCHANGED <<tableVars, balanceVars>>
       \/ StoreFails(c)
    /\ Done(c)

DeleteRoutes(c) ==
    /\ Doing(c, "deleteRoutes")
    /\ \/ route' = FALSE /\ Stored /\ UNCHANGED <<provider, balanceVars>>
       \/ StoreFails(c)
    /\ Done(c)

Write(c) ==
    /\ SaveProvider(c) \/ SaveRoutes(c) \/ DeleteProvider(c) \/ DeleteRoutes(c)
    /\ UNCHANGED <<status, kept, requests, adapterVars, orderVars>>

\* startProviderRuntime: recordProviderStartSuccess or -Failure, by name.  A new
\* adapter numbers its events from one again.
LaunchSucceeds(c) ==
    /\ Doing(c, "launch") /\ life < MaxLives
    /\ IF status = "absent" THEN Done(c) /\ UNCHANGED <<status, life, serial>>
       ELSE Then(c, <<"save", "clear">>) /\ status' = "running" /\ life' = life + 1 /\ serial' = 0
    /\ UNCHANGED <<kept, failures>>

AfterFailure_Unsaved == <<>>
AfterFailure == <<"save">>

LaunchFails(c) ==
    /\ Doing(c, "launch") /\ Failure
    /\ Then(c, AfterFailure)
    /\ status' = IF status = "absent" THEN "absent" ELSE "failed"
    /\ UNCHANGED <<kept, life, serial>>

\* The routes have been applied again and are no longer kept; the table has them still.
ClearCachedRoutes(c) ==
    /\ Doing(c, "clear") /\ Done(c)
    /\ kept' = (kept /\ status # "running")
    /\ UNCHANGED <<status, life, serial, failures>>

Launch(c) ==
    /\ LaunchSucceeds(c) \/ LaunchFails(c) \/ ClearCachedRoutes(c)
    /\ UNCHANGED <<requests, crossed, reported, credits, tableVars, orderVars, balanceVars>>

-------------------------------------------------------------------------------
(* The process ends and starts again *)

NormalizeRestoredStatus(s) == IF s \in {"running", "starting"} THEN "stopped" ELSE s

LoadProviders == {provider} \ {None}
LoadRoutes == route

Restore(snapshot) ==
    /\ status' = NormalizeRestoredStatus(snapshot)
    /\ kept' = LoadRoutes

CrashAndRestore ==
    /\ Failure
    /\ IF LoadProviders = {} THEN status' = "absent" /\ kept' = FALSE
       ELSE \E snapshot \in LoadProviders : Restore(snapshot)
    /\ work' = [c \in Clients |-> <<>>] /\ copy' = [c \in Clients |-> None]
    /\ tx' = None
    /\ crossed' = FALSE
    /\ UNCHANGED <<requests, tableVars, adapterVars, order, executions, booked, lives, balanceVars>>

-------------------------------------------------------------------------------
(* The order *)

\* An id that is there already is left as it is.
InsertOrder == order = None /\ order' = "PENDING"

\* persistNewOrder, while the adapter that is to take the order runs; an order that
\* cannot be stored is not submitted.
CreateOrder ==
    /\ status = "running" /\ HasProviderId
    /\ InsertOrder
    /\ UNCHANGED <<managerVars, tableVars, adapterVars, balanceVars, executions, tx, booked, lives, failures>>

Filled == Max({r.cum : r \in reported} \union {0})
IsOver == \E r \in reported : r.state \in {"FILLED", "CANCELLED"}

\* The adapter reports on the order; the answer to the submission may be late.
VenueReports(state, cum) ==
    /\ status = "running" /\ order # None /\ MaySend
    /\ \/ state = "ACK" /\ cum = 0 /\ \A r \in reported : r.state # "ACK"
       \/ ~IsOver /\ state = "CANCELLED" /\ cum = Filled
       \/ ~IsOver /\ cum > Filled /\ state = IF cum = Ordered THEN "FILLED" ELSE "PARTIAL"
    /\ serial' = serial + 1
    /\ reported' = reported \union {[life |-> life, id |-> serial', state |-> state, cum |-> cum]}
    /\ UNCHANGED <<managerVars, tableVars, life, credits, orderVars, balanceVars, failures>>

IsFill(r) == r.state \in {"PARTIAL", "FILLED"}

WhileOpen_AtOnce(r) == r.state
WhileOpen(r) == order

\* persistExecReport: within the transaction the update holds the row, so that one
\* lambda waits for another, and nobody sees it.
UpdateOrder(r) ==
    /\ tx = None /\ order # None
    /\ tx' = r
    /\ order' = WhileOpen(r)
    /\ UNCHANGED <<executions, booked, lives, failures>>

\* executions are unique by the order and the id of the event.
KeyOf_Order(r) == 0
KeyOf(r) == r.id
RecordExecution(r) == {e \in executions : e.key # KeyOf(r)} \union {[key |-> KeyOf(r), cum |-> r.cum]}

\* An execution keeps the quantity filled so far, not that of the fill.
Commit ==
    /\ tx # None
    /\ tx' = None
    /\ order' = tx.state
    /\ IF IsFill(tx)
       THEN /\ executions' = RecordExecution(tx)
            /\ booked' = Max({booked, tx.cum}) /\ lives' = lives \union {tx.life}
       ELSE UNCHANGED <<executions, booked, lives>>
    /\ NoFailure

\* A statement or the commit fails, which is logged.
Rollback ==
    /\ tx # None /\ Failure
    /\ tx' = None
    /\ UNCHANGED <<order, executions, booked, lives>>

PersistExecReport ==
    /\ (\E r \in reported : UpdateOrder(r)) \/ Commit \/ Rollback
    /\ UNCHANGED <<managerVars, tableVars, adapterVars, balanceVars>>

-------------------------------------------------------------------------------
(* The balance *)

\* The adapter sends another balance, of the same second as the last or a later one.
Credit ==
    /\ status = "running" /\ MaySend
    /\ LET last == IF credits = <<>> THEN 1 ELSE credits[Len(credits)]
       IN  \E second \in {last, last + 1} : credits' = Append(credits, second)
    /\ UNCHANGED <<managerVars, tableVars, life, serial, reported, orderVars, balanceVars, failures>>

\* balances are unique by provider, asset and second.
Kept_None(at) == {}
Kept(at) == {b \in balances : b.at # at}

\* The total of the i-th balance sent is i.
UpsertBalance(i) == Kept(credits[i]) \union {[at |-> credits[i], total |-> i]}

PersistBalance(i) ==
    /\ HasProviderId
    /\ balances' = UpsertBalance(i)
    /\ newest' = Max({newest, credits[i]})
    /\ UNCHANGED <<managerVars, tableVars, adapterVars, orderVars, failures>>

-------------------------------------------------------------------------------
LedgerNext ==
    \/ \E c \in Clients : Request(c) \/ Snapshot(c) \/ Write(c) \/ Launch(c)
    \/ CrashAndRestore
    \/ CreateOrder
    \/ \E state \in {"ACK", "PARTIAL", "FILLED", "CANCELLED"}, cum \in 0..Ordered : VenueReports(state, cum)
    \/ PersistExecReport
    \/ Credit
    \/ \E i \in DOMAIN credits : PersistBalance(i)

LedgerSpec == LedgerInit /\ [][LedgerNext]_ledgerVars


-------------------------------------------------------------------------------
(* Properties *)

\* Between calls the tables say what the manager would be restored to, although every
\* snapshot is read after the lock was released and written later still.  Excepted
\* are calls that have overlapped or whose writes failed, until the next stop that is
\* alone, and a removed provider with orders: its row cannot be deleted, which is
\* logged only, and it comes back with the next start of the process.
RestartAgrees ==
    Calm /\ ~crossed =>
        /\ status # "absent" =>
             provider # None /\ NormalizeRestoredStatus(provider) = NormalizeRestoredStatus(status)
        /\ status = "absent" => provider = None \/ order # None
        /\ status = "stopped" => route = kept

\* What the listings show: orders are joined with the row of their provider; of the
\* executions the most filled, and of the balances the first row.
ListOrders == IF HasProviderId THEN {order} \ {None} ELSE {}
MostListed == Max({e.cum : e \in executions} \union {0})
Latest == CHOOSE b \in balances : \A other \in balances : other.at <= b.at

\* What the lambdas have stored is what is listed, whatever order reports and
\* balances came in, were repeated in, failed or were cut off in: the executions of
\* an order add up to the most that any stored report had filled, an order that is
\* said to be filled has all of its quantity there, the first balance is one of the
\* newest second, and an order never loses its provider.  A later adapter reuses the ids of events, so that an execution
\* may replace one of an earlier adapter's; orders filled by one adapter are meant.
StoredIsListed ==
    /\ order # None => ListOrders # {}
    /\ Cardinality(lives) <= 1 =>
         MostListed = booked /\ ("FILLED" \in ListOrders => MostListed = Ordered)
    /\ newest # 0 => /\ balances # {}
                     /\ Latest.at = newest /\ credits[Latest.total] = newest
===============================================================================
