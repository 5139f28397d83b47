----------------------------- MODULE TradingProofs -----------------------------
(* Theorems about OrderFlow, for any orders, symbols, limits and lambdas, and     *)
(* about Ledger, for any callers of the provider manager, any quantity of the     *)
(* order, and any number of starts, reports, balances, failures and crashes.      *)
EXTENDS OrderFlow, Ledger, SumProofs

-------------------------------------------------------------------------------
(* The ledger: what a call has still to do *)

\* What a call may have left, with nothing of the provider's row to be written, with
\* its routes to be written, and after a removal.
Works == {<<>>, <<"save">>, <<"save", "launch">>, <<"launch">>, <<"save", "clear">>, <<"clear">>,
          <<"save", "routes">>, <<"routes">>, <<"routes", "save">>,
          <<"delete", "deleteRoutes">>, <<"deleteRoutes">>}
Written == {<<>>, <<"launch">>, <<"clear">>, <<"routes">>, <<"deleteRoutes">>}
RoutesPending == {<<"save", "routes">>, <<"routes">>, <<"routes", "save">>}
Removals == {<<"delete", "deleteRoutes">>, <<"deleteRoutes">>}

\* A snapshot is held by a call that is about to write it.
CopyFits(c) ==
    \/ copy[c] = None
    \/ copy[c] \in [status : Statuses] /\ Doing(c, "save")
    \/ copy[c] \in [kept : BOOLEAN] /\ Doing(c, "routes")

ManagerTypes ==
    /\ status \in Statuses \union {"absent"} /\ kept \in BOOLEAN
    /\ provider \in Statuses \union {None} /\ route \in BOOLEAN
    /\ work \in [Clients -> Works] /\ copy \in [Clients -> Snapshots \union {None}]
    /\ \A c \in Clients : CopyFits(c)

EventTypes ==
    /\ life \in Nat /\ serial \in Nat
    /\ reported \in SUBSET Reported /\ credits \in Seq(Nat \ {0})

RowTypes ==
    /\ order \in States \union {None}
    /\ tx \in reported \union {None}
    /\ executions \in SUBSET [key : Nat, cum : 0..Ordered]
    /\ booked \in 0..Ordered /\ IsFiniteSet(lives)

\* An order has the row of its provider, and a transaction the row of its order.
Owned == (order # None => provider # None) /\ (tx # None => order # None)

\* An adapter gives each report a number of its own.
ReportsNumbered ==
    /\ \A r \in reported : /\ r.life <= life /\ (r.life = life => r.id <= serial)
                           /\ r.state = "FILLED" => r.cum = Ordered
    /\ \A r, s \in reported : r.life = s.life /\ r.id = s.id => r = s

\* An execution is that of a report; those of a single adapter never replace one another,
\* so that the one that had filled the most is there.
FillsStored ==
    /\ \A e \in executions :
         /\ e.cum <= booked
         /\ \E r \in reported : r.life \in lives /\ r.id = e.key /\ r.cum = e.cum
    /\ lives = {} => executions = {} /\ booked = 0
    /\ lives # {} /\ (\A l, m \in lives : l = m) => \E e \in executions : e.cum = booked
    /\ order = "FILLED" => booked = Ordered

\* A balance is one that was sent, and one of the newest second is there.
BalancesStored ==
    /\ newest \in Nat
    /\ \A b \in balances : b.total \in DOMAIN credits /\ b.at = credits[b.total] /\ b.at <= newest
    /\ newest # 0 => \E b \in balances : b.at = newest

ListedInv == EventTypes /\ RowTypes /\ Owned /\ ReportsNumbered /\ FillsStored /\ BalancesStored

\* The provider's row restores what the manager has.
RowAgrees ==
    /\ status # "absent" =>
         provider # None /\ NormalizeRestoredStatus(provider) = NormalizeRestoredStatus(status)
    /\ status = "absent" => provider = None \/ order # None

\* Where nothing has overlapped or failed: there is one call at most; what it has read is
\* true still; whether it saves or removes says whether there is a provider; and what
\* nobody is to write any more has been written.
OneCall == \A c, d \in Clients : work[c] # <<>> /\ work[d] # <<>> => c = d
CopyIsFresh(c) ==
    /\ copy[c] # None /\ Doing(c, "save") => copy[c] = [status |-> status]
    /\ copy[c] # None /\ Doing(c, "routes") => copy[c] = [kept |-> kept]
InOrder(c) ==
    /\ work[c] # <<>> => (work[c] \in Removals <=> status = "absent")
    /\ work[c] \in {<<"routes">>, <<"routes", "save">>} => provider # None

AgreeInv ==
    /\ OneCall
    /\ \A c \in Clients : CopyIsFresh(c) /\ InOrder(c)
    /\ (\A c \in Clients : work[c] \in Written) => RowAgrees
    /\ (\A c \in Clients : work[c] \notin RoutesPending) /\ status = "stopped" => route = kept

-------------------------------------------------------------------------------
(* The calls *)

StepsOf(w, head, tail) == w # <<>> /\ Head(w) = head /\ Tail(w) = tail

LEMMA Shapes ==
    /\ StepsOf(<<"save">>, "save", <<>>)
    /\ StepsOf(<<"save", "launch">>, "save", <<"launch">>)
    /\ StepsOf(<<"launch">>, "launch", <<>>)
    /\ StepsOf(<<"save", "clear">>, "save", <<"clear">>)
    /\ StepsOf(<<"clear">>, "clear", <<>>)
    /\ StepsOf(<<"save", "routes">>, "save", <<"routes">>)
    /\ StepsOf(<<"routes">>, "routes", <<>>)
    /\ StepsOf(<<"routes", "save">>, "routes", <<"save">>)
    /\ StepsOf(<<"delete", "deleteRoutes">>, "delete", <<"deleteRoutes">>)
    /\ StepsOf(<<"deleteRoutes">>, "deleteRoutes", <<>>)
BY DEF StepsOf

LEMMA TailOfWork ==
    ASSUME NEW w \in Works, w # <<>>
    PROVE  Tail(w) \in Works
BY Shapes DEF StepsOf, Works

CallTypes ==
    /\ work \in [Clients -> Works] /\ copy \in [Clients -> Snapshots \union {None}]
    /\ \A c \in Clients : CopyFits(c)

LEMMA IdleHasNoCopy ==
    ASSUME CallTypes, NEW c \in Clients, work[c] = <<>>
    PROVE  copy[c] = None
BY DEF CallTypes, CopyFits, Doing

LEMMA FitsElsewhere ==
    ASSUME CallTypes, NEW d \in Clients, work'[d] = work[d], copy'[d] = copy[d]
    PROVE  CopyFits(d)'
BY DEF CallTypes, CopyFits, Doing

LEMMA ThenTyped ==
    ASSUME CallTypes, NEW c \in Clients, NEW steps \in Works,
           \/ Then(c, steps)
           \/ work[c] = <<>> /\ work' = [work EXCEPT ![c] = steps] /\ UNCHANGED copy
    PROVE  CallTypes'
<1>1. /\ work' \in [Clients -> Works] /\ copy' \in [Clients -> Snapshots \union {None}]
      /\ copy'[c] = None
      /\ \A d \in Clients \ {c} : work'[d] = work[d] /\ copy'[d] = copy[d]
  BY IdleHasNoCopy DEF CallTypes, Then
<1>2. ASSUME NEW d \in Clients PROVE CopyFits(d)'
  <2>1. CASE d = c
    BY <1>1, <2>1 DEF CopyFits
  <2>2. CASE d # c
    BY <1>1, <2>2, FitsElsewhere
  <2> QED
    BY <2>1, <2>2
<1> QED
  BY <1>1, <1>2 DEF CallTypes

LEMMA DoneTyped ==
    ASSUME CallTypes, NEW c \in Clients, work[c] # <<>>, Done(c)
    PROVE  CallTypes'
<1>1. Tail(work[c]) \in Works
  BY TailOfWork DEF CallTypes
<1> QED
  BY <1>1, ThenTyped DEF Done

LEMMA CopyTyped ==
    ASSUME CallTypes, status \in Statuses \union {"absent"}, kept \in BOOLEAN,
           NEW c \in Clients, Snapshot(c)
    PROVE  CallTypes'
<1>1. CASE Done(c)
  BY <1>1, DoneTyped DEF Snapshot, SnapshotFor, RouteSnapshots, Doing
<1>2. ASSUME NEW snap \in Snapshots, UNCHANGED work, copy' = [copy EXCEPT ![c] = snap],
             \/ snap \in [status : Statuses] /\ Doing(c, "save")
             \/ snap \in [kept : BOOLEAN] /\ Doing(c, "routes")
      PROVE  CallTypes'
  <2>1. copy' \in [Clients -> Snapshots \union {None}] /\ copy'[c] = snap
        /\ \A d \in Clients \ {c} : copy'[d] = copy[d]
    BY <1>2 DEF CallTypes
  <2>2. ASSUME NEW d \in Clients PROVE CopyFits(d)'
    <3>1. CASE d = c
      BY <1>2, <2>1, <3>1 DEF CopyFits, Doing
    <3>2. CASE d # c
      BY <1>2, <2>1, <3>2, FitsElsewhere
    <3> QED
      BY <3>1, <3>2
  <2> QED
    BY <1>2, <2>1, <2>2 DEF CallTypes
<1>3. CASE ~Done(c)
  <2>1. CASE SnapshotFor(c)
    <3>1. [status |-> status] \in Snapshots /\ [status |-> status] \in [status : Statuses]
      BY <1>3, <2>1 DEF SnapshotFor, Copy, Snapshots
    <3> QED
      BY <1>2, <1>3, <2>1, <3>1 DEF SnapshotFor, Copy
  <2>2. CASE RouteSnapshots(c)
    <3>1. [kept |-> kept] \in Snapshots /\ [kept |-> kept] \in [kept : BOOLEAN]
      BY DEF Snapshots
    <3> QED
      BY <1>2, <1>3, <2>2, <3>1 DEF RouteSnapshots, Copy
  <2> QED
    BY <2>1, <2>2 DEF Snapshot
<1> QED
  BY <1>1, <1>3

LEMMA SavedStatus ==
    ASSUME CallTypes, NEW c \in Clients, Doing(c, "save"), copy[c] # None
    PROVE  copy[c].status \in Statuses
BY DEF CallTypes, CopyFits, Doing

LEMMA CallStep ==
    ASSUME ManagerTypes, [LedgerNext]_ledgerVars
    PROVE  CallTypes'
<1> USE DEF ledgerVars, managerVars
<1>1. CallTypes /\ status \in Statuses \union {"absent"} /\ kept \in BOOLEAN
  BY DEF ManagerTypes, CallTypes
<1>2. ASSUME NEW c \in Clients, Request(c) PROVE CallTypes'
  <2>1. PICK steps \in Works : Begin(c, steps)
    BY <1>2 DEF Request, Create, Prepare, StopProvider, AfterStop, Update, Remove, Works
  <2> QED
    BY <1>1, <2>1, ThenTyped DEF Begin
<1>3. ASSUME NEW c \in Clients, Snapshot(c) PROVE CallTypes'
  BY <1>1, <1>3, CopyTyped
<1>4. ASSUME NEW c \in Clients, Write(c) PROVE CallTypes'
  BY <1>1, <1>4, DoneTyped DEF Write, SaveProvider, SaveRoutes, DeleteProvider, DeleteRoutes, Doing
<1>5. ASSUME NEW c \in Clients, Launch(c) PROVE CallTypes'
  <2>1. CASE Done(c)
    BY <1>1, <1>5, <2>1, DoneTyped DEF Launch, LaunchSucceeds, LaunchFails, ClearCachedRoutes, Doing
  <2>2. ASSUME ~Done(c) PROVE \E steps \in Works : Then(c, steps)
    BY <1>5, <2>2 DEF Launch, LaunchSucceeds, LaunchFails, AfterFailure, ClearCachedRoutes, Works
  <2> QED
    BY <1>1, <2>1, <2>2, ThenTyped
<1>6. CASE CrashAndRestore
  <2>1. /\ work' \in [Clients -> Works] /\ copy' \in [Clients -> Snapshots \union {None}]
        /\ \A c \in Clients : copy'[c] = None
    BY <1>6 DEF CrashAndRestore, Works
  <2> QED
    BY <2>1 DEF CallTypes, CopyFits
<1>7. CASE UNCHANGED <<work, copy>>
  BY <1>1, <1>7, FitsElsewhere DEF CallTypes
<1> QED
  BY <1>2, <1>3, <1>4, <1>5, <1>6, <1>7
     DEF LedgerNext, CreateOrder, VenueReports, PersistExecReport, Credit, PersistBalance

LEMMA ManagerStep ==
    ASSUME ManagerTypes, [LedgerNext]_ledgerVars
    PROVE  ManagerTypes'
<1> USE DEF ledgerVars, managerVars, tableVars, ManagerTypes
<1>1. CallTypes /\ CallTypes'
  BY CallStep DEF CallTypes
<1> SUFFICES /\ (status \in Statuses \union {"absent"} /\ kept \in BOOLEAN)'
             /\ (provider \in Statuses \union {None} /\ route \in BOOLEAN)'
  BY <1>1 DEF CallTypes
<1>2. ASSUME NEW c \in Clients, Request(c) \/ Snapshot(c)
      PROVE  /\ (status \in Statuses \union {"absent"} /\ kept \in BOOLEAN)'
             /\ UNCHANGED tableVars
  BY <1>2 DEF Request, Begin, Create, Prepare, StopProvider, Update, Remove, Snapshot, Statuses
<1>3. ASSUME NEW c \in Clients, Write(c)
      PROVE  /\ (provider \in Statuses \union {None} /\ route \in BOOLEAN)'
             /\ UNCHANGED <<status, kept>>
  <2>1. CASE SaveProvider(c)
    BY <1>1, <1>3, <2>1, SavedStatus DEF Write, SaveProvider, StoreFails
  <2>2. CASE SaveRoutes(c)
    <3>1. copy[c].kept \in BOOLEAN
      BY <1>1, <2>2 DEF SaveRoutes, CallTypes, CopyFits, Doing
    <3> QED
      BY <1>3, <2>2, <3>1 DEF Write, SaveRoutes, StoreFails, HasProviderId
  <2>3. CASE DeleteProvider(c) \/ DeleteRoutes(c)
    BY <1>3, <2>3 DEF Write, DeleteProvider, DeleteRoutes, StoreFails
  <2> QED
    BY <1>3, <2>1, <2>2, <2>3 DEF Write
<1>4. ASSUME NEW c \in Clients, Launch(c)
      PROVE  /\ (status \in Statuses \union {"absent"} /\ kept \in BOOLEAN)'
             /\ UNCHANGED tableVars
  BY <1>4 DEF Launch, LaunchSucceeds, LaunchFails, ClearCachedRoutes, Statuses
<1>5. CASE CrashAndRestore
  <2>1. (status \in Statuses \union {"absent"} /\ kept \in BOOLEAN)'
    BY <1>5 DEF CrashAndRestore, LoadProviders, Restore, NormalizeRestoredStatus, LoadRoutes, Statuses
  <2> QED
    BY <1>5, <2>1 DEF CrashAndRestore
<1>6. CASE UNCHANGED <<managerVars, tableVars>>
  BY <1>6
<1> QED
  BY <1>2, <1>3, <1>4, <1>5, <1>6
     DEF LedgerNext, CreateOrder, VenueReports, PersistExecReport, Credit, PersistBalance

-------------------------------------------------------------------------------
(* What is stored is listed *)

LEMMA MaxIs ==
    ASSUME NEW S \in SUBSET Int, NEW m \in S, \A n \in S : m >= n
    PROVE  Max(S) = m
<1>1. Max(S) \in S /\ \A n \in S : Max(S) >= n
  BY DEF Max
<1>2. Max(S) >= m /\ m >= Max(S) /\ Max(S) \in Int /\ m \in Int
  BY <1>1
<1> QED
  BY <1>2

LEMMA MaxOfTwo ==
    ASSUME NEW m \in Nat, NEW n \in Nat
    PROVE  Max({m, n}) = IF m >= n THEN m ELSE n
BY MaxIs

\* What the calls to the manager may do to the order and to the balance.
Elsewhere ==
    /\ UNCHANGED <<reported, credits, executions, booked, lives>>
    /\ order' = order /\ (tx' = tx \/ tx' = None)
    /\ \/ UNCHANGED <<life, serial>>
       \/ life' = life + 1 /\ serial' = 0
    /\ \/ provider' = provider
       \/ provider' # None
       \/ provider' = None /\ order = None
    /\ \/ UNCHANGED balanceVars
       \/ balances' = {} /\ newest' = 0

LEMMA ManagerElsewhere ==
    ASSUME ManagerTypes,
           \/ \E c \in Clients : Request(c) \/ Snapshot(c) \/ Write(c) \/ Launch(c)
           \/ CrashAndRestore
    PROVE  Elsewhere
<1> USE DEF Elsewhere, tableVars, adapterVars, orderVars, balanceVars
<1>1. ASSUME NEW c \in Clients, Request(c) PROVE Elsewhere
  BY <1>1 DEF Request, Begin, Create, Prepare, StopProvider, Update, Remove
<1>2. ASSUME NEW c \in Clients, Snapshot(c) PROVE Elsewhere
  BY <1>2 DEF Snapshot
<1>3. ASSUME NEW c \in Clients, Write(c) PROVE Elsewhere
  <2>1. SaveProvider(c) => provider' = provider \/ provider' # None
    <3>1. ASSUME SaveProvider(c) PROVE copy[c].status # None
      BY <3>1, SavedStatus, LedgerAssumption DEF ManagerTypes, CallTypes, SaveProvider
    <3> QED
      BY <3>1 DEF SaveProvider, StoreFails
  <2> QED
    BY <1>3, <2>1 DEF Write, SaveProvider, SaveRoutes, DeleteProvider, DeleteRoutes, StoreFails
<1>4. ASSUME NEW c \in Clients, Launch(c) PROVE Elsewhere
  BY <1>4 DEF Launch, LaunchSucceeds, LaunchFails, ClearCachedRoutes
<1>5. CASE CrashAndRestore
  BY <1>5 DEF CrashAndRestore
<1> QED
  BY <1>1, <1>2, <1>3, <1>4, <1>5

LEMMA EventStep ==
    ASSUME ListedInv, ManagerTypes, [LedgerNext]_ledgerVars
    PROVE  EventTypes' /\ ReportsNumbered'
<1> USE DEF ListedInv, EventTypes, ledgerVars, adapterVars
<1>1. CASE Elsewhere
  <2>1. EventTypes'
    BY <1>1 DEF Elsewhere
  <2>2. \A r \in reported : r.life \in Nat /\ r.id \in Nat
    BY DEF Reported
  <2> QED
    BY <1>1, <2>1, <2>2 DEF Elsewhere, ReportsNumbered
<1>2. ASSUME NEW state \in {"ACK", "PARTIAL", "FILLED", "CANCELLED"}, NEW cum \in 0..Ordered,
             VenueReports(state, cum)
      PROVE  EventTypes' /\ ReportsNumbered'
  <2>1. PICK r : r = [life |-> life, id |-> serial', state |-> state, cum |-> cum]
    OBVIOUS
  <2>2. /\ r.life = life /\ r.id = serial + 1 /\ r.state = state /\ r.cum = cum
        /\ serial' = serial + 1 /\ reported' = reported \union {r} /\ UNCHANGED <<life, credits>>
    BY <1>2, <2>1 DEF VenueReports
  <2>3. r \in Reported
    BY <2>1, <2>2 DEF Reported, States
  <2>4. state = "FILLED" => cum = Ordered
    BY <1>2 DEF VenueReports
  <2>5. \A s \in reported : s.life \in Nat /\ s.id \in Nat /\ (s.life = life => s.id <= serial) /\ s.life <= life
    BY DEF Reported, ReportsNumbered
  <2>6. \A s \in reported : ~(s.life = r.life /\ s.id = r.id)
    BY <2>2, <2>5
  <2>7. EventTypes'
    BY <2>2, <2>3
  <2>8. \A s \in reported' : /\ s.life <= life' /\ (s.life = life' => s.id <= serial')
                             /\ s.state = "FILLED" => s.cum = Ordered
    BY <2>2, <2>4, <2>5 DEF ReportsNumbered
  <2>9. \A s, t \in reported' : s.life = t.life /\ s.id = t.id => s = t
    BY <2>2, <2>6 DEF ReportsNumbered
  <2> QED
    BY <2>7, <2>8, <2>9 DEF ReportsNumbered
<1>3. CASE Credit
  <2>1. PICK second \in Nat \ {0} : credits' = Append(credits, second)
    <3>1. ASSUME credits # <<>> PROVE credits[Len(credits)] \in Nat \ {0}
      BY <3>1
    <3> QED
      BY <1>3, <3>1 DEF Credit
  <2>2. credits' \in Seq(Nat \ {0})
    BY <2>1
  <2> QED
    BY <1>3, <2>2 DEF Credit, ReportsNumbered
<1>4. CASE UNCHANGED adapterVars
  BY <1>4 DEF ReportsNumbered
<1> QED
  BY <1>1, <1>2, <1>3, <1>4, ManagerElsewhere
     DEF LedgerNext, CreateOrder, PersistExecReport, PersistBalance

\* What an execution report does to the order that it is about, when it is committed.
LEMMA CommitStep ==
    ASSUME ListedInv, Commit, UNCHANGED adapterVars, UNCHANGED provider
    PROVE  RowTypes' /\ Owned' /\ FillsStored'
<1> USE DEF ListedInv, adapterVars
<1>1. tx \in reported /\ tx # None
  BY DEF Commit, RowTypes
<1>2. tx \in Reported /\ tx.life \in Nat /\ tx.id \in Nat /\ tx.state \in States /\ tx.cum \in 0..Ordered
  BY <1>1 DEF EventTypes, Reported
<1>3. Ordered \in Nat /\ None \notin States
  BY LedgerAssumption
<1>4. Owned'
  BY DEF Owned, Commit
<1>5. CASE ~IsFill(tx)
  <2>1. UNCHANGED <<executions, booked, lives, reported>> /\ order' = tx.state /\ tx' = None
    BY <1>5 DEF Commit
  <2>2. order' # "FILLED"
    BY <1>5, <2>1 DEF IsFill
  <2> QED
    BY <1>2, <1>4, <2>1, <2>2 DEF RowTypes, FillsStored
<1>6. CASE IsFill(tx)
  <2> DEFINE e == [key |-> tx.id, cum |-> tx.cum]
  <2>1. /\ executions' = {x \in executions : x.key # tx.id} \union {e}
        /\ lives' = lives \union {tx.life} /\ order' = tx.state /\ tx' = None
        /\ booked' = Max({booked, tx.cum}) /\ reported' = reported
    BY <1>6 DEF Commit, RecordExecution, KeyOf
  <2>2. e \in [key : Nat, cum : 0..Ordered] /\ e.key = tx.id /\ e.cum = tx.cum
    BY <1>2
  <2>3. booked \in Nat /\ booked <= Ordered
    BY <1>3 DEF RowTypes
  <2>4. booked' = IF booked >= tx.cum THEN booked ELSE tx.cum
    BY <1>2, <1>3, <2>1, <2>3, MaxOfTwo
  <2>5. booked' \in 0..Ordered /\ booked' >= booked /\ booked' >= tx.cum
    BY <1>2, <1>3, <2>3, <2>4
  <2>6. RowTypes'
    <3>1. IsFiniteSet(lives')
      BY <2>1, FS_AddElement DEF RowTypes
    <3>2. executions' \in SUBSET [key : Nat, cum : 0..Ordered]
      BY <2>1, <2>2 DEF RowTypes
    <3> QED
      BY <1>2, <2>1, <2>5, <3>1, <3>2 DEF RowTypes
  <2>7. ASSUME NEW x \in executions'
        PROVE  /\ x.cum <= booked'
               /\ \E r \in reported' : r.life \in lives' /\ r.id = x.key /\ r.cum = x.cum
    <3>1. CASE x = e
      BY <1>1, <2>1, <2>2, <2>5, <3>1
    <3>2. CASE x \in executions
      <4>1. x.cum \in Nat /\ x.cum <= booked
        BY <1>3, <3>2 DEF RowTypes, FillsStored
      <4> QED
        BY <2>1, <2>3, <2>5, <3>2, <4>1 DEF FillsStored
    <3> QED
      BY <2>1, <3>1, <3>2
  <2>8. lives' # {}
    BY <2>1
  <2>9. ASSUME \A l, m \in lives' : l = m
        PROVE  \E x \in executions' : x.cum = booked'
    <3>1. CASE booked' = tx.cum
      BY <2>1, <2>2, <3>1
    <3>2. CASE booked' = booked /\ lives = {}
      <4>1. booked = 0
        BY <3>2 DEF FillsStored
      <4>2. tx.cum = booked'
        BY <1>2, <1>3, <2>3, <2>4, <4>1, <3>2
      <4> QED
        BY <3>1, <4>2
    <3>3. CASE booked' = booked /\ lives # {}
      <4>1. PICK x \in executions : x.cum = booked
        BY <2>1, <2>9, <3>3 DEF FillsStored
      <4>2. PICK r \in reported : r.life \in lives /\ r.id = x.key /\ r.cum = x.cum
        BY <4>1 DEF FillsStored
      <4>3. CASE x.key = tx.id
        <5>1. r = tx
          BY <1>1, <2>1, <2>9, <4>2, <4>3 DEF ReportsNumbered
        <5> QED
          BY <2>1, <2>2, <3>3, <4>1, <4>2, <5>1
      <4>4. CASE x.key # tx.id
        BY <2>1, <3>3, <4>1, <4>4
      <4> QED
        BY <4>3, <4>4
    <3> QED
      BY <2>4, <3>1, <3>2, <3>3
  <2>10. order' = "FILLED" => booked' = Ordered
    <3>1. tx.state = "FILLED" => tx.cum = Ordered
      BY <1>1 DEF ReportsNumbered
    <3> QED
      BY <1>3, <2>1, <2>5, <3>1
  <2> QED
    BY <1>4, <2>6, <2>7, <2>8, <2>9, <2>10 DEF FillsStored
<1> QED
  BY <1>5, <1>6

LEMMA RowStep ==
    ASSUME ListedInv, ManagerTypes, [LedgerNext]_ledgerVars
    PROVE  RowTypes' /\ Owned' /\ FillsStored'
<1> USE DEF ListedInv, ledgerVars, orderVars, tableVars, adapterVars
<1>1. CASE Elsewhere
  <2>1. RowTypes'
    BY <1>1 DEF Elsewhere, RowTypes
  <2>2. Owned'
    BY <1>1 DEF Elsewhere, Owned
  <2>3. FillsStored'
    BY <1>1 DEF Elsewhere, FillsStored
  <2> QED
    BY <2>1, <2>2, <2>3
<1>2. CASE CreateOrder
  BY <1>2 DEF CreateOrder, InsertOrder, HasProviderId, RowTypes, Owned, FillsStored, States
<1>3. CASE PersistExecReport
  <2>1. ASSUME NEW r \in reported, UpdateOrder(r) PROVE RowTypes' /\ Owned' /\ FillsStored'
    BY <1>3, <2>1 DEF PersistExecReport, UpdateOrder, WhileOpen, RowTypes, Owned, FillsStored
  <2>2. CASE Rollback
    BY <1>3, <2>2 DEF PersistExecReport, Rollback, RowTypes, Owned, FillsStored
  <2>3. CASE Commit
    BY <1>3, <2>3, CommitStep DEF PersistExecReport
  <2> QED
    BY <1>3, <2>1, <2>2, <2>3 DEF PersistExecReport
<1>4. CASE UNCHANGED <<orderVars, provider>> /\ reported \subseteq reported'
  BY <1>4 DEF RowTypes, Owned, FillsStored
<1> QED
  BY <1>1, <1>2, <1>3, <1>4, ManagerElsewhere
     DEF LedgerNext, VenueReports, Credit, PersistBalance

LEMMA BalanceStep ==
    ASSUME ListedInv, ManagerTypes, [LedgerNext]_ledgerVars
    PROVE  BalancesStored'
<1> USE DEF ListedInv, EventTypes, ledgerVars, balanceVars, adapterVars
<1>1. CASE Elsewhere
  BY <1>1 DEF Elsewhere, BalancesStored
<1>2. CASE Credit
  <2>1. PICK second : credits' = Append(credits, second)
    BY <1>2 DEF Credit
  <2>2. \A i \in DOMAIN credits : i \in DOMAIN credits' /\ credits'[i] = credits[i]
    BY <2>1
  <2> QED
    BY <1>2, <2>2 DEF Credit, BalancesStored
<1>3. ASSUME NEW i \in DOMAIN credits, PersistBalance(i)
      PROVE  BalancesStored'
  <2>1. credits[i] \in Nat
    OBVIOUS
  <2>2. newest \in Nat
    BY DEF BalancesStored
  <2>3. newest' = (IF newest >= credits[i] THEN newest ELSE credits[i]) /\ UNCHANGED credits
    BY <1>3, <2>1, <2>2, MaxOfTwo DEF PersistBalance
  <2> DEFINE b == [at |-> credits[i], total |-> i]
  <2>4. balances' = {x \in balances : x.at # credits[i]} \union {b}
    BY <1>3 DEF PersistBalance, UpsertBalance, Kept
  <2>5. \A x \in balances : x.total \in DOMAIN credits /\ x.at = credits[x.total] /\ x.at <= newest /\ x.at \in Nat
    BY DEF BalancesStored
  <2>6. \A x \in balances' : x.total \in DOMAIN credits' /\ x.at = credits'[x.total] /\ x.at <= newest'
    BY <2>1, <2>2, <2>3, <2>4, <2>5
  <2>7. newest' # 0 => \E x \in balances' : x.at = newest'
    <3>1. CASE newest' = credits[i]
      <4>1. b \in balances' /\ b.at = newest'
        BY <2>4, <3>1
      <4> QED
        BY <4>1
    <3>2. CASE newest' = newest /\ newest # credits[i]
      BY <2>4, <3>2 DEF BalancesStored
    <3> QED
      BY <2>3, <3>1, <3>2
  <2> QED
    BY <2>1, <2>2, <2>3, <2>6, <2>7 DEF BalancesStored
<1>4. CASE UNCHANGED <<balanceVars, credits>>
  BY <1>4 DEF BalancesStored
<1> QED
  BY <1>1, <1>2, <1>3, <1>4, ManagerElsewhere
     DEF LedgerNext, CreateOrder, VenueReports, PersistExecReport

LEMMA ListedInit == LedgerInit => ManagerTypes /\ ListedInv
<1> SUFFICES ASSUME LedgerInit PROVE ManagerTypes /\ ListedInv
  OBVIOUS
<1> USE DEF LedgerInit
<1>1. ManagerTypes
  BY DEF ManagerTypes, CopyFits, Works
<1>2. EventTypes /\ Owned /\ ReportsNumbered /\ BalancesStored
  BY DEF EventTypes, Owned, ReportsNumbered, BalancesStored
<1>3. RowTypes /\ FillsStored
  BY FS_EmptySet, LedgerAssumption DEF RowTypes, FillsStored, States
<1> QED
  BY <1>1, <1>2, <1>3 DEF ListedInv

LEMMA AtMostOneIsOne ==
    ASSUME NEW S, IsFiniteSet(S), Cardinality(S) <= 1
    PROVE  \A l, m \in S : l = m
<1>1. ASSUME NEW l \in S, NEW m \in S, l # m PROVE FALSE
  <2>1. IsFiniteSet({l}) /\ Cardinality({l}) = 1
    BY FS_Singleton
  <2>2. Cardinality({l} \union {m}) = 2
    BY <1>1, <2>1, FS_AddElement
  <2>3. Cardinality({l} \union {m}) <= Cardinality(S)
    BY FS_Subset
  <2>4. Cardinality(S) \in Nat
    BY FS_CardinalityType
  <2> QED
    BY <2>2, <2>3, <2>4
<1> QED
  BY <1>1

LEMMA ListedShown == ListedInv => StoredIsListed
<1> SUFFICES ASSUME ListedInv PROVE StoredIsListed
  OBVIOUS
<1> USE DEF ListedInv
<1>1. order # None => ListOrders # {}
  BY DEF Owned, ListOrders, HasProviderId
<1>2. ASSUME Cardinality(lives) <= 1
      PROVE  MostListed = booked /\ ("FILLED" \in ListOrders => MostListed = Ordered)
  <2> DEFINE cums == {e.cum : e \in executions} \union {0}
  <2>1. cums \in SUBSET Int /\ booked \in Nat
    BY LedgerAssumption DEF RowTypes
  <2>2. \A n \in cums : booked >= n
    BY <2>1 DEF FillsStored
  <2>3. booked \in cums
    <3>1. \A l, m \in lives : l = m
      BY <1>2, AtMostOneIsOne DEF RowTypes
    <3> QED
      BY <3>1 DEF FillsStored
  <2> HIDE DEF cums
  <2>4. Max(cums) = booked
    BY <2>1, <2>2, <2>3, MaxIs
  <2>5. MostListed = booked
    BY <2>4 DEF cums, MostListed
  <2> QED
    BY <2>5 DEF ListOrders, FillsStored
<1>3. ASSUME newest # 0
      PROVE  balances # {} /\ Latest.at = newest /\ credits[Latest.total] = newest
  <2>1. PICK b \in balances : b.at = newest
    BY <1>3 DEF BalancesStored
  <2>2. \A other \in balances : other.at <= newest /\ other.at \in Nat
    BY DEF BalancesStored, EventTypes
  <2>3. Latest \in balances /\ \A other \in balances : other.at <= Latest.at
    BY <2>1, <2>2 DEF Latest
  <2>4. Latest.at = newest
    BY <2>1, <2>2, <2>3
  <2> QED
    BY <2>1, <2>3, <2>4 DEF BalancesStored
<1> QED
  BY <1>1, <1>2, <1>3 DEF StoredIsListed

-------------------------------------------------------------------------------
(* What is stored would be restored *)

LEMMA OrderStays ==
    ASSUME ListedInv, ManagerTypes, [LedgerNext]_ledgerVars, order # None
    PROVE  order' # None
<1> USE DEF ledgerVars, orderVars
<1>1. ASSUME Commit PROVE order' # None
  <2>1. tx \in Reported
    BY <1>1 DEF Commit, ListedInv, EventTypes, RowTypes
  <2>2. tx.state \in States
    BY <2>1 DEF Reported
  <2> QED
    BY <1>1, <2>2, LedgerAssumption DEF Commit
<1>2. ASSUME ~Commit PROVE order' = order
  <2>1. Elsewhere => order' = order
    BY DEF Elsewhere
  <2> QED
    BY <1>2, <2>1, ManagerElsewhere
       DEF LedgerNext, CreateOrder, InsertOrder, VenueReports, PersistExecReport, UpdateOrder, WhileOpen,
           Rollback, Credit, PersistBalance
<1> QED
  BY <1>1, <1>2

\* What AgreeInv says of a call when there is no other.
Alone(c) ==
    /\ CopyIsFresh(c) /\ InOrder(c)
    /\ work[c] \in Written => RowAgrees
    /\ work[c] \notin RoutesPending /\ status = "stopped" => route = kept

LEMMA NothingPending == <<>> \in Written /\ <<>> \notin RoutesPending
BY DEF Written, RoutesPending

LEMMA AloneIsAll ==
    ASSUME NEW c \in Clients, \A d \in Clients \ {c} : work'[d] = <<>>, Alone(c)'
    PROVE  AgreeInv'
<1>1. \A d \in Clients \ {c} : work'[d] \in Written /\ work'[d] \notin RoutesPending
  BY NothingPending
<1>2. \A d \in Clients : (CopyIsFresh(d) /\ InOrder(d))'
  BY DEF Alone, CopyIsFresh, InOrder, Doing
<1>3. OneCall'
  BY DEF OneCall
<1> QED
  BY <1>1, <1>2, <1>3 DEF AgreeInv, Alone

LEMMA AllIsAlone ==
    ASSUME AgreeInv, NEW c \in Clients, work[c] # <<>> \/ Calm
    PROVE  Alone(c) /\ \A d \in Clients \ {c} : work[d] = <<>>
<1>1. \A d \in Clients \ {c} : work[d] = <<>>
  BY DEF AgreeInv, OneCall, Calm
<1>2. \A d \in Clients \ {c} : work[d] \in Written /\ work[d] \notin RoutesPending
  BY <1>1, NothingPending
<1> QED
  BY <1>1, <1>2 DEF AgreeInv, Alone

LEMMA HeadsOfWork ==
    ASSUME NEW w \in Works, w # <<>>
    PROVE  /\ Head(w) = "save" =>
                \/ w \in {<<"save">>, <<"save", "launch">>, <<"save", "clear">>}
                   /\ Tail(w) \in {<<>>, <<"launch">>, <<"clear">>}
                \/ w = <<"save", "routes">> /\ Tail(w) = <<"routes">>
           /\ Head(w) = "routes" =>
                \/ w = <<"routes">> /\ Tail(w) = <<>>
                \/ w = <<"routes", "save">> /\ Tail(w) = <<"save">>
           /\ Head(w) = "launch" => w = <<"launch">>
           /\ Head(w) = "clear" => w = <<"clear">> /\ Tail(w) = <<>>
           /\ Head(w) = "delete" => w = <<"delete", "deleteRoutes">> /\ Tail(w) = <<"deleteRoutes">>
           /\ Head(w) = "deleteRoutes" => w = <<"deleteRoutes">> /\ Tail(w) = <<>>
BY Shapes DEF StepsOf, Works

LEMMA DoneAlone ==
    ASSUME CallTypes, NEW c \in Clients, NEW steps, Then(c, steps),
           \A d \in Clients \ {c} : work[d] = <<>>
    PROVE  /\ work'[c] = steps /\ copy'[c] = None
           /\ \A d \in Clients \ {c} : work'[d] = <<>>
BY DEF Then, CallTypes

LEMMA RequestAgrees ==
    ASSUME ManagerTypes, ~crossed => AgreeInv, NEW c \in Clients, Request(c), ~crossed'
    PROVE  AgreeInv'
<1> USE DEF Begin, tableVars
<1>1. CallTypes /\ Calm /\ UNCHANGED <<provider, route, order>>
  BY DEF ManagerTypes, CallTypes, Request, Create, Prepare, StopProvider, Update, Remove, Overlapping, orderVars
<1>2. /\ \A d \in Clients \ {c} : work'[d] = <<>>
      /\ copy'[c] = None /\ CopyIsFresh(c)'
  <2>1. copy[c] = None
    BY <1>1, IdleHasNoCopy DEF Calm
  <2>2. copy'[c] = None /\ \A d \in Clients \ {c} : work'[d] = <<>>
    BY <1>1, <2>1 DEF Request, Create, Prepare, StopProvider, Update, Remove, Calm, CallTypes
  <2> QED
    BY <2>2 DEF CopyIsFresh
<1>3. ASSUME ~crossed PROVE RowAgrees /\ (status = "stopped" => route = kept)
  BY <1>1, <1>3 DEF AgreeInv, Calm, Written, RoutesPending
<1>4. Alone(c)'
  <2>1. CASE Create(c)
    <3>1. work'[c] = <<"save">> /\ status' = "pending"
      BY <1>1, <2>1 DEF Create, CallTypes
    <3> QED
      BY <1>2, <3>1 DEF Alone, InOrder, Removals, Written
  <2>2. CASE Prepare(c)
    <3>1. work'[c] = <<"save", "launch">> /\ status' = "starting"
      BY <1>1, <2>2 DEF Prepare, CallTypes
    <3> QED
      BY <1>2, <3>1 DEF Alone, InOrder, Removals, Written
  <2>3. CASE StopProvider(c)
    <3>1. work'[c] = <<"save", "routes">> /\ status' = "stopped"
      BY <1>1, <2>3 DEF StopProvider, AfterStop, CallTypes
    <3> QED
      BY <1>2, <3>1 DEF Alone, InOrder, Removals, Written, RoutesPending
  <2>4. CASE Update(c) /\ status = "running"
    <3>1. work'[c] = <<"routes", "save">> /\ status' = "stopped" /\ ~crossed
      BY <1>1, <2>4 DEF Update, Overlapping, CallTypes
    <3>2. provider' # None
      BY <1>1, <1>3, <2>4, <3>1 DEF RowAgrees
    <3> QED
      BY <1>2, <3>1, <3>2 DEF Alone, InOrder, Removals, Written, RoutesPending
  <2>5. CASE Update(c) /\ status # "running"
    <3>1. work'[c] = <<"save">> /\ UNCHANGED <<status, kept>> /\ ~crossed /\ status # "absent"
      BY <1>1, <2>5 DEF Update, Overlapping, CallTypes
    <3> QED
      BY <1>1, <1>2, <1>3, <3>1 DEF Alone, InOrder, Removals, Written
  <2>6. CASE Remove(c)
    <3>1. work'[c] = <<"delete", "deleteRoutes">> /\ status' = "absent"
      BY <1>1, <2>6 DEF Remove, CallTypes
    <3> QED
      BY <1>2, <3>1 DEF Alone, InOrder, Removals, Written
  <2> QED
    BY <2>1, <2>2, <2>3, <2>4, <2>5, <2>6 DEF Request
<1> QED
  BY <1>2, <1>4, AloneIsAll

LEMMA SnapshotAgrees ==
    ASSUME ManagerTypes, AgreeInv, NEW c \in Clients, Snapshot(c)
    PROVE  AgreeInv'
<1>1. CallTypes /\ work[c] # <<>> /\ UNCHANGED <<status, kept, provider, route, order>>
  BY DEF ManagerTypes, CallTypes, Snapshot, SnapshotFor, RouteSnapshots, Doing, tableVars, orderVars
<1>2. Alone(c) /\ \A d \in Clients \ {c} : work[d] = <<>>
  BY <1>1, AllIsAlone
<1>3. status # "absent"
  <2>1. work[c] \in Works /\ Head(work[c]) \in {"save", "routes"}
    BY <1>1 DEF CallTypes, Snapshot, SnapshotFor, RouteSnapshots, Doing
  <2>2. work[c] \notin Removals
    BY <1>1, <2>1, HeadsOfWork DEF Removals
  <2> QED
    BY <1>1, <1>2, <2>2 DEF Alone, InOrder
<1>4. UNCHANGED work
  BY <1>3 DEF Snapshot, SnapshotFor, RouteSnapshots, Copy
<1>5. CopyIsFresh(c)'
  <2>1. CASE SnapshotFor(c)
    BY <1>1, <1>3, <1>4, <2>1 DEF SnapshotFor, Copy, CopyIsFresh, Doing, CallTypes
  <2>2. CASE RouteSnapshots(c)
    BY <1>1, <1>3, <1>4, <2>2 DEF RouteSnapshots, Copy, CopyIsFresh, Doing, CallTypes
  <2> QED
    BY <2>1, <2>2 DEF Snapshot
<1>6. Alone(c)'
  BY <1>1, <1>2, <1>4, <1>5 DEF Alone, InOrder, RowAgrees
<1> QED
  BY <1>2, <1>4, <1>6, AloneIsAll

LEMMA WriteAgrees ==
    ASSUME ManagerTypes, AgreeInv, NEW c \in Clients, Write(c), ~crossed'
    PROVE  AgreeInv'
<1> USE DEF tableVars, orderVars
<1>1. CallTypes /\ work[c] # <<>> /\ work[c] \in Works /\ Done(c) /\ UNCHANGED <<status, kept, order>>
  BY DEF ManagerTypes, CallTypes, Write, SaveProvider, SaveRoutes, DeleteProvider, DeleteRoutes, Doing
<1>2. Alone(c) /\ \A d \in Clients \ {c} : work[d] = <<>>
  BY <1>1, AllIsAlone
<1>3. /\ work'[c] = Tail(work[c]) /\ copy'[c] = None
      /\ \A d \in Clients \ {c} : work'[d] = <<>>
  BY <1>1, <1>2, DoneAlone DEF Done
<1>4. CopyIsFresh(c)'
  BY <1>3 DEF CopyIsFresh
<1>5. CASE SaveProvider(c)
  <2>1. copy[c] = [status |-> status] /\ provider' = copy[c].status /\ UNCHANGED route
    BY <1>2, <1>5 DEF SaveProvider, StoreFails, Alone, CopyIsFresh
  <2>2. provider' = status /\ status \in Statuses
    BY <1>1, <1>5, <2>1, SavedStatus DEF SaveProvider
  <2>3. provider' # None /\ status # "absent"
    BY <2>2, LedgerAssumption DEF Statuses
  <2>4. RowAgrees'
    BY <1>1, <2>2, <2>3 DEF RowAgrees
  <2>5. CASE /\ work[c] \in {<<"save">>, <<"save", "launch">>, <<"save", "clear">>}
             /\ work'[c] \in {<<>>, <<"launch">>, <<"clear">>}
    <3>1. InOrder(c)'
      BY <1>1, <2>3, <2>5 DEF InOrder, Removals
    <3>2. work[c] \notin RoutesPending
      BY <2>5 DEF RoutesPending
    <3> QED
      BY <1>1, <1>2, <1>3, <1>4, <2>1, <2>4, <3>1, <3>2, AloneIsAll DEF Alone
  <2>6. CASE work'[c] = <<"routes">>
    <3>1. InOrder(c)' /\ work'[c] \in RoutesPending
      BY <1>1, <2>3, <2>6 DEF InOrder, Removals, RoutesPending
    <3> QED
      BY <1>3, <1>4, <2>4, <3>1, AloneIsAll DEF Alone
  <2> QED
    BY <1>1, <1>3, <1>5, <2>5, <2>6, HeadsOfWork DEF SaveProvider, Doing
<1>6. CASE SaveRoutes(c)
  <2>1. work[c] \in {<<"routes">>, <<"routes", "save">>}
    BY <1>1, <1>6, HeadsOfWork DEF SaveRoutes, Doing
  <2>2. copy[c] = [kept |-> kept] /\ provider # None /\ kept \in BOOLEAN
    BY <1>2, <1>6, <2>1 DEF SaveRoutes, Alone, CopyIsFresh, InOrder, ManagerTypes
  <2>3. route' = kept /\ UNCHANGED provider
    BY <1>6, <2>2 DEF SaveRoutes, StoreFails, HasProviderId
  <2>4. CASE work[c] = <<"routes">> /\ work'[c] = <<>>
    BY <1>1, <1>2, <1>3, <1>4, <2>3, <2>4, AloneIsAll DEF Alone, InOrder, Written, RowAgrees
  <2>5. CASE work[c] = <<"routes", "save">> /\ work'[c] = <<"save">>
    <3>1. work[c] \notin Removals /\ work'[c] \notin Removals
      BY <2>5 DEF Removals
    <3>2. InOrder(c)'
      BY <1>1, <1>2, <2>5, <3>1 DEF Alone, InOrder
    <3>3. work'[c] \notin Written
      BY <2>5 DEF Written
    <3> QED
      BY <1>1, <1>3, <1>4, <2>3, <3>2, <3>3, AloneIsAll DEF Alone
  <2> QED
    BY <1>1, <1>3, <1>6, <2>4, <2>5, HeadsOfWork DEF SaveRoutes, Doing
<1>7. CASE DeleteProvider(c)
  <2>1. work[c] = <<"delete", "deleteRoutes">> /\ work'[c] = <<"deleteRoutes">>
    BY <1>1, <1>3, <1>7, HeadsOfWork DEF DeleteProvider, Doing
  <2>2. status = "absent" /\ (provider' = None \/ order # None)
    BY <1>2, <1>7, <2>1 DEF Alone, InOrder, Removals, DeleteProvider, StoreFails
  <2>3. InOrder(c)' /\ RowAgrees'
    BY <1>1, <2>1, <2>2 DEF InOrder, Removals, RowAgrees
  <2> QED
    BY <1>1, <1>3, <1>4, <2>2, <2>3, AloneIsAll DEF Alone
<1>8. CASE DeleteRoutes(c)
  <2>1. work[c] = <<"deleteRoutes">> /\ work'[c] = <<>>
    BY <1>1, <1>3, <1>8, HeadsOfWork DEF DeleteRoutes, Doing
  <2>2. status = "absent" /\ RowAgrees /\ UNCHANGED provider
    BY <1>2, <1>8, <2>1 DEF Alone, InOrder, Removals, Written, DeleteRoutes, StoreFails
  <2> QED
    BY <1>1, <1>3, <1>4, <2>1, <2>2, AloneIsAll DEF Alone, InOrder, RowAgrees
<1> QED
  BY <1>5, <1>6, <1>7, <1>8 DEF Write

LEMMA LaunchAgrees ==
    ASSUME ManagerTypes, AgreeInv, NEW c \in Clients, Launch(c)
    PROVE  AgreeInv'
<1>1. CallTypes /\ work[c] # <<>> /\ work[c] \in Works /\ UNCHANGED <<provider, route, order>>
  BY DEF ManagerTypes, CallTypes, Launch, LaunchSucceeds, LaunchFails, ClearCachedRoutes, Doing, tableVars, orderVars
<1>2. Alone(c) /\ \A d \in Clients \ {c} : work[d] = <<>>
  BY <1>1, AllIsAlone
<1>3. ASSUME Doing(c, "launch") PROVE status # "absent"
  <2>1. work[c] = <<"launch">>
    BY <1>1, <1>3, HeadsOfWork DEF Doing
  <2> QED
    BY <1>2, <2>1 DEF Alone, InOrder, Removals
<1>4. CASE LaunchSucceeds(c)
  <2>1. Then(c, <<"save", "clear">>) /\ status' = "running"
    BY <1>3, <1>4 DEF LaunchSucceeds
  <2>2. /\ work'[c] = <<"save", "clear">> /\ copy'[c] = None
        /\ \A d \in Clients \ {c} : work'[d] = <<>>
    BY <1>1, <1>2, <2>1, DoneAlone
  <2> QED
    BY <2>1, <2>2, AloneIsAll DEF Alone, CopyIsFresh, InOrder, Removals, Written
<1>5. CASE LaunchFails(c)
  <2>1. Then(c, <<"save">>) /\ status' = "failed"
    BY <1>3, <1>5 DEF LaunchFails, AfterFailure
  <2>2. /\ work'[c] = <<"save">> /\ copy'[c] = None
        /\ \A d \in Clients \ {c} : work'[d] = <<>>
    BY <1>1, <1>2, <2>1, DoneAlone
  <2> QED
    BY <2>1, <2>2, AloneIsAll DEF Alone, CopyIsFresh, InOrder, Removals, Written
<1>6. CASE ClearCachedRoutes(c)
  <2>1. work[c] = <<"clear">> /\ Tail(work[c]) = <<>>
    BY <1>1, <1>6, HeadsOfWork DEF ClearCachedRoutes, Doing
  <2>2. /\ work'[c] = <<>> /\ copy'[c] = None
        /\ \A d \in Clients \ {c} : work'[d] = <<>>
    BY <1>1, <1>2, <1>6, <2>1, DoneAlone DEF ClearCachedRoutes, Done
  <2>3. RowAgrees /\ (status = "stopped" => route = kept)
    BY <1>2, <2>1 DEF Alone, Written, RoutesPending
  <2>4. status' = status /\ (status = "stopped" => kept' = kept)
    BY <1>6 DEF ClearCachedRoutes, ManagerTypes
  <2> QED
    BY <1>1, <2>2, <2>3, <2>4, AloneIsAll DEF Alone, CopyIsFresh, InOrder, RowAgrees
<1> QED
  BY <1>4, <1>5, <1>6 DEF Launch

LEMMA CrashAgrees ==
    ASSUME ManagerTypes, CrashAndRestore
    PROVE  AgreeInv'
<1>1. \A c \in Clients : work'[c] = <<>> /\ copy'[c] = None
  BY DEF CrashAndRestore
<1>2. UNCHANGED <<provider, route, order>>
  BY DEF CrashAndRestore, tableVars
<1>3. RowAgrees' /\ (status' = "stopped" => route' = kept')
  <2>1. CASE provider = None
    BY <1>2, <2>1 DEF CrashAndRestore, LoadProviders, RowAgrees
  <2>2. CASE provider # None
    <3>1. status' = NormalizeRestoredStatus(provider) /\ kept' = route
      BY <2>2 DEF CrashAndRestore, LoadProviders, Restore, LoadRoutes
    <3> QED
      BY <1>2, <2>2, <3>1 DEF RowAgrees, NormalizeRestoredStatus, ManagerTypes, Statuses
  <2> QED
    BY <2>1, <2>2
<1> QED
  BY <1>1, <1>3 DEF AgreeInv, OneCall, CopyIsFresh, InOrder, Doing

LEMMA AgreeStep ==
    ASSUME ManagerTypes, ListedInv, ~crossed => AgreeInv, [LedgerNext]_ledgerVars, ~crossed'
    PROVE  AgreeInv'
<1> USE DEF ledgerVars, managerVars, tableVars
<1>1. ASSUME NEW c \in Clients, Request(c) PROVE AgreeInv'
  BY <1>1, RequestAgrees
<1>2. ASSUME NEW c \in Clients, Snapshot(c) PROVE AgreeInv'
  BY <1>2, SnapshotAgrees DEF Snapshot
<1>3. ASSUME NEW c \in Clients, Write(c) PROVE AgreeInv'
  <2>1. ~crossed
    BY <1>3 DEF Write, SaveProvider, SaveRoutes, DeleteProvider, DeleteRoutes, StoreFails, Stored
  <2> QED
    BY <1>3, <2>1, WriteAgrees
<1>4. ASSUME NEW c \in Clients, Launch(c) PROVE AgreeInv'
  BY <1>4, LaunchAgrees DEF Launch
<1>5. CASE CrashAndRestore
  BY <1>5, CrashAgrees
<1>6. CASE UNCHANGED <<managerVars, tableVars>>
  <2>1. AgreeInv /\ (order # None => order' # None)
    BY <1>6, OrderStays
  <2> QED
    BY <1>6, <2>1 DEF AgreeInv, OneCall, CopyIsFresh, InOrder, Doing, RowAgrees
<1> QED
  BY <1>1, <1>2, <1>3, <1>4, <1>5, <1>6
     DEF LedgerNext, CreateOrder, VenueReports, PersistExecReport, Credit, PersistBalance

LedgerInv == ManagerTypes /\ ListedInv /\ (~crossed => AgreeInv)

LEMMA LedgerInvariant == LedgerSpec => []LedgerInv
<1>1. LedgerInit => AgreeInv
  BY DEF LedgerInit, AgreeInv, OneCall, CopyIsFresh, InOrder, Doing, RowAgrees
<1>2. LedgerInit => LedgerInv
  BY <1>1, ListedInit DEF LedgerInv
<1>3. LedgerInv /\ [LedgerNext]_ledgerVars => LedgerInv'
  BY ManagerStep, EventStep, RowStep, BalanceStep, AgreeStep DEF LedgerInv, ListedInv
<1> QED
  BY <1>2, <1>3, PTL DEF LedgerSpec

\* Executions, orders and balances are listed as they were reported, for any quantity
\* ordered and any number of calls, starts, reports, failures and crashes.
THEOREM WhatIsStoredIsListed == LedgerSpec => []StoredIsListed
<1>1. LedgerInv => StoredIsListed
  BY ListedShown DEF LedgerInv
<1> QED
  BY <1>1, LedgerInvariant, PTL

\* Between calls that have not overlapped the tables restore what the manager has, with
\* any number of callers.
THEOREM RestartRestores == LedgerSpec => []RestartAgrees
<1>1. LedgerInv => RestartAgrees
  <2> SUFFICES ASSUME LedgerInv, Calm, ~crossed PROVE RestartAgrees
    BY DEF RestartAgrees
  <2>1. RowAgrees /\ (status = "stopped" => route = kept)
    BY DEF LedgerInv, AgreeInv, Calm, Written, RoutesPending
  <2> QED
    BY <2>1 DEF RestartAgrees, RowAgrees
<1> QED
  BY <1>1, LedgerInvariant, PTL

\* The manager's calls, the tables and the events stay well-formed.
THEOREM LedgerTypes == LedgerSpec => [](ManagerTypes /\ EventTypes /\ RowTypes)
<1>1. LedgerInv => ManagerTypes /\ EventTypes /\ RowTypes
  BY DEF LedgerInv, ListedInv
<1> QED
  BY <1>1, LedgerInvariant, PTL

-------------------------------------------------------------------------------
(* Orders *)

USE RiskAssumption, FlowAssumption
USE DEF riskVars, flowVars, vars

-------------------------------------------------------------------------------
(* The halt *)

\* A step taken while trading is halted and its cooldown is not over registers
\* no order (ensureTradingActiveLocked).
LEMMA HaltedStep ==
    ASSUME [Next]_vars, halt.engaged, halt.cooldown # "over"
    PROVE  Registered' \subseteq Registered
<1>1. Halted
  BY DEF Halted, Lifted
<1>2. CASE filled' = filled
  BY <1>2 DEF Registered
<1>3. ASSUME NEW o \in Orders, Check(o)
      PROVE  filled' = filled
  BY <1>1, <1>3 DEF Check, Register, RefuseHalted, RefuseOrder
<1>4. ASSUME NEW r, HandleExecution(r)
      PROVE  Registered' \subseteq Registered
  <2>1. CASE r.order \in Registered /\ r.state \in Terminal
    BY <1>4, <2>1 DEF HandleExecution, Execute, Registered, Restrict
  <2>2. CASE r.order \in Registered /\ r.state \notin Terminal
    BY <1>4, <2>2 DEF HandleExecution, Execute, Registered
  <2>3. CASE r.order \notin Registered
    BY <1>4, <2>3 DEF HandleExecution, Registered
  <2> QED
    BY <2>1, <2>2, <2>3
<1>5. ASSUME NEW o \in Orders, SubmitOrder(o) \/ Venue(o)
      PROVE  filled' = filled
  BY <1>3, <1>5
     DEF SubmitOrder, Venue, Acquire, Persist, Reach, Answer, RecordFailure, Fill, End
<1>6. ASSUME NEW l \in Lambdas, NEW r \in reports, Handle(l, r)
      PROVE  Registered' \subseteq Registered
  BY <1>4, <1>6 DEF Handle
<1>7. CASE RiskControl \/ UNCHANGED vars
  BY <1>2, <1>7 DEF RiskControl, Cooled, UpdateLimits
<1> QED
  BY <1>2, <1>5, <1>6, <1>7 DEF Next

\* While trading is halted and its cooldown is not over, no step of any lambda,
\* venue, clock or operator registers an order.
THEOREM TradingStaysHalted == Spec => HaltHolds
BY HaltedStep, PTL DEF Spec, HaltHolds

-------------------------------------------------------------------------------
(* The slots *)

LEMMA SlotsFinite ==
    ASSUME Registered \subseteq Orders, NEW s \in Symbols
    PROVE  IsFiniteSet(SlotsOf(s)) /\ Cardinality(SlotsOf(s)) \in Nat
BY FS_Subset, FS_CardinalityType DEF SlotsOf

LEMMA SlotInit == Init => SlotInv
<1> SUFFICES ASSUME Init PROVE SlotInv
  OBVIOUS
<1>1. Registered = {}
  BY DEF Init, RiskInit, Registered
<1>2. \A s \in Symbols : SlotsOf(s) = {}
  BY <1>1 DEF SlotsOf
<1> QED
  BY <1>1, <1>2, FS_EmptySet DEF Init, RiskInit, SlotInv, Stages, SlotsAreOrders

\* A step that leaves the registered orders, the slots and the stages before the
\* check alone, or takes an order out of those stages.
LEMMA SlotsUntouched ==
    ASSUME SlotInv, UNCHANGED <<filled, inflight>>, stage' \in [Orders -> Stages],
           \A o \in Orders : stage'[o] \in {"new", "check"} => stage[o] \in {"new", "check"}
    PROVE  SlotInv'
<1>1. Registered' = Registered
  BY DEF Registered
<1>2. \A s \in Symbols : SlotsOf(s)' = SlotsOf(s)
  BY <1>1 DEF SlotsOf
<1> QED
  BY <1>1, <1>2 DEF SlotInv, SlotsAreOrders

LEMMA RegisterSlots ==
    ASSUME SlotInv, NEW o \in Orders, stage[o] = "check", Register(o), Goto(o, "persist")
    PROVE  SlotInv'
<1> DEFINE t == SymbolOf[o]
<1>1. Registered' = Registered \union {o} /\ o \notin Registered /\ t \in Symbols
  BY DEF Register, Registered, SlotInv
<1>2. \A s \in Symbols : SlotsOf(s)' = IF s = t THEN SlotsOf(s) \union {o} ELSE SlotsOf(s)
  BY <1>1 DEF SlotsOf
<1>3. inflight' = [inflight EXCEPT ![t] = @ + 1]
  BY DEF Register
<1>4. ASSUME NEW s \in Symbols
      PROVE  Cardinality(SlotsOf(s)') = inflight'[s]
  <2>1. Cardinality(SlotsOf(s)) = inflight[s] /\ inflight[s] \in Nat
    BY DEF SlotInv, SlotsAreOrders
  <2>2. o \notin SlotsOf(s) /\ IsFiniteSet(SlotsOf(s))
    BY <1>1, SlotsFinite DEF SlotInv, SlotsOf
  <2>3. Cardinality(SlotsOf(s) \union {o}) = Cardinality(SlotsOf(s)) + 1
    BY <2>2, FS_AddElement
  <2> QED
    BY <1>2, <1>3, <2>1, <2>3 DEF SlotInv
<1>5. SlotsAreOrders'
  BY <1>4 DEF SlotsAreOrders
<1>6. inflight' \in [Symbols -> Nat] /\ Registered' \subseteq Orders
  BY <1>1, <1>3 DEF SlotInv
<1>7. /\ stage' \in [Orders -> Stages]
      /\ \A p \in Orders : stage'[p] \in {"new", "check"} => p # o /\ stage[p] \in {"new", "check"}
  BY DEF SlotInv, Goto, Stages
<1> QED
  BY <1>1, <1>5, <1>6, <1>7 DEF SlotInv

LEMMA ExecuteSlots ==
    ASSUME SlotInv, NEW r, HandleExecution(r), UNCHANGED stage
    PROVE  SlotInv'
<1>1. CASE r.order \in Registered /\ r.state \in Terminal
  <2> DEFINE o == r.order
             t == SymbolOf[o]
  <2>1. o \in Orders /\ t \in Symbols
    BY <1>1 DEF SlotInv
  <2>2. Registered' = Registered \ {o}
    BY <1>1 DEF HandleExecution, Execute, Registered, Restrict
  <2>3. \A s \in Symbols : SlotsOf(s)' = IF s = t THEN SlotsOf(s) \ {o} ELSE SlotsOf(s)
    BY <2>1, <2>2 DEF SlotsOf
  <2>4. inflight' = [inflight EXCEPT ![t] = Release(@)]
    BY <1>1 DEF HandleExecution, Execute
  <2>5. ASSUME NEW s \in Symbols
        PROVE  Cardinality(SlotsOf(s)') = inflight'[s]
    <3>1. Cardinality(SlotsOf(s)) = inflight[s] /\ inflight[s] \in Nat
      BY DEF SlotInv, SlotsAreOrders
    <3>2. CASE s # t
      BY <2>3, <2>4, <3>1, <3>2 DEF SlotInv
    <3>3. CASE s = t
      <4>1. o \in SlotsOf(s) /\ IsFiniteSet(SlotsOf(s))
        BY <1>1, <3>3, SlotsFinite DEF SlotInv, SlotsOf
      <4>2. Cardinality(SlotsOf(s) \ {o}) = Cardinality(SlotsOf(s)) - 1
        BY <4>1, FS_RemoveElement
      <4>3. inflight[s] > 0
        BY <3>1, <4>1, FS_EmptySet
      <4>4. inflight'[s] = inflight[s] - 1
        BY <2>4, <3>3, <4>3 DEF SlotInv, Release
      <4> QED
        BY <2>3, <3>1, <3>3, <4>2, <4>4
    <3> QED
      BY <3>2, <3>3
  <2>6. SlotsAreOrders'
    BY <2>5 DEF SlotsAreOrders
  <2>7. inflight' \in [Symbols -> Nat]
    BY <2>1, <2>4 DEF SlotInv, Release
  <2> QED
    BY <2>2, <2>6, <2>7 DEF SlotInv
<1>2. CASE r.order \in Registered /\ r.state \notin Terminal
  <2>1. Registered' = Registered /\ inflight' = inflight
    BY <1>2 DEF HandleExecution, Execute, Registered
  <2>2. \A s \in Symbols : SlotsOf(s)' = SlotsOf(s)
    BY <2>1 DEF SlotsOf
  <2> QED
    BY <2>1, <2>2 DEF SlotInv, SlotsAreOrders
<1>3. CASE r.order \notin Registered
  BY <1>3, SlotsUntouched DEF HandleExecution, SlotInv
<1> QED
  BY <1>1, <1>2, <1>3

LEMMA SlotStep == SlotInv /\ [Next]_vars => SlotInv'
<1> SUFFICES ASSUME SlotInv, [Next]_vars PROVE SlotInv'
  OBVIOUS
<1>1. ASSUME NEW o \in Orders, Acquire(o)
      PROVE  SlotInv'
  BY <1>1, SlotsUntouched DEF Acquire, Goto, SlotInv, Stages
<1>2. ASSUME NEW o \in Orders, Check(o)
      PROVE  SlotInv'
  <2>1. CASE Register(o) /\ Goto(o, "persist")
    BY <1>2, <2>1, RegisterSlots DEF Check
  <2>2. CASE UNCHANGED <<filled, inflight>> /\ Goto(o, "refused")
    BY <2>2, SlotsUntouched DEF Goto, SlotInv, Stages
  <2> QED
    BY <1>2, <2>1, <2>2 DEF Check, RefuseHalted, RefuseOrder
<1>3. ASSUME NEW o \in Orders, Persist(o) \/ Reach(o) \/ Answer(o) \/ RecordFailure(o)
      PROVE  SlotInv'
  BY <1>3, SlotsUntouched
     DEF Persist, Reach, Answer, RecordFailure, Goto, SlotInv, Stages
<1>4. ASSUME NEW o \in Orders, Venue(o)
      PROVE  SlotInv'
  BY <1>4, SlotsUntouched DEF Venue, Fill, End, SlotInv
<1>5. ASSUME NEW l \in Lambdas, NEW r \in reports, Handle(l, r)
      PROVE  SlotInv'
  BY <1>5, ExecuteSlots DEF Handle
<1>6. CASE RiskControl \/ UNCHANGED vars
  BY <1>6, SlotsUntouched DEF RiskControl, Cooled, UpdateLimits, SlotInv
<1> QED
  BY <1>1, <1>2, <1>3, <1>4, <1>5, <1>6 DEF Next, SubmitOrder

\* The slots the manager counts for a symbol are its registered orders, whatever
\* reports come, however often and in whatever order (enforceConcurrencyLocked and
\* releaseOrderLocked).
THEOREM SlotsAreExact == Spec => []SlotsAreOrders
<1>1. SlotInv => SlotsAreOrders
  BY DEF SlotInv
<1> QED
  BY SlotInit, SlotStep, <1>1, PTL DEF Spec

-------------------------------------------------------------------------------
(* Types *)

HaltStates == [failures : Nat, engaged : BOOLEAN, cooldown : {"unset", "running", "over"}]

LEMMA HaltTyped ==
    ASSUME limits \in LimitSets, NEW h \in HaltStates
    PROVE  /\ Lifted(h) \in HaltStates
           /\ Breach(h) \in HaltStates
           /\ \A p : AfterFill(h, p) \in HaltStates
           /\ \A r : AfterReject(h, r) \in HaltStates
<1>1. ASSUME NEW g \in HaltStates PROVE Engage(g) \in HaltStates
  BY <1>1 DEF Engage, HaltStates
<1>2. ASSUME NEW g \in HaltStates PROVE [g EXCEPT !.failures = @ + 1] \in HaltStates
  BY <1>2 DEF HaltStates
<1>3. ASSUME NEW g \in HaltStates PROVE Breach(g) \in HaltStates
  BY <1>1, <1>2, <1>3 DEF Breach
<1>4. Lifted(h) \in HaltStates
  BY DEF Lifted, HaltStates
<1> QED
  BY <1>1, <1>3, <1>4 DEF AfterFill, AfterReject

LEMMA QuantityIs ==
    ASSUME NEW o \in Orders
    PROVE  /\ Quantity(o) \in Nat /\ Signed[o] \in Int
           /\ Sign(o) \in Int /\ Sign(o) \in {-1, 1} /\ Signed[o] = Sign(o) * Quantity(o)
<1>1. Signed[o] \in Int
  OBVIOUS
<1>2. CASE Signed[o] < 0
  BY <1>1, <1>2 DEF Quantity, Magnitude, Sign
<1>3. CASE ~(Signed[o] < 0)
  BY <1>1, <1>3 DEF Quantity, Magnitude, Sign
<1> QED
  BY <1>2, <1>3

\* What the check of an order does to the manager's state.
LEMMA CheckTyped ==
    ASSUME TypeOK, NEW o \in Orders, Check(o)
    PROVE  TypeOK'
<1>1. halt \in HaltStates /\ limits \in LimitSets
  BY DEF TypeOK, RiskTypeOK, HaltStates
<1>2. halt' \in HaltStates /\ limits' = limits
  BY <1>1, HaltTyped DEF Check, Register, RefuseHalted, RefuseOrder
<1>3. stage' \in [Orders -> Stages]
  BY DEF Check, Goto, TypeOK, Stages
<1>4. position' \in [Symbols -> Int] /\ inflight' \in [Symbols -> Nat]
  BY DEF Check, Register, RefuseHalted, RefuseOrder, TypeOK, RiskTypeOK
<1>5. Registered' \subseteq Orders /\ \A p \in Registered' : filled'[p] \in 0..Quantity(p)
  <2>1. CASE Register(o)
    <3>1. filled' = [p \in Registered \union {o} |-> IF p = o THEN 0 ELSE filled[p]]
      BY <2>1 DEF Register
    <3> QED
      BY <3>1, QuantityIs DEF TypeOK, RiskTypeOK, Registered
  <2>2. CASE UNCHANGED filled
    BY <2>2 DEF TypeOK, RiskTypeOK, Registered
  <2> QED
    BY <2>1, <2>2 DEF Check, RefuseHalted, RefuseOrder
<1> QED
  BY <1>1, <1>2, <1>3, <1>4, <1>5 DEF Check, TypeOK, RiskTypeOK, HaltStates

\* What the manager makes of a report: it has seen filled what the report says, if
\* that is more than it had seen.
LEMMA ExecuteFacts ==
    ASSUME TypeOK, OrderInv, ReportInv, NEW r \in reports, r.order \in Registered, Execute(r)
    PROVE  LET o == r.order IN
           /\ o \in Orders /\ SymbolOf[o] \in Symbols
           /\ Fresh(r) \in Nat /\ filled[o] + Fresh(r) <= venue[o].filled
           /\ r.state \in Terminal => filled[o] + Fresh(r) = venue[o].filled
           /\ position' = [position EXCEPT ![SymbolOf[o]] = @ + Sign(o) * Fresh(r)]
           /\ \A p \in Orders \ {o} : /\ p \in Registered' <=> p \in Registered
                                      /\ p \in Registered => filled'[p] = filled[p]
           /\ Registered' \subseteq Registered
           /\ r.state \in Terminal => o \notin Registered'
           /\ r.state \notin Terminal => o \in Registered' /\ filled'[o] = filled[o] + Fresh(r)
<1>a. PICK o : o = r.order
  OBVIOUS
<1>1. /\ o \in Orders /\ SymbolOf[o] \in Symbols /\ r.cum \in Nat
      /\ filled[o] \in Nat /\ venue[o].filled \in Nat /\ filled[o] <= venue[o].filled
  BY <1>a DEF TypeOK, RiskTypeOK, Reports, OrderInv
<1>2. /\ r.cum <= venue[o].filled
      /\ r.state \in Terminal => r.cum = venue[o].filled
  BY <1>a DEF ReportInv
<1>3. /\ Fresh(r) \in Nat /\ filled[o] + Fresh(r) <= venue[o].filled
      /\ r.state \in Terminal => filled[o] + Fresh(r) = venue[o].filled
  BY <1>a, <1>1, <1>2 DEF Fresh
<1>4. position' = [position EXCEPT ![SymbolOf[o]] = @ + Sign(o) * Fresh(r)]
  BY <1>a, <1>1 DEF Execute, TypeOK, RiskTypeOK
<1>5. CASE r.state \in Terminal
  <2>1. filled' = [p \in Registered \ {o} |-> filled[p]]
    BY <1>a, <1>5 DEF Execute, Restrict, Registered
  <2> QED
    BY <1>a, <1>1, <1>3, <1>4, <1>5, <2>1 DEF Registered
<1>6. CASE r.state \notin Terminal
  <2>1. filled' = [filled EXCEPT ![o] = @ + Fresh(r)]
    BY <1>a, <1>6 DEF Execute
  <2> QED
    BY <1>a, <1>1, <1>3, <1>4, <1>6, <2>1 DEF Registered
<1> QED
  BY <1>5, <1>6

LEMMA ExecuteTyped ==
    ASSUME TypeOK, OrderInv, ReportInv, NEW r \in reports, r.order \in Registered, Execute(r)
    PROVE  RiskTypeOK'
<1>a. PICK o : o = r.order
  OBVIOUS
<1>1. halt \in HaltStates /\ limits \in LimitSets
  BY DEF TypeOK, RiskTypeOK, HaltStates
<1>2. halt' \in HaltStates
  <2>1. \A p : AfterFill(halt, p) \in HaltStates
    BY <1>1, HaltTyped
  <2>2. PICK h \in HaltStates : halt' = AfterReject(h, r)
    BY <1>1, <2>1 DEF Execute
  <2> QED
    BY <1>1, <2>2, HaltTyped
<1>3. /\ o \in Orders /\ SymbolOf[o] \in Symbols
      /\ Fresh(r) \in Nat /\ filled[o] + Fresh(r) <= venue[o].filled
      /\ position' = [position EXCEPT ![SymbolOf[o]] = @ + Sign(o) * Fresh(r)]
      /\ \A p \in Orders \ {o} : /\ p \in Registered' <=> p \in Registered
                                 /\ p \in Registered => filled'[p] = filled[p]
      /\ Registered' \subseteq Registered
      /\ o \in Registered' => filled'[o] = filled[o] + Fresh(r)
  BY <1>a, ExecuteFacts
<1>4. Sign(o) \in Int /\ Quantity(o) \in Nat
  BY <1>3, QuantityIs
<1>5. position' \in [Symbols -> Int]
  <2>1. Sign(o) * Fresh(r) \in Int
    BY <1>3, <1>4
  <2> QED
    BY <1>3, <2>1 DEF TypeOK, RiskTypeOK
<1>6. inflight' \in [Symbols -> Nat]
  BY <1>a, <1>3 DEF Execute, TypeOK, RiskTypeOK, Release
<1>7. ASSUME NEW p \in Registered' PROVE filled'[p] \in 0..Quantity(p)
  <2>1. CASE p # o
    BY <1>3, <1>7, <2>1 DEF TypeOK, RiskTypeOK
  <2>2. CASE p = o
    <3>1. filled[o] \in Nat /\ venue[o].filled \in Nat /\ venue[o].filled <= Quantity(o)
      BY <1>3, <1>4, <1>7, <2>2 DEF TypeOK, RiskTypeOK, OrderInv
    <3> QED
      BY <1>3, <1>4, <1>7, <2>2, <3>1
  <2> QED
    BY <2>1, <2>2
<1>8. limits' \in LimitSets /\ Registered' \subseteq Orders
  BY <1>1, <1>3 DEF Execute, TypeOK, RiskTypeOK
<1> QED
  BY <1>2, <1>5, <1>6, <1>7, <1>8 DEF RiskTypeOK, HaltStates

\* What the venue does to an order, and what it reports of that.
LEMMA VenueFacts ==
    ASSUME TypeOK, OrderInv, NEW o \in Orders, Venue(o)
    PROVE  \E n \in Nat, s \in {"open", "closed"}, e \in ReportStates :
              /\ venue' = [venue EXCEPT ![o] = [state |-> s, filled |-> n]]
              /\ reports' = reports \union {[order |-> o, cum |-> n, state |-> e]}
              /\ venue[o].filled <= n /\ n <= Quantity(o)
              /\ e \in Terminal => s = "closed"
<1>1. /\ venue[o].filled \in Nat /\ Quantity(o) \in Nat /\ venue[o].filled <= Quantity(o)
      /\ venue[o] \in [state : {"none", "open", "closed"}, filled : Nat]
  BY QuantityIs DEF TypeOK, OrderInv
<1>2. CASE Fill(o)
  <2>1. PICK n \in (venue[o].filled + 1)..Quantity(o) :
              /\ venue' = [venue EXCEPT ![o] = [state |-> IF n = Quantity(o) THEN "closed" ELSE "open",
                                           filled |-> n]]
              /\ reports' = reports \union {[order |-> o, cum |-> n,
                                   state |-> IF n = Quantity(o) THEN "FILLED" ELSE "PARTIAL"]}
    BY <1>2 DEF Fill, Report
  <2>2. n \in Nat /\ venue[o].filled <= n /\ n <= Quantity(o)
    BY <1>1, <2>1
  <2>3. CASE n = Quantity(o)
    <3>1. "closed" \in {"open", "closed"} /\ "FILLED" \in ReportStates
      BY DEF ReportStates, Terminal
    <3>2. /\ venue' = [venue EXCEPT ![o] = [state |-> "closed", filled |-> n]]
          /\ reports' = reports \union {[order |-> o, cum |-> n, state |-> "FILLED"]}
      BY <2>1, <2>3
    <3> QED
      BY <2>2, <3>1, <3>2, Zenon
  <2>4. CASE n # Quantity(o)
    <3>1. "open" \in {"open", "closed"} /\ "PARTIAL" \in ReportStates /\ "PARTIAL" \notin Terminal
      BY DEF ReportStates, Terminal
    <3>2. /\ venue' = [venue EXCEPT ![o] = [state |-> "open", filled |-> n]]
          /\ reports' = reports \union {[order |-> o, cum |-> n, state |-> "PARTIAL"]}
      BY <2>1, <2>4
    <3> QED
      BY <2>2, <3>1, <3>2, Zenon
  <2> QED
    BY <2>3, <2>4
<1>3. CASE End(o)
  <2>1. PICK e \in {"CANCELLED", "REJECTED", "EXPIRED"} :
              /\ venue' = [venue EXCEPT ![o].state = "closed"]
              /\ reports' = reports \union {[order |-> o, cum |-> venue[o].filled, state |-> e]}
    BY <1>3 DEF End, Report
  <2>2. e \in ReportStates /\ "closed" \in {"open", "closed"} /\ venue[o].filled <= venue[o].filled
    BY <1>1, <2>1 DEF ReportStates, Terminal
  <2>3. [venue[o] EXCEPT !.state = "closed"] = [state |-> "closed", filled |-> venue[o].filled]
    BY <1>1
  <2>4. venue' = [venue EXCEPT ![o] = [state |-> "closed", filled |-> venue[o].filled]]
    BY <2>1, <2>3, Zenon
  <2> QED
    BY <1>1, <2>1, <2>2, <2>4, Zenon
<1> QED
  BY <1>2, <1>3 DEF Venue

LEMMA TypeStep ==
    ASSUME TypeOK, OrderInv, ReportInv, [Next]_vars
    PROVE  TypeOK'
<1>1. ASSUME NEW o \in Orders, Acquire(o) \/ Persist(o) \/ Reach(o) \/ Answer(o) \/ RecordFailure(o)
      PROVE  TypeOK'
  <2>1. RiskTypeOK'
    BY <1>1 DEF Acquire, Persist, Reach, Answer, RecordFailure, TypeOK, RiskTypeOK, Registered
  <2>2. stage' \in [Orders -> Stages]
    BY <1>1 DEF Acquire, Persist, Reach, Answer, RecordFailure, TypeOK, Goto, Stages
  <2>3. row' \in [Orders -> RowStates]
    BY <1>1 DEF Acquire, Persist, Reach, Answer, RecordFailure, TypeOK, RowStates, ReportStates, Terminal
  <2>4. venue' \in [Orders -> [state : {"none", "open", "closed"}, filled : Nat]]
    BY <1>1 DEF Acquire, Persist, Reach, Answer, RecordFailure, TypeOK
  <2>5. reports' \subseteq Reports
    BY <1>1 DEF Acquire, Persist, Reach, Answer, RecordFailure, TypeOK, Reports, ReportStates
  <2>6. faults' \in 0..MaxFaults
    BY <1>1 DEF Acquire, Persist, Reach, Answer, RecordFailure, TypeOK, Fault, NoFault
  <2> QED
    BY <2>1, <2>2, <2>3, <2>4, <2>5, <2>6 DEF TypeOK
<1>2. ASSUME NEW o \in Orders, Check(o) PROVE TypeOK'
  BY <1>2, CheckTyped
<1>3. ASSUME NEW o \in Orders, Venue(o) PROVE TypeOK'
  <2>1. RiskTypeOK' /\ UNCHANGED <<stage, row, faults>>
    BY <1>3 DEF Venue, Fill, End, TypeOK, RiskTypeOK, Registered
  <2>2. PICK n \in Nat, s \in {"open", "closed"}, e \in ReportStates :
            /\ venue' = [venue EXCEPT ![o] = [state |-> s, filled |-> n]]
            /\ reports' = reports \union {[order |-> o, cum |-> n, state |-> e]}
    BY <1>3, VenueFacts
  <2> QED
    BY <2>1, <2>2 DEF TypeOK, Reports
<1>4. ASSUME NEW l \in Lambdas, NEW r \in reports, Handle(l, r) PROVE TypeOK'
  <2>1. RiskTypeOK'
    <3>1. CASE r.order \in Registered
      BY <1>4, <3>1, ExecuteTyped DEF Handle, HandleExecution
    <3>2. CASE r.order \notin Registered
      BY <1>4, <3>2 DEF Handle, HandleExecution, TypeOK, RiskTypeOK, Registered
    <3> QED
      BY <3>1, <3>2
  <2>2. row' \in [Orders -> RowStates] /\ faults' \in 0..MaxFaults /\ UNCHANGED <<stage, venue, reports>>
    BY <1>4 DEF Handle, TypeOK, Fault, NoFault, Reports, RowStates
  <2> QED
    BY <2>1, <2>2 DEF TypeOK
<1>5. CASE RiskControl \/ UNCHANGED vars
  BY <1>5 DEF RiskControl, Cooled, UpdateLimits, TypeOK, RiskTypeOK, Registered
<1> QED
  BY <1>1, <1>2, <1>3, <1>4, <1>5 DEF Next, SubmitOrder

-------------------------------------------------------------------------------
(* The venue's orders and their reports *)

\* A step that leaves what was filled of an order as it is.
LEMMA OrderStep ==
    ASSUME TypeOK, SlotInv, OrderInv, ReportInv, [Next]_vars
    PROVE  OrderInv' /\ ReportInv'
<1> USE DEF TypeOK, Stages
<1>1. ASSUME NEW o \in Orders, Acquire(o) \/ Persist(o) \/ Answer(o) \/ RecordFailure(o)
      PROVE  OrderInv' /\ ReportInv'
  <2>1. Registered' = Registered /\ filled' = filled /\ venue' = venue
    BY <1>1 DEF Acquire, Persist, Answer, RecordFailure, Registered
  <2>2. \A p \in Orders : \/ stage'[p] = stage[p]
                          \/ p = o /\ stage'[o] \in {"refused", "check"} /\ stage[o] = "new"
                          \/ p = o /\ stage'[o] = "submit" /\ stage[o] = "persist"
                          \/ p = o /\ stage'[o] \in {"failed", "done", "failing"}
    BY <1>1 DEF Acquire, Persist, Answer, RecordFailure, Goto
  <2>3. OrderInv'
    BY <2>1, <2>2 DEF OrderInv
  <2>4. \A r \in reports' : r \in reports \/ (r.order = o /\ r.cum = 0 /\ r.state = "ACK")
    BY <1>1 DEF Acquire, Persist, Answer, RecordFailure
  <2>5. ReportInv'
    BY <2>1, <2>4 DEF ReportInv, Terminal
  <2> QED
    BY <2>3, <2>5
<1>2. ASSUME NEW o \in Orders, Check(o) PROVE OrderInv' /\ ReportInv'
  <2>1. venue' = venue /\ reports' = reports /\ stage[o] = "check"
    BY <1>2 DEF Check
  <2>2. \A p \in Orders \ {o} : /\ stage'[p] = stage[p]
                                /\ p \in Registered' <=> p \in Registered
                                /\ p \in Registered => filled'[p] = filled[p]
    BY <1>2 DEF Check, Goto, Register, RefuseHalted, RefuseOrder, Registered
  <2>3. \/ stage'[o] = "refused" /\ o \notin Registered'
        \/ stage'[o] = "persist" /\ o \in Registered' /\ filled'[o] = 0
    BY <1>2 DEF Check, Goto, Register, RefuseHalted, RefuseOrder, Registered, SlotInv
  <2>4. venue[o].state = "none" /\ venue[o].filled = 0 /\ 0 <= Quantity(o)
    BY <2>1, QuantityIs DEF OrderInv
  <2>5. OrderInv'
    BY <2>1, <2>2, <2>3, <2>4 DEF OrderInv
  <2> QED
    BY <2>1, <2>5 DEF ReportInv
<1>3. ASSUME NEW o \in Orders, Reach(o) PROVE OrderInv' /\ ReportInv'
  <2>1. /\ Registered' = Registered /\ filled' = filled /\ reports' = reports
        /\ o \in Registered /\ venue[o].state = "none" /\ venue[o].filled = 0
    BY <1>3 DEF Reach, Registered, OrderInv
  <2>2. \A p \in Orders : /\ venue'[p].filled = venue[p].filled
                          /\ p # o => venue'[p] = venue[p] /\ stage'[p] = stage[p]
    BY <1>3 DEF Reach, Goto
  <2>3. stage'[o] \in {"answer", "failing"} /\ venue'[o].state \in {"none", "open"}
    BY <1>3, <2>1 DEF Reach, Goto
  <2>4. OrderInv'
    BY <2>1, <2>2, <2>3 DEF OrderInv
  <2>5. ReportInv'
    BY <2>1, <2>2 DEF ReportInv, Reports
  <2> QED
    BY <2>4, <2>5
<1>4. ASSUME NEW o \in Orders, Venue(o) PROVE OrderInv' /\ ReportInv'
  <2>1. /\ Registered' = Registered /\ filled' = filled /\ stage' = stage
        /\ o \in Registered /\ venue[o].state = "open"
        /\ venue[o].filled \in Nat /\ Quantity(o) \in Nat /\ filled[o] <= venue[o].filled
        /\ filled[o] \in Nat /\ venue[o].filled <= Quantity(o)
    BY <1>4, QuantityIs DEF Venue, Fill, End, Registered, OrderInv, RiskTypeOK
  <2>2. PICK n \in Nat, s \in {"open", "closed"}, e \in ReportStates :
            /\ venue' = [venue EXCEPT ![o] = [state |-> s, filled |-> n]]
            /\ reports' = reports \union {[order |-> o, cum |-> n, state |-> e]}
            /\ venue[o].filled <= n /\ n <= Quantity(o)
            /\ e \in Terminal => s = "closed"
    BY <1>4, VenueFacts
  <2>3. /\ venue'[o] = [state |-> s, filled |-> n]
        /\ \A p \in Orders \ {o} : venue'[p] = venue[p]
    BY <2>2
  <2>4. OrderInv'
    <3>1. stage[o] \notin {"new", "check", "refused", "persist", "submit"}
      BY <2>1 DEF OrderInv
    <3> QED
      BY <2>1, <2>2, <2>3, <3>1 DEF OrderInv
  <2>5. ASSUME NEW r \in reports'
        PROVE  /\ r.cum <= venue'[r.order].filled
               /\ r.state \in Terminal =>
                     venue'[r.order].state = "closed" /\ r.cum = venue'[r.order].filled
    <3>1. CASE r = [order |-> o, cum |-> n, state |-> e]
      BY <2>2, <2>3, <3>1
    <3>2. CASE r \in reports
      <4>1. /\ r.order \in Orders /\ r.cum \in Nat /\ r.cum <= venue[r.order].filled
            /\ r.state \in Terminal => r.order # o /\ venue[r.order].state = "closed"
                                       /\ r.cum = venue[r.order].filled
        BY <2>1, <3>2 DEF ReportInv, Reports
      <4> QED
        BY <2>1, <2>2, <2>3, <4>1
    <3> QED
      BY <2>2, <2>5, <3>1, <3>2
  <2> QED
    BY <2>4, <2>5 DEF ReportInv
<1>5. ASSUME NEW l \in Lambdas, NEW r \in reports, Handle(l, r) PROVE OrderInv' /\ ReportInv'
  <2>1. venue' = venue /\ reports' = reports /\ stage' = stage
    BY <1>5 DEF Handle
  <2>2. CASE r.order \in Registered
    <3>1. /\ r.order \in Orders
          /\ filled[r.order] + Fresh(r) <= venue[r.order].filled
          /\ r.state \in Terminal => filled[r.order] + Fresh(r) = venue[r.order].filled
          /\ \A p \in Orders \ {r.order} :
                /\ p \in Registered' <=> p \in Registered
                /\ p \in Registered => filled'[p] = filled[p]
          /\ Registered' \subseteq Registered
          /\ r.state \in Terminal => r.order \notin Registered'
          /\ r.state \notin Terminal => r.order \in Registered' /\ filled'[r.order] = filled[r.order] + Fresh(r)
      BY <1>5, <2>2, ExecuteFacts DEF Handle, HandleExecution
    <3>2. r.state \in Terminal => venue[r.order].state = "closed"
      BY DEF ReportInv
    <3>3. OrderInv'
      BY <2>1, <2>2, <3>1, <3>2 DEF OrderInv
    <3> QED
      BY <2>1, <3>3 DEF ReportInv
  <2>3. CASE r.order \notin Registered
    BY <1>5, <2>1, <2>3 DEF Handle, HandleExecution, OrderInv, ReportInv, Registered
  <2> QED
    BY <2>2, <2>3
<1>6. CASE RiskControl \/ UNCHANGED vars
  BY <1>6 DEF RiskControl, Cooled, UpdateLimits, OrderInv, ReportInv, Registered
<1> QED
  BY <1>1, <1>2, <1>3, <1>4, <1>5, <1>6 DEF Next, SubmitOrder

-------------------------------------------------------------------------------
(* The positions *)

LEMMA OrdersOfSet ==
    ASSUME NEW s
    PROVE  OrdersOf(s) \in SUBSET Orders /\ IsFiniteSet(OrdersOf(s))
BY FS_Subset DEF OrdersOf

LEMMA TradedTyped ==
    ASSUME TypeOK
    PROVE  /\ Traded \in [Orders -> Int] /\ Seen \in [Orders -> Int] /\ Over \in [Orders -> Int]
           /\ \A o \in Registered : filled[o] \in Nat
<1>1. \A o \in Registered : filled[o] \in Nat
  BY QuantityIs DEF TypeOK, RiskTypeOK
<1>2. \A o \in Orders : Sign(o) \in Int /\ venue[o].filled \in Nat
  BY QuantityIs DEF TypeOK
<1>3. Traded \in [Orders -> Int]
  BY <1>2 DEF Traded
<1>4. ASSUME NEW o \in Registered PROVE Sign(o) * filled[o] \in Int
  BY <1>1, <1>2 DEF TypeOK, RiskTypeOK
<1> QED
  BY <1>1, <1>3, <1>4 DEF Seen, Over

LEMMA PositionInit == Init => PositionIsFills
<1> SUFFICES ASSUME Init, NEW s \in Symbols
             PROVE  position[s] = SumFunctionOnSet(Seen, OrdersOf(s))
  BY DEF PositionIsFills
<1>a. PICK f : f = Seen
  OBVIOUS
<1>1. \A o \in Orders : Seen[o] = 0
  BY QuantityIs DEF Init, RiskInit, Seen, Traded, Registered
<1>2. f \in [Orders -> Int] /\ \A o \in OrdersOf(s) : f[o] = 0
  BY <1>a, <1>1, OrdersOfSet DEF Seen
<1>3. SumFunctionOnSet(f, OrdersOf(s)) = 0
  BY <1>2, OrdersOfSet, SumOfZeros
<1> QED
  BY <1>a, <1>3 DEF Init, RiskInit

\* Only reports change what is seen of an order: it takes its slot with nothing filled,
\* and while it has the slot the venue's fills do not count.
LEMMA SeenStays ==
    ASSUME TypeOK, SlotInv, OrderInv, NEW o \in Orders, SubmitOrder(o) \/ Venue(o)
    PROVE  Seen' = Seen /\ position' = position
<1> SUFFICES ASSUME NEW p \in Orders PROVE Seen'[p] = Seen[p] /\ position' = position
  BY DEF Seen
<1>1. CASE Acquire(o) \/ Persist(o) \/ Answer(o) \/ RecordFailure(o)
  BY <1>1 DEF Acquire, Persist, Answer, RecordFailure, Seen, Traded, Registered
<1>2. CASE Check(o)
  <2>1. venue' = venue /\ position' = position
    BY <1>2 DEF Check, Register, RefuseHalted, RefuseOrder
  <2>2. CASE Register(o)
    <3>1. filled' = [q \in Registered \union {o} |-> IF q = o THEN 0 ELSE filled[q]]
      BY <2>2 DEF Register
    <3>2. o \notin Registered /\ venue[o].filled = 0
      BY <1>2 DEF Check, SlotInv, OrderInv
    <3> QED
      BY <2>1, <3>1, <3>2 DEF Seen, Traded, Registered
  <2>3. CASE UNCHANGED filled
    BY <2>1, <2>3 DEF Seen, Traded, Registered
  <2> QED
    BY <1>2, <2>2, <2>3 DEF Check, RefuseHalted, RefuseOrder
<1>3. CASE Reach(o)
  <2>1. \A q \in Orders : venue'[q].filled = venue[q].filled
    BY <1>3 DEF Reach, TypeOK
  <2> QED
    BY <1>3, <2>1 DEF Reach, Seen, Traded, Registered
<1>4. CASE Venue(o)
  <2>1. o \in Registered /\ filled' = filled /\ position' = position
    BY <1>4 DEF Venue, Fill, End, OrderInv
  <2>2. \A q \in Orders \ {o} : venue'[q] = venue[q]
    BY <1>4 DEF Venue, Fill, End, TypeOK
  <2> QED
    BY <2>1, <2>2 DEF Seen, Traded, Registered
<1> QED
  BY <1>1, <1>2, <1>3, <1>4 DEF SubmitOrder

\* What a report makes known of an order is what it adds to the position.
LEMMA SeenChanges ==
    ASSUME TypeOK, OrderInv, ReportInv, NEW l \in Lambdas, NEW r \in reports, Handle(l, r),
           NEW o \in Registered, o = r.order
    PROVE  /\ o \in Orders /\ Sign(o) * Fresh(r) \in Int
           /\ position' = [position EXCEPT ![SymbolOf[o]] = @ + Sign(o) * Fresh(r)]
           /\ Seen'[o] = Seen[o] + Sign(o) * Fresh(r)
           /\ \A p \in Orders \ {o} : Seen'[p] = Seen[p]
<1>1. /\ o \in Orders /\ SymbolOf[o] \in Symbols
      /\ Fresh(r) \in Nat /\ filled[o] + Fresh(r) <= venue[o].filled
      /\ r.state \in Terminal => filled[o] + Fresh(r) = venue[o].filled
      /\ position' = [position EXCEPT ![SymbolOf[o]] = @ + Sign(o) * Fresh(r)]
      /\ \A p \in Orders \ {o} : /\ p \in Registered' <=> p \in Registered
                                 /\ p \in Registered => filled'[p] = filled[p]
      /\ r.state \in Terminal => o \notin Registered'
      /\ r.state \notin Terminal => o \in Registered' /\ filled'[o] = filled[o] + Fresh(r)
  BY ExecuteFacts DEF Handle, HandleExecution
<1>2. venue' = venue /\ filled[o] \in Nat /\ Sign(o) \in Int /\ venue[o].filled \in Nat
  BY <1>1, TradedTyped, QuantityIs DEF Handle, TypeOK
<1>3. Sign(o) * (filled[o] + Fresh(r)) = Sign(o) * filled[o] + Sign(o) * Fresh(r)
  BY <1>1, <1>2
<1>4. Seen'[o] = Sign(o) * (filled[o] + Fresh(r)) /\ Seen[o] = Sign(o) * filled[o]
  BY <1>1, <1>2 DEF Seen, Traded
<1>5. Sign(o) * Fresh(r) \in Int
  BY <1>1, <1>2
<1>6. \A p \in Orders \ {o} : Seen'[p] = Seen[p]
  BY <1>1, <1>2 DEF Seen, Traded
<1> QED
  BY <1>1, <1>3, <1>4, <1>5, <1>6

LEMMA PositionStep ==
    ASSUME FlowInv, TypeOK', [Next]_vars
    PROVE  PositionIsFills'
<1> USE DEF FlowInv
<1>a. PICK f : f = Seen
  OBVIOUS
<1>b. PICK g : g = Seen'
  OBVIOUS
<1>1. f \in [Orders -> Int]
  BY <1>a, TradedTyped
<1>2. \A s \in Symbols : position[s] = SumFunctionOnSet(f, OrdersOf(s))
  BY <1>a DEF PositionIsFills
<1>3. CASE g = f /\ position' = position
  BY <1>b, <1>2, <1>3 DEF PositionIsFills, OrdersOf
<1>4. ASSUME NEW o \in Orders, SubmitOrder(o) \/ Venue(o)
      PROVE  g = f /\ position' = position
  BY <1>a, <1>b, <1>4, SeenStays
<1>5. CASE RiskControl \/ UNCHANGED vars
  BY <1>a, <1>b, <1>3, <1>5 DEF RiskControl, Cooled, UpdateLimits, Seen, Traded, Registered
<1>6. ASSUME NEW l \in Lambdas, NEW r \in reports, Handle(l, r)
      PROVE  PositionIsFills'
  <2>1. CASE r.order \in Registered
    <3>a. PICK o \in Registered : o = r.order
      BY <2>1
    <3>b. PICK d : d = Sign(o) * Fresh(r)
      OBVIOUS
    <3>1. /\ o \in Orders /\ d \in Int
          /\ position' = [position EXCEPT ![SymbolOf[o]] = @ + d]
          /\ g[o] = f[o] + d
          /\ \A p \in Orders \ {o} : g[p] = f[p]
      BY <1>a, <1>b, <1>6, <3>a, <3>b, SeenChanges
    <3>2. g \in [Orders -> Int]
      BY <1>1, <1>b, <3>1 DEF Seen
    <3>3. ASSUME NEW s \in Symbols PROVE position'[s] = SumFunctionOnSet(g, OrdersOf(s))
      <4>1. OrdersOf(s) \in SUBSET Orders /\ IsFiniteSet(OrdersOf(s))
        BY OrdersOfSet
      <4>2. CASE s = SymbolOf[o]
        <5>1. o \in OrdersOf(s)
          BY <3>1, <4>2 DEF OrdersOf
        <5>a. \A x \in OrdersOf(s) : x # o => g[x] = f[x]
          BY <3>1, <4>1
        <5>2. SumFunctionOnSet(g, OrdersOf(s)) = SumFunctionOnSet(f, OrdersOf(s)) + g[o] - f[o]
          BY <1>1, <3>2, <4>1, <5>1, <5>a, SumChange
        <5>3. position'[s] = position[s] + d /\ position[s] \in Int /\ f[o] \in Int
          BY <1>1, <3>1, <4>2 DEF TypeOK, RiskTypeOK
        <5> QED
          BY <1>2, <3>1, <5>2, <5>3
      <4>3. CASE s # SymbolOf[o]
        <5>1. o \notin OrdersOf(s)
          BY <4>3 DEF OrdersOf
        <5>2. SumFunctionOnSet(g, OrdersOf(s)) = SumFunctionOnSet(f, OrdersOf(s))
          BY <1>1, <3>1, <3>2, <4>1, <5>1, SumSame
        <5> QED
          BY <1>2, <3>1, <4>3, <5>2 DEF TypeOK, RiskTypeOK
      <4> QED
        BY <4>2, <4>3
    <3> QED
      BY <1>b, <3>3 DEF PositionIsFills, OrdersOf
  <2>2. CASE r.order \notin Registered
    <3>1. g = f /\ position' = position
      BY <1>a, <1>b, <1>6, <2>2 DEF Handle, HandleExecution, Seen, Traded, Registered
    <3> QED
      BY <1>3, <3>1
  <2> QED
    BY <2>1, <2>2
<1> QED
  BY <1>3, <1>4, <1>5, <1>6 DEF Next

LEMMA FlowInvInit == Init => FlowInv
<1> SUFFICES ASSUME Init PROVE FlowInv
  OBVIOUS
<1>1. Registered = {} /\ reports = {}
  BY DEF Init, RiskInit, Registered
<1>2. TypeOK
  BY <1>1 DEF Init, RiskInit, TypeOK, RiskTypeOK, Stages, RowStates
<1>3. OrderInv /\ ReportInv
  BY <1>1, QuantityIs DEF Init, OrderInv, ReportInv
<1> QED
  BY <1>2, <1>3, SlotInit, PositionInit DEF FlowInv

LEMMA FlowInvStep == FlowInv /\ [Next]_vars => FlowInv'
BY TypeStep, SlotStep, OrderStep, PositionStep DEF FlowInv

\* The variables keep their types, an order at the venue is registered or was ended by
\* a report, and no report tells more than was filled.
THEOREM FlowInvariant == Spec => []FlowInv
BY FlowInvInit, FlowInvStep, PTL DEF Spec

THEOREM FlowTypes == Spec => []TypeOK
BY FlowInvariant, PTL DEF FlowInv

\* In whatever order, however late and however often the reports come, a position is
\* what they have told of each registered order and all that was filled of the others.
THEOREM PositionsAreFills == Spec => []PositionIsFills
BY FlowInvariant, PTL DEF FlowInv

-------------------------------------------------------------------------------
(* The limits, over what reaches the venue *)

\* The limits on the number of orders and on the position are never changed: orders
\* admitted under the old ones are not looked at again (UpdateLimits).
LimitsStay ==
    \A l, m \in LimitSets : l.maxConcurrent = m.maxConcurrent /\ l.maxPosition = m.maxPosition

\* A position within the limit with none of an order and with all of it, with any
\* part of it too.
LEMMA Between ==
    ASSUME NEW o \in Orders, NEW n \in Int, NEW k \in 0..Quantity(o), NEW p \in Nat,
           Magnitude(n) <= p, Magnitude(n + Signed[o]) <= p
    PROVE  Magnitude(n + Sign(o) * k) <= p
<1>1. Signed[o] \in Int /\ k \in Int /\ 0 <= k /\ k <= Quantity(o)
  BY QuantityIs
<1>2. CASE Signed[o] < 0
  <2>1. Sign(o) * k = -k /\ k <= -Signed[o]
    BY <1>1, <1>2 DEF Sign, Quantity, Magnitude
  <2> QED
    BY <1>1, <1>2, <2>1 DEF Magnitude
<1>3. CASE ~(Signed[o] < 0)
  <2>1. Sign(o) * k = k /\ k <= Signed[o]
    BY <1>1, <1>3 DEF Sign, Quantity, Magnitude
  <2> QED
    BY <1>1, <1>3, <2>1 DEF Magnitude
<1> QED
  BY <1>2, <1>3

LEMMA OneSlot ==
    ASSUME NEW S, IsFiniteSet(S), Cardinality(S) <= 1, NEW o \in S
    PROVE  S = {o}
<1>1. Cardinality(S) \in Nat /\ Cardinality(S) # 0
  BY FS_CardinalityType, FS_EmptySet
<1>2. Cardinality(S) = 1
  BY <1>1
<1> QED
  BY <1>2, FS_Singleton

\* What is over changes only with the report that ends a registered order.
LEMMA OverStays ==
    ASSUME TypeOK, SlotInv, OrderInv, NEW o \in Orders, SubmitOrder(o) \/ Venue(o)
    PROVE  Over' = Over
<1> SUFFICES ASSUME NEW p \in Orders PROVE Over'[p] = Over[p]
  BY DEF Over
<1>1. CASE Acquire(o) \/ Persist(o) \/ Answer(o) \/ RecordFailure(o)
  BY <1>1 DEF Acquire, Persist, Answer, RecordFailure, Over, Traded, Registered
<1>2. CASE Check(o)
  <2>1. venue' = venue
    BY <1>2 DEF Check
  <2>2. CASE Register(o)
    <3>1. Registered' = Registered \union {o}
      BY <2>2 DEF Register, Registered
    <3>2. o \notin Registered /\ venue[o].filled = 0
      BY <1>2 DEF Check, SlotInv, OrderInv
    <3> QED
      BY <2>1, <3>1, <3>2, QuantityIs DEF Over, Traded
  <2>3. CASE UNCHANGED filled
    BY <2>1, <2>3 DEF Over, Traded, Registered
  <2> QED
    BY <1>2, <2>2, <2>3 DEF Check, RefuseHalted, RefuseOrder
<1>3. CASE Reach(o)
  <2>1. \A q \in Orders : venue'[q].filled = venue[q].filled
    BY <1>3 DEF Reach, TypeOK
  <2> QED
    BY <1>3, <2>1 DEF Reach, Over, Traded, Registered
<1>4. CASE Venue(o)
  <2>1. o \in Registered /\ filled' = filled
    BY <1>4 DEF Venue, Fill, End, OrderInv
  <2>2. \A q \in Orders \ {o} : venue'[q] = venue[q]
    BY <1>4 DEF Venue, Fill, End, TypeOK
  <2> QED
    BY <2>1, <2>2 DEF Over, Traded, Registered
<1> QED
  BY <1>1, <1>2, <1>3, <1>4 DEF SubmitOrder

\* LimitInv for one symbol, with every part of the state it reads.
WithinFor(most, p, slots, settled) ==
    /\ most > 0 => Cardinality(slots) <= most
    /\ most = 1 /\ p > 0 => /\ Magnitude(settled) <= p
                            /\ \A o \in slots : Magnitude(settled + Signed[o]) <= p

LimitsHold ==
    \A s \in Symbols : WithinFor(limits.maxConcurrent, limits.maxPosition, SlotsOf(s),
                                 SumFunctionOnSet(Over, OrdersOf(s)))

LEMMA LimitInvIs == TypeOK => (LimitInv <=> LimitsHold)
<1> SUFFICES ASSUME TypeOK PROVE LimitInv <=> LimitsHold
  OBVIOUS
<1>1. limits.maxPosition \in Nat
  BY DEF TypeOK, RiskTypeOK
<1>a. PICK f : f = Over
  OBVIOUS
<1>2. ASSUME NEW s
      PROVE  /\ SumFunctionOnSet(Over, OrdersOf(s)) \in Int
             /\ \A o \in SlotsOf(s) : Signed[o] \in Int
  <2>1. f \in [Orders -> Int]
    BY <1>a, TradedTyped
  <2> QED
    BY <1>a, <2>1, SumType, OrdersOfSet DEF SlotsOf, TypeOK, RiskTypeOK
<1>3. ASSUME NEW s \in Symbols, NEW n, n = SumFunctionOnSet(Over, OrdersOf(s)), limits.maxPosition > 0
      PROVE  /\ ~Beyond(n) <=> Magnitude(n) <= limits.maxPosition
             /\ \A o \in SlotsOf(s) :
                   ~Beyond(n + Signed[o]) <=> Magnitude(n + Signed[o]) <= limits.maxPosition
  <2>1. n \in Int /\ \A o \in SlotsOf(s) : n + Signed[o] \in Int
    BY <1>2, <1>3
  <2> QED
    BY <1>1, <1>3, <2>1 DEF Beyond, Magnitude
<1>4. ASSUME NEW s \in Symbols
      PROVE  LET n == SumFunctionOnSet(Over, OrdersOf(s)) IN
             /\ limits.maxPosition > 0 => /\ ~Beyond(n) <=> Magnitude(n) <= limits.maxPosition
                                          /\ \A o \in SlotsOf(s) :
                                                ~Beyond(n + Signed[o]) <=> Magnitude(n + Signed[o]) <= limits.maxPosition
  BY <1>3
<1> QED
  BY <1>4, Zenon DEF LimitInv, LimitsHold, WithinFor

LEMMA LimitInit == Init => LimitInv
<1> SUFFICES ASSUME Init PROVE LimitInv
  OBVIOUS
<1>a. PICK f : f = Over
  OBVIOUS
<1>1. \A o \in Orders : Over[o] = 0
  BY QuantityIs DEF Init, RiskInit, Over, Traded, Registered
<1>2. f \in [Orders -> Int] /\ \A o \in Orders : f[o] = 0
  BY <1>a, <1>1 DEF Over
<1>3. ASSUME NEW s \in Symbols
      PROVE  SlotsOf(s) = {} /\ SumFunctionOnSet(Over, OrdersOf(s)) = 0
  <2>1. SumFunctionOnSet(f, OrdersOf(s)) = 0
    BY <1>2, OrdersOfSet, SumOfZeros
  <2> QED
    BY <1>a, <2>1 DEF Init, RiskInit, SlotsOf, Registered
<1>4. TypeOK /\ limits.maxConcurrent \in Nat /\ limits.maxPosition \in Nat
  BY FlowInvInit DEF FlowInv, TypeOK, RiskTypeOK
<1>5. ASSUME NEW s \in Symbols
      PROVE  WithinFor(limits.maxConcurrent, limits.maxPosition, {}, 0)
  BY <1>4, FS_EmptySet DEF WithinFor, Magnitude
<1> QED
  BY <1>3, <1>4, <1>5, LimitInvIs DEF LimitsHold

LEMMA LimitInvIsNext == TypeOK' => (LimitInv' <=> LimitsHold')
BY LimitInvIs, PTL

LEMMA LimitStep ==
    ASSUME LimitsStay, FlowInv, FlowInv', LimitInv, [Next]_vars
    PROVE  LimitInv'
<1> USE DEF FlowInv
<1>a. PICK f : f = Over
  OBVIOUS
<1>b. PICK g : g = Over'
  OBVIOUS
<1>c. PICK k : k = limits.maxConcurrent
  OBVIOUS
<1>d. PICK p : p = limits.maxPosition
  OBVIOUS
<1>1. k \in Nat /\ p \in Nat /\ k = limits'.maxConcurrent /\ p = limits'.maxPosition
  BY <1>c, <1>d DEF TypeOK, RiskTypeOK, LimitsStay
<1>2. f \in [Orders -> Int]
  BY <1>a, TradedTyped
<1>3. \A s \in Symbols : WithinFor(k, p, SlotsOf(s), SumFunctionOnSet(f, OrdersOf(s)))
  BY <1>a, <1>c, <1>d, LimitInvIs DEF LimitsHold
<1>4. SUFFICES \A s \in Symbols : WithinFor(k, p, SlotsOf(s)', SumFunctionOnSet(g, OrdersOf(s)))
  BY <1>b, <1>1, LimitInvIsNext DEF LimitsHold, OrdersOf
<1>5. CASE g = f /\ Registered' = Registered
  BY <1>3, <1>5 DEF SlotsOf
<1>6. ASSUME NEW o \in Orders, SubmitOrder(o) \/ Venue(o) PROVE g = f
  BY <1>a, <1>b, <1>6, OverStays
<1>7. ASSUME NEW s \in Symbols
      PROVE  /\ IsFiniteSet(SlotsOf(s)) /\ Cardinality(SlotsOf(s)) \in Nat
             /\ OrdersOf(s) \in SUBSET Orders /\ IsFiniteSet(OrdersOf(s))
  BY SlotsFinite, OrdersOfSet DEF SlotInv
<1>8. ASSUME NEW o \in Orders, Check(o), Register(o)
      PROVE  \A s \in Symbols : WithinFor(k, p, SlotsOf(s)', SumFunctionOnSet(g, OrdersOf(s)))
  <2> DEFINE t == SymbolOf[o]
  <2>1. o \notin Registered /\ Registered' = Registered \union {o} /\ t \in Symbols
    BY <1>8 DEF Check, Register, Registered, SlotInv
  <2>2. g = f
    BY <1>6, <1>8 DEF SubmitOrder
  <2>3. \A s \in Symbols : s # t => SlotsOf(s)' = SlotsOf(s)
    BY <2>1 DEF SlotsOf
  <2>4. o \notin SlotsOf(t) /\ SlotsOf(t)' = SlotsOf(t) \union {o}
    BY <2>1 DEF SlotsOf
  <2>5. k > 0 => Cardinality(SlotsOf(t)) < k
    BY <1>c, <1>8, <2>1 DEF Register, HasSlot, SlotInv, SlotsAreOrders
  <2>6. Cardinality(SlotsOf(t)') = Cardinality(SlotsOf(t)) + 1
    BY <1>7, <2>1, <2>4, FS_AddElement
  <2>7. ASSUME k = 1, p > 0, NEW n, n = SumFunctionOnSet(f, OrdersOf(t))
        PROVE  Magnitude(n) <= p /\ \A q \in SlotsOf(t)' : Magnitude(n + Signed[q]) <= p
    <3>1. SlotsOf(t) = {}
      BY <1>7, <2>1, <2>5, <2>7, FS_EmptySet
    <3>a. PICK h : h = Seen
      OBVIOUS
    <3>2. \A q \in OrdersOf(t) : h[q] = f[q]
      BY <1>a, <3>1, <3>a DEF OrdersOf, SlotsOf, Seen, Over
    <3>3. h \in [Orders -> Int]
      BY <3>a, TradedTyped
    <3>4. n = SumFunctionOnSet(h, OrdersOf(t))
      BY <1>2, <1>7, <2>1, <2>7, <3>2, <3>3, SumSame
    <3>5. n = position[t] /\ n \in Int
      BY <2>1, <3>4, <3>a DEF PositionIsFills, TypeOK, RiskTypeOK
    <3>6. Magnitude(n + Signed[o]) <= p
      BY <1>d, <1>1, <1>8, <2>7, <3>5 DEF Register, Beyond, Magnitude
    <3>7. SlotsOf(t)' = {o}
      BY <2>4, <3>1
    <3> QED
      BY <1>3, <2>1, <2>7, <3>6, <3>7 DEF WithinFor
  <2>8. ASSUME NEW s \in Symbols PROVE WithinFor(k, p, SlotsOf(s)', SumFunctionOnSet(g, OrdersOf(s)))
    <3>1. CASE s # t
      BY <1>3, <2>2, <2>3, <3>1
    <3>2. CASE s = t
      BY <1>1, <1>7, <2>1, <2>2, <2>5, <2>6, <2>7, <3>2 DEF WithinFor
    <3> QED
      BY <3>1, <3>2
  <2> QED
    BY <2>8
<1>9. ASSUME NEW l \in Lambdas, NEW r \in reports, Handle(l, r), NEW o \in Registered, o = r.order
      PROVE  \A s \in Symbols : WithinFor(k, p, SlotsOf(s)', SumFunctionOnSet(g, OrdersOf(s)))
  <2>1. /\ o \in Orders /\ SymbolOf[o] \in Symbols
        /\ \A q \in Orders \ {o} : q \in Registered' <=> q \in Registered
        /\ r.state \in Terminal => o \notin Registered'
        /\ r.state \notin Terminal => o \in Registered'
        /\ venue' = venue
    BY <1>9, ExecuteFacts DEF Handle, HandleExecution
  <2>2. Registered \subseteq Orders /\ Registered' \subseteq Orders
    BY DEF SlotInv
  <2>3. CASE r.state \notin Terminal
    <3>a. o \in Registered /\ o \in Registered'
      BY <2>1, <2>3
    <3>b. \A q \in Orders : q \in Registered' <=> q \in Registered
      BY <2>1, <3>a
    <3>1. Registered' = Registered
      BY <2>2, <3>b
    <3> QED
      BY <1>a, <1>b, <1>5, <2>1, <3>1 DEF Over, Traded
  <2>4. CASE r.state \in Terminal
    <3>1. Registered' = Registered \ {o}
      BY <2>1, <2>2, <2>4
    <3>2. g \in [Orders -> Int] /\ \A q \in Orders \ {o} : g[q] = f[q]
      <4>1. \A q \in Orders : Traded[q] \in Int /\ g[q] \in {0, Traded[q]}
        BY <1>b, <2>1, TradedTyped DEF Over, Traded
      <4>2. \A q \in Orders \ {o} : g[q] = f[q]
        BY <1>a, <1>b, <2>1, <3>1 DEF Over, Traded
      <4> QED
        BY <1>b, <4>1, <4>2 DEF Over
    <3>3. f[o] = 0 /\ g[o] = Sign(o) * venue[o].filled
      BY <1>a, <1>b, <2>1, <3>1 DEF Over, Traded
    <3>4. venue[o].filled \in 0..Quantity(o)
      BY <2>1, QuantityIs DEF OrderInv, TypeOK
    <3>5. ASSUME NEW s \in Symbols PROVE WithinFor(k, p, SlotsOf(s)', SumFunctionOnSet(g, OrdersOf(s)))
      <4>1. CASE s # SymbolOf[o]
        <5>1. o \notin OrdersOf(s) /\ SlotsOf(s)' = SlotsOf(s)
          BY <3>1, <4>1 DEF OrdersOf, SlotsOf
        <5>2. SumFunctionOnSet(g, OrdersOf(s)) = SumFunctionOnSet(f, OrdersOf(s))
          BY <1>2, <1>7, <3>2, <5>1, SumSame
        <5> QED
          BY <1>3, <5>1, <5>2
      <4>2. CASE s = SymbolOf[o]
        <5>1. o \in OrdersOf(s) /\ o \in SlotsOf(s) /\ SlotsOf(s)' = SlotsOf(s) \ {o}
          BY <2>1, <3>1, <4>2 DEF OrdersOf, SlotsOf
        <5>2. Cardinality(SlotsOf(s)') <= Cardinality(SlotsOf(s)) /\ Cardinality(SlotsOf(s)') \in Nat
          <6>1. Cardinality(SlotsOf(s)') = Cardinality(SlotsOf(s)) - 1 /\ IsFiniteSet(SlotsOf(s)')
            BY <1>7, <5>1, FS_RemoveElement
          <6> QED
            BY <1>7, <6>1, FS_CardinalityType
        <5>a. PICK n : n = SumFunctionOnSet(f, OrdersOf(s))
          OBVIOUS
        <5>b. PICK m : m = SumFunctionOnSet(g, OrdersOf(s))
          OBVIOUS
        <5>3. n \in Int
          BY <1>2, <1>7, <5>a, SumType
        <5>4. \A x \in OrdersOf(s) : x # o => g[x] = f[x]
          BY <1>7, <3>2
        <5>c. OrdersOf(s) \in SUBSET Orders /\ IsFiniteSet(OrdersOf(s))
          BY <1>7
        <5>e. o \in OrdersOf(s) /\ g \in [Orders -> Int]
          BY <3>2, <5>1
        <5>d. SumFunctionOnSet(g, OrdersOf(s)) = SumFunctionOnSet(f, OrdersOf(s)) + g[o] - f[o]
          BY <1>2, <5>4, <5>c, <5>e, SumChange
        <5>5. m = n + g[o] - f[o]
          BY <5>a, <5>b, <5>d
        <5>6. m = n + Sign(o) * venue[o].filled
          BY <2>1, <3>3, <3>4, <5>3, <5>5, QuantityIs
        <5>7. ASSUME k = 1, p > 0 PROVE Magnitude(m) <= p /\ SlotsOf(s)' = {}
          <6>1. Magnitude(n) <= p /\ Magnitude(n + Signed[o]) <= p /\ Cardinality(SlotsOf(s)) <= 1
            BY <1>3, <5>1, <5>7, <5>a DEF WithinFor
          <6>2. Magnitude(m) <= p
            BY <1>1, <2>1, <3>4, <5>3, <5>6, <6>1, Between
          <6>3. SlotsOf(s) = {o}
            BY <1>7, <5>1, <6>1, OneSlot
          <6> QED
            BY <5>1, <6>2, <6>3
        <5>8. k > 0 => Cardinality(SlotsOf(s)') <= k
          BY <1>1, <1>3, <1>7, <5>2 DEF WithinFor
        <5> QED
          BY <5>7, <5>8, <5>b DEF WithinFor
      <4> QED
        BY <4>1, <4>2
    <3> QED
      BY <3>5
  <2> QED
    BY <2>3, <2>4
<1>10. ASSUME NEW o \in Orders, SubmitOrder(o) \/ Venue(o)
       PROVE  \A s \in Symbols : WithinFor(k, p, SlotsOf(s)', SumFunctionOnSet(g, OrdersOf(s)))
  <2>1. CASE Check(o) /\ Register(o)
    BY <1>8, <2>1
  <2>2. CASE ~(Check(o) /\ Register(o))
    <3>1. filled' = filled
      BY <1>10, <2>2 DEF SubmitOrder, Venue, Acquire, Check, Persist, Reach, Answer, RecordFailure,
                         Fill, End, RefuseHalted, RefuseOrder
    <3> QED
      BY <1>5, <1>6, <1>10, <3>1 DEF Registered
  <2> QED
    BY <2>1, <2>2
<1>11. ASSUME NEW l \in Lambdas, NEW r \in reports, Handle(l, r)
       PROVE  \A s \in Symbols : WithinFor(k, p, SlotsOf(s)', SumFunctionOnSet(g, OrdersOf(s)))
  <2>1. CASE r.order \in Registered
    BY <1>9, <1>11, <2>1
  <2>2. CASE r.order \notin Registered
    BY <1>a, <1>b, <1>5, <1>11, <2>2 DEF Handle, HandleExecution, Over, Traded, Registered
  <2> QED
    BY <2>1, <2>2
<1>12. CASE RiskControl \/ UNCHANGED vars
  BY <1>a, <1>b, <1>5, <1>12 DEF RiskControl, Cooled, UpdateLimits, Over, Traded, Registered
<1> QED
  BY <1>10, <1>11, <1>12 DEF Next

\* The invariants give the property: what is open at the venue has a slot, and what was
\* traded is what is over and a part of the one order registered.
LEMMA LimitsGiveProperty ==
    ASSUME FlowInv, LimitInv
    PROVE  VenueWithinLimits
<1> USE DEF FlowInv
<1>a. PICK f : f = Over
  OBVIOUS
<1>b. PICK h : h = Traded
  OBVIOUS
<1>1. f \in [Orders -> Int] /\ h \in [Orders -> Int]
  BY <1>a, <1>b, TradedTyped
<1>2. limits.maxConcurrent \in Nat /\ limits.maxPosition \in Nat
  BY DEF TypeOK, RiskTypeOK
<1>3. \A s \in Symbols : WithinFor(limits.maxConcurrent, limits.maxPosition, SlotsOf(s),
                                  SumFunctionOnSet(f, OrdersOf(s)))
  BY <1>a, LimitInvIs DEF LimitsHold
<1>4. ASSUME NEW s \in Symbols
      PROVE  limits.maxConcurrent > 0 => Cardinality(OpenAt(s)) <= limits.maxConcurrent
  <2>1. OpenAt(s) \in SUBSET SlotsOf(s)
    BY DEF OpenAt, OrdersOf, SlotsOf, OrderInv
  <2>2. IsFiniteSet(SlotsOf(s)) /\ Cardinality(SlotsOf(s)) \in Nat
    BY SlotsFinite DEF SlotInv
  <2>3. Cardinality(OpenAt(s)) <= Cardinality(SlotsOf(s)) /\ Cardinality(OpenAt(s)) \in Nat
    BY <2>1, <2>2, FS_Subset, FS_CardinalityType
  <2> QED
    BY <1>2, <1>3, <2>2, <2>3 DEF WithinFor
<1>5. ASSUME NEW s \in Symbols, limits.maxConcurrent = 1, limits.maxPosition > 0
      PROVE  Magnitude(SumFunctionOnSet(h, OrdersOf(s))) <= limits.maxPosition
  <2>a. PICK n : n = SumFunctionOnSet(f, OrdersOf(s))
    OBVIOUS
  <2>1. OrdersOf(s) \in SUBSET Orders /\ IsFiniteSet(OrdersOf(s))
    BY OrdersOfSet
  <2>2. /\ n \in Int /\ Magnitude(n) <= limits.maxPosition
        /\ Cardinality(SlotsOf(s)) <= 1
        /\ \A o \in SlotsOf(s) : Magnitude(n + Signed[o]) <= limits.maxPosition
    BY <1>1, <1>3, <1>5, <2>1, <2>a, SumType DEF WithinFor
  <2>3. CASE SlotsOf(s) = {}
    <3>1. \A x \in OrdersOf(s) : h[x] = f[x]
      BY <1>a, <1>b, <2>3 DEF OrdersOf, SlotsOf, Over
    <3>2. SumFunctionOnSet(h, OrdersOf(s)) = SumFunctionOnSet(f, OrdersOf(s))
      BY <1>1, <2>1, <3>1, SumSame
    <3> QED
      BY <2>2, <2>a, <3>2
  <2>4. ASSUME NEW o \in SlotsOf(s) PROVE Magnitude(SumFunctionOnSet(h, OrdersOf(s))) <= limits.maxPosition
    <3>1. SlotsOf(s) = {o}
      BY <2>2, OneSlot, SlotsFinite DEF SlotInv
    <3>2. o \in Registered /\ o \in OrdersOf(s) /\ o \in Orders
      BY DEF SlotsOf, SlotInv, OrdersOf
    <3>3. \A x \in OrdersOf(s) : x # o => h[x] = f[x]
      BY <1>a, <1>b, <3>1 DEF OrdersOf, SlotsOf, Over
    <3>4. SumFunctionOnSet(h, OrdersOf(s)) = SumFunctionOnSet(f, OrdersOf(s)) + h[o] - f[o]
      BY <1>1, <2>1, <3>2, <3>3, SumChange
    <3>5. f[o] = 0 /\ h[o] = Sign(o) * venue[o].filled
      BY <1>a, <1>b, <3>2 DEF Over, Traded
    <3>6. venue[o].filled \in 0..Quantity(o) /\ h[o] \in Int
      BY <1>1, <3>2, QuantityIs DEF OrderInv, TypeOK
    <3>7. SumFunctionOnSet(h, OrdersOf(s)) = n + Sign(o) * venue[o].filled
      BY <2>2, <2>a, <3>4, <3>5, <3>6
    <3>8. Magnitude(n + Sign(o) * venue[o].filled) <= limits.maxPosition
      BY <1>2, <2>2, <3>2, <3>6, Between
    <3> QED
      BY <3>7, <3>8
  <2> QED
    BY <2>3, <2>4
<1> QED
  BY <1>4, <1>5, <1>b DEF VenueWithinLimits, OpenWithinLimit, ExposureWithinLimit

\* While the limits stay, the venue never has more open orders of a symbol than the limit,
\* and, with one order at a time, never trades more of it than the position limit: the
\* check looks at the manager's own books, which late and lost reports leave behind.
THEOREM VenueStaysWithinLimits == LimitsStay => (Spec => []VenueWithinLimits)
<1> SUFFICES ASSUME LimitsStay PROVE Spec => []VenueWithinLimits
  OBVIOUS
<1>1. Init => FlowInv /\ LimitInv
  BY FlowInvInit, LimitInit
<1>2. FlowInv /\ LimitInv /\ [Next]_vars => (FlowInv /\ LimitInv)'
  BY FlowInvStep, LimitStep
<1>3. FlowInv /\ LimitInv => VenueWithinLimits
  BY LimitsGiveProperty
<1> QED
  BY <1>1, <1>2, <1>3, PTL DEF Spec
===============================================================================
