----------------------------- MODULE PoolManager -----------------------------
(***************************************************************************)
(* PoolManager (infra/pool/manager.go) around one pool: the shutdown flag, *)
(* the lock its lookups share with Shutdown, and the WaitGroup Shutdown    *)
(* waits on.  The pool's own steps are those of ObjectPool; each step here *)
(* adds what the manager does around them.  GetMany and the Borrow and     *)
(* Return helpers are sequences of these calls by a caller that may hold   *)
(* several objects.                                                        *)
(***************************************************************************)
EXTENDS ObjectPool, Functions

ASSUME ManagerAssumption == IsFiniteSet(Objects) /\ IsFiniteSet(Callers)

VARIABLES
    mpc,          \* where each caller is in the manager's methods
    shut,         \* progress of Shutdown
    inFlight,     \* the WaitGroup
    activeCount   \* the counter Shutdown reports from

managerVars == <<mpc, shut, inFlight, activeCount>>
mvars == <<vars, managerVars>>

ManagerPcs == {"idle", "getLookup", "tryLookup", "get", "tryGet", "borrow", "count",
               "putLookup", "tryPutLookup", "put", "tryPut", "return", "tryReturn", "settle"}
ShutdownPcs == {"none", "signalled", "closing", "waiting", "nil", "timeout"}

ManagerTypeOK ==
    /\ mpc \in [Callers -> ManagerPcs]
    /\ shut \in ShutdownPcs
    /\ inFlight \in Nat           \* Done on a zero WaitGroup panics
    /\ activeCount \in Int

ShutdownBegun == shut # "none"
MuLocked == shut = "closing"

ManagerInit ==
    /\ Init
    /\ mpc = [c \in Callers |-> "idle"]
    /\ shut = "none"
    /\ inFlight = 0
    /\ activeCount = 0

MGoto(c, pc) == mpc' = [mpc EXCEPT ![c] = pc]
Uncounted == UNCHANGED <<shut, inFlight, activeCount>>

-------------------------------------------------------------------------------
(* Get and TryGet *)

\* The check of shutdownCh.
Ask(c) ==
    /\ mpc[c] = "idle" /\ cpc[c] = "idle"
    /\ ~ShutdownBegun
    /\ Cardinality(held[c]) < MaxHold
    /\ MGoto(c, "getLookup") \/ MGoto(c, "tryLookup")
    /\ Uncounted /\ UNCHANGED vars

\* lookup takes the read lock, which Shutdown's write lock holds off.
Lookup(c) ==
    /\ ~MuLocked
    /\ \/ mpc[c] = "getLookup" /\ MGoto(c, "get")
       \/ mpc[c] = "tryLookup" /\ MGoto(c, "tryGet")
       \/ mpc[c] = "putLookup" /\ MGoto(c, "put")
       \/ mpc[c] = "tryPutLookup" /\ MGoto(c, "tryPut")
    /\ Uncounted /\ UNCHANGED vars

\* The pool's first check: closed, or a request is made.
EnterPool(c) ==
    /\ \/ mpc[c] = "get" /\ Get(c) /\ MGoto(c, "borrow")
       \/ mpc[c] = "tryGet" /\ TryGet(c) /\ MGoto(c, "borrow")
       \/ mpc[c] \in {"get", "tryGet"} /\ Closed /\ MGoto(c, "idle") /\ UNCHANGED vars
    /\ Uncounted

\* The pool's call goes on; what it returns decides what Get does next.
InPool(c) ==
    /\ mpc[c] = "borrow"
    /\ Enqueue(c) \/ Steal(c) \/ TryEnqueue(c) \/ Receive(c) \/ Abandon(c)
    /\ MGoto(c, IF cpc'[c] # "idle" THEN "borrow"
                ELSE IF held'[c] # held[c] THEN "count" ELSE "idle")
    /\ Uncounted

CountFlight == inFlight + 1

\* inFlight.Add(1) and activeCount.Add(1), after the object has been received.
CountBorrow(c) ==
    /\ mpc[c] = "count"
    /\ inFlight' = CountFlight
    /\ activeCount' = activeCount + 1
    /\ MGoto(c, "idle")
    /\ UNCHANGED <<shut, vars>>

-------------------------------------------------------------------------------
(* Put and TryPut *)

GiveBack(c) ==
    /\ mpc[c] = "idle" /\ cpc[c] = "idle"
    /\ held[c] # {}
    /\ MGoto(c, "putLookup") \/ MGoto(c, "tryPutLookup")
    /\ Uncounted /\ UNCHANGED vars

\* A tryPut that is refused leaves both counters alone.
BeginPut(c, o) ==
    /\ \/ mpc[c] = "put" /\ PutLoad(c, o) /\ MGoto(c, IF cpc'[c] = "put" THEN "return" ELSE "settle")
       \/ mpc[c] = "tryPut" /\ leases[o] # None /\ PutLoad(c, o) /\ MGoto(c, "tryReturn")
       \/ mpc[c] = "tryPut" /\ TryPutRejected(c, o) /\ MGoto(c, "idle")
    /\ Uncounted

\* Put counts in deferred calls, which a panic does not skip; TryPut does not.
FinishPut(c) ==
    /\ mpc[c] \in {"return", "tryReturn"}
    /\ PutSend(c)
    /\ MGoto(c, IF mpc[c] = "tryReturn" /\ cpc'[c] = "panicked" THEN "idle" ELSE "settle")
    /\ Uncounted

SettleReturn_Missing == inFlight
SettleReturn == inFlight - 1

Settle(c) ==
    /\ mpc[c] = "settle"
    /\ inFlight' = SettleReturn
    /\ activeCount' = activeCount - 1
    /\ MGoto(c, "idle")
    /\ UNCHANGED <<shut, vars>>

-------------------------------------------------------------------------------
(* Shutdown *)

Goon(from, to) == shut = from /\ shut' = to

Signal   == Goon("none", "signalled") /\ UNCHANGED <<mpc, inFlight, activeCount, vars>>
TakeLock == Goon("signalled", "closing") /\ UNCHANGED <<mpc, inFlight, activeCount, vars>>

\* pool.close(), with the write lock held and no context.
ClosePool == shut = "closing" /\ Closer /\ UNCHANGED managerVars

Unlock ==
    /\ closer = "done"
    /\ Goon("closing", "waiting")
    /\ UNCHANGED <<mpc, inFlight, activeCount, vars>>

\* The final select: inFlight.Wait() has returned, or the context has ended.
ShutdownReturns ==
    /\ \/ inFlight = 0 /\ Goon("waiting", "nil")
       \/ Goon("waiting", "timeout")
    /\ UNCHANGED <<mpc, inFlight, activeCount, vars>>

Shutdown == Signal \/ TakeLock \/ ClosePool \/ Unlock \/ ShutdownReturns

-------------------------------------------------------------------------------
Serve(c) == \/ Lookup(c) \/ EnterPool(c) \/ InPool(c) \/ CountBorrow(c)
            \/ FinishPut(c) \/ Settle(c) \/ \E o \in Objects : BeginPut(c, o)

Expire(c) == EndContext(c) /\ UNCHANGED managerVars
Serving(o) == Worker(o) /\ UNCHANGED managerVars

ManagerNext ==
    \/ \E c \in Callers : Ask(c) \/ GiveBack(c) \/ Serve(c) \/ Expire(c)
    \/ \E o \in Objects : Serving(o)
    \/ Shutdown

ManagerSpec == ManagerInit /\ [][ManagerNext]_mvars

\* Every goroutine that can run does; borrowers return what they took, and
\* Shutdown, once called, goes on.
ManagerFairSpec ==
    /\ ManagerSpec
    /\ \A c \in Callers : WF_mvars(Serve(c)) /\ WF_mvars(GiveBack(c))
    /\ \A o \in Objects : WF_mvars(Serving(o))
    /\ WF_mvars(shut # "none" /\ Shutdown)

-------------------------------------------------------------------------------
(* Properties *)

\* What caller c accounts for: the objects it holds, less one it has received
\* and not counted, plus one it has given back and not settled.
Accounted(c) ==
    Cardinality(held[c]) + (IF mpc[c] = "settle" /\ cpc[c] = "idle" THEN 1
                            ELSE IF mpc[c] = "count" THEN -1 ELSE 0)

\* Until the pool is closed the WaitGroup stands at the number of objects the
\* callers have, and the reported count agrees with it: no path through Get,
\* TryGet, Put or TryPut forgets or repeats a count.
InFlightIsExact ==
    ~Closed => /\ inFlight = activeCount
               /\ inFlight = SumFunctionOnSet([c \in Callers |-> Accounted(c)], Callers)

\* Why InFlightIsExact is inductive: where a caller is in the manager's methods tells
\* where it is in the pool's, and one that is to count has received an object.
CallInv ==
    /\ mpc \in [Callers -> ManagerPcs]
    /\ \A c \in Callers :
        /\ mpc[c] = "borrow" => cpc[c] \in {"enqueue", "send", "steal", "tryEnqueue", "wait", "tryWait"}
        /\ mpc[c] \in {"return", "tryReturn"} => cpc[c] = "put"
        /\ mpc[c] \notin {"borrow", "return", "tryReturn"} => cpc[c] \in {"idle", "panicked"}
        /\ mpc[c] = "count" => cpc[c] = "idle" /\ held[c] # {}

\* What the WaitGroup still stands for, once the pool is closed too: a caller that has
\* panicked may settle once, and returns nothing more.
Due(c) == IF cpc[c] # "panicked" THEN Accounted(c) ELSE IF mpc[c] = "settle" THEN 1 ELSE 0
Dues == [c \in Callers |-> Due(c)]

FlightInv ==
    /\ inFlight \in Int /\ activeCount = inFlight
    /\ inFlight >= SumFunctionOnSet(Dues, Callers)
    /\ ~Closed => inFlight = SumFunctionOnSet(Dues, Callers)

\* When nobody has or asks for an object as the lock is taken, Shutdown returns.
QuietShutdownEnds ==
    (/\ MuLocked /\ ~Closed /\ requests = <<>> /\ \A o \in Objects : wpc[o] = "next"
     /\ \A c \in Callers : mpc[c] = "idle")
    ~> shut \in {"nil", "timeout"}
===============================================================================
