------------------------------ MODULE ObjectPool ------------------------------
(***************************************************************************)
(* The worker-per-object pool of infra/pool/object_pool.go.                *)
(*                                                                         *)
(* `capacity` goroutines each own one object.  A borrower queues a request *)
(* on the buffered channel `requests`; a worker takes it, registers a      *)
(* fresh lease for its object and sends the object into the request's      *)
(* one-slot `result` channel.  The borrower returns the object through the *)
(* one-slot `returnCh` of the lease it finds in the map `leases`.  close() *)
(* closes `stop`, then the returnCh of every lease it meets in the map,    *)
(* and waits for the workers.                                              *)
(*                                                                         *)
(* A step is what one goroutine does between two operations another        *)
(* goroutine can observe (a channel operation, a map access, an atomic).   *)
(* Borrowers are disciplined: each returns an object it holds, once.       *)
(*                                                                         *)
(* A caller has one request at a time, so the request goes by the caller's *)
(* name; once the caller has given up, what is left of the request in the  *)
(* queue or in a worker's hands is an Orphan.                              *)
(***************************************************************************)
EXTENDS Integers, Sequences, FiniteSets

CONSTANTS
    Objects,      \* the pooled objects; each names its worker goroutine
    Callers,      \* the goroutines that borrow
    Cancellable,  \* the callers whose context can end while they wait
    Gens,         \* tells apart the leases of one object still referenced
    QueueSize,    \* capacity of the channel `requests`
    MaxHold,      \* bound: objects one caller holds at a time
    None, Empty, Dropped, Orphan

ASSUME PoolAssumption ==
    /\ QueueSize \in Nat \ {0}
    /\ MaxHold \in Nat
    /\ Cancellable \subseteq Callers
    /\ None \notin Objects \union Callers \union (Objects \X Gens)
    /\ Orphan \notin Callers \union {None}
    /\ Empty \notin Objects /\ Dropped \notin Objects /\ Empty # Dropped

VARIABLES
    requests,     \* the channel of queued requests
    result,       \* content of the result channel of each caller's request
    ctxDone,      \* the callers whose context has ended
    wpc,          \* where each worker is
    wreq,         \* the request a worker is serving
    wlease,       \* the lease a worker created or waits on
    leases,       \* the sync.Map: the lease registered for each object
    chClosed,     \* the leases whose returnCh is closed
    chFull,       \* the leases whose returnCh holds the returned object
    returned,     \* the objects whose returned flag is set
    activeLeases, \* the counter behind the availability metric
    cpc,          \* where each caller is
    held,         \* the objects each caller holds
    cput,         \* the object a caller is returning
    clease,       \* the lease a returning caller has loaded
    closer,       \* progress of close()
    unvisited,    \* the objects close() has still to visit in the map
    rlease        \* the lease close() has loaded and is about to close

queueVars  == <<requests, result, ctxDone>>
workerVars == <<wpc, wreq, wlease, activeLeases>>
leaseVars  == <<leases, chClosed, chFull, returned>>
callerVars == <<cpc, held, cput, clease>>
closeVars  == <<closer, unvisited, rlease>>
vars == <<queueVars, workerVars, leaseVars, callerVars, closeVars>>

Leases == Objects \X Gens
WorkerPcs == {"next", "deliver", "cancel", "count", "wait", "exited", "panicked"}
CallerPcs == {"idle", "enqueue", "send", "steal", "tryEnqueue", "wait", "tryWait", "put", "panicked"}
CloserPcs == {"open", "closed", "range", "close", "join", "done", "panicked"}

TypeOK ==
    /\ requests \in Seq(Callers \union {Orphan})
    /\ result \in [Callers -> Objects \union {Empty, Dropped}]
    /\ ctxDone \subseteq Callers
    /\ wpc \in [Objects -> WorkerPcs]
    /\ wreq \in [Objects -> Callers \union {Orphan, None}]
    /\ wlease \in [Objects -> Leases \union {None}]
    /\ activeLeases \in Int
    /\ leases \in [Objects -> Leases \union {None}]
    /\ chClosed \subseteq Leases
    /\ chFull \subseteq Leases
    /\ returned \subseteq Objects
    /\ cpc \in [Callers -> CallerPcs]
    /\ held \in [Callers -> SUBSET Objects]
    /\ cput \in [Callers -> Objects \union {None}]
    /\ clease \in [Callers -> Leases \union {None}]
    /\ closer \in CloserPcs
    /\ unvisited \subseteq Objects
    /\ rlease \in Leases \union {None}

Closed  == closer # "open"
Stopped == closer \notin {"open", "closed"}

\* The leases of o that nothing refers to any more.
FreeLeases(o) ==
    ({o} \X Gens) \ ({leases[o], wlease[o], rlease} \union {clease[c] : c \in Callers})

Init ==
    /\ requests = <<>>
    /\ result = [c \in Callers |-> Empty]
    /\ ctxDone = {}
    /\ wpc = [o \in Objects |-> "next"]
    /\ wreq = [o \in Objects |-> None]
    /\ wlease = [o \in Objects |-> None]
    /\ activeLeases = 0
    /\ leases = [o \in Objects |-> None]
    /\ chClosed = {}
    /\ chFull = {}
    /\ returned = Objects
    /\ cpc = [c \in Callers |-> "idle"]
    /\ held = [c \in Callers |-> {}]
    /\ cput = [c \in Callers |-> None]
    /\ clease = [c \in Callers |-> None]
    /\ closer = "open"
    /\ unvisited = {}
    /\ rlease = None

-------------------------------------------------------------------------------
(* Borrowing: get, enqueueRequest, tryGet, newPoolRequest *)

Goto(c, pc) ==
    /\ cpc' = [cpc EXCEPT ![c] = pc]
    /\ UNCHANGED <<held, cput, clease, queueVars, workerVars, leaseVars, closeVars>>

Begin(c, pc) ==
    /\ cpc[c] = "idle"
    /\ ~Closed
    /\ Cardinality(held[c]) < MaxHold
    /\ Goto(c, pc)

\* get() reads `closed`, then builds its request.
Get(c) == Begin(c, "enqueue")

\* tryGet() does the same with a background context.
TryGet(c) == Begin(c, "tryEnqueue")

\* A caller leaves with an error; its request may still be queued or served.
GiveUp(c) ==
    /\ cpc' = [cpc EXCEPT ![c] = "idle"]
    /\ requests' = [i \in DOMAIN requests |-> IF requests[i] = c THEN Orphan ELSE requests[i]]
    /\ wreq' = [o \in Objects |-> IF wreq[o] = c THEN Orphan ELSE wreq[o]]
    /\ result' = [result EXCEPT ![c] = Empty]
    /\ ctxDone' = ctxDone \ {c}
    /\ UNCHANGED <<held, cput, clease, wpc, wlease, activeLeases, leaseVars, closeVars>>

Send(c, pc) ==
    /\ Len(requests) < QueueSize
    /\ requests' = Append(requests, c)
    /\ cpc' = [cpc EXCEPT ![c] = pc]
    /\ UNCHANGED <<result, ctxDone, held, cput, clease, workerVars, leaseVars, closeVars>>

\* One turn of enqueueRequest's loop.  Its first select looks at stop and at the
\* context; the second, later, sends or finds the channel full.
Enqueue(c) ==
    \/ /\ cpc[c] = "enqueue"
       /\ Stopped \/ c \in ctxDone
       /\ GiveUp(c)
    \/ /\ cpc[c] = "enqueue"
       /\ ~Stopped /\ c \notin ctxDone
       /\ Goto(c, "send")
    \/ cpc[c] = "send" /\ Send(c, "wait")
    \/ cpc[c] = "send" /\ Len(requests) = QueueSize /\ Goto(c, "steal")

\* req.fail: an error in the result slot, unless something is there already.
Fail_Forgotten(old) == result
Fail(old) ==
    [c \in Callers |-> IF c = old /\ result[c] = Empty THEN Dropped ELSE result[c]]

\* `old := <-op.requests` waits for a request, whatever stop and the context
\* say, and fails the one it gets unless something has answered it.
Steal(c) ==
    /\ cpc[c] = "steal"
    /\ requests # <<>>
    /\ result' = Fail(Head(requests))
    /\ requests' = Tail(requests)
    /\ cpc' = [cpc EXCEPT ![c] = "enqueue"]
    /\ UNCHANGED <<ctxDone, held, cput, clease, workerVars, leaseVars, closeVars>>

TryEnqueue(c) ==
    /\ cpc[c] = "tryEnqueue"
    /\ \/ Send(c, "tryWait")
       \/ Stopped /\ GiveUp(c)
       \/ Len(requests) = QueueSize /\ GiveUp(c)

\* What the caller owns of an answer: nothing, if it is an error.
Granted(res) == {res} \ {Dropped}

\* The last select of get and tryGet, the result's case.
Receive(c) ==
    /\ cpc[c] \in {"wait", "tryWait"}
    /\ result[c] # Empty
    /\ held' = [held EXCEPT ![c] = @ \union Granted(result[c])]
    /\ result' = [result EXCEPT ![c] = Empty]
    /\ ctxDone' = ctxDone \ {c}
    /\ cpc' = [cpc EXCEPT ![c] = "idle"]
    /\ UNCHANGED <<requests, cput, clease, workerVars, leaseVars, closeVars>>

\* The same select, the cases of stop and of the caller's context.
Abandon(c) ==
    /\ \/ cpc[c] \in {"wait", "tryWait"} /\ Stopped
       \/ cpc[c] = "wait" /\ c \in ctxDone
    /\ GiveUp(c)

\* A caller's context ends: a deadline (AcquireOrderRequest allows 100ms) or a
\* cancellation.
EndContext(c) ==
    /\ c \in Cancellable
    /\ cpc[c] \in {"enqueue", "send", "steal", "wait"}
    /\ c \notin ctxDone
    /\ ctxDone' = ctxDone \union {c}
    /\ UNCHANGED <<requests, result, callerVars, workerVars, leaseVars, closeVars>>

-------------------------------------------------------------------------------
(* Returning: put and tryPut *)

\* Load the lease from the map; without one, put errs and its caller
\* (PoolManager.Put) panics.
PutLoad(c, o) ==
    /\ cpc[c] = "idle"
    /\ o \in held[c]
    /\ IF leases[o] = None
       THEN /\ cpc' = [cpc EXCEPT ![c] = "panicked"]
            /\ UNCHANGED <<cput, clease, returned>>
       ELSE /\ cpc' = [cpc EXCEPT ![c] = "put"]
            /\ cput' = [cput EXCEPT ![c] = o]
            /\ clease' = [clease EXCEPT ![c] = leases[o]]
            /\ returned' = returned \union {o}
    /\ UNCHANGED <<held, leases, chClosed, chFull, queueVars, workerVars, closeVars>>

\* tryPut without a lease reports the error, and the caller drops the object.
TryPutRejected(c, o) ==
    /\ cpc[c] = "idle"
    /\ o \in held[c]
    /\ leases[o] = None
    /\ held' = [held EXCEPT ![c] = @ \ {o}]
    /\ UNCHANGED <<cpc, cput, clease, queueVars, workerVars, leaseVars, closeVars>>

\* The non-blocking send: a closed channel panics, a full one is a double put
\* (the entry is deleted, and put's caller panics on its error).
PutSend(c) ==
    /\ cpc[c] = "put"
    /\ cput' = [cput EXCEPT ![c] = None]
    /\ clease' = [clease EXCEPT ![c] = None]
    /\ IF clease[c] \in chClosed \union chFull
       THEN /\ cpc' = [cpc EXCEPT ![c] = "panicked"]
            /\ leases' = [leases EXCEPT ![cput[c]] = IF clease[c] \in chClosed THEN @ ELSE None]
            /\ UNCHANGED <<held, chFull>>
       ELSE /\ cpc' = [cpc EXCEPT ![c] = "idle"]
            /\ held' = [held EXCEPT ![c] = @ \ {cput[c]}]
            /\ chFull' = chFull \union {clease[c]}
            /\ UNCHANGED leases
    /\ UNCHANGED <<chClosed, returned, queueVars, workerVars, closeVars>>

-------------------------------------------------------------------------------
(* The worker: nextRequest, checkout, deliver, cancelLease, waitForReturn *)

\* checkout stores the lease before the object is delivered.
Register_Missing(o, l) == UNCHANGED leases
Register(o, l) == leases' = [leases EXCEPT ![o] = l]

\* nextRequest's receive, then checkout.
Take(o) ==
    /\ wpc[o] = "next"
    /\ requests # <<>>
    /\ requests' = Tail(requests)
    /\ wreq' = [wreq EXCEPT ![o] = Head(requests)]
    /\ \E l \in FreeLeases(o) :
         /\ l = (CHOOSE x \in FreeLeases(o) : TRUE)   \* they are interchangeable
         /\ wlease' = [wlease EXCEPT ![o] = l]
         /\ Register(o, l)
         /\ chClosed' = chClosed \ {l}
         /\ chFull' = chFull \ {l}
    /\ wpc' = [wpc EXCEPT ![o] = "deliver"]
    /\ UNCHANGED <<result, ctxDone, activeLeases, returned, callerVars, closeVars>>

Leave_Never(o) == FALSE

\* nextRequest's stop case, which a closed channel keeps ready.
Leave(o) ==
    /\ wpc[o] = "next"
    /\ Stopped
    /\ wpc' = [wpc EXCEPT ![o] = "exited"]
    /\ UNCHANGED <<wreq, wlease, activeLeases, queueVars, leaseVars, callerVars, closeVars>>

\* obj.SetReturned(false) in the operand of deliver's send.
MarkLent_Missing(o) == UNCHANGED returned
MarkLent(o) == returned' = returned \ {o}

\* deliver's send.  The slot is empty, so it never waits for the borrower; an
\* object sent to an orphan is never received.
Deliver(o) ==
    /\ wpc[o] = "deliver"
    /\ wreq[o] \in Callers => result[wreq[o]] = Empty
    /\ result' = [c \in Callers |-> IF c = wreq[o] THEN o ELSE result[c]]
    /\ MarkLent(o)
    /\ wreq' = [wreq EXCEPT ![o] = None]
    /\ wpc' = [wpc EXCEPT ![o] = "count"]
    /\ UNCHANGED <<requests, ctxDone, wlease, activeLeases, leases, chClosed, chFull,
                   callerVars, closeVars>>

\* deliver's stop and context cases (an orphan's context has ended, or stop is
\* closed).  The send's operand was evaluated first: the flag is cleared.
Undeliver(o) ==
    /\ wpc[o] = "deliver"
    /\ Stopped \/ wreq[o] \in ctxDone \union {Orphan}
    /\ MarkLent(o)
    /\ wreq' = [wreq EXCEPT ![o] = None]
    /\ wpc' = [wpc EXCEPT ![o] = "cancel"]
    /\ UNCHANGED <<wlease, activeLeases, leases, chClosed, chFull, queueVars, callerVars, closeVars>>

\* Delete, then close: closing a closed channel panics.
CancelLease(o) ==
    /\ wpc[o] = "cancel"
    /\ leases' = [leases EXCEPT ![o] = None]
    /\ wlease' = [wlease EXCEPT ![o] = None]
    /\ \/ /\ wlease[o] \in chClosed
          /\ wpc' = [wpc EXCEPT ![o] = "panicked"]
          /\ UNCHANGED <<chClosed, returned>>
       \/ /\ wlease[o] \notin chClosed
          /\ chClosed' = chClosed \union {wlease[o]}
          /\ returned' = returned \union {o}
          /\ wpc' = [wpc EXCEPT ![o] = "next"]
    /\ UNCHANGED <<wreq, activeLeases, chFull, queueVars, callerVars, closeVars>>

\* activeLeases.Add(1) after the send.
Count(o) ==
    /\ wpc[o] = "count"
    /\ activeLeases' = activeLeases + 1
    /\ wpc' = [wpc EXCEPT ![o] = "wait"]
    /\ UNCHANGED <<wreq, wlease, queueVars, leaseVars, callerVars, closeVars>>

CountReturn == activeLeases' = activeLeases - 1

\* waitForReturn receives the object; a closed channel still yields it first.
TakeBack(o) ==
    /\ wpc[o] = "wait"
    /\ wlease[o] \in chFull
    /\ chFull' = chFull \ {wlease[o]}
    /\ leases' = [leases EXCEPT ![o] = None]
    /\ wlease' = [wlease EXCEPT ![o] = None]
    /\ CountReturn
    /\ returned' = returned \union {o}
    /\ wpc' = [wpc EXCEPT ![o] = "next"]
    /\ UNCHANGED <<wreq, chClosed, queueVars, callerVars, closeVars>>

\* A receive reports `closed` only when the channel is also empty.
Drained(l) == l \in chClosed \ chFull

\* The worker ends when its receive fails; the object is with its borrower.
AfterForsaken_NextTurn == "next"
AfterForsaken == "exited"

\* waitForReturn finds the channel closed and empty.
Forsake(o) ==
    /\ wpc[o] = "wait"
    /\ Drained(wlease[o])
    /\ leases' = [leases EXCEPT ![o] = None]
    /\ wlease' = [wlease EXCEPT ![o] = None]
    /\ wpc' = [wpc EXCEPT ![o] = AfterForsaken]
    /\ UNCHANGED <<wreq, activeLeases, chClosed, chFull, returned, queueVars, callerVars, closeVars>>

-------------------------------------------------------------------------------
(* close *)

Close ==
    /\ closer = "open"
    /\ closer' = "closed"
    /\ UNCHANGED <<unvisited, rlease, queueVars, workerVars, leaseVars, callerVars>>

\* close(stop); then Range visits the keys present when it starts, and those
\* stored meanwhile or not.
CloseStop ==
    /\ closer = "closed"
    /\ closer' = "range"
    /\ \E late \in SUBSET {o \in Objects : leases[o] = None} : unvisited' = Objects \ late
    /\ UNCHANGED <<rlease, queueVars, workerVars, leaseVars, callerVars>>

\* Range loads an entry, and the callback closes its channel.
RangeLoad(o) ==
    /\ closer = "range"
    /\ o \in unvisited
    /\ unvisited' = unvisited \ {o}
    /\ rlease' = leases[o]
    /\ closer' = IF leases[o] = None THEN "range" ELSE "close"
    /\ UNCHANGED <<queueVars, workerVars, leaseVars, callerVars>>

RangeClose ==
    /\ closer = "close"
    /\ rlease' = None
    /\ \/ rlease \in chClosed /\ closer' = "panicked" /\ UNCHANGED chClosed
       \/ rlease \notin chClosed /\ closer' = "range" /\ chClosed' = chClosed \union {rlease}
    /\ UNCHANGED <<unvisited, leases, chFull, returned, queueVars, workerVars, callerVars>>

RangeEnd ==
    /\ closer = "range"
    /\ unvisited = {}
    /\ closer' = "join"
    /\ UNCHANGED <<unvisited, rlease, queueVars, workerVars, leaseVars, callerVars>>

\* workers.Wait() returns, or raises again the panic of a worker.
Join ==
    /\ closer = "join"
    /\ \A o \in Objects : wpc[o] \in {"exited", "panicked"}
    /\ closer' = IF \E o \in Objects : wpc[o] = "panicked" THEN "panicked" ELSE "done"
    /\ UNCHANGED <<unvisited, rlease, queueVars, workerVars, leaseVars, callerVars>>

-------------------------------------------------------------------------------
Borrow(c) == Get(c) \/ TryGet(c)
Progress(c) == Enqueue(c) \/ Steal(c) \/ TryEnqueue(c) \/ Receive(c) \/ Abandon(c) \/ PutSend(c)
Return(c) == \E o \in Objects : PutLoad(c, o) \/ TryPutRejected(c, o)
Caller(c) == Borrow(c) \/ Progress(c) \/ Return(c) \/ EndContext(c)
Worker(o) == \/ Take(o) \/ Leave(o) \/ Deliver(o) \/ Undeliver(o) \/ CancelLease(o)
             \/ Count(o) \/ TakeBack(o) \/ Forsake(o)
Closer == Close \/ CloseStop \/ RangeClose \/ RangeEnd \/ Join \/ \E o \in Objects : RangeLoad(o)

Next ==
    \/ \E c \in Callers : Caller(c)
    \/ \E o \in Objects : Worker(o)
    \/ Closer

Spec == Init /\ [][Next]_vars

-------------------------------------------------------------------------------
(* Properties *)

\* Blocked in a receive: of an answer, or of the request to drop.
Waiting(c) == cpc[c] \in {"wait", "tryWait", "steal"}

\* It found the queue full, and before it took the oldest request others emptied it.
Robbed(c) == cpc[c] = "steal" /\ requests = <<>>

\* The objects on their way to a caller that waits for them.
Offered == {o \in Objects : \E c \in Callers : result[c] = o}

\* No object is held by two callers, offered to two callers, or offered while
\* it is held: a pooled event or order request has one owner at a time, however
\* get, put, a timeout and close interleave.
ExclusiveLending ==
    /\ \A c, d \in Callers : c # d => held[c] \cap held[d] = {}
    /\ \A c, d \in Callers : c # d /\ result[c] = result[d] => result[c] \notin Objects
    /\ \A c \in Callers : held[c] \cap Offered = {}

\* The worker resets an object and marks it returned only when no caller holds
\* it; a holder sees its object so marked only during its own put (or when that
\* put has panicked).
HeldObjectNotReset ==
    \A c \in Callers : cpc[c] # "panicked" => held[c] \cap returned \subseteq {cput[c]}

\* Until close() is called nothing panics: the lease of a held object is in the
\* map, its channel is open and empty, and a cancelled lease is closed once.
NoPanicWhileOpen ==
    ~Closed => /\ \A c \in Callers : cpc[c] # "panicked"
               /\ \A o \in Objects : wpc[o] # "panicked"

\* While no context ends (a timeout can lose an object) a caller that is blocked goes
\* on, whoever else borrows, is turned away by a full queue, or closes the pool.  Not so
\* one that is robbed of the request it means to drop: its receive listens to nothing
\* else, and if nobody asks again it is blocked for ever, in an open or a closed pool.
WaitersServed ==
    [](ctxDone = {}) => \A c \in Callers : Waiting(c) ~> (~Waiting(c) \/ Robbed(c))

-------------------------------------------------------------------------------
(* The inductive invariant behind ExclusiveLending and NoPanicWhileOpen *)

\* A lease belongs to one object; the map holds the worker's lease or nothing.
LeaseInv ==
    /\ \A o \in Objects : wlease[o] \in ({o} \X Gens) \union {None}
    /\ \A o \in Objects : leases[o] \in {wlease[o], None}
    /\ \A o \in Objects : wpc[o] \in {"deliver", "cancel", "count", "wait"} => wlease[o] # None
    /\ closer = "close" => rlease # None

\* A returning caller still holds its object, and the lease it loaded is the
\* worker's unless that channel has been closed meanwhile.
PutInv ==
    \A c \in Callers : cpc[c] = "put" =>
        /\ cput[c] \in held[c]
        /\ clease[c] # None
        /\ clease[c] = wlease[cput[c]] \/ clease[c] \in chClosed

\* While an object is offered or held its worker waits or has left, and has
\* nothing to take back; nor has the lease of an object about to be delivered.
AwayInv ==
    /\ \A o \in Objects : (\E c \in Callers : o \in held[c] \/ result[c] = o) =>
          wpc[o] \in {"count", "wait", "exited"} /\ wlease[o] \notin chFull
    /\ \A o \in Objects : wpc[o] = "deliver" => wlease[o] \notin chFull

\* Before close() every lease in use is in the map and open.
OpenInv ==
    ~Closed =>
        /\ \A o \in Objects : wlease[o] \notin chClosed
        /\ \A o \in Objects : leases[o] = wlease[o]
        /\ \A o \in Objects : wpc[o] \notin {"exited", "panicked"}
        /\ \A c \in Callers : cpc[c] # "panicked"
        /\ \A c \in Callers : cpc[c] = "put" => clease[c] = wlease[cput[c]]

PoolInv == TypeOK /\ LeaseInv /\ PutInv /\ AwayInv /\ ExclusiveLending /\ OpenInv

\* What the returned flag and the lease of an object tell about where it is: an
\* idle worker has its object back and marked; an object that is offered is not
\* marked; one that is away and marked is on its way back, or in a put.
MarkInv ==
    /\ \A c \in Callers : cpc[c] # "put" => cput[c] = None
    /\ Offered \cap returned = {}
    /\ \A o \in Objects : wpc[o] \in {"next", "exited", "panicked"} => wlease[o] = None
    /\ \A o \in Objects : wpc[o] \in {"deliver", "cancel"} => wlease[o] \notin chFull
    /\ \A o \in Objects : wpc[o] = "next" => o \in returned
    /\ \A o \in Objects : wpc[o] \in {"count", "wait"} /\ o \in returned =>
          wlease[o] \in chFull \/ \E c \in Callers : o \in held[c]
    /\ HeldObjectNotReset

-------------------------------------------------------------------------------
(* The pool implements Lending *)

\* Where an object is that no borrower has.
RestOf(o) == IF wlease[o] \in chFull THEN "back"
             ELSE IF wpc[o] \in {"count", "wait"} THEN "gone"
             ELSE IF wpc[o] = "exited" /\ o \notin returned THEN "gone"
             ELSE "shelf"

PlaceOf(o) ==
    IF \E c \in Callers : o \in held[c]
    THEN [at |-> "lent", to |-> CHOOSE c \in Callers : o \in held[c]]
    ELSE IF o \in Offered
    THEN [at |-> "offered", to |-> CHOOSE c \in Callers : result[c] = o]
    ELSE [at |-> RestOf(o), to |-> None]

Abstract == INSTANCE Lending WITH place <- [o \in Objects |-> PlaceOf(o)]

\* Seen from outside, the pool lends each object to one caller at a time, and
\* takes it back only from that caller.
LendingSpec == Abstract!Spec
===============================================================================
