--------------------------- MODULE ObjectPoolProofs ---------------------------
(* Theorems about ObjectPool and PoolManager, for any objects, callers, queue and bounds. *)
EXTENDS PoolManager, SumProofs

USE PoolAssumption
USE DEF queueVars, workerVars, leaseVars, callerVars, closeVars,
        WorkerPcs, CallerPcs, CloserPcs

-------------------------------------------------------------------------------
(* The initial state *)

LEMMA PoolInvInit == Init => PoolInv
<1> SUFFICES ASSUME Init PROVE PoolInv
  OBVIOUS
<1>1. TypeOK
  BY DEF Init, TypeOK
<1>2. LeaseInv /\ PutInv /\ AwayInv /\ OpenInv
  BY DEF Init, LeaseInv, PutInv, AwayInv, OpenInv, Closed
<1>3. ExclusiveLending
  BY DEF Init, ExclusiveLending, Offered
<1> QED
  BY <1>1, <1>2, <1>3 DEF PoolInv

-------------------------------------------------------------------------------
(* The borrower's steps *)

\* The requests a caller's departure leaves behind are still a queue.
LEMMA OrphanedQueue ==
    ASSUME NEW c \in Callers, requests \in Seq(Callers \union {Orphan})
    PROVE  [i \in DOMAIN requests |-> IF requests[i] = c THEN Orphan ELSE requests[i]]
             \in Seq(Callers \union {Orphan})
<1> DEFINE q == [i \in DOMAIN requests |-> IF requests[i] = c THEN Orphan ELSE requests[i]]
<1>1. DOMAIN requests = 1..Len(requests) /\ Len(requests) \in Nat
  OBVIOUS
<1>2. q \in [1..Len(requests) -> Callers \union {Orphan}]
  BY <1>1
<1> QED
  BY <1>1, <1>2

\* A caller that moves on, queues a request or leaves: no object changes hands.
LEMMA GotoInv ==
    ASSUME PoolInv, NEW c \in Callers, NEW pc \in CallerPcs \ {"put", "panicked"},
           cpc[c] # "put", Goto(c, pc)
    PROVE  PoolInv'
<1>1. TypeOK'
  BY DEF PoolInv, TypeOK, Goto
<1>2. LeaseInv' /\ AwayInv' /\ ExclusiveLending'
  BY DEF PoolInv, LeaseInv, AwayInv, ExclusiveLending, Offered, Goto
<1>3. PutInv' /\ OpenInv'
  BY DEF PoolInv, TypeOK, PutInv, OpenInv, Closed, Goto
<1> QED
  BY <1>1, <1>2, <1>3 DEF PoolInv

LEMMA SendInv ==
    ASSUME PoolInv, NEW c \in Callers, NEW pc \in CallerPcs \ {"put", "panicked"},
           cpc[c] # "put", Send(c, pc)
    PROVE  PoolInv'
<1>1. TypeOK'
  <2>1. requests' \in Seq(Callers \union {Orphan})
    BY DEF PoolInv, TypeOK, Send
  <2> QED
    BY <2>1 DEF PoolInv, TypeOK, Send
<1>2. LeaseInv' /\ AwayInv' /\ ExclusiveLending'
  BY DEF PoolInv, LeaseInv, AwayInv, ExclusiveLending, Offered, Send
<1>3. PutInv' /\ OpenInv'
  BY DEF PoolInv, TypeOK, PutInv, OpenInv, Closed, Send
<1> QED
  BY <1>1, <1>2, <1>3 DEF PoolInv

LEMMA GiveUpInv ==
    ASSUME PoolInv, NEW c \in Callers, cpc[c] # "put", GiveUp(c)
    PROVE  PoolInv'
<1>1. TypeOK'
  <2>1. requests' \in Seq(Callers \union {Orphan})
    BY OrphanedQueue DEF PoolInv, TypeOK, GiveUp
  <2>2. wreq' \in [Objects -> Callers \union {Orphan, None}]
    BY DEF PoolInv, TypeOK, GiveUp
  <2> QED
    BY <2>1, <2>2 DEF PoolInv, TypeOK, GiveUp
<1>2. \A d \in Callers : result'[d] \in {result[d], Empty}
  BY DEF PoolInv, TypeOK, GiveUp
<1>3. LeaseInv' /\ AwayInv' /\ ExclusiveLending'
  BY <1>2 DEF PoolInv, TypeOK, LeaseInv, AwayInv, ExclusiveLending, Offered, GiveUp
<1>4. PutInv' /\ OpenInv'
  BY DEF PoolInv, TypeOK, PutInv, OpenInv, Closed, GiveUp
<1> QED
  BY <1>1, <1>3, <1>4 DEF PoolInv

LEMMA StealInv ==
    ASSUME PoolInv, NEW c \in Callers, Steal(c)
    PROVE  PoolInv'
<1>1. \A d \in Callers : result'[d] = result[d] \/ result'[d] = Dropped
  BY DEF PoolInv, TypeOK, Steal, Fail
<1>2. TypeOK'
  <2>1. requests' \in Seq(Callers \union {Orphan})
    BY DEF PoolInv, TypeOK, Steal
  <2>2. result' \in [Callers -> Objects \union {Empty, Dropped}]
    BY DEF PoolInv, TypeOK, Steal, Fail
  <2> QED
    BY <2>1, <2>2 DEF PoolInv, TypeOK, Steal
<1>3. LeaseInv' /\ AwayInv' /\ ExclusiveLending'
  BY <1>1 DEF PoolInv, TypeOK, LeaseInv, AwayInv, ExclusiveLending, Offered, Steal
<1>4. PutInv' /\ OpenInv'
  BY DEF PoolInv, TypeOK, PutInv, OpenInv, Closed, Steal
<1> QED
  BY <1>2, <1>3, <1>4 DEF PoolInv

\* The offered object becomes the caller's: nobody else holds it or is offered it.
LEMMA ReceiveInv ==
    ASSUME PoolInv, NEW c \in Callers, Receive(c)
    PROVE  PoolInv'
<1>1. Granted(result[c]) = {result[c]} \cap Objects
  BY DEF PoolInv, TypeOK, Receive, Granted
<1>2. /\ held' = [held EXCEPT ![c] = @ \union ({result[c]} \cap Objects)]
      /\ result' = [result EXCEPT ![c] = Empty]
      /\ cpc' = [cpc EXCEPT ![c] = "idle"]
      /\ cpc[c] # "put"
  BY <1>1 DEF Receive
<1>3. TypeOK'
  BY <1>2 DEF PoolInv, TypeOK, Receive
<1>4. LeaseInv' /\ PutInv' /\ OpenInv'
  BY <1>2 DEF PoolInv, TypeOK, LeaseInv, PutInv, OpenInv, Closed, Receive
<1>5. AwayInv'
  BY <1>2 DEF PoolInv, TypeOK, AwayInv, Receive
<1>6. ExclusiveLending'
  <2> USE <1>2 DEF PoolInv, TypeOK, ExclusiveLending, Offered
  <2>1. ASSUME NEW d \in Callers, NEW e \in Callers, d # e
        PROVE  held'[d] \cap held'[e] = {}
    BY <2>1
  <2>2. ASSUME NEW d \in Callers, NEW e \in Callers, d # e, result'[d] = result'[e]
        PROVE  result'[d] \notin Objects
    BY <2>2
  <2>3. ASSUME NEW d \in Callers
        PROVE  held'[d] \cap Offered' = {}
    BY <2>3
  <2> QED
    BY <2>1, <2>2, <2>3
<1> QED
  BY <1>3, <1>4, <1>5, <1>6 DEF PoolInv

LEMMA EndContextInv ==
    ASSUME PoolInv, NEW c \in Callers, EndContext(c)
    PROVE  PoolInv'
BY DEF PoolInv, TypeOK, LeaseInv, PutInv, AwayInv, ExclusiveLending, Offered, OpenInv, Closed,
       EndContext

\* A put begins with the worker's own lease, because the map holds no other.
LEMMA PutLoadInv ==
    ASSUME PoolInv, NEW c \in Callers, NEW o \in Objects, PutLoad(c, o)
    PROVE  PoolInv'
<1>1. TypeOK'
  BY DEF PoolInv, TypeOK, PutLoad
<1>2. LeaseInv' /\ AwayInv' /\ ExclusiveLending'
  BY DEF PoolInv, LeaseInv, AwayInv, ExclusiveLending, Offered, PutLoad
<1>3. PutInv'
  BY DEF PoolInv, TypeOK, LeaseInv, PutInv, PutLoad
<1>4. OpenInv'
  <2> SUFFICES ASSUME ~Closed PROVE OpenInv'
    BY DEF OpenInv, Closed, PutLoad
  <2>1. leases[o] # None
    BY DEF PoolInv, LeaseInv, AwayInv, OpenInv, PutLoad
  <2> QED
    BY <2>1 DEF PoolInv, TypeOK, OpenInv, Closed, PutLoad
<1> QED
  BY <1>1, <1>2, <1>3, <1>4 DEF PoolInv

LEMMA TryPutRejectedInv ==
    ASSUME PoolInv, NEW c \in Callers, NEW o \in Objects, TryPutRejected(c, o)
    PROVE  PoolInv'
<1>1. TypeOK'
  BY DEF PoolInv, TypeOK, TryPutRejected
<1>2. LeaseInv' /\ AwayInv' /\ PutInv' /\ OpenInv'
  BY DEF PoolInv, TypeOK, LeaseInv, AwayInv, PutInv, OpenInv, Closed, TryPutRejected
<1>3. ExclusiveLending'
  BY DEF PoolInv, TypeOK, ExclusiveLending, Offered, TryPutRejected
<1> QED
  BY <1>1, <1>2, <1>3 DEF PoolInv

\* An accepted put fills the channel of an object that nobody holds any more.
LEMMA PutSendInv ==
    ASSUME PoolInv, NEW c \in Callers, PutSend(c)
    PROVE  PoolInv'
<1>1. /\ cpc[c] = "put" /\ cput[c] \in held[c] /\ cput[c] \in Objects
      /\ clease[c] \in Leases
      /\ clease[c] \in chClosed \/ clease[c] = wlease[cput[c]]
  BY DEF PoolInv, TypeOK, PutInv, PutSend
<1>2. clease[c] \in chFull => clease[c] \in chClosed
  BY <1>1 DEF PoolInv, AwayInv
<1>3. CASE clease[c] \in chClosed
  <2>1. TypeOK'
    BY <1>1, <1>3 DEF PoolInv, TypeOK, PutSend
  <2>2. Closed
    BY <1>1, <1>3 DEF PoolInv, OpenInv
  <2>3. LeaseInv' /\ AwayInv' /\ PutInv' /\ OpenInv' /\ ExclusiveLending'
    BY <1>1, <1>3, <2>2 DEF PoolInv, TypeOK, LeaseInv, AwayInv, PutInv, OpenInv, Closed,
       ExclusiveLending, Offered, PutSend
  <2> QED
    BY <2>1, <2>3 DEF PoolInv
<1>4. CASE clease[c] \notin chClosed
  <2>1. /\ cpc' = [cpc EXCEPT ![c] = "idle"]
        /\ held' = [held EXCEPT ![c] = @ \ {cput[c]}]
        /\ chFull' = chFull \union {wlease[cput[c]]}
        /\ UNCHANGED <<leases, chClosed, returned, queueVars, workerVars, closeVars>>
    BY <1>1, <1>2, <1>4 DEF PutSend
  <2>2. TypeOK'
    BY <1>1, <1>4, <2>1 DEF PoolInv, TypeOK, PutSend
  <2>3. LeaseInv' /\ PutInv' /\ OpenInv'
    BY <1>1, <2>1 DEF PoolInv, TypeOK, LeaseInv, PutInv, OpenInv, Closed, PutSend
  <2>4. AwayInv'
    <3>1. ASSUME NEW p \in Objects, p # cput[c], wlease[p] \notin chFull
          PROVE  wlease'[p] \notin chFull'
      <4>1. wlease[p] # wlease[cput[c]]
        BY <1>1, <1>4, <3>1 DEF PoolInv, LeaseInv, Leases
      <4> QED
        BY <2>1, <3>1, <4>1
    <3>2. ASSUME NEW p \in Objects, NEW d \in Callers, p \in held'[d] \/ result'[d] = p
          PROVE  p # cput[c] /\ (p \in held[d] \/ result[d] = p)
      BY <1>1, <2>1, <3>2 DEF PoolInv, TypeOK, ExclusiveLending, Offered
    <3>3. wpc[cput[c]] # "deliver"
      BY <1>1 DEF PoolInv, AwayInv
    <3> QED
      BY <2>1, <3>1, <3>2, <3>3 DEF PoolInv, AwayInv
  <2>5. ExclusiveLending'
    BY <2>1 DEF PoolInv, TypeOK, ExclusiveLending, Offered
  <2> QED
    BY <2>2, <2>3, <2>4, <2>5 DEF PoolInv
<1> QED
  BY <1>3, <1>4

LEMMA CallerInv ==
    ASSUME PoolInv, NEW c \in Callers, Caller(c)
    PROVE  PoolInv'
<1>1. CASE Borrow(c)
  BY <1>1, GotoInv DEF Borrow, Get, TryGet, Begin
<1>2. CASE Enqueue(c)
  BY <1>2, GotoInv, SendInv, GiveUpInv DEF Enqueue
<1>3. CASE TryEnqueue(c)
  BY <1>3, SendInv, GiveUpInv DEF TryEnqueue
<1>4. CASE Abandon(c)
  BY <1>4, GiveUpInv DEF Abandon
<1> QED
  BY <1>1, <1>2, <1>3, <1>4, StealInv, ReceiveInv, EndContextInv, PutLoadInv,
     TryPutRejectedInv, PutSendInv DEF Caller, Progress, Return
-------------------------------------------------------------------------------
(* The worker's steps *)

\* The lease of a new delivery differs from every lease in use.
LEMMA TakeInv ==
    ASSUME PoolInv, NEW o \in Objects, Take(o)
    PROVE  PoolInv'
<1> PICK l \in FreeLeases(o) :
        /\ wlease' = [wlease EXCEPT ![o] = l]
        /\ leases' = [leases EXCEPT ![o] = l]
        /\ chClosed' = chClosed \ {l}
        /\ chFull' = chFull \ {l}
  BY DEF Take, Register
<1>1. /\ l \in {o} \X Gens /\ l \in Leases
      /\ \A c \in Callers : clease[c] # l
      /\ wpc[o] = "next"
      /\ wpc' = [wpc EXCEPT ![o] = "deliver"]
      /\ UNCHANGED <<result, returned, callerVars, closeVars>>
  BY DEF FreeLeases, Take, Leases
<1>2. \A c \in Callers : o \notin held[c] /\ result[c] # o
  BY <1>1 DEF PoolInv, AwayInv
<1>3. TypeOK'
  <2>1. requests # <<>> /\ requests \in Seq(Callers \union {Orphan})
    BY DEF PoolInv, TypeOK, Take
  <2>2. Head(requests) \in Callers \union {Orphan} /\ Tail(requests) \in Seq(Callers \union {Orphan})
    BY <2>1
  <2> QED
    BY <1>1, <2>2 DEF PoolInv, TypeOK, Take
<1>4. LeaseInv'
  BY <1>1 DEF PoolInv, TypeOK, LeaseInv, Leases
<1>5. PutInv'
  BY <1>1, <1>2 DEF PoolInv, TypeOK, PutInv
<1>6. AwayInv'
  BY <1>1, <1>2 DEF PoolInv, TypeOK, AwayInv
<1>7. OpenInv'
  BY <1>1, <1>2 DEF PoolInv, TypeOK, PutInv, OpenInv, Closed
<1>8. ExclusiveLending'
  BY <1>1 DEF PoolInv, ExclusiveLending, Offered
<1> QED
  BY <1>3, <1>4, <1>5, <1>6, <1>7, <1>8 DEF PoolInv

\* What a step that touches no borrower and no channel has to keep.
LEMMA LeaveInv ==
    ASSUME PoolInv, NEW o \in Objects, Leave(o)
    PROVE  PoolInv'
<1>1. TypeOK'
  BY DEF PoolInv, TypeOK, Leave
<1>2. LeaseInv' /\ PutInv' /\ AwayInv' /\ OpenInv'
  BY DEF PoolInv, TypeOK, LeaseInv, PutInv, AwayInv, OpenInv, Closed, Stopped, Leave
<1>3. ExclusiveLending'
  BY DEF PoolInv, ExclusiveLending, Offered, Leave
<1> QED
  BY <1>1, <1>2, <1>3 DEF PoolInv

\* The object offered is on no one else's hands, and its channel is empty: the
\* lease is fresh.
LEMMA DeliverInv ==
    ASSUME PoolInv, NEW o \in Objects, Deliver(o)
    PROVE  PoolInv'
<1>1. /\ wpc[o] = "deliver"
      /\ \A c \in Callers : result'[c] = result[c] \/ (result[c] = Empty /\ c = wreq[o] /\ result'[c] = o)
      /\ wpc' = [wpc EXCEPT ![o] = "count"]
      /\ returned' = returned \ {o}
  BY DEF Deliver, MarkLent
<1>2. \A c \in Callers : o \notin held[c] /\ result[c] # o
  BY <1>1 DEF PoolInv, AwayInv
<1>3. TypeOK'
  BY <1>1 DEF PoolInv, TypeOK, Deliver
<1>4. LeaseInv' /\ PutInv' /\ OpenInv'
  BY <1>1 DEF PoolInv, TypeOK, LeaseInv, PutInv, OpenInv, Closed, Deliver
<1>5. AwayInv'
  BY <1>1 DEF PoolInv, TypeOK, AwayInv, Deliver
<1>6. ExclusiveLending'
  BY <1>1, <1>2 DEF PoolInv, TypeOK, ExclusiveLending, Offered, Deliver
<1> QED
  BY <1>3, <1>4, <1>5, <1>6 DEF PoolInv

\* An undelivered object has no borrower, so its lease can go.
LEMMA CancelInv ==
    ASSUME PoolInv, NEW o \in Objects, Undeliver(o) \/ CancelLease(o)
    PROVE  PoolInv'
<1>1. CASE Undeliver(o)
  <2>1. TypeOK'
    BY <1>1 DEF PoolInv, TypeOK, Undeliver, MarkLent
  <2>2. LeaseInv' /\ PutInv' /\ AwayInv' /\ OpenInv'
    BY <1>1 DEF PoolInv, TypeOK, LeaseInv, PutInv, AwayInv, OpenInv, Closed, Undeliver
  <2>3. ExclusiveLending'
    BY <1>1 DEF PoolInv, ExclusiveLending, Offered, Undeliver
  <2> QED
    BY <2>1, <2>2, <2>3 DEF PoolInv
<1>2. CASE CancelLease(o)
  <2>1. /\ wpc[o] = "cancel" /\ wlease[o] \in Leases
        /\ \A c \in Callers : o \notin held[c] /\ result[c] # o
    BY <1>2 DEF PoolInv, TypeOK, LeaseInv, AwayInv, CancelLease
  <2>2. TypeOK'
    <3>1. chClosed' \subseteq Leases /\ returned' \subseteq Objects
      BY <1>2, <2>1 DEF PoolInv, TypeOK, CancelLease
    <3>2. wpc' \in [Objects -> WorkerPcs]
      BY <1>2 DEF PoolInv, TypeOK, CancelLease
    <3>3. /\ leases' \in [Objects -> Leases \union {None}]
          /\ wlease' \in [Objects -> Leases \union {None}]
      BY <1>2 DEF PoolInv, TypeOK, CancelLease
    <3> QED
      BY <1>2, <3>1, <3>2, <3>3 DEF PoolInv, TypeOK, CancelLease
  <2>3. /\ leases' = [leases EXCEPT ![o] = None]
        /\ wlease' = [wlease EXCEPT ![o] = None]
        /\ wpc' = [wpc EXCEPT ![o] = "panicked"] \/ wpc' = [wpc EXCEPT ![o] = "next"]
        /\ chClosed' \in {chClosed, chClosed \union {wlease[o]}}
        /\ wlease[o] \notin chClosed => wpc' = [wpc EXCEPT ![o] = "next"]
        /\ UNCHANGED <<chFull, queueVars, callerVars, closeVars>>
    BY <1>2 DEF CancelLease
  <2>4. LeaseInv'
    BY <2>1, <2>3 DEF PoolInv, TypeOK, LeaseInv
  <2>5. PutInv'
    BY <2>1, <2>3 DEF PoolInv, TypeOK, PutInv
  <2>6. AwayInv'
    BY <2>1, <2>3 DEF PoolInv, TypeOK, AwayInv
  <2>7. OpenInv'
    <3> SUFFICES ASSUME ~Closed PROVE OpenInv'
      BY <2>3 DEF OpenInv, Closed
    <3>1. \A p \in Objects \ {o} : wlease[p] # wlease[o]
      BY <2>1 DEF PoolInv, LeaseInv, Leases
    <3>2. \A p \in Objects : wlease'[p] \notin chClosed'
      BY <2>1, <2>3, <3>1 DEF PoolInv, TypeOK, OpenInv, Leases
    <3>3. wpc' = [wpc EXCEPT ![o] = "next"]
      BY <2>3 DEF PoolInv, OpenInv
    <3> QED
      BY <2>1, <2>3, <3>2, <3>3 DEF PoolInv, TypeOK, PutInv, OpenInv
  <2>8. ExclusiveLending'
    BY <2>3 DEF PoolInv, ExclusiveLending, Offered
  <2> QED
    BY <2>2, <2>4, <2>5, <2>6, <2>7, <2>8 DEF PoolInv
<1> QED
  BY <1>1, <1>2

LEMMA CountInv ==
    ASSUME PoolInv, NEW o \in Objects, Count(o)
    PROVE  PoolInv'
<1>1. TypeOK'
  BY DEF PoolInv, TypeOK, Count
<1>2. LeaseInv' /\ PutInv' /\ AwayInv' /\ OpenInv'
  BY DEF PoolInv, TypeOK, LeaseInv, PutInv, AwayInv, OpenInv, Closed, Count
<1>3. ExclusiveLending'
  BY DEF PoolInv, ExclusiveLending, Offered, Count
<1> QED
  BY <1>1, <1>2, <1>3 DEF PoolInv

\* A full channel means that nobody holds the object, so no put is under way.
LEMMA TakeBackInv ==
    ASSUME PoolInv, NEW o \in Objects, TakeBack(o)
    PROVE  PoolInv'
<1>1. \A c \in Callers : o \notin held[c] /\ result[c] # o
  BY DEF PoolInv, AwayInv, TakeBack
<1>2. TypeOK'
  BY DEF PoolInv, TypeOK, TakeBack, CountReturn
<1>3. LeaseInv' /\ AwayInv'
  BY <1>1 DEF PoolInv, TypeOK, LeaseInv, AwayInv, TakeBack
<1>4. PutInv' /\ OpenInv'
  BY <1>1 DEF PoolInv, TypeOK, LeaseInv, PutInv, OpenInv, Closed, Leases, TakeBack
<1>5. ExclusiveLending'
  BY DEF PoolInv, ExclusiveLending, Offered, TakeBack
<1> QED
  BY <1>2, <1>3, <1>4, <1>5 DEF PoolInv

\* The worker leaves a closed lease, which a put under way will find closed.
LEMMA ForsakeInv ==
    ASSUME PoolInv, NEW o \in Objects, Forsake(o)
    PROVE  PoolInv'
<1>1. Closed
  BY DEF PoolInv, OpenInv, Forsake, Drained
<1>2. TypeOK'
  BY DEF PoolInv, TypeOK, Forsake, AfterForsaken
<1>3. LeaseInv' /\ PutInv'
  BY DEF PoolInv, TypeOK, LeaseInv, PutInv, Forsake, AfterForsaken, Drained
<1>4. AwayInv'
  BY DEF PoolInv, TypeOK, AwayInv, Leases, Forsake, AfterForsaken
<1>5. OpenInv'
  BY <1>1 DEF OpenInv, Closed, Forsake
<1>6. ExclusiveLending'
  BY DEF PoolInv, ExclusiveLending, Offered, Forsake
<1> QED
  BY <1>2, <1>3, <1>4, <1>5, <1>6 DEF PoolInv

-------------------------------------------------------------------------------
(* close() *)

LEMMA CloserInv ==
    ASSUME PoolInv, Closer
    PROVE  PoolInv'
<1>1. /\ UNCHANGED <<queueVars, workerVars, callerVars, leases, chFull, returned>>
      /\ chClosed \subseteq chClosed'
      /\ Closed'
  BY DEF Closer, Close, CloseStop, RangeLoad, RangeClose, RangeEnd, Join, Closed
<1>2. closer' = "close" => rlease' # None
  BY DEF Closer, Close, CloseStop, RangeLoad, RangeClose, RangeEnd, Join
<1>3. TypeOK'
  <2>1. rlease' \in Leases \union {None} /\ unvisited' \subseteq Objects /\ closer' \in CloserPcs
    BY DEF PoolInv, TypeOK, Closer, Close, CloseStop, RangeLoad, RangeClose, RangeEnd, Join
  <2>2. chClosed' \subseteq Leases
    BY DEF PoolInv, TypeOK, LeaseInv, Closer, Close, CloseStop, RangeLoad, RangeClose, RangeEnd, Join
  <2> QED
    BY <1>1, <2>1, <2>2 DEF PoolInv, TypeOK
<1>4. LeaseInv' /\ PutInv' /\ AwayInv' /\ OpenInv'
  BY <1>1, <1>2 DEF PoolInv, LeaseInv, PutInv, AwayInv, OpenInv
<1>5. ExclusiveLending'
  BY <1>1 DEF PoolInv, ExclusiveLending, Offered
<1> QED
  BY <1>3, <1>4, <1>5 DEF PoolInv

-------------------------------------------------------------------------------
(* The theorems *)

\* Every step of a borrower, a worker or close() keeps PoolInv.
LEMMA PoolInvStep == PoolInv /\ [Next]_vars => PoolInv'
<1> SUFFICES ASSUME PoolInv, [Next]_vars PROVE PoolInv'
  OBVIOUS
<1>1. CASE \E c \in Callers : Caller(c)
  BY <1>1, CallerInv
<1>2. CASE \E o \in Objects : Worker(o)
  BY <1>2, TakeInv, LeaveInv, DeliverInv, CancelInv, CountInv, TakeBackInv, ForsakeInv
     DEF Worker
<1>3. CASE Closer
  BY <1>3, CloserInv
<1>4. CASE UNCHANGED vars
  BY <1>4 DEF PoolInv, TypeOK, LeaseInv, PutInv, AwayInv, ExclusiveLending, Offered, OpenInv,
     Closed, vars
<1> QED
  BY <1>1, <1>2, <1>3, <1>4 DEF Next

\* PoolInv is inductive: borrowers, workers and close() may step in any order.
THEOREM PoolInvariant == Spec => []PoolInv
BY PoolInvInit, PoolInvStep, PTL DEF Spec

\* Every variable keeps its type.
THEOREM TypeCorrect == Spec => []TypeOK
<1>1. PoolInv => TypeOK
  BY DEF PoolInv
<1> QED
  BY PoolInvariant, <1>1, PTL

\* objectPool: no object is ever with two borrowers, or offered to one while
\* another has it, whatever the number of objects, borrowers and queue slots.
THEOREM Exclusive == Spec => []ExclusiveLending
<1>1. PoolInv => ExclusiveLending
  BY DEF PoolInv
<1> QED
  BY PoolInvariant, <1>1, PTL

\* put, tryPut and cancelLease: nothing panics before close() is called.
THEOREM NoPanic == Spec => []NoPanicWhileOpen
<1>1. PoolInv => NoPanicWhileOpen
  BY DEF PoolInv, OpenInv, NoPanicWhileOpen
<1> QED
  BY PoolInvariant, <1>1, PTL

-------------------------------------------------------------------------------
(* The returned flag *)

LEMMA MarkInvInit == Init => MarkInv
BY DEF Init, MarkInv, HeldObjectNotReset, Offered

LEMMA CallerMark ==
    ASSUME PoolInv, MarkInv, NEW c \in Callers, Caller(c)
    PROVE  MarkInv'
<1> USE DEF PoolInv, TypeOK, MarkInv, HeldObjectNotReset, Offered
<1>1. ASSUME NEW pc \in CallerPcs \ {"put", "panicked"}, Goto(c, pc) \/ Send(c, pc), cpc[c] # "put", cpc[c] # "panicked"
      PROVE  MarkInv'
  BY <1>1 DEF Goto, Send
<1>2. ASSUME GiveUp(c), cpc[c] # "put", cpc[c] # "panicked"
      PROVE  MarkInv'
  <2>1. \A d \in Callers : result'[d] \in {result[d], Empty}
    BY <1>2 DEF GiveUp
  <2> QED
    BY <1>2, <2>1 DEF GiveUp
<1>3. CASE Borrow(c)
  BY <1>3, <1>1 DEF Borrow, Get, TryGet, Begin
<1>4. CASE Enqueue(c) \/ TryEnqueue(c) \/ Abandon(c)
  BY <1>4, <1>1, <1>2 DEF Enqueue, TryEnqueue, Abandon
<1>5. CASE Steal(c)
  <2>1. \A d \in Callers : result'[d] = result[d] \/ result'[d] = Dropped
    BY <1>5 DEF Steal, Fail
  <2> QED
    BY <1>5, <2>1 DEF Steal
<1>6. CASE Receive(c)
  <2>1. Granted(result[c]) = {result[c]} \cap Objects
    BY <1>6 DEF Receive, Granted
  <2>2. \A d \in Callers : result'[d] \in {result[d], Empty}
    BY <1>6 DEF Receive
  <2>3. held'[c] \cap returned = held[c] \cap returned
    BY <1>6, <2>1 DEF Receive
  <2> QED
    BY <1>6, <2>2, <2>3, <2>1 DEF Receive
<1>7. CASE EndContext(c)
  BY <1>7 DEF EndContext
<1>8. ASSUME NEW o \in Objects, PutLoad(c, o)
      PROVE  MarkInv'
  <2>1. /\ o \notin Offered
        /\ \A d \in Callers \ {c} : o \notin held[d]
        /\ held[c] \cap returned = {}
    BY <1>8 DEF PutLoad, ExclusiveLending
  <2> QED
    BY <1>8, <2>1 DEF PutLoad
<1>9. ASSUME NEW o \in Objects, TryPutRejected(c, o)
      PROVE  MarkInv'
  <2>1. o \notin returned
    BY <1>9 DEF TryPutRejected
  <2> QED
    BY <1>9, <2>1 DEF TryPutRejected
<1>10. CASE PutSend(c)
  <2>1. /\ cput[c] \in Objects /\ cput[c] \in held[c]
        /\ clease[c] \in chClosed \/ clease[c] = wlease[cput[c]]
        /\ wpc[cput[c]] \in {"count", "wait", "exited"}
    BY <1>10 DEF PutSend, PutInv, AwayInv
  <2>2. CASE clease[c] \in chClosed \union chFull
    BY <1>10, <2>1, <2>2 DEF PutSend
  <2>3. CASE clease[c] \notin chClosed \union chFull
    <3>1. /\ held' = [held EXCEPT ![c] = @ \ {cput[c]}]
          /\ cput' = [cput EXCEPT ![c] = None]
          /\ chFull' = chFull \union {wlease[cput[c]]}
          /\ UNCHANGED <<result, wpc, wlease, returned>>
          /\ cpc' = [cpc EXCEPT ![c] = "idle"]
      BY <1>10, <2>1, <2>3 DEF PutSend
    <3>2. \A p \in Objects : p # cput[c] /\ wlease[p] # None => wlease[p] # wlease[cput[c]]
      BY <2>1 DEF LeaseInv
    <3>3. ASSUME NEW p \in Objects, wpc[p] \in {"deliver", "cancel"}
          PROVE  wlease[p] \notin chFull'
      <4>1. p # cput[c] /\ wlease[p] # None /\ wlease[p] \notin chFull
        BY <2>1, <3>3 DEF LeaseInv
      <4> QED
        BY <3>1, <3>2, <4>1
    <3>4. \A p \in Objects : wpc[p] \in {"count", "wait"} /\ p \in returned =>
            wlease[p] \in chFull' \/ \E d \in Callers : p \in held'[d]
      BY <2>1, <3>1
    <3>5. \A d \in Callers : cpc'[d] # "put" => cput'[d] = None
      BY <3>1
    <3>6. \A d \in Callers : cpc'[d] # "panicked" => held'[d] \cap returned \subseteq {cput'[d]}
      BY <2>1, <3>1
    <3> QED
      BY <3>1, <3>3, <3>4, <3>5, <3>6
  <2> QED
    BY <2>2, <2>3
<1> QED
  BY <1>3, <1>4, <1>5, <1>6, <1>7, <1>8, <1>9, <1>10 DEF Caller, Progress, Return

\* A worker has its object to itself until it delivers it, and again once it has
\* taken it back: that is when it resets and marks it.
LEMMA WorkerMark ==
    ASSUME PoolInv, MarkInv, NEW o \in Objects, Worker(o)
    PROVE  MarkInv'
<1> USE DEF PoolInv, TypeOK, MarkInv, HeldObjectNotReset, Offered
<1>1. ASSUME NEW p \in Objects, p # o, wlease[p] # None
      PROVE  wlease[p] # wlease[o]
  BY <1>1 DEF LeaseInv
<1>2. wpc[o] \notin {"count", "wait", "exited"} \/ wlease[o] \in chFull =>
        \A c \in Callers : o \notin held[c] /\ result[c] # o
  BY DEF AwayInv
<1>3. CASE Take(o)
  <2> PICK l \in FreeLeases(o) :
          /\ wlease' = [wlease EXCEPT ![o] = l]
          /\ chFull' = chFull \ {l}
    BY <1>3 DEF Take
  <2>1. /\ l \in {o} \X Gens
        /\ \A p \in Objects : p # o => wlease[p] # l
        /\ wpc[o] = "next"
        /\ wpc' = [wpc EXCEPT ![o] = "deliver"]
        /\ UNCHANGED <<result, returned, callerVars>>
    BY <1>3 DEF FreeLeases, Take, LeaseInv
  <2> QED
    BY <2>1
<1>4. CASE Leave(o)
  BY <1>4 DEF Leave
<1>5. CASE Deliver(o)
  <2>1. /\ \A c \in Callers : result'[c] = result[c] \/ result'[c] = o
        /\ wpc[o] = "deliver"
        /\ wpc' = [wpc EXCEPT ![o] = "count"]
        /\ returned' = returned \ {o}
        /\ UNCHANGED <<wlease, chFull, callerVars>>
    BY <1>5 DEF Deliver, MarkLent
  <2> QED
    BY <1>2, <2>1
<1>6. CASE Undeliver(o)
  BY <1>2, <1>6 DEF Undeliver, MarkLent
<1>7. CASE CancelLease(o)
  <2>1. /\ wpc[o] = "cancel"
        /\ wlease' = [wlease EXCEPT ![o] = None]
        /\ \/ wpc' = [wpc EXCEPT ![o] = "panicked"] /\ returned' = returned
           \/ wpc' = [wpc EXCEPT ![o] = "next"] /\ returned' = returned \union {o}
        /\ UNCHANGED <<result, chFull, callerVars>>
    BY <1>7 DEF CancelLease
  <2> QED
    BY <1>2, <2>1
<1>8. CASE Count(o)
  BY <1>8 DEF Count
<1>9. CASE TakeBack(o)
  <2>1. /\ wpc[o] = "wait" /\ wlease[o] \in chFull /\ wlease[o] # None
        /\ chFull' = chFull \ {wlease[o]}
        /\ wlease' = [wlease EXCEPT ![o] = None]
        /\ wpc' = [wpc EXCEPT ![o] = "next"]
        /\ returned' = returned \union {o}
        /\ UNCHANGED <<result, callerVars>>
    BY <1>9 DEF TakeBack, LeaseInv
  <2>2. \A p \in Objects \ {o} : wlease[p] \in chFull => wlease'[p] \in chFull'
    BY <1>1, <2>1 DEF Leases
  <2> QED
    BY <1>2, <2>1, <2>2
<1>10. CASE Forsake(o)
  <2>1. /\ wpc' = [wpc EXCEPT ![o] = "exited"]
        /\ wlease' = [wlease EXCEPT ![o] = None]
        /\ UNCHANGED <<result, chFull, returned, callerVars>>
    BY <1>10 DEF Forsake, AfterForsaken
  <2> QED
    BY <2>1
<1> QED
  BY <1>3, <1>4, <1>5, <1>6, <1>7, <1>8, <1>9, <1>10 DEF Worker

LEMMA CloserMark ==
    ASSUME MarkInv, Closer
    PROVE  MarkInv'
<1>1. UNCHANGED <<queueVars, workerVars, callerVars, chFull, returned>>
  BY DEF Closer, Close, CloseStop, RangeLoad, RangeClose, RangeEnd, Join
<1> QED
  BY <1>1 DEF MarkInv, HeldObjectNotReset, Offered

\* MarkInv is inductive relative to PoolInv.
THEOREM MarkInvariant == Spec => []MarkInv
<1>1. PoolInv /\ MarkInv /\ [Next]_vars => MarkInv'
  <2> SUFFICES ASSUME PoolInv, MarkInv, [Next]_vars PROVE MarkInv'
    OBVIOUS
  <2>1. CASE UNCHANGED vars
    BY <2>1 DEF MarkInv, HeldObjectNotReset, Offered, vars
  <2> QED
    BY <2>1, CallerMark, WorkerMark, CloserMark DEF Next
<1> QED
  BY MarkInvInit, PoolInvariant, <1>1, PTL DEF Spec

\* The worker's Reset and SetReturned(true): an object is reset, and marked
\* returned, only while nobody holds it; its holder sees the mark only in its
\* own put.
THEOREM NotReset == Spec => []HeldObjectNotReset
<1>1. MarkInv => HeldObjectNotReset
  BY DEF MarkInv
<1> QED
  BY MarkInvariant, <1>1, PTL

-------------------------------------------------------------------------------
(* The pool implements Lending *)

\* Where the mapping puts an object, by who has it.
Placed ==
    \A o \in Objects :
        /\ \A c \in Callers : o \in held[c] => PlaceOf(o) = Abstract!LentTo(c)
        /\ \A c \in Callers : result[c] = o => PlaceOf(o) = Abstract!OfferedTo(c)
        /\ (\A c \in Callers : o \notin held[c] /\ result[c] # o) =>
              PlaceOf(o) = [at |-> RestOf(o), to |-> None]

\* One owner at a time makes the mapping's choices unique.
LEMMA PlacedFact == PoolInv => Placed
<1> SUFFICES ASSUME PoolInv, NEW o \in Objects
             PROVE  /\ \A c \in Callers : o \in held[c] => PlaceOf(o) = Abstract!LentTo(c)
                    /\ \A c \in Callers : result[c] = o => PlaceOf(o) = Abstract!OfferedTo(c)
                    /\ (\A c \in Callers : o \notin held[c] /\ result[c] # o) =>
                          PlaceOf(o) = [at |-> RestOf(o), to |-> None]
  BY DEF Placed
<1>1. ASSUME NEW c \in Callers, o \in held[c]
      PROVE  PlaceOf(o) = Abstract!LentTo(c)
  <2>1. \A d \in Callers : o \in held[d] => d = c
    BY <1>1 DEF PoolInv, ExclusiveLending
  <2>2. (CHOOSE d \in Callers : o \in held[d]) = c
    BY <1>1, <2>1
  <2> QED
    BY <1>1, <2>2 DEF PlaceOf, Abstract!LentTo
<1>2. ASSUME NEW c \in Callers, result[c] = o
      PROVE  PlaceOf(o) = Abstract!OfferedTo(c)
  <2>1. \A d \in Callers : result[d] = o => d = c
    BY <1>2 DEF PoolInv, ExclusiveLending
  <2>2. (CHOOSE d \in Callers : result[d] = o) = c
    BY <1>2, <2>1
  <2>3. o \in Offered /\ \A d \in Callers : o \notin held[d]
    BY <1>2 DEF PoolInv, ExclusiveLending, Offered
  <2> QED
    BY <2>2, <2>3 DEF PlaceOf, Abstract!OfferedTo
<1>3. ASSUME \A c \in Callers : o \notin held[c] /\ result[c] # o
      PROVE  PlaceOf(o) = [at |-> RestOf(o), to |-> None]
  BY <1>3 DEF PlaceOf, Offered
<1> QED
  BY <1>1, <1>2, <1>3

LEMMA PlacedNext == PoolInv' => Placed'
BY PlacedFact, PTL

\* An object that stays with whoever has it, or stays at rest, has not moved.
LEMMA Unmoved ==
    ASSUME PoolInv, PoolInv', NEW o \in Objects,
           \A c \in Callers : o \in held'[c] <=> o \in held[c],
           \A c \in Callers : result'[c] = o <=> result[c] = o,
           (\A c \in Callers : o \notin held[c] /\ result[c] # o) => RestOf(o)' = RestOf(o)
    PROVE  PlaceOf(o)' = PlaceOf(o)
<1>1. Placed /\ Placed'
  BY PlacedFact, PlacedNext
<1>2. CASE \E c \in Callers : o \in held[c]
  BY <1>1, <1>2 DEF Placed, Abstract!LentTo
<1>3. CASE \E c \in Callers : result[c] = o
  BY <1>1, <1>3 DEF Placed, Abstract!OfferedTo
<1>4. CASE \A c \in Callers : o \notin held[c] /\ result[c] # o
  BY <1>1, <1>4 DEF Placed
<1> QED
  BY <1>2, <1>3, <1>4

\* The abstract place, and a move of it.
Place == [o \in Objects |-> PlaceOf(o)]

LEMMA Stutters ==
    ASSUME \A o \in Objects : PlaceOf(o)' = PlaceOf(o)
    PROVE  UNCHANGED Place
BY DEF Place

LEMMA Moves ==
    ASSUME NEW o \in Objects, NEW from, NEW to, PlaceOf(o) = from, PlaceOf(o)' = to,
           \A p \in Objects \ {o} : PlaceOf(p)' = PlaceOf(p)
    PROVE  Abstract!Move(o, from, to)
BY DEF Abstract!Move

\* A caller that gives up refuses what it has been offered.
LEMMA GiveUpStep ==
    ASSUME PoolInv, PoolInv', MarkInv, NEW c \in Callers, GiveUp(c)
    PROVE  Abstract!Next \/ UNCHANGED Place
<1>1. /\ result' = [result EXCEPT ![c] = Empty]
      /\ UNCHANGED <<held, wpc, wlease, chFull, returned>>
  BY DEF GiveUp
<1>2. Placed /\ Placed'
  BY PlacedFact, PlacedNext
<1>3. ASSUME NEW p \in Objects, p # result[c]
      PROVE  PlaceOf(p)' = PlaceOf(p)
  <2>1. /\ \A d \in Callers : p \in held'[d] <=> p \in held[d]
        /\ \A d \in Callers : result'[d] = p <=> result[d] = p
        /\ RestOf(p)' = RestOf(p)
    BY <1>1, <1>3 DEF PoolInv, TypeOK, RestOf
  <2> QED
    BY <2>1, Unmoved
<1>4. CASE result[c] \in Objects
  <2> PICK o \in Objects : result[c] = o
    BY <1>4
  <2>1. /\ \A d \in Callers : o \notin held[d]
        /\ \A d \in Callers \ {c} : result[d] # o
    BY <1>4 DEF PoolInv, ExclusiveLending, Offered
  <2>2. /\ wpc[o] \in {"count", "wait", "exited"} /\ wlease[o] \notin chFull
        /\ o \notin returned
    BY <1>4 DEF PoolInv, AwayInv, MarkInv, Offered
  <2>3. RestOf(o)' = "gone"
    BY <1>1, <2>2 DEF RestOf
  <2>4. \A d \in Callers : o \notin held'[d] /\ result'[d] # o
    BY <1>1, <1>4, <2>1 DEF PoolInv, TypeOK
  <2>5. PlaceOf(o) = Abstract!OfferedTo(c) /\ PlaceOf(o)' = Abstract!Gone
    BY <1>2, <1>4, <2>3, <2>4 DEF Placed, Abstract!Gone
  <2>6. Abstract!Refuse(o, c)
    BY <1>3, <1>4, <2>5, Moves DEF Abstract!Refuse
  <2> QED
    BY <1>4, <2>6 DEF Abstract!Next
<1>5. CASE result[c] \notin Objects
  BY <1>3, <1>5, Stutters
<1> QED
  BY <1>4, <1>5

\* What is received was offered; an error was not an object.
LEMMA ReceiveStep ==
    ASSUME PoolInv, PoolInv', MarkInv, NEW c \in Callers, Receive(c)
    PROVE  Abstract!Next \/ UNCHANGED Place
<1>1. /\ result' = [result EXCEPT ![c] = Empty]
      /\ held' = [held EXCEPT ![c] = @ \union ({result[c]} \cap Objects)]
      /\ UNCHANGED <<wpc, wlease, chFull, returned>>
  <2>1. Granted(result[c]) = {result[c]} \cap Objects
    BY DEF PoolInv, TypeOK, Receive, Granted
  <2> QED
    BY <2>1 DEF Receive
<1>2. Placed /\ Placed'
  BY PlacedFact, PlacedNext
<1>3. ASSUME NEW p \in Objects, p # result[c]
      PROVE  PlaceOf(p)' = PlaceOf(p)
  <2>1. /\ \A d \in Callers : p \in held'[d] <=> p \in held[d]
        /\ \A d \in Callers : result'[d] = p <=> result[d] = p
        /\ RestOf(p)' = RestOf(p)
    BY <1>1, <1>3 DEF PoolInv, TypeOK, RestOf
  <2> QED
    BY <2>1, Unmoved
<1>4. CASE result[c] \in Objects
  <2> PICK o \in Objects : result[c] = o
    BY <1>4
  <2>1. o \in held'[c]
    BY <1>1, <1>4 DEF PoolInv, TypeOK
  <2>2. PlaceOf(o) = Abstract!OfferedTo(c) /\ PlaceOf(o)' = Abstract!LentTo(c)
    BY <1>2, <1>4, <2>1 DEF Placed
  <2>3. Abstract!Accept(o, c)
    BY <1>3, <1>4, <2>2, Moves DEF Abstract!Accept
  <2> QED
    BY <1>4, <2>3 DEF Abstract!Next
<1>5. CASE result[c] \notin Objects
  BY <1>3, <1>5, Stutters
<1> QED
  BY <1>4, <1>5

\* A put that is accepted gives the object back; one that panics keeps it.
LEMMA PutSendStep ==
    ASSUME PoolInv, PoolInv', MarkInv, NEW c \in Callers, PutSend(c)
    PROVE  Abstract!Next \/ UNCHANGED Place
<1> PICK o \in Objects : cput[c] = o
  BY DEF PoolInv, TypeOK, PutInv, PutSend
<1>1. /\ o \in held[c]
      /\ clease[c] \in chClosed \/ clease[c] = wlease[o]
      /\ UNCHANGED <<result, wpc, wlease, returned>>
  BY DEF PoolInv, TypeOK, PutInv, PutSend
<1>2. Placed /\ Placed'
  BY PlacedFact, PlacedNext
<1>3. CASE clease[c] \in chClosed \union chFull
  <2>1. UNCHANGED <<held, chFull>>
    BY <1>3 DEF PutSend
  <2>2. \A p \in Objects : PlaceOf(p)' = PlaceOf(p)
    BY <1>1, <2>1, Unmoved DEF RestOf
  <2> QED
    BY <2>2, Stutters
<1>4. CASE clease[c] \notin chClosed \union chFull
  <2>1. /\ held' = [held EXCEPT ![c] = @ \ {o}]
        /\ chFull' = chFull \union {wlease[o]}
    BY <1>1, <1>4 DEF PutSend
  <2>2. \A d \in Callers : o \notin held'[d] /\ result'[d] # o
    BY <1>1, <2>1 DEF PoolInv, TypeOK, ExclusiveLending, Offered
  <2>3. PlaceOf(o) = Abstract!LentTo(c) /\ PlaceOf(o)' = Abstract!Back
    <3>1. RestOf(o)' = "back"
      BY <1>1, <2>1 DEF RestOf
    <3> QED
      BY <1>1, <1>2, <2>2, <3>1 DEF Placed, Abstract!Back
  <2>4. ASSUME NEW p \in Objects, p # o
        PROVE  PlaceOf(p)' = PlaceOf(p)
    <3>1. \A d \in Callers : p \in held'[d] <=> p \in held[d]
      BY <2>1, <2>4 DEF PoolInv, TypeOK
    <3>2. wlease[p] \in chFull' <=> wlease[p] \in chFull
      <4>1. wlease[p] # wlease[o]
        BY <1>1, <1>4, <2>4 DEF PoolInv, LeaseInv, PutInv, PutSend
      <4> QED
        BY <2>1, <4>1
    <3>3. RestOf(p)' = RestOf(p)
      BY <1>1, <3>2 DEF RestOf
    <3> QED
      BY <1>1, <3>1, <3>3, Unmoved
  <2>5. Abstract!GiveBack(o, c)
    BY <1>1, <2>3, <2>4, Moves DEF Abstract!GiveBack
  <2> QED
    BY <1>1, <2>5 DEF Abstract!Next
<1> QED
  BY <1>3, <1>4

\* A pool whose worker has left turns the object away.
LEMMA TryPutRejectedStep ==
    ASSUME PoolInv, PoolInv', MarkInv, NEW c \in Callers, NEW o \in Objects, TryPutRejected(c, o)
    PROVE  Abstract!Next \/ UNCHANGED Place
<1>1. /\ o \in held[c] /\ o \notin returned
      /\ held' = [held EXCEPT ![c] = @ \ {o}]
      /\ UNCHANGED <<result, wpc, wlease, chFull, returned>>
  BY DEF TryPutRejected, MarkInv, HeldObjectNotReset
<1>2. Placed /\ Placed'
  BY PlacedFact, PlacedNext
<1>3. wpc[o] \in {"count", "wait", "exited"} /\ wlease[o] \notin chFull
  BY <1>1 DEF PoolInv, AwayInv
<1>4. \A d \in Callers : o \notin held'[d] /\ result'[d] # o
  BY <1>1 DEF PoolInv, TypeOK, ExclusiveLending, Offered
<1>5. PlaceOf(o) = Abstract!LentTo(c) /\ PlaceOf(o)' = Abstract!Gone
  <2>1. RestOf(o)' = "gone"
    BY <1>1, <1>3 DEF RestOf
  <2> QED
    BY <1>1, <1>2, <1>4, <2>1 DEF Placed, Abstract!Gone
<1>6. ASSUME NEW p \in Objects, p # o
      PROVE  PlaceOf(p)' = PlaceOf(p)
  <2>1. \A d \in Callers : p \in held'[d] <=> p \in held[d]
    BY <1>1, <1>6 DEF PoolInv, TypeOK
  <2> QED
    BY <1>1, <2>1, Unmoved DEF RestOf
<1>7. Abstract!TurnAway(o, c)
  BY <1>5, <1>6, Moves DEF Abstract!TurnAway
<1> QED
  BY <1>7 DEF Abstract!Next

\* The other steps of a caller move no object.
LEMMA CallerStep ==
    ASSUME PoolInv, PoolInv', MarkInv, NEW c \in Callers, Caller(c)
    PROVE  Abstract!Next \/ UNCHANGED Place
<1>1. ASSUME UNCHANGED <<held, wpc, wlease, chFull>>,
             \A o \in Objects : \A d \in Callers : result'[d] = o <=> result[d] = o,
             \A o \in Objects : o \notin held[c] => (o \in returned' <=> o \in returned)
      PROVE  UNCHANGED Place
  <2>1. ASSUME NEW o \in Objects
        PROVE  PlaceOf(o)' = PlaceOf(o)
    <3>1. (\A d \in Callers : o \notin held[d] /\ result[d] # o) => RestOf(o)' = RestOf(o)
      BY <1>1 DEF RestOf
    <3> QED
      BY <1>1, <3>1, Unmoved
  <2> QED
    BY <2>1, Stutters
<1>2. CASE \E pc \in CallerPcs : Goto(c, pc) \/ Send(c, pc)
  BY <1>1, <1>2 DEF Goto, Send
<1>3. CASE Steal(c)
  <2>1. \A d \in Callers : result'[d] = result[d] \/ (result'[d] = Dropped /\ result[d] = Empty)
    BY <1>3 DEF PoolInv, TypeOK, Steal, Fail
  <2> QED
    BY <1>1, <1>3, <2>1 DEF Steal
<1>4. CASE EndContext(c)
  BY <1>1, <1>4 DEF EndContext
<1>5. CASE \E o \in Objects : PutLoad(c, o)
  <2>1. /\ UNCHANGED <<held, wpc, wlease, chFull, result>>
        /\ \A o \in Objects : o \notin held[c] => (o \in returned' <=> o \in returned)
    BY <1>5 DEF PutLoad
  <2> QED
    BY <1>1, <2>1
<1>6. CASE \E o \in Objects : TryPutRejected(c, o)
  BY <1>6, TryPutRejectedStep
<1>7. CASE GiveUp(c) \/ Receive(c) \/ PutSend(c)
  BY <1>7, GiveUpStep, ReceiveStep, PutSendStep
<1>8. Borrow(c) => \E pc \in CallerPcs : Goto(c, pc)
  BY DEF Borrow, Get, TryGet, Begin
<1>9. Enqueue(c) \/ TryEnqueue(c) \/ Abandon(c) =>
        GiveUp(c) \/ \E pc \in CallerPcs : Goto(c, pc) \/ Send(c, pc)
  BY DEF Enqueue, TryEnqueue, Abandon
<1> QED
  BY <1>2, <1>3, <1>4, <1>5, <1>6, <1>7, <1>8, <1>9 DEF Caller, Progress, Return

\* Delivering offers the object to the caller that waits, or wastes it.
LEMMA DeliverStep ==
    ASSUME PoolInv, PoolInv', MarkInv, NEW o \in Objects, Deliver(o)
    PROVE  Abstract!Next
<1>1. /\ wpc[o] = "deliver"
      /\ wreq[o] \in Callers => result[wreq[o]] = Empty
      /\ result' = [c \in Callers |-> IF c = wreq[o] THEN o ELSE result[c]]
      /\ wpc' = [wpc EXCEPT ![o] = "count"]
      /\ returned' = returned \ {o}
      /\ UNCHANGED <<held, wlease, chFull>>
  BY DEF Deliver, MarkLent
<1>2. Placed /\ Placed'
  BY PlacedFact, PlacedNext
<1>3. /\ wlease[o] \notin chFull
      /\ \A c \in Callers : o \notin held[c] /\ result[c] # o
  BY <1>1 DEF PoolInv, AwayInv
<1>4. PlaceOf(o) = Abstract!Shelf
  <2>1. RestOf(o) = "shelf"
    BY <1>1, <1>3 DEF RestOf
  <2> QED
    BY <1>2, <1>3, <2>1 DEF Placed, Abstract!Shelf
<1>5. ASSUME NEW p \in Objects, p # o
      PROVE  PlaceOf(p)' = PlaceOf(p)
  <2>1. \A d \in Callers : result'[d] = p <=> result[d] = p
    BY <1>1, <1>5
  <2>2. RestOf(p)' = RestOf(p)
    BY <1>1, <1>5 DEF PoolInv, TypeOK, RestOf
  <2> QED
    BY <1>1, <2>1, <2>2, Unmoved
<1>6. CASE wreq[o] \in Callers
  <2> PICK c \in Callers : c = wreq[o]
    BY <1>6
  <2>1. PlaceOf(o)' = Abstract!OfferedTo(c)
    BY <1>1, <1>2 DEF Placed
  <2>2. \A p \in Objects : PlaceOf(p) # Abstract!OfferedTo(c)
    <3> SUFFICES ASSUME NEW p \in Objects, PlaceOf(p) = Abstract!OfferedTo(c) PROVE FALSE
      OBVIOUS
    <3>1. PlaceOf(p).at = "offered" /\ PlaceOf(p).to = c
      BY DEF Abstract!OfferedTo
    <3>2. result[c] = Empty
      BY <1>1
    <3>3. \A d \in Callers : p \notin held[d]
      BY <1>2, <3>1 DEF Placed, Abstract!LentTo
    <3>4. \A d \in Callers : result[d] # p
      BY <1>2, <3>1, <3>2 DEF Placed, Abstract!OfferedTo
    <3>5. RestOf(p) # "offered"
      BY DEF RestOf
    <3> QED
      BY <1>2, <3>1, <3>3, <3>4, <3>5 DEF Placed
  <2>3. Abstract!Offer(o, c)
    BY <1>4, <1>5, <2>1, <2>2, Moves DEF Abstract!Offer
  <2> QED
    BY <2>3 DEF Abstract!Next
<1>7. CASE wreq[o] \notin Callers
  <2>1. \A c \in Callers : o \notin held'[c] /\ result'[c] # o
    BY <1>1, <1>3, <1>7
  <2>2. RestOf(o)' = "gone"
    BY <1>1, <1>3 DEF PoolInv, TypeOK, RestOf
  <2>3. PlaceOf(o)' = Abstract!Gone
    BY <1>2, <2>1, <2>2 DEF Placed, Abstract!Gone
  <2>4. Abstract!Waste(o)
    BY <1>4, <1>5, <2>3, Moves DEF Abstract!Waste
  <2> QED
    BY <2>4 DEF Abstract!Next
<1> QED
  BY <1>6, <1>7

LEMMA TakeBackStep ==
    ASSUME PoolInv, PoolInv', MarkInv, NEW o \in Objects, TakeBack(o)
    PROVE  Abstract!Next
<1>1. /\ wlease[o] \in chFull /\ wlease[o] # None
      /\ chFull' = chFull \ {wlease[o]}
      /\ wlease' = [wlease EXCEPT ![o] = None]
      /\ wpc' = [wpc EXCEPT ![o] = "next"]
      /\ returned' = returned \union {o}
      /\ UNCHANGED <<result, held>>
  BY DEF TakeBack, PoolInv, LeaseInv
<1>2. Placed /\ Placed'
  BY PlacedFact, PlacedNext
<1>3. \A c \in Callers : o \notin held[c] /\ result[c] # o
  BY <1>1 DEF PoolInv, AwayInv
<1>4. PlaceOf(o) = Abstract!Back
  <2>1. RestOf(o) = "back"
    BY <1>1 DEF RestOf
  <2> QED
    BY <1>2, <1>3, <2>1 DEF Placed, Abstract!Back
<1>5. PlaceOf(o)' = Abstract!Shelf
  <2>1. RestOf(o)' = "shelf"
    BY <1>1 DEF PoolInv, TypeOK, RestOf, Leases
  <2> QED
    BY <1>1, <1>2, <1>3, <2>1 DEF Placed, Abstract!Shelf
<1>6. ASSUME NEW p \in Objects, p # o
      PROVE  PlaceOf(p)' = PlaceOf(p)
  <2>1. wlease[p] \in chFull => wlease[p] # wlease[o]
    BY <1>1, <1>6 DEF PoolInv, TypeOK, LeaseInv
  <2>2. RestOf(p)' = RestOf(p)
    BY <1>1, <1>6, <2>1 DEF PoolInv, TypeOK, RestOf
  <2> QED
    BY <1>1, <2>2, Unmoved
<1>7. Abstract!Restock(o)
  BY <1>4, <1>5, <1>6, Moves DEF Abstract!Restock
<1> QED
  BY <1>7 DEF Abstract!Next

\* Between a delivery and the next the worker keeps the object on the shelf, and a
\* worker that leaves a borrowed object does not change where it is.
LEMMA WorkerStep ==
    ASSUME PoolInv, PoolInv', MarkInv, NEW o \in Objects, Worker(o)
    PROVE  Abstract!Next \/ UNCHANGED Place
<1>1. ASSUME UNCHANGED <<result, held>>,
             \A p \in Objects \ {o} : RestOf(p)' = RestOf(p),
             (\A c \in Callers : o \notin held[c] /\ result[c] # o) => RestOf(o)' = RestOf(o)
      PROVE  UNCHANGED Place
  <2>1. \A p \in Objects : PlaceOf(p)' = PlaceOf(p)
    BY <1>1, Unmoved
  <2> QED
    BY <2>1, Stutters
<1>2. \A p \in Objects : p # o /\ wlease[p] # None => wlease[p] # wlease[o]
  BY DEF PoolInv, LeaseInv
<1>3. CASE Take(o)
  <2> PICK l \in FreeLeases(o) :
          /\ wlease' = [wlease EXCEPT ![o] = l]
          /\ chFull' = chFull \ {l}
    BY <1>3 DEF Take
  <2>1. /\ l \in {o} \X Gens
        /\ \A p \in Objects : p # o => wlease[p] # l
        /\ wpc[o] = "next" /\ wlease[o] = None
        /\ wpc' = [wpc EXCEPT ![o] = "deliver"]
        /\ UNCHANGED <<result, returned, held>>
    BY <1>3 DEF FreeLeases, Take, PoolInv, LeaseInv, MarkInv
  <2>2. RestOf(o)' = "shelf" /\ RestOf(o) = "shelf"
    BY <2>1 DEF PoolInv, TypeOK, RestOf, Leases
  <2>3. \A p \in Objects \ {o} : RestOf(p)' = RestOf(p)
    BY <2>1 DEF PoolInv, TypeOK, RestOf
  <2> QED
    BY <1>1, <2>1, <2>2, <2>3
<1>4. CASE Leave(o)
  <2>1. /\ wpc[o] = "next" /\ wlease[o] = None /\ o \in returned
        /\ wpc' = [wpc EXCEPT ![o] = "exited"]
        /\ UNCHANGED <<result, held, returned, wlease, chFull>>
    BY <1>4 DEF Leave, MarkInv
  <2> QED
    BY <1>1, <2>1 DEF PoolInv, TypeOK, RestOf
<1>5. CASE Undeliver(o)
  <2>1. /\ wpc[o] = "deliver"
        /\ wpc' = [wpc EXCEPT ![o] = "cancel"]
        /\ returned' = returned \ {o}
        /\ UNCHANGED <<result, held, wlease, chFull>>
    BY <1>5 DEF Undeliver, MarkLent
  <2>2. \A p \in Objects : RestOf(p)' = RestOf(p)
    BY <2>1 DEF PoolInv, TypeOK, RestOf
  <2> QED
    BY <1>1, <2>1, <2>2
<1>6. CASE CancelLease(o)
  <2>1. /\ wpc[o] = "cancel" /\ wlease[o] \notin chFull
        /\ wlease' = [wlease EXCEPT ![o] = None]
        /\ \/ wpc' = [wpc EXCEPT ![o] = "panicked"] /\ returned' = returned
           \/ wpc' = [wpc EXCEPT ![o] = "next"] /\ returned' = returned \union {o}
        /\ UNCHANGED <<result, held, chFull>>
    BY <1>6 DEF CancelLease, MarkInv
  <2>2. \A p \in Objects : RestOf(p)' = RestOf(p)
    BY <2>1 DEF PoolInv, TypeOK, RestOf, Leases
  <2> QED
    BY <1>1, <2>1, <2>2
<1>7. CASE Count(o)
  <2>1. /\ wpc[o] = "count"
        /\ wpc' = [wpc EXCEPT ![o] = "wait"]
        /\ UNCHANGED <<result, held, returned, wlease, chFull>>
    BY <1>7 DEF Count
  <2> QED
    BY <1>1, <2>1 DEF PoolInv, TypeOK, RestOf
<1>8. CASE Forsake(o)
  <2>1. /\ wpc[o] = "wait" /\ wlease[o] \notin chFull
        /\ wpc' = [wpc EXCEPT ![o] = "exited"]
        /\ wlease' = [wlease EXCEPT ![o] = None]
        /\ UNCHANGED <<result, held, returned, chFull>>
    BY <1>8 DEF Forsake, AfterForsaken, Drained
  <2>2. (\A c \in Callers : o \notin held[c]) => o \notin returned
    BY <2>1 DEF MarkInv
  <2> QED
    BY <1>1, <2>1, <2>2 DEF PoolInv, TypeOK, RestOf, Leases
<1> QED
  BY <1>3, <1>4, <1>5, <1>6, <1>7, <1>8, DeliverStep, TakeBackStep DEF Worker

LEMMA CloserStep ==
    ASSUME PoolInv, PoolInv', Closer
    PROVE  UNCHANGED Place
<1>1. UNCHANGED <<result, held, wlease, wpc, chFull, returned>>
  BY DEF Closer, Close, CloseStop, RangeLoad, RangeClose, RangeEnd, Join
<1>2. \A o \in Objects : PlaceOf(o)' = PlaceOf(o)
  BY <1>1, Unmoved DEF RestOf
<1> QED
  BY <1>2, Stutters

\* objectPool implements Lending: whatever the goroutines do, an object goes from
\* the shelf to one caller at a time and comes back only from that caller.
THEOREM Refinement == Spec => LendingSpec
<1>1. Init => Abstract!Init
  <2> SUFFICES ASSUME Init, NEW o \in Objects PROVE PlaceOf(o) = Abstract!Shelf
    BY DEF Abstract!Init
  <2> QED
    BY DEF Init, PlaceOf, Offered, RestOf, Abstract!Shelf
<1>2. PoolInv /\ PoolInv' /\ MarkInv /\ [Next]_vars => [Abstract!Next]_Place
  <2> SUFFICES ASSUME PoolInv, PoolInv', MarkInv, [Next]_vars PROVE Abstract!Next \/ UNCHANGED Place
    OBVIOUS
  <2>1. CASE UNCHANGED vars
    <3>1. \A o \in Objects : PlaceOf(o)' = PlaceOf(o)
      BY <2>1, Unmoved DEF RestOf, vars
    <3> QED
      BY <3>1, Stutters
  <2> QED
    BY <2>1, CallerStep, WorkerStep, CloserStep DEF Next
<1> QED
  BY <1>1, <1>2, PoolInvariant, MarkInvariant, PTL DEF Spec, LendingSpec, Abstract!Spec, Place

-------------------------------------------------------------------------------
(* The pool manager *)

\* Seen from the pool, the manager's callers, its workers and Shutdown are borrowers,
\* workers and close().
LEMMA ManagerSteps == [ManagerNext]_mvars => [Next]_vars
<1> SUFFICES ASSUME [ManagerNext]_mvars PROVE [Next]_vars
  OBVIOUS
<1>1. ASSUME NEW c \in Callers, Ask(c) \/ GiveBack(c) \/ Lookup(c) \/ CountBorrow(c) \/ Settle(c)
      PROVE  UNCHANGED vars
  BY <1>1 DEF Ask, GiveBack, Lookup, CountBorrow, Settle
<1>2. ASSUME NEW c \in Callers, EnterPool(c)
      PROVE  Caller(c) \/ UNCHANGED vars
  BY <1>2 DEF EnterPool, Caller, Borrow
<1>3. ASSUME NEW c \in Callers, InPool(c) \/ FinishPut(c) \/ Expire(c)
      PROVE  Caller(c)
  BY <1>3 DEF InPool, FinishPut, Expire, Caller, Progress
<1>4. ASSUME NEW c \in Callers, NEW o \in Objects, BeginPut(c, o)
      PROVE  Caller(c)
  BY <1>4 DEF BeginPut, Caller, Return
<1>5. ASSUME NEW o \in Objects, Serving(o)
      PROVE  Worker(o)
  BY <1>5 DEF Serving
<1>6. CASE Shutdown
  BY <1>6 DEF Shutdown, Signal, TakeLock, ClosePool, Unlock, ShutdownReturns, Next
<1>7. CASE UNCHANGED mvars
  BY <1>7 DEF mvars
<1> QED
  BY <1>1, <1>2, <1>3, <1>4, <1>5, <1>6, <1>7 DEF ManagerNext, Serve, Next

LEMMA HeldFinite ==
    ASSUME TypeOK, NEW c \in Callers
    PROVE  /\ IsFiniteSet(held[c]) /\ Cardinality(held[c]) \in Nat
           /\ held[c] # {} => Cardinality(held[c]) >= 1
<1>1. held[c] \in SUBSET Objects
  BY DEF TypeOK
<1>2. IsFiniteSet(held[c])
  BY <1>1, ManagerAssumption, FS_Subset
<1>3. Cardinality(held[c]) \in Nat /\ (Cardinality(held[c]) = 0 <=> held[c] = {})
  BY <1>2, FS_CardinalityType, FS_EmptySet
<1> QED
  BY <1>2, <1>3

LEMMA DueTyped ==
    ASSUME TypeOK, CallInv
    PROVE  Dues \in [Callers -> Int] /\ \A c \in Callers : Due(c) >= 0
<1>1. ASSUME NEW c \in Callers PROVE Due(c) \in Int /\ Due(c) >= 0
  BY HeldFinite DEF Due, Accounted, CallInv
<1> QED
  BY <1>1 DEF Dues

\* What a step of caller c does: nothing to the others, and to the counters what it does
\* to the objects c stands for, or less where the pool is closed.
Flies(c, n) ==
    /\ \A d \in Callers \ {c} : /\ held'[d] = held[d] /\ cpc'[d] = cpc[d] /\ mpc'[d] = mpc[d]
    /\ inFlight' = inFlight + n /\ activeCount' = activeCount + n
    /\ Due(c)' <= Due(c) + n
    /\ ~Closed => Due(c)' = Due(c) + n

\* CallInv for one caller.
Kept(c) ==
    /\ mpc[c] = "borrow" => cpc[c] \in {"enqueue", "send", "steal", "tryEnqueue", "wait", "tryWait"}
    /\ mpc[c] \in {"return", "tryReturn"} => cpc[c] = "put"
    /\ mpc[c] \notin {"borrow", "return", "tryReturn"} => cpc[c] \in {"idle", "panicked"}
    /\ mpc[c] = "count" => cpc[c] = "idle" /\ held[c] # {}

LEMMA OutsideFlies ==
    ASSUME PoolInv, CallInv, FlightInv, NEW c \in Callers,
           Ask(c) \/ GiveBack(c) \/ Lookup(c)
    PROVE  Flies(c, 0) /\ Kept(c)' /\ mpc' \in [Callers -> ManagerPcs]
<1>1. /\ UNCHANGED <<held, cpc, inFlight, activeCount>>
      /\ mpc[c] \notin {"borrow", "return", "tryReturn", "count", "settle"}
  BY DEF Ask, GiveBack, Lookup, Uncounted, vars
<1>2. \E m \in ManagerPcs \ {"borrow", "return", "tryReturn", "count", "settle"} : mpc' = [mpc EXCEPT ![c] = m]
  BY DEF Ask, GiveBack, Lookup, MGoto, ManagerPcs
<1>3. Cardinality(held[c]) \in Nat /\ inFlight \in Int /\ activeCount \in Int
  BY HeldFinite DEF PoolInv, FlightInv
<1>4. Due(c)' = Due(c) /\ Due(c) \in Int
  BY <1>1, <1>2, <1>3 DEF Due, Accounted, CallInv
<1>5. Kept(c)'
  BY <1>1, <1>2 DEF Kept, CallInv
<1>6. mpc' \in [Callers -> ManagerPcs]
  BY <1>2 DEF CallInv
<1> QED
  BY <1>1, <1>2, <1>3, <1>4, <1>5, <1>6 DEF Flies, CallInv

LEMMA EnterFlies ==
    ASSUME PoolInv, CallInv, FlightInv, NEW c \in Callers, EnterPool(c)
    PROVE  Flies(c, 0) /\ Kept(c)' /\ mpc' \in [Callers -> ManagerPcs]
<1>1. held' = held /\ inFlight' = inFlight /\ activeCount' = activeCount
      /\ mpc[c] \in {"get", "tryGet"}
  BY DEF EnterPool, Get, TryGet, Begin, Goto, Uncounted, vars
<1>2. \/ mpc' = [mpc EXCEPT ![c] = "idle"] /\ cpc' = cpc
      \/ /\ mpc' = [mpc EXCEPT ![c] = "borrow"] /\ cpc[c] = "idle"
         /\ \E p \in {"enqueue", "tryEnqueue"} : cpc' = [cpc EXCEPT ![c] = p]
  BY DEF EnterPool, Get, TryGet, Begin, Goto, MGoto, vars
<1>3. Cardinality(held[c]) \in Nat /\ inFlight \in Int /\ activeCount \in Int
  BY HeldFinite DEF PoolInv, FlightInv
<1>4. cpc \in [Callers -> CallerPcs] /\ mpc \in [Callers -> ManagerPcs]
  BY DEF PoolInv, TypeOK, CallInv
<1>5. Due(c)' = Due(c) /\ Due(c) \in Int
  BY <1>1, <1>2, <1>3, <1>4 DEF Due, Accounted, CallInv
<1>6. Kept(c)'
  BY <1>1, <1>2, <1>4 DEF Kept, CallInv
<1>7. mpc' \in [Callers -> ManagerPcs]
  BY <1>2, <1>4 DEF ManagerPcs
<1> QED
  BY <1>1, <1>2, <1>3, <1>4, <1>5, <1>6, <1>7 DEF Flies

\* A caller leaves the pool's call with nothing, or with one object more, to be counted.
LEMMA InPoolFlies ==
    ASSUME PoolInv, CallInv, FlightInv, NEW c \in Callers, InPool(c)
    PROVE  Flies(c, 0) /\ Kept(c)' /\ mpc' \in [Callers -> ManagerPcs]
<1>1. /\ cpc \in [Callers -> CallerPcs] /\ mpc \in [Callers -> ManagerPcs]
      /\ held \in [Callers -> SUBSET Objects] /\ result \in [Callers -> Objects \union {Empty, Dropped}]
  BY DEF PoolInv, TypeOK, CallInv
<1>2. /\ IsFiniteSet(held[c]) /\ Cardinality(held[c]) \in Nat
      /\ inFlight \in Int /\ activeCount \in Int
  BY HeldFinite DEF PoolInv, FlightInv
<1>3. mpc[c] = "borrow" /\ inFlight' = inFlight /\ activeCount' = activeCount
  BY DEF InPool, Uncounted
<1>4. \E m \in {"borrow", "count", "idle"} :
         /\ mpc' = [mpc EXCEPT ![c] = m]
         /\ m = "borrow" <=> cpc'[c] # "idle"
         /\ m = "count" => held'[c] # held[c]
         /\ m = "idle" => held'[c] = held[c]
  BY DEF InPool, MGoto
<1>5. CASE held' = held
  <2>1. \E p \in {"idle", "enqueue", "send", "steal", "tryEnqueue", "wait", "tryWait"} :
           cpc' = [cpc EXCEPT ![c] = p]
    <3>1. CASE Enqueue(c)
      BY <3>1 DEF Enqueue, GiveUp, Goto, Send
    <3>2. CASE Steal(c) \/ TryEnqueue(c) \/ Receive(c) \/ Abandon(c)
      BY <3>2 DEF Steal, TryEnqueue, GiveUp, Send, Receive, Abandon
    <3> QED
      BY <3>1, <3>2 DEF InPool
  <2>2. Due(c)' = Due(c) /\ Due(c) \in Int
    BY <1>1, <1>2, <1>3, <1>4, <1>5, <2>1 DEF Due, Accounted, CallInv
  <2>3. Kept(c)' /\ mpc' \in [Callers -> ManagerPcs]
    BY <1>1, <1>4, <1>5, <2>1 DEF Kept, ManagerPcs
  <2>4. \A d \in Callers \ {c} : held'[d] = held[d] /\ cpc'[d] = cpc[d] /\ mpc'[d] = mpc[d]
    BY <1>1, <1>4, <1>5, <2>1
  <2> QED
    BY <1>2, <1>3, <2>2, <2>3, <2>4 DEF Flies
<1>6. CASE held' # held
  <2>1. Receive(c)
    BY <1>6 DEF InPool, Enqueue, Steal, TryEnqueue, Abandon, GiveUp, Goto, Send
  <2>2. /\ cpc' = [cpc EXCEPT ![c] = "idle"]
        /\ held' = [held EXCEPT ![c] = @ \union Granted(result[c])]
        /\ result[c] # Empty
    BY <2>1 DEF Receive
  <2>3. PICK o \in Objects : o = result[c] /\ Granted(result[c]) = {o}
    BY <1>1, <1>6, <2>2 DEF Granted
  <2>4. o \notin held[c]
    BY <2>3 DEF PoolInv, ExclusiveLending, Offered
  <2>5. held'[c] = held[c] \union {o} /\ mpc' = [mpc EXCEPT ![c] = "count"]
    BY <1>1, <1>4, <2>2, <2>3, <2>4
  <2>6. Cardinality(held'[c]) = Cardinality(held[c]) + 1
    BY <1>2, <2>4, <2>5, FS_AddElement
  <2>7. Due(c) = Cardinality(held[c]) /\ Due(c)' = Cardinality(held[c]) + 1 - 1
    BY <1>1, <1>2, <1>3, <2>2, <2>5, <2>6 DEF Due, Accounted, CallInv
  <2>8. Kept(c)' /\ mpc' \in [Callers -> ManagerPcs]
    BY <1>1, <2>2, <2>5 DEF Kept, ManagerPcs
  <2>9. \A d \in Callers \ {c} : held'[d] = held[d] /\ cpc'[d] = cpc[d] /\ mpc'[d] = mpc[d]
    BY <1>1, <2>2, <2>5
  <2> QED
    BY <1>2, <1>3, <2>7, <2>8, <2>9 DEF Flies
<1> QED
  BY <1>5, <1>6

LEMMA CountsFly ==
    ASSUME PoolInv, CallInv, FlightInv, NEW c \in Callers
    PROVE  /\ CountBorrow(c) => Flies(c, 1) /\ Kept(c)' /\ mpc' \in [Callers -> ManagerPcs]
           /\ Settle(c) => Flies(c, -1) /\ Kept(c)' /\ mpc' \in [Callers -> ManagerPcs]
<1>1. /\ Cardinality(held[c]) \in Nat /\ inFlight \in Int /\ activeCount \in Int
      /\ mpc \in [Callers -> ManagerPcs]
  BY HeldFinite DEF PoolInv, FlightInv, CallInv
<1>2. ASSUME CountBorrow(c) \/ Settle(c)
      PROVE  /\ held' = held /\ cpc' = cpc /\ mpc' = [mpc EXCEPT ![c] = "idle"]
             /\ Kept(c)' /\ mpc' \in [Callers -> ManagerPcs]
  <2>1. /\ held' = held /\ cpc' = cpc /\ mpc' = [mpc EXCEPT ![c] = "idle"]
        /\ mpc[c] \in {"count", "settle"}
    BY <1>2 DEF CountBorrow, Settle, vars, MGoto
  <2> QED
    BY <1>1, <2>1 DEF Kept, CallInv, ManagerPcs
<1>3. CountBorrow(c) => Flies(c, 1)
  BY <1>1, <1>2 DEF CountBorrow, CountFlight, Flies, Due, Accounted, CallInv
<1>4. Settle(c) => Flies(c, -1)
  BY <1>1, <1>2 DEF Settle, SettleReturn, Flies, Due, Accounted, CallInv
<1> QED
  BY <1>2, <1>3, <1>4

\* While the pool is open a put finds its lease, and tryPut is never refused.
LEMMA BeginPutFlies ==
    ASSUME PoolInv, CallInv, FlightInv, NEW c \in Callers, NEW o \in Objects, BeginPut(c, o)
    PROVE  Flies(c, 0) /\ Kept(c)' /\ mpc' \in [Callers -> ManagerPcs]
<1>1. /\ cpc \in [Callers -> CallerPcs] /\ mpc \in [Callers -> ManagerPcs]
      /\ held \in [Callers -> SUBSET Objects]
  BY DEF PoolInv, TypeOK, CallInv
<1>2. /\ IsFiniteSet(held[c]) /\ Cardinality(held[c]) \in Nat
      /\ held[c] # {} => Cardinality(held[c]) >= 1
      /\ inFlight \in Int /\ activeCount \in Int
  BY HeldFinite DEF PoolInv, FlightInv
<1>3. /\ inFlight' = inFlight /\ activeCount' = activeCount
      /\ mpc[c] \in {"put", "tryPut"} /\ cpc[c] = "idle" /\ o \in held[c]
  BY DEF BeginPut, Uncounted, PutLoad, TryPutRejected
<1>4. ~Closed => leases[o] # None
  <2>1. wpc[o] \in {"count", "wait", "exited"}
    BY <1>3 DEF PoolInv, AwayInv
  <2> QED
    BY <2>1 DEF PoolInv, OpenInv, LeaseInv
<1>5. Due(c) = Cardinality(held[c]) /\ Due(c) >= 1
  BY <1>2, <1>3 DEF Due, Accounted
<1>6. CASE held' = held /\ cpc' = [cpc EXCEPT ![c] = "put"]
           /\ \E m \in {"return", "tryReturn"} : mpc' = [mpc EXCEPT ![c] = m]
  <2>1. Due(c)' = Due(c)
    BY <1>1, <1>2, <1>5, <1>6 DEF Due, Accounted
  <2>2. Kept(c)' /\ mpc' \in [Callers -> ManagerPcs]
    BY <1>1, <1>6 DEF Kept, ManagerPcs
  <2> QED
    BY <1>1, <1>2, <1>3, <1>5, <1>6, <2>1, <2>2 DEF Flies
<1>7. CASE /\ Closed /\ held' = held /\ cpc' = [cpc EXCEPT ![c] = "panicked"]
           /\ mpc' = [mpc EXCEPT ![c] = "settle"]
  <2>1. Due(c)' = 1
    BY <1>1, <1>7 DEF Due
  <2>2. Kept(c)' /\ mpc' \in [Callers -> ManagerPcs]
    BY <1>1, <1>7 DEF Kept, ManagerPcs
  <2> QED
    BY <1>1, <1>2, <1>3, <1>5, <1>7, <2>1, <2>2 DEF Flies
<1>8. CASE /\ Closed /\ held' = [held EXCEPT ![c] = @ \ {o}] /\ cpc' = cpc
           /\ mpc' = [mpc EXCEPT ![c] = "idle"]
  <2>1. Cardinality(held'[c]) = Cardinality(held[c]) - 1
    BY <1>1, <1>2, <1>3, <1>8, FS_RemoveElement
  <2>2. Due(c)' = Due(c) - 1
    BY <1>1, <1>2, <1>3, <1>5, <1>8, <2>1 DEF Due, Accounted
  <2>3. Kept(c)' /\ mpc' \in [Callers -> ManagerPcs]
    BY <1>1, <1>3, <1>8 DEF Kept, ManagerPcs
  <2> QED
    BY <1>1, <1>2, <1>3, <1>5, <1>8, <2>2, <2>3 DEF Flies
<1>9. CASE PutLoad(c, o) /\ leases[o] # None
  <2>1. held' = held /\ cpc' = [cpc EXCEPT ![c] = "put"]
    BY <1>9 DEF PutLoad
  <2>2. \E m \in {"return", "tryReturn"} : mpc' = [mpc EXCEPT ![c] = m]
    BY <1>1, <1>9, <2>1 DEF BeginPut, MGoto, TryPutRejected
  <2> QED
    BY <1>6, <2>1, <2>2
<1>10. CASE PutLoad(c, o) /\ leases[o] = None
  <2>1. Closed /\ held' = held /\ cpc' = [cpc EXCEPT ![c] = "panicked"]
    BY <1>4, <1>10 DEF PutLoad
  <2>2. mpc' = [mpc EXCEPT ![c] = "settle"]
    BY <1>1, <1>3, <1>10, <2>1 DEF BeginPut, MGoto, TryPutRejected
  <2> QED
    BY <1>7, <2>1, <2>2
<1>11. CASE ~PutLoad(c, o)
  BY <1>4, <1>8, <1>11 DEF BeginPut, MGoto, TryPutRejected
<1> QED
  BY <1>9, <1>10, <1>11

\* While the pool is open the send goes through.
LEMMA FinishPutFlies ==
    ASSUME PoolInv, CallInv, FlightInv, NEW c \in Callers, FinishPut(c)
    PROVE  Flies(c, 0) /\ Kept(c)' /\ mpc' \in [Callers -> ManagerPcs]
<1>1. /\ cpc \in [Callers -> CallerPcs] /\ mpc \in [Callers -> ManagerPcs]
      /\ held \in [Callers -> SUBSET Objects]
  BY DEF PoolInv, TypeOK, CallInv
<1>2. /\ IsFiniteSet(held[c]) /\ Cardinality(held[c]) \in Nat
      /\ held[c] # {} => Cardinality(held[c]) >= 1
      /\ inFlight \in Int /\ activeCount \in Int
  BY HeldFinite DEF PoolInv, FlightInv
<1>3. /\ inFlight' = inFlight /\ activeCount' = activeCount
      /\ mpc[c] \in {"return", "tryReturn"} /\ cpc[c] = "put"
      /\ cput[c] \in held[c]
  BY DEF FinishPut, Uncounted, PutSend, PoolInv, PutInv
<1>4. Due(c) = Cardinality(held[c]) /\ Due(c) >= 1
  BY <1>2, <1>3 DEF Due, Accounted
<1>5. CASE clease[c] \in chClosed \union chFull
  <2>1. Closed
    BY <1>1, <1>3, <1>5 DEF PoolInv, OpenInv, AwayInv, TypeOK
  <2>2. /\ held' = held /\ cpc' = [cpc EXCEPT ![c] = "panicked"]
        /\ \E m \in {"idle", "settle"} : mpc' = [mpc EXCEPT ![c] = m]
    BY <1>5 DEF FinishPut, PutSend, MGoto
  <2>3. Due(c)' \in {0, 1}
    BY <1>1, <2>2 DEF Due
  <2>4. Kept(c)' /\ mpc' \in [Callers -> ManagerPcs]
    BY <1>1, <2>2 DEF Kept, ManagerPcs
  <2> QED
    BY <1>1, <1>2, <1>3, <1>4, <2>1, <2>2, <2>3, <2>4 DEF Flies
<1>6. CASE clease[c] \notin chClosed \union chFull
  <2>1. /\ held' = [held EXCEPT ![c] = @ \ {cput[c]}] /\ cpc' = [cpc EXCEPT ![c] = "idle"]
        /\ mpc' = [mpc EXCEPT ![c] = "settle"]
    <3>1. held' = [held EXCEPT ![c] = @ \ {cput[c]}] /\ cpc' = [cpc EXCEPT ![c] = "idle"]
      BY <1>6 DEF FinishPut, PutSend
    <3>2. cpc'[c] # "panicked"
      BY <1>1, <3>1
    <3> QED
      BY <3>1, <3>2 DEF FinishPut, MGoto
  <2>2. Cardinality(held'[c]) = Cardinality(held[c]) - 1
    BY <1>1, <1>2, <1>3, <2>1, FS_RemoveElement
  <2>3. Due(c)' = Due(c)
    BY <1>1, <1>2, <1>4, <2>1, <2>2 DEF Due, Accounted
  <2>4. Kept(c)' /\ mpc' \in [Callers -> ManagerPcs]
    BY <1>1, <2>1 DEF Kept, ManagerPcs
  <2> QED
    BY <1>1, <1>2, <1>3, <1>4, <2>1, <2>3, <2>4 DEF Flies
<1> QED
  BY <1>5, <1>6

LEMMA CallerFlies ==
    ASSUME PoolInv, CallInv, FlightInv, NEW c \in Callers,
           Ask(c) \/ GiveBack(c) \/ Serve(c) \/ Expire(c)
    PROVE  \E n \in Int : Flies(c, n) /\ Kept(c)' /\ mpc' \in [Callers -> ManagerPcs]
<1>1. CASE Expire(c)
  <2>1. UNCHANGED <<held, cpc, mpc, inFlight, activeCount>>
    BY <1>1 DEF Expire, EndContext, managerVars
  <2>2. Cardinality(held[c]) \in Nat /\ inFlight \in Int /\ activeCount \in Int
    BY HeldFinite DEF PoolInv, FlightInv
  <2>3. Due(c)' = Due(c) /\ Due(c) \in Int
    BY <2>1, <2>2 DEF Due, Accounted
  <2>4. Flies(c, 0)
    BY <2>1, <2>2, <2>3 DEF Flies
  <2>5. Kept(c)' /\ mpc' \in [Callers -> ManagerPcs]
    BY <2>1 DEF Kept, CallInv
  <2> QED
    BY <2>4, <2>5
<1>2. \/ Ask(c) \/ GiveBack(c) \/ Lookup(c) \/ EnterPool(c) \/ InPool(c) \/ FinishPut(c)
      \/ \E o \in Objects : BeginPut(c, o)
      => Flies(c, 0) /\ Kept(c)' /\ mpc' \in [Callers -> ManagerPcs]
  BY OutsideFlies, EnterFlies, InPoolFlies, FinishPutFlies, BeginPutFlies
<1>3. 0 \in Int /\ 1 \in Int /\ -1 \in Int
  OBVIOUS
<1> QED
  BY <1>1, <1>2, <1>3, CountsFly DEF Serve

LEMMA FlightInit == ManagerInit => CallInv /\ FlightInv
<1> SUFFICES ASSUME ManagerInit PROVE CallInv /\ FlightInv
  OBVIOUS
<1>a. PICK f : f = Dues
  OBVIOUS
<1>1. \A c \in Callers : Due(c) = 0
  BY FS_EmptySet DEF ManagerInit, Init, Due, Accounted
<1>2. f \in [Callers -> Int] /\ \A c \in Callers : f[c] = 0
  BY <1>a, <1>1 DEF Dues
<1>3. SumFunctionOnSet(f, Callers) = 0
  BY <1>2, ManagerAssumption, SumOfZeros
<1> QED
  BY <1>a, <1>3 DEF ManagerInit, Init, CallInv, FlightInv, ManagerPcs

\* A step of a worker, of Shutdown or of the pool's close(): the callers stay where they are.
LEMMA CallersStay ==
    ASSUME PoolInv, CallInv, FlightInv, UNCHANGED <<held, cpc, mpc, inFlight, activeCount>>,
           ~Closed' => ~Closed
    PROVE  CallInv' /\ FlightInv'
<1>1. CallInv'
  BY DEF CallInv
<1>2. Dues' = Dues
  BY DEF Dues, Due, Accounted
<1> QED
  BY <1>1, <1>2 DEF FlightInv

LEMMA FlightStep ==
    ASSUME PoolInv, PoolInv', CallInv, FlightInv, [ManagerNext]_mvars
    PROVE  CallInv' /\ FlightInv'
<1>1. ASSUME NEW c \in Callers, Ask(c) \/ GiveBack(c) \/ Serve(c) \/ Expire(c)
      PROVE  CallInv' /\ FlightInv'
  <2>a. PICK f : f = Dues
    OBVIOUS
  <2>b. PICK g : g = Dues'
    OBVIOUS
  <2>1. PICK n \in Int : Flies(c, n) /\ Kept(c)' /\ mpc' \in [Callers -> ManagerPcs]
    BY <1>1, CallerFlies
  <2>2. \A d \in Callers \ {c} : held'[d] = held[d] /\ cpc'[d] = cpc[d] /\ mpc'[d] = mpc[d]
    BY <2>1 DEF Flies
  <2>3. CallInv'
    BY <2>1, <2>2 DEF CallInv, Kept
  <2>4. f \in [Callers -> Int] /\ g \in [Callers -> Int]
    <3>1. \A d \in Callers : Due(d)' \in Int
      <4>1. \A d \in Callers : Cardinality(held'[d]) \in Nat
        <5>1. \A d \in Callers : held'[d] \in SUBSET Objects
          BY DEF PoolInv, TypeOK
        <5> QED
          BY <5>1, ManagerAssumption, FS_Subset, FS_CardinalityType
      <4> QED
        BY <4>1 DEF Due, Accounted
    <3> QED
      BY <2>a, <2>b, <3>1, DueTyped DEF PoolInv, Dues
  <2>5. \A d \in Callers : d # c => g[d] = f[d]
    BY <2>a, <2>b, <2>2 DEF Dues, Due, Accounted
  <2>6. SumFunctionOnSet(g, Callers) = SumFunctionOnSet(f, Callers) + g[c] - f[c]
    BY <2>4, <2>5, ManagerAssumption, SumChange
  <2>7. /\ g[c] <= f[c] + n /\ (~Closed => g[c] = f[c] + n)
        /\ inFlight' = inFlight + n /\ activeCount' = activeCount + n
    BY <2>1, <2>a, <2>b DEF Flies, Dues
  <2>8. closer' = closer
    BY <1>1 DEF Ask, GiveBack, Serve, Expire, Lookup, EnterPool, InPool, CountBorrow, BeginPut, FinishPut,
                Settle, vars, EndContext, Get, TryGet, Begin, Goto, Enqueue, Send, GiveUp, Steal, TryEnqueue,
                Receive, Abandon, PutLoad, TryPutRejected, PutSend
  <2>9. SumFunctionOnSet(f, Callers) \in Int /\ f[c] \in Int /\ g[c] \in Int
    BY <2>4, ManagerAssumption, SumType
  <2>10. /\ inFlight \in Int /\ activeCount = inFlight /\ inFlight >= SumFunctionOnSet(f, Callers)
         /\ ~Closed => inFlight = SumFunctionOnSet(f, Callers)
    BY <2>a DEF FlightInv
  <2>11. /\ inFlight' \in Int /\ activeCount' = inFlight' /\ inFlight' >= SumFunctionOnSet(g, Callers)
         /\ ~Closed => inFlight' = SumFunctionOnSet(g, Callers)
    BY <2>6, <2>7, <2>9, <2>10
  <2>12. FlightInv'
    BY <2>b, <2>8, <2>11 DEF FlightInv, Closed
  <2> QED
    BY <2>3, <2>12
<1>2. ASSUME NEW o \in Objects, Serving(o)
      PROVE  CallInv' /\ FlightInv'
  <2>1. UNCHANGED <<held, cpc, mpc, inFlight, activeCount, closer>>
    BY <1>2 DEF Serving, managerVars, Worker, Take, Leave, Deliver, Undeliver, CancelLease, Count, TakeBack,
                Forsake
  <2> QED
    BY <2>1, CallersStay DEF Closed
<1>3. CASE Shutdown
  <2>1. UNCHANGED <<held, cpc, mpc, inFlight, activeCount>>
    BY <1>3 DEF Shutdown, Signal, TakeLock, ClosePool, Unlock, ShutdownReturns, managerVars, vars, Closer,
                Close, CloseStop, RangeLoad, RangeClose, RangeEnd, Join
  <2>2. ~Closed' => ~Closed
    BY <1>3 DEF Shutdown, Signal, TakeLock, ClosePool, Unlock, ShutdownReturns, vars, Closer, Closed,
                Close, CloseStop, RangeLoad, RangeClose, RangeEnd, Join
  <2> QED
    BY <2>1, <2>2, CallersStay
<1>4. CASE UNCHANGED mvars
  BY <1>4, CallersStay DEF mvars, vars, managerVars, Closed
<1> QED
  BY <1>1, <1>2, <1>3, <1>4 DEF ManagerNext

\* The three invariants hold together.
THEOREM ManagerInvariant == ManagerSpec => [](PoolInv /\ CallInv /\ FlightInv)
<1>1. ManagerInit => PoolInv /\ CallInv /\ FlightInv
  BY PoolInvInit, FlightInit DEF ManagerInit
<1>2. PoolInv /\ CallInv /\ FlightInv /\ [ManagerNext]_mvars => (PoolInv /\ CallInv /\ FlightInv)'
  BY ManagerSteps, PoolInvStep, FlightStep
<1> QED
  BY <1>1, <1>2, PTL DEF ManagerSpec

\* Get, TryGet, Put, TryPut: until the pool is closed the WaitGroup stands at the number
\* of objects the callers have, whatever they and the pool's workers are doing.
THEOREM InFlightExact == ManagerSpec => []InFlightIsExact
<1>1. PoolInv /\ FlightInv => InFlightIsExact
  <2> SUFFICES ASSUME PoolInv, FlightInv, ~Closed
               PROVE  inFlight = SumFunctionOnSet([c \in Callers |-> Accounted(c)], Callers)
    BY DEF InFlightIsExact, FlightInv
  <2>1. \A c \in Callers : cpc[c] # "panicked"
    BY DEF PoolInv, OpenInv
  <2>2. Dues = [c \in Callers |-> Accounted(c)]
    BY <2>1 DEF Dues, Due
  <2> QED
    BY <2>2 DEF FlightInv
<1> QED
  BY <1>1, ManagerInvariant, PTL

\* Done is never called on a WaitGroup at zero, which would panic, not even by calls that
\* Shutdown overtakes.
LEMMA WaitGroupNatural ==
    ASSUME PoolInv, CallInv, FlightInv
    PROVE  inFlight \in Nat
<1>a. PICK f : f = Dues
  OBVIOUS
<1>1. f \in [Callers -> Int] /\ \A c \in Callers : f[c] >= 0
  BY <1>a, DueTyped DEF Dues, PoolInv
<1>2. SumFunctionOnSet(f, Callers) >= 0 /\ SumFunctionOnSet(f, Callers) \in Int
  BY <1>1, ManagerAssumption, SumNatural, SumType
<1> QED
  BY <1>a, <1>2 DEF FlightInv

\* The manager's variables keep their types, and the WaitGroup never falls below zero.
THEOREM ManagerTypes == ManagerSpec => []ManagerTypeOK
<1>1. ManagerInit => shut \in ShutdownPcs
  BY DEF ManagerInit, ShutdownPcs
<1>2. shut \in ShutdownPcs /\ [ManagerNext]_mvars => (shut \in ShutdownPcs)'
  BY DEF ManagerNext, Ask, GiveBack, Serve, Expire, Lookup, EnterPool, InPool, CountBorrow, BeginPut,
         FinishPut, Settle, Uncounted, Serving, Shutdown, Signal, TakeLock, ClosePool, Unlock,
         ShutdownReturns, Goon, managerVars, mvars, ShutdownPcs
<1>3. PoolInv /\ CallInv /\ FlightInv /\ shut \in ShutdownPcs => ManagerTypeOK
  BY WaitGroupNatural DEF CallInv, FlightInv, ManagerTypeOK
<1> QED
  BY <1>1, <1>2, <1>3, ManagerInvariant, PTL DEF ManagerSpec

\* The pool as the manager uses it is a pool: what is proved of ObjectPool holds under it.
THEOREM PoolUnderManager == ManagerSpec => Spec
<1>1. ManagerInit => Init
  BY DEF ManagerInit
<1> QED
  BY <1>1, ManagerSteps, PTL DEF ManagerSpec, Spec
===============================================================================
