------------------------------ MODULE MemoryBus ------------------------------
(***************************************************************************)
(* The in-memory event bus (infra/bus/eventbus/memory.go): Publish with    *)
(* its fan-out, Subscribe, Unsubscribe, the observer of a subscription's   *)
(* context, Close, and the consumer goroutine of a lambda                  *)
(* (app/lambda/core/base.go, consume) at the other end of the channel.     *)
(*                                                                         *)
(* One event type: the subscribers of different types never meet.  The     *)
(* event pool appears as the set `free` (ObjectPool says why a borrowed    *)
(* event has one owner); borrowing waits until an event is free or the     *)
(* publisher's context ends.  An event in use carries as its stamp the     *)
(* publisher and the number of the publication it comes from.              *)
(***************************************************************************)
EXTENDS Integers, Sequences, FiniteSets

CONSTANTS
    Events,        \* the pooled events
    Publishers,    \* goroutines that publish, each with a context
    Subs,          \* subscriptions, each with its consumer
    BufferSize,    \* capacity of a subscription's channel
    Workers,       \* FanoutWorkers
    MaxPublish,    \* bound: publications of one publisher
    Quitters,      \* subscriptions whose context may be cancelled
    Impatient,     \* publishers whose context may end
    MayClose,      \* whether Close may be called
    Nothing

BusAssumption ==
    /\ IsFiniteSet(Events) /\ IsFiniteSet(Subs)
    /\ BufferSize \in Nat \ {0} /\ Workers \in Nat \ {0} /\ MaxPublish \in Nat
    /\ Quitters \subseteq Subs /\ Impatient \subseteq Publishers /\ MayClose \in BOOLEAN
    /\ Nothing \notin Events \union Subs \union (Publishers \X (1..MaxPublish))

VARIABLES
    free,          \* the events in the pool
    stamp,         \* what each event carries
    ppc, count,    \* where each publisher is, and how often it has published
    pctx,          \* the publishers whose context has ended
    src,           \* the event a publisher is publishing
    snap,          \* the subscribers it has seen
    hand,          \* the clones it has borrowed and not yet assigned
    dpc, clone,    \* its delivery to each subscriber, and the clone it delivers
    err,           \* the publishers one of whose deliveries has failed
    subscribers,   \* the registered subscriptions
    spc,           \* the life of each subscription
    subCtx,        \* the subscriptions whose context is done
    quit,          \* those whose consumer's own context is done
    subClosed, ch, \* the channels
    bpc, closing,  \* progress of Close, and the subscription it is closing
    consumer, reading \* each consumer, and the event it handles

poolVars == <<free, stamp>>
pubVars  == <<ppc, count, pctx, src, snap, hand, dpc, clone, err>>
subVars  == <<subscribers, spc, subCtx, quit, subClosed>>
closingVars == <<bpc, closing>>
conVars  == <<consumer, reading>>
busVars == <<poolVars, pubVars, subVars, ch, closingVars, conVars>>

Stamps == (Publishers \X (1..MaxPublish)) \union {Nothing}

BusTypeOK ==
    /\ free \subseteq Events
    /\ stamp \in [Events -> Stamps]
    /\ ppc \in [Publishers -> {"idle", "publish", "borrow", "dispatch", "panicked"}]
    /\ count \in [Publishers -> 0..MaxPublish]
    /\ pctx \subseteq Impatient
    /\ src \in [Publishers -> Events \union {Nothing}]
    /\ snap \in [Publishers -> SUBSET Subs]
    /\ hand \in [Publishers -> SUBSET Events]
    /\ dpc \in [Publishers -> [Subs -> {"none", "ready", "select", "full", "retry", "panicked"}]]
    /\ clone \in [Publishers -> [Subs -> Events \union {Nothing}]]
    /\ err \subseteq Publishers
    /\ subscribers \subseteq Subs
    /\ spc \in [Subs -> {"unborn", "live", "removed", "closing", "closed"}]
    /\ subCtx \subseteq Subs /\ quit \subseteq subCtx /\ subClosed \subseteq subCtx
    /\ ch \in [Subs -> Seq(Events)]
    /\ \A s \in Subs : Len(ch[s]) <= BufferSize
    /\ bpc \in {"open", "cancelled", "locked", "done"}
    /\ closing \in Subs \union {Nothing}
    /\ consumer \in [Subs -> {"none", "loop", "drain", "gone"}]
    /\ reading \in [Subs -> Events \union {Nothing}]

BusInit ==
    /\ free = Events
    /\ stamp = [e \in Events |-> Nothing]
    /\ ppc = [p \in Publishers |-> "idle"]
    /\ count = [p \in Publishers |-> 0]
    /\ pctx = {}
    /\ src = [p \in Publishers |-> Nothing]
    /\ snap = [p \in Publishers |-> {}]
    /\ hand = [p \in Publishers |-> {}]
    /\ dpc = [p \in Publishers |-> [s \in Subs |-> "none"]]
    /\ clone = [p \in Publishers |-> [s \in Subs |-> Nothing]]
    /\ err = {}
    /\ subscribers = {}
    /\ spc = [s \in Subs |-> "unborn"]
    /\ subCtx = {} /\ quit = {} /\ subClosed = {}
    /\ ch = [s \in Subs |-> <<>>]
    /\ bpc = "open" /\ closing = Nothing
    /\ consumer = [s \in Subs |-> "none"]
    /\ reading = [s \in Subs |-> Nothing]

Locked  == bpc = "locked"
BusDone == bpc # "open"

\* ReturnEventInst and its batch form: the events are reset and free again.
Recycle(E) ==
    /\ free' = free \union E
    /\ stamp' = [e \in Events |-> IF e \in E THEN Nothing ELSE stamp[e]]

-------------------------------------------------------------------------------
(* Publish *)

\* The caller borrows and fills an event and hands it to Publish.
BeginPublish(p) ==
    /\ ppc[p] = "idle"
    /\ count[p] < MaxPublish
    /\ \E e \in free :
         /\ e = (CHOOSE x \in free : TRUE)     \* the pool's choice does not matter
         /\ free' = free \ {e}
         /\ stamp' = [stamp EXCEPT ![e] = <<p, count[p] + 1>>]
         /\ src' = [src EXCEPT ![p] = e]
    /\ count' = [count EXCEPT ![p] = @ + 1]
    /\ ppc' = [ppc EXCEPT ![p] = "publish"]
    /\ UNCHANGED <<pctx, snap, hand, dpc, clone, err, subVars, ch, closingVars, conVars>>

\* What a failing Publish gives back: the source, and the clones in hand.
Reclaimed_ClonesOnly(p) == hand[p]
Reclaimed(p) == hand[p] \union {src[p]}

\* Publish ends before any delivery.
EndEarly(p) ==
    /\ Recycle(Reclaimed(p))
    /\ src' = [src EXCEPT ![p] = Nothing]
    /\ hand' = [hand EXCEPT ![p] = {}]
    /\ snap' = [snap EXCEPT ![p] = {}]
    /\ ppc' = [ppc EXCEPT ![p] = "idle"]
    /\ UNCHANGED <<count, pctx, dpc, clone, err, subVars, ch, closingVars, conVars>>

\* An empty type, or an extension payload over the cap.
Reject(p) == ppc[p] = "publish" /\ EndEarly(p)

\* The subscribers are copied under the read lock.
Snapshot(p) ==
    /\ ppc[p] = "publish"
    /\ ~Locked
    /\ \/ subscribers = {} /\ EndEarly(p)
       \/ /\ subscribers # {}
          /\ snap' = [snap EXCEPT ![p] = subscribers]
          /\ ppc' = [ppc EXCEPT ![p] = "borrow"]
          /\ UNCHANGED <<poolVars, count, pctx, src, hand, dpc, clone, err,
                         subVars, ch, closingVars, conVars>>

\* One Get of BorrowEventInsts; those it already has stay in hand.
BorrowClone(p) ==
    /\ ppc[p] = "borrow"
    /\ Cardinality(hand[p]) < Cardinality(snap[p])
    /\ \E e \in free :
         /\ e = (CHOOSE x \in free : TRUE)
         /\ free' = free \ {e}
         /\ hand' = [hand EXCEPT ![p] = @ \union {e}]
    /\ UNCHANGED <<stamp, ppc, count, pctx, src, snap, dpc, clone, err,
                   subVars, ch, closingVars, conVars>>

\* The context ends while Get waits.
CloneFails(p) == ppc[p] = "borrow" /\ p \in pctx /\ EndEarly(p)

\* All clones are borrowed and copied from the source: dispatch begins.
Dispatch(p) ==
    /\ ppc[p] = "borrow"
    /\ Cardinality(hand[p]) = Cardinality(snap[p])
    /\ LET f == CHOOSE f \in [snap[p] -> hand[p]] : \A s, t \in snap[p] : f[s] = f[t] => s = t
       IN  clone' = [clone EXCEPT ![p] = [s \in Subs |-> IF s \in snap[p] THEN f[s] ELSE Nothing]]
    /\ dpc' = [dpc EXCEPT ![p] = [s \in Subs |-> IF s \in snap[p] THEN "ready" ELSE "none"]]
    /\ stamp' = [e \in Events |-> IF e \in hand[p] THEN stamp[src[p]] ELSE stamp[e]]
    /\ hand' = [hand EXCEPT ![p] = {}]
    /\ ppc' = [ppc EXCEPT ![p] = "dispatch"]
    /\ UNCHANGED <<free, count, pctx, src, snap, err, subVars, ch, closingVars, conVars>>

-------------------------------------------------------------------------------
(* deliverWithRecycle, one goroutine per subscriber, at most Workers at a time *)

To(p, s, pc) == dpc' = [dpc EXCEPT ![p][s] = pc]
StillThere == UNCHANGED <<ppc, count, pctx, src, snap, hand, subVars, closingVars, conVars>>

FailDelivery(p) == err' = err \union {p}

\* The clone goes back to the pool.
Undelivered(p, s) ==
    /\ To(p, s, "none")
    /\ clone' = [clone EXCEPT ![p][s] = Nothing]
    /\ Recycle({clone[p][s]})
    /\ UNCHANGED ch /\ StillThere

HasRoom(s) == Len(ch[s]) < BufferSize

Queued_First(q, e) == <<e>> \o q
Queued(q, e) == Append(q, e)

\* The clone goes to the subscriber.
Sent(p, s) ==
    /\ HasRoom(s) /\ s \notin subClosed
    /\ ch' = [ch EXCEPT ![s] = Queued(@, clone[p][s])]
    /\ clone' = [clone EXCEPT ![p][s] = Nothing]
    /\ To(p, s, "none")
    /\ UNCHANGED <<poolVars, err>> /\ StillThere

\* A send on a closed channel, which conc's pool raises again in Publish.
SendPanics(p, s) ==
    /\ s \in subClosed
    /\ To(p, s, "panicked")
    /\ UNCHANGED <<poolVars, clone, err, ch>> /\ StillThere

StartDelivery(p, s) ==
    /\ dpc[p][s] = "ready"
    /\ Cardinality({t \in Subs : dpc[p][t] \in {"select", "full", "retry"}}) < Workers
    /\ \/ s \in subCtx /\ FailDelivery(p) /\ Undelivered(p, s)
       \/ s \notin subCtx /\ To(p, s, "select")
          /\ UNCHANGED <<poolVars, clone, err, ch>> /\ StillThere

\* Any ready case of the select may be taken, the default when none is.
Select(p, s) ==
    /\ dpc[p][s] = "select"
    /\ \/ (BusDone \/ p \in pctx) /\ FailDelivery(p) /\ Undelivered(p, s)
       \/ s \in subCtx /\ Undelivered(p, s) /\ UNCHANGED err
       \/ Sent(p, s)
       \/ SendPanics(p, s)
       \/ /\ ~BusDone /\ p \notin pctx /\ s \notin subCtx \union subClosed
          /\ Len(ch[s]) = BufferSize
          /\ To(p, s, "full")
          /\ UNCHANGED <<poolVars, clone, err, ch>> /\ StillThere

Discarded_Kept(s) == {}
Discarded(s) == {Head(ch[s])}

\* The oldest event makes room, if the consumer has not made some.
DropOldest(p, s) ==
    /\ dpc[p][s] = "full"
    /\ To(p, s, "retry")
    /\ IF ch[s] = <<>> THEN UNCHANGED <<poolVars, ch>>
       ELSE /\ Recycle(Discarded(s))
            /\ ch' = [ch EXCEPT ![s] = Tail(@)]
    /\ UNCHANGED <<clone, err>> /\ StillThere

Retry(p, s) ==
    /\ dpc[p][s] = "retry"
    /\ \/ Sent(p, s)
       \/ SendPanics(p, s)
       \/ Len(ch[s]) = BufferSize /\ s \notin subClosed /\ FailDelivery(p) /\ Undelivered(p, s)

Spent(p) == {src[p]}

\* Wait returns when every delivery has ended, or raises the panic of one; then
\* the source is recycled, whatever the deliveries returned.
Finish(p) ==
    /\ ppc[p] = "dispatch"
    /\ \A s \in Subs : dpc[p][s] \in {"none", "panicked"}
    /\ IF \A s \in Subs : dpc[p][s] = "none"
       THEN /\ Recycle(Spent(p))
            /\ src' = [src EXCEPT ![p] = Nothing]
            /\ snap' = [snap EXCEPT ![p] = {}]
            /\ ppc' = [ppc EXCEPT ![p] = "idle"]
            /\ err' = err \ {p}
       ELSE /\ ppc' = [ppc EXCEPT ![p] = "panicked"]
            /\ UNCHANGED <<poolVars, src, snap, err>>
    /\ UNCHANGED <<count, pctx, hand, dpc, clone, subVars, ch, closingVars, conVars>>

EndPublisher(p) ==
    /\ p \in Impatient \ pctx
    /\ pctx' = pctx \union {p}
    /\ UNCHANGED <<poolVars, ppc, count, src, snap, hand, dpc, clone, err, subVars, ch,
                   closingVars, conVars>>

-------------------------------------------------------------------------------
(* Subscribe, Unsubscribe, observe, Close *)

\* Subscribe does not look at the bus context: it still registers after Close.
Subscribe(s) ==
    /\ spc[s] = "unborn"
    /\ ~Locked
    /\ spc' = [spc EXCEPT ![s] = "live"]
    /\ subscribers' = subscribers \union {s}
    /\ consumer' = [consumer EXCEPT ![s] = "loop"]
    /\ UNCHANGED <<subCtx, quit, subClosed, reading, poolVars, pubVars, ch, closingVars>>

\* The lambda's context, the parent of the subscription's, is cancelled.
CancelContext(s) ==
    /\ s \in Quitters \ quit
    /\ consumer[s] = "loop"
    /\ quit' = quit \union {s}
    /\ subCtx' = subCtx \union {s}
    /\ UNCHANGED <<subscribers, spc, subClosed, poolVars, pubVars, ch, closingVars, conVars>>

\* Unsubscribe, by the consumer that has ended, and observe, once the context is
\* done, take the subscription out of the map under the lock; then sub.close().
Unregister(s) ==
    /\ spc[s] = "live"
    /\ ~Locked
    /\ consumer[s] = "gone" \/ s \in subCtx
    /\ subscribers' = subscribers \ {s}
    /\ spc' = [spc EXCEPT ![s] = "removed"]
    /\ UNCHANGED <<subCtx, quit, subClosed, poolVars, pubVars, ch, closingVars, conVars>>

\* sub.close(), at most once: cancel, then close the channel.
CloseCancel(s) ==
    /\ spc[s] = "removed"
    /\ spc' = [spc EXCEPT ![s] = "closing"]
    /\ subCtx' = subCtx \union {s}
    /\ UNCHANGED <<subscribers, quit, subClosed, poolVars, pubVars, ch, closingVars, conVars>>

CloseChannel(s) ==
    /\ spc[s] = "closing"
    /\ spc' = [spc EXCEPT ![s] = "closed"]
    /\ subClosed' = subClosed \union {s}
    /\ UNCHANGED <<subscribers, subCtx, quit, poolVars, pubVars, ch, closingVars, conVars>>

BusCancel ==
    /\ MayClose /\ bpc = "open"
    /\ bpc' = "cancelled"
    /\ UNCHANGED <<closing, poolVars, pubVars, subVars, ch, conVars>>

BusLock ==
    /\ bpc = "cancelled"
    /\ bpc' = "locked"
    /\ UNCHANGED <<closing, poolVars, pubVars, subVars, ch, conVars>>

LastClosed == closing # Nothing => spc[closing] = "closed"

\* With the lock held Close closes one subscription after the other.
CloseNext(s) ==
    /\ Locked
    /\ LastClosed
    /\ s \in subscribers
    /\ closing' = s
    /\ subscribers' = subscribers \ {s}
    /\ spc' = [spc EXCEPT ![s] = "removed"]
    /\ UNCHANGED <<bpc, subCtx, quit, subClosed, poolVars, pubVars, ch, conVars>>

BusUnlock ==
    /\ Locked
    /\ subscribers = {}
    /\ LastClosed
    /\ bpc' = "done" /\ closing' = Nothing
    /\ UNCHANGED <<poolVars, pubVars, subVars, ch, conVars>>

-------------------------------------------------------------------------------
(* The consumer: BaseLambda.consume *)

\* The receive case of the select; a closed and empty channel ends the loop.
Consume(s) ==
    /\ consumer[s] = "loop" /\ reading[s] = Nothing
    /\ \/ /\ ch[s] # <<>>
          /\ reading' = [reading EXCEPT ![s] = Head(ch[s])]
          /\ ch' = [ch EXCEPT ![s] = Tail(@)]
          /\ UNCHANGED consumer
       \/ /\ ch[s] = <<>> /\ s \in subClosed
          /\ consumer' = [consumer EXCEPT ![s] = "gone"]
          /\ UNCHANGED <<reading, ch>>
    /\ UNCHANGED <<poolVars, pubVars, subVars, closingVars>>

\* handleEvent returns, and its deferred recycleEvent runs.
Handle(s) ==
    /\ reading[s] # Nothing
    /\ Recycle({reading[s]})
    /\ reading' = [reading EXCEPT ![s] = Nothing]
    /\ UNCHANGED <<consumer, pubVars, subVars, ch, closingVars>>

\* The ctx.Done case, and the drain loop that follows it.
StopConsuming(s) ==
    /\ consumer[s] = "loop" /\ reading[s] = Nothing
    /\ s \in quit
    /\ consumer' = [consumer EXCEPT ![s] = "drain"]
    /\ UNCHANGED <<reading, poolVars, pubVars, subVars, ch, closingVars>>

Drain(s) ==
    /\ consumer[s] = "drain"
    /\ IF ch[s] = <<>>
       THEN consumer' = [consumer EXCEPT ![s] = "gone"] /\ UNCHANGED <<poolVars, ch>>
       ELSE /\ Recycle({Head(ch[s])})
            /\ ch' = [ch EXCEPT ![s] = Tail(@)]
            /\ UNCHANGED consumer
    /\ UNCHANGED <<reading, pubVars, subVars, closingVars>>

-------------------------------------------------------------------------------
Publish(p) == \/ Reject(p) \/ Snapshot(p) \/ BorrowClone(p) \/ CloneFails(p) \/ Dispatch(p) \/ Finish(p)
Delivery(p, s) == StartDelivery(p, s) \/ Select(p, s) \/ DropOldest(p, s) \/ Retry(p, s)
Closing(s) == Unregister(s) \/ CloseCancel(s) \/ CloseChannel(s)
Consumer(s) == Consume(s) \/ Handle(s) \/ StopConsuming(s) \/ Drain(s)
BusClose == BusCancel \/ BusLock \/ BusUnlock \/ \E s \in Subs : CloseNext(s)

BusNext ==
    \/ \E p \in Publishers : BeginPublish(p) \/ Publish(p) \/ EndPublisher(p)
                             \/ \E s \in Subs : Delivery(p, s)
    \/ \E s \in Subs : Subscribe(s) \/ CancelContext(s) \/ Closing(s) \/ Consumer(s)
    \/ BusClose

BusSpec == BusInit /\ [][BusNext]_busVars

-------------------------------------------------------------------------------
(* Properties *)

\* In how many places an event is.
Places(e) ==
    (IF e \in free THEN 1 ELSE 0)
    + Cardinality({p \in Publishers : src[p] = e})
    + Cardinality({p \in Publishers : e \in hand[p]})
    + Cardinality({d \in Publishers \X Subs : clone[d[1]][d[2]] = e})
    + Cardinality({d \in Subs \X (1..BufferSize) : d[2] <= Len(ch[d[1]]) /\ ch[d[1]][d[2]] = e})
    + Cardinality({s \in Subs : reading[s] = e})

\* "Publish takes ownership of evt for pooled-event reclamation": whatever path
\* a publication takes, every event has exactly one owner; none is returned
\* twice, delivered after it has been returned, or forgotten.
OneOwner == \A e \in Events : Places(e) = 1

\* What a consumer has before it, the event it handles first.
Coming(s) == IF reading[s] = Nothing THEN ch[s] ELSE <<reading[s]>> \o ch[s]

\* A consumer sees the events of one publisher in the order they were published,
\* also when the oldest are dropped and another publisher interferes.
PublisherOrder ==
    \A s \in Subs : \A i, j \in DOMAIN Coming(s) :
        LET first == stamp[Coming(s)[i]]  later == stamp[Coming(s)[j]] IN
        i < j /\ first[1] = later[1] => first[2] < later[2]

\* Once the publishers are idle for good, every event comes back to the pool.
EventsComeHome == <>[](\A p \in Publishers : ppc[p] = "idle") => <>[](free = Events)

\* "Once called, MemoryBus owns source-event reclamation on success and failure":
\* a publication that has ended has no source event left.
SourceReclaimed == \A p \in Publishers : ppc[p] = "panicked" => src[p] = Nothing
===============================================================================
