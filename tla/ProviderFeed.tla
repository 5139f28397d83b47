------------------------------ MODULE ProviderFeed ------------------------------
(* What carries events from started providers to the bus, and how it is stopped:
   the Publisher of each adapter (adapters/shared/publisher.go), the channel, the
   dispatcher runtime that de-duplicates and publishes (dispatcher/runtime.go), the
   adapters' Start with the watcher that closes the channel, and the order in which
   the gateway shuts down.  All of them share one pool of events.  Of the bus this
   module keeps what it does with the pool; MemoryBus has the rest. *)
EXTENDS Integers, Sequences, FiniteSets, Functions

CONSTANTS
    Feeds,        \* started providers
    Producers,    \* goroutines of adapters that publish
    Joined,       \* those the watcher waits for: Binance's user stream, no other
    FeedOf,       \* the provider of each producer
    StreamOf,     \* the event type and symbol a producer publishes
    Seeds,        \* how many events a producer publishes within Start: OKX's instruments
    MaxEvents,    \* bound: events of each producer
    Capacity,     \* of the channel: 2048
    PoolSize,     \* capacity of the event pool
    Fanout,       \* subscribers of an event
    MayShutDown,  \* bound: whether the gateway may shut down
    MaxAbandoned  \* bound: requests left behind

Stuck == Cardinality(Feeds) * (Capacity + Fanout) + Cardinality(Producers)

\* Channels, producers and fan-outs cannot hold the whole pool, and what Start
\* publishes fits into the channel nobody reads yet.
FeedAssumption ==
    /\ IsFiniteSet(Feeds) /\ IsFiniteSet(Producers)
    /\ Capacity \in Nat /\ PoolSize \in Nat /\ Fanout \in Nat /\ MaxAbandoned \in Nat
    /\ FeedOf \in [Producers -> Feeds]
    /\ PoolSize > Stuck
    /\ \A p \in Producers : Seeds[p] <= Capacity /\ Seeds[p] <= MaxEvents[p]

VARIABLES
    phase,        \* of each provider: "starting", "open" (routes re-applied), "running"
    ctxDone,      \* its context is cancelled
    closed,       \* its channel is closed
    ppc, num, left, \* of each producer: where it is, the number it took, events to come
    seq,          \* Publisher.seq
    queue,        \* the channel of each provider
    rpc, hand, got, need, seen, \* of each runtime: where it is, its event, clones borrowed and wanted, dedupe
    mistaken,     \* an event was dropped as a duplicate
    free, clones, \* events in the pool, and in the hands of subscribers
    abandoned, mislaid, \* requests left behind in the pool; events sent to one of them
    gateway, crash

fvars == <<phase, ctxDone, closed, ppc, num, left, seq, queue, rpc, hand, got, need, seen,
           mistaken, free, clones, abandoned, mislaid, gateway, crash>>
producerVars == <<ppc, num, left, seq>>
runtimeVars == <<rpc, hand, got, need, seen, mistaken>>
stopVars == <<phase, ctxDone, closed, gateway>>
lossVars == <<abandoned, mislaid>>

Nothing == [stream |-> "none", n |-> 0]

FeedInit ==
    /\ phase = [f \in Feeds |-> "starting"]
    /\ ctxDone = [f \in Feeds |-> FALSE] /\ closed = [f \in Feeds |-> FALSE]
    /\ ppc = [p \in Producers |-> "idle"] /\ num = [p \in Producers |-> 0]
    /\ left = MaxEvents
    /\ seq = [s \in {StreamOf[p] : p \in Producers} |-> 0]
    /\ queue = [f \in Feeds |-> <<>>]
    /\ rpc = [f \in Feeds |-> "off"] /\ hand = [f \in Feeds |-> Nothing]
    /\ got = [f \in Feeds |-> 0] /\ need = [f \in Feeds |-> 0] /\ seen = [f \in Feeds |-> {}]
    /\ mistaken = FALSE
    /\ free = PoolSize /\ clones = 0 /\ abandoned = 0 /\ mislaid = 0
    /\ gateway = "up" /\ crash = "none"

PoolShut == gateway = "poolShut"

\* Put on a pool that is closed sends on a closed channel.
GiveBack(k) == IF PoolShut /\ k > 0 THEN crash' = "pool" /\ UNCHANGED free
                                    ELSE free' = free + k /\ UNCHANGED crash

\* A borrow that ends with its context, or with the pool: its request may be queued, or
\* with a worker.
GiveUp ==
    /\ abandoned' \in {abandoned, abandoned + 1} /\ abandoned' <= MaxAbandoned
    /\ UNCHANGED mislaid

\* A worker may serve that request all the same, before its borrower leaves or after:
\* the event is in a slot nobody reads, and never returns.
Mislay ==
    /\ free > 0 /\ mislaid < abandoned
    /\ free' = free - 1 /\ mislaid' = mislaid + 1
    /\ UNCHANGED <<stopVars, producerVars, runtimeVars, queue, clones, abandoned, crash>>

-------------------------------------------------------------------------------
(* The producers *)

Seeded(p) == left[p] <= MaxEvents[p] - Seeds[p]

\* nextSeq, under its lock.
NextSeq_Racing(s) == IF \E p \in Producers : StreamOf[p] = s /\ ppc[p] = "borrow" THEN seq[s] ELSE seq[s] + 1
NextSeq(s) == seq[s] + 1

\* A message, a tick or an answer of the venue: the event takes its number first.
Number(p) ==
    /\ ppc[p] = "idle" /\ left[p] > 0
    /\ phase[FeedOf[p]] # "starting" \/ ~Seeded(p)
    /\ num' = [num EXCEPT ![p] = NextSeq(StreamOf[p])]
    /\ seq' = [seq EXCEPT ![StreamOf[p]] = NextSeq(StreamOf[p])]
    /\ left' = [left EXCEPT ![p] = @ - 1]
    /\ ppc' = [ppc EXCEPT ![p] = "borrow"]
    /\ UNCHANGED <<stopVars, lossVars, runtimeVars, queue, free, clones, crash>>

Proceed(p, pc) == ppc' = [ppc EXCEPT ![p] = pc] /\ UNCHANGED <<num, left, seq>>

\* newEvent: an event of the pool, or none when the context or the pool ends.
Borrow(p) ==
    /\ ppc[p] = "borrow"
    /\ \/ ~PoolShut /\ free > 0 /\ free' = free - 1 /\ Proceed(p, "emit") /\ UNCHANGED lossVars
       \/ (ctxDone[FeedOf[p]] \/ PoolShut) /\ GiveUp /\ Proceed(p, "idle") /\ UNCHANGED free
    /\ UNCHANGED <<stopVars, runtimeVars, queue, clones, crash>>

HasRoom_Twice(f) == Len(queue[f]) < 2 * Capacity
HasRoom(f) == Len(queue[f]) < Capacity

Emitted(p) ==
    LET f == FeedOf[p] IN
    /\ ~closed[f] /\ HasRoom(f)
    /\ queue' = [queue EXCEPT ![f] = Append(@, [stream |-> StreamOf[p], n |-> num[p]])]
    /\ Proceed(p, "idle") /\ UNCHANGED <<free, crash>>

\* The branch of ctx.Done gives the event back.
Withdrawn_Kept(p) == ctxDone[FeedOf[p]] /\ Proceed(p, "idle") /\ UNCHANGED <<queue, free, crash>>
Withdrawn(p) == ctxDone[FeedOf[p]] /\ GiveBack(1) /\ Proceed(p, "idle") /\ UNCHANGED queue

\* emitEvent: the branches of the select.  A closed channel is ready too, and panics.
Emit(p) ==
    /\ ppc[p] = "emit"
    /\ \/ Emitted(p)
       \/ Withdrawn(p)
       \/ closed[FeedOf[p]] /\ crash' = p /\ UNCHANGED <<producerVars, queue, free>>
    /\ UNCHANGED <<stopVars, lossVars, runtimeVars, clones>>

\* The loops leave on ctx.Done, the readers with their connection.
Leave(p) ==
    /\ ppc[p] = "idle" /\ ctxDone[FeedOf[p]] /\ phase[FeedOf[p]] # "starting"
    /\ Proceed(p, "gone")
    /\ UNCHANGED <<stopVars, lossVars, runtimeVars, queue, free, clones, crash>>

-------------------------------------------------------------------------------
(* Start and stop *)

\* Start has returned; the manager registers the provider and re-applies routes.
Started(f) ==
    /\ phase[f] = "starting"
    /\ \A p \in Producers : FeedOf[p] = f => Seeded(p) /\ ppc[p] = "idle"
    /\ phase' = [phase EXCEPT ![f] = "open"]
    /\ UNCHANGED <<ctxDone, closed, gateway, producerVars, runtimeVars, queue, free, clones, lossVars, crash>>

\* startProviderRuntime starts the dispatcher last.
StartRuntime(f) ==
    /\ phase[f] = "open"
    /\ phase' = [phase EXCEPT ![f] = "running"] /\ rpc' = [rpc EXCEPT ![f] = "wait"]
    /\ UNCHANGED <<ctxDone, closed, gateway, producerVars, hand, got, need, seen, mistaken, queue, free, clones, lossVars, crash>>

\* StopProvider: the instance is registered, its context is cancelled.
Stop(f) ==
    /\ phase[f] # "starting" /\ ~ctxDone[f]
    /\ ctxDone' = [ctxDone EXCEPT ![f] = TRUE]
    /\ UNCHANGED <<phase, closed, gateway, producerVars, runtimeVars, queue, free, clones, lossVars, crash>>

\* The watcher waits for the user stream, then closes the channel.
MayCloseEvents_Unjoined(f) == TRUE
MayCloseEvents(f) == \A p \in Joined : FeedOf[p] = f => ppc[p] = "gone"

Watch(f) ==
    /\ phase[f] # "starting" /\ ctxDone[f] /\ ~closed[f]
    /\ MayCloseEvents(f)
    /\ closed' = [closed EXCEPT ![f] = TRUE]
    /\ UNCHANGED <<phase, ctxDone, gateway, producerVars, runtimeVars, queue, free, clones, lossVars, crash>>

\* performGracefulShutdown: the context of everything, the bus, the pools.  It
\* waits for the control server, and for no adapter and no lambda.
Shutdown ==
    /\ MayShutDown
    /\ \/ /\ gateway = "up" /\ gateway' = "cancelled"
          /\ ctxDone' = [f \in Feeds |-> TRUE]
       \/ gateway = "cancelled" /\ gateway' = "busClosed" /\ UNCHANGED ctxDone
       \/ gateway = "busClosed" /\ gateway' = "poolShut" /\ UNCHANGED ctxDone
    /\ UNCHANGED <<phase, closed, producerVars, runtimeVars, queue, free, clones, lossVars, crash>>

-------------------------------------------------------------------------------
(* The dispatcher runtime and the bus *)

\* The loop takes an event; markSeen refuses an identifier it knows.
Take(f) ==
    /\ rpc[f] = "wait" /\ queue[f] # <<>>
    /\ queue' = [queue EXCEPT ![f] = Tail(@)]
    /\ \/ /\ Head(queue[f]) \in seen[f]
          /\ mistaken' = TRUE /\ GiveBack(1)
          /\ UNCHANGED <<rpc, hand, need, seen>>
       \/ /\ Head(queue[f]) \notin seen[f]
          /\ seen' = [seen EXCEPT ![f] = @ \union {Head(queue[f])}]
          /\ hand' = [hand EXCEPT ![f] = Head(queue[f])]
          /\ need' = [need EXCEPT ![f] = IF gateway \in {"busClosed", "poolShut"} THEN 0 ELSE Fanout]
          /\ rpc' = [rpc EXCEPT ![f] = "publish"]
          /\ UNCHANGED <<mistaken, free, crash>>
    /\ UNCHANGED <<stopVars, lossVars, producerVars, got, clones>>

\* The loop ends with the context, or at the end of a closed channel.
Gone(f) ==
    /\ rpc[f] = "wait"
    /\ ctxDone[f] \/ (closed[f] /\ queue[f] = <<>>)
    /\ rpc' = [rpc EXCEPT ![f] = "gone"]
    /\ UNCHANGED <<stopVars, lossVars, producerVars, hand, got, need, seen, mistaken, queue, free, clones, crash>>

\* borrowBatchForFanout: one clone after the other.
BorrowClone(f) ==
    /\ rpc[f] = "publish" /\ got[f] < need[f]
    /\ ~PoolShut /\ free > 0
    /\ free' = free - 1 /\ got' = [got EXCEPT ![f] = @ + 1]
    /\ UNCHANGED <<stopVars, lossVars, producerVars, rpc, hand, need, seen, mistaken, queue, clones, crash>>

Back(f) == /\ rpc' = [rpc EXCEPT ![f] = "wait"] /\ hand' = [hand EXCEPT ![f] = Nothing]
           /\ got' = [got EXCEPT ![f] = 0] /\ need' = [need EXCEPT ![f] = 0]
           /\ UNCHANGED <<stopVars, producerVars, seen, mistaken, queue>>

\* No clone to be had: what was borrowed and the event go back.
BorrowFails(f) ==
    /\ rpc[f] = "publish" /\ got[f] < need[f]
    /\ ctxDone[f] \/ PoolShut
    /\ GiveBack(got[f] + 1) /\ Back(f) /\ GiveUp /\ UNCHANGED clones

\* The clones are the subscribers'; the event itself is recycled.
Recycled == 1

Deliver(f) ==
    /\ rpc[f] = "publish" /\ got[f] = need[f]
    /\ \/ GiveBack(Recycled) /\ clones' = clones + got[f]
       \/ gateway \in {"busClosed", "poolShut"} /\ GiveBack(Recycled + got[f]) /\ UNCHANGED clones
    /\ Back(f) /\ UNCHANGED lossVars

\* A subscriber is done with a clone.
Consume ==
    /\ clones > 0 /\ clones' = clones - 1 /\ GiveBack(1)
    /\ UNCHANGED <<stopVars, lossVars, producerVars, runtimeVars, queue>>

-------------------------------------------------------------------------------
FeedNext ==
    /\ crash = "none"
    /\ \/ \E p \in Producers : Number(p) \/ Borrow(p) \/ Emit(p) \/ Leave(p)
       \/ \E f \in Feeds : \/ Started(f) \/ StartRuntime(f) \/ Stop(f) \/ Watch(f)
                           \/ Take(f) \/ Gone(f) \/ BorrowClone(f) \/ BorrowFails(f) \/ Deliver(f)
       \/ Shutdown \/ Consume \/ Mislay

FeedSpec == FeedInit /\ [][FeedNext]_fvars

Producing(p) == crash = "none" /\ (Borrow(p) \/ Emit(p))
Dispatching(f) == crash = "none" /\ (BorrowClone(f) \/ BorrowFails(f) \/ Deliver(f))
Running(f) == crash = "none" /\ (Started(f) \/ StartRuntime(f) \/ Watch(f))
Looping(f) == crash = "none" /\ (Take(f) \/ Gone(f))
Leaving(p) == crash = "none" /\ Leave(p)
Consuming == crash = "none" /\ Consume
Seeding(p) == crash = "none" /\ phase[FeedOf[p]] = "starting" /\ Number(p)

-------------------------------------------------------------------------------
(* Properties *)

\* No event that an adapter publishes is taken for a duplicate, though two of its
\* goroutines (an order's answer and the user stream) publish the same stream.
NoneMistaken == ~mistaken

Ended(f) ==
    /\ rpc[f] = "gone" /\ closed[f]
    /\ \A p \in Producers : FeedOf[p] = f => ppc[p] = "gone"

\* When the providers have stopped and the subscribers are done, all events are in the
\* pool but those the runtime left behind in the channels, and at most one for each
\* request that its borrower, stopped meanwhile, left behind: an emitter that is
\* stopped, and a runtime that gives up a fan-out half-way, give back all they had.
Left == SumFunctionOnSet([f \in Feeds |-> Len(queue[f])], Feeds)
OnlyQueuesKeep ==
    (crash = "none" /\ clones = 0 /\ \A f \in Feeds : Ended(f)) =>
        PoolSize - (free + Left) \in 0 .. abandoned

\* The runtimes never wait for each other: when one lacks clones, the pool has some, a
\* subscriber will give some back, or another runtime can go on.  What waits in the
\* channels and with the adapters leaves enough, however many runtimes borrow at once,
\* as long as the pool has not lost more than it has to spare.
Starved(f) == rpc[f] = "publish" /\ got[f] < need[f] /\ ~ctxDone[f]
NoStandstill ==
    /\ crash = "none" /\ ~PoolShut /\ PoolSize - mislaid > Stuck
    /\ free = 0 /\ clones = 0 /\ \E f \in Feeds : Starved(f)
    => \E f \in Feeds : rpc[f] \in {"wait", "publish"} /\ ~Starved(f)

\* A provider that is stopped comes to its end, unless a goroutine nobody waits for
\* sends on the closed channel, or the pool is closed before its events are back.
FeedEnds == \A f \in Feeds : ctxDone[f] ~> (Ended(f) \/ crash \in {"pool"} \union (Producers \ Joined))
===============================================================================
