-------------------------- MODULE ProviderFeedProofs --------------------------
(* No event is taken for a duplicate, the runtimes never wait for each other, and   *)
(* what stopped providers keep from the pool is what their channels hold and at     *)
(* most one event for each request they left behind: for any providers, producers   *)
(* and streams, any size of the channels and of the pool, and any number of events. *)
EXTENDS ProviderFeed, SumProofs, TLAPS

Streams == {StreamOf[p] : p \in Producers}
Numbered == [stream : Streams, n : Nat]

\* Where an event is after it has its number: with its producer, in the channel, or
\* among those the runtime has seen.
UnderWay(p) == ppc[p] \in {"borrow", "emit"}
EventOf(p) == [stream |-> StreamOf[p], n |-> num[p]]
Positions(f) == DOMAIN queue[f]

NumbersTyped ==
    /\ ppc \in [Producers -> {"idle", "borrow", "emit", "gone"}]
    /\ num \in [Producers -> Nat]
    /\ seq \in [Streams -> Nat]
    /\ queue \in [Feeds -> Seq(Numbered)]
    /\ seen \in [Feeds -> SUBSET Numbered]

\* Every number in use was given out.
GivenOut ==
    /\ \A p \in Producers : UnderWay(p) => num[p] <= seq[StreamOf[p]]
    /\ \A f \in Feeds : \A i \in Positions(f) : queue[f][i].n <= seq[queue[f][i].stream]
    /\ \A f \in Feeds : \A e \in seen[f] : e.n <= seq[e.stream]

\* No two events under way are the same, and none of them has been seen.
Distinct ==
    /\ \A p, q \in Producers : UnderWay(p) /\ UnderWay(q) /\ p # q => EventOf(p) # EventOf(q)
    /\ \A p \in Producers, f \in Feeds : UnderWay(p) =>
           /\ EventOf(p) \notin seen[f]
           /\ \A i \in Positions(f) : queue[f][i] # EventOf(p)
    /\ \A f \in Feeds : \A i, j \in Positions(f) : i # j => queue[f][i] # queue[f][j]
    /\ \A f \in Feeds : \A i \in Positions(f) : queue[f][i] \notin seen[f]

NumberInv == NumbersTyped /\ GivenOut /\ Distinct /\ NoneMistaken

LEMMA NumberInit == FeedInit => NumberInv
BY DEF FeedInit, NumberInv, NumbersTyped, GivenOut, Distinct, NoneMistaken, UnderWay, Positions, Streams, Numbered

LEMMA NumbersUntouched ==
    ASSUME NumberInv, UNCHANGED <<ppc, num, seq, queue, seen, mistaken>>
    PROVE  NumberInv'
BY DEF NumberInv, NumbersTyped, GivenOut, Distinct, NoneMistaken, UnderWay, EventOf, Positions

\* A new number is larger than those of its stream that are in use.
LEMMA NumberKeeps ==
    ASSUME NumberInv, NEW p \in Producers, Number(p)
    PROVE  NumberInv'
<1> DEFINE s == StreamOf[p]
<1> USE DEF Number, NumberInv, runtimeVars
<1>1. s \in Streams /\ seq[s] \in Nat
  BY DEF NumbersTyped, Streams
<1>2. /\ seq' = [seq EXCEPT ![s] = seq[s] + 1]
      /\ num' = [num EXCEPT ![p] = seq[s] + 1]
      /\ ppc' = [ppc EXCEPT ![p] = "borrow"]
      /\ UNCHANGED <<queue, seen, mistaken>>
  BY DEF NextSeq
<1>3. NumbersTyped'
  BY <1>1, <1>2 DEF NumbersTyped
<1>4. \A t \in Streams : seq[t] \in Nat /\ seq'[t] \in Nat /\ seq[t] <= seq'[t]
  BY <1>1, <1>2 DEF NumbersTyped
<1>5. GivenOut'
  <2>1. ASSUME NEW q \in Producers, UnderWay(q)'
        PROVE  num'[q] <= seq'[StreamOf[q]]
    BY <1>1, <1>2, <1>4, <2>1 DEF GivenOut, NumbersTyped, UnderWay, Streams
  <2>2. ASSUME NEW f \in Feeds, NEW i \in Positions(f)
        PROVE  queue[f][i].n <= seq'[queue[f][i].stream]
    <3>1. queue[f][i] \in Numbered
      BY DEF NumbersTyped, Positions
    <3> QED
      BY <1>4, <3>1 DEF GivenOut, Numbered
  <2>3. ASSUME NEW f \in Feeds, NEW e \in seen[f]
        PROVE  e.n <= seq'[e.stream]
    <3>1. e \in Numbered
      BY DEF NumbersTyped
    <3> QED
      BY <1>4, <3>1 DEF GivenOut, Numbered
  <2> QED
    BY <1>2, <2>1, <2>2, <2>3 DEF GivenOut, Positions
<1>6. Distinct'
  <2>1. ASSUME NEW q \in Producers, UnderWay(q), q # p
        PROVE  EventOf(q) # EventOf(p)'
    BY <1>1, <1>2, <2>1 DEF GivenOut, NumbersTyped, UnderWay, EventOf
  <2>2. ASSUME NEW f \in Feeds
        PROVE  EventOf(p)' \notin seen[f] /\ \A i \in Positions(f) : queue[f][i] # EventOf(p)'
    BY <1>1, <1>2 DEF GivenOut, NumbersTyped, EventOf, Positions
  <2>3. \A q \in Producers : q # p => EventOf(q)' = EventOf(q) /\ (UnderWay(q)' <=> UnderWay(q))
    BY <1>2 DEF NumbersTyped, EventOf, UnderWay
  <2> QED
    BY <1>2, <2>1, <2>2, <2>3 DEF Distinct, Positions
<1> QED
  BY <1>2, <1>3, <1>5, <1>6 DEF NoneMistaken

\* A producer that goes on with its event, or drops it.
LEMMA GotoKeeps ==
    ASSUME NumberInv, NEW p \in Producers, NEW pc \in {"idle", "emit", "gone"},
           pc = "emit" => UnderWay(p), Proceed(p, pc), UNCHANGED <<queue, seen, mistaken>>
    PROVE  NumberInv'
BY DEF NumberInv, NumbersTyped, GivenOut, Distinct, NoneMistaken, Proceed, UnderWay, EventOf, Positions

\* An event goes from its producer to the end of the channel.
LEMMA EmittedKeeps ==
    ASSUME FeedAssumption, NumberInv, NEW p \in Producers, ppc[p] = "emit", Emitted(p), UNCHANGED <<seen, mistaken>>
    PROVE  NumberInv'
<1> DEFINE f == FeedOf[p]
           e == EventOf(p)
<1> USE DEF NumberInv
<1>1. /\ f \in Feeds
      /\ queue' = [queue EXCEPT ![f] = Append(queue[f], e)]
      /\ ppc' = [ppc EXCEPT ![p] = "idle"]
      /\ UNCHANGED <<num, seq>>
  BY DEF FeedAssumption, Emitted, Proceed, EventOf
<1>2. queue[f] \in Seq(Numbered) /\ e \in Numbered /\ UnderWay(p)
  BY <1>1 DEF NumbersTyped, Numbered, Streams, EventOf, UnderWay
<1>3. /\ Positions(f)' = Positions(f) \union {Len(queue[f]) + 1}
      /\ \A i \in Positions(f) : queue'[f][i] = queue[f][i] /\ i # Len(queue[f]) + 1
      /\ queue'[f][Len(queue[f]) + 1] = e
  BY <1>1, <1>2 DEF NumbersTyped, Positions
<1>4. \A g \in Feeds : g # f => queue'[g] = queue[g] /\ Positions(g)' = Positions(g)
  BY <1>1 DEF NumbersTyped, Positions
<1>5. NumbersTyped'
  BY <1>1, <1>2 DEF NumbersTyped
<1>6. \A q \in Producers : UnderWay(q)' => UnderWay(q) /\ q # p /\ EventOf(q)' = EventOf(q)
  BY <1>1 DEF NumbersTyped, UnderWay, EventOf
<1>7. GivenOut'
  <2>1. e.n <= seq[e.stream]
    BY <1>2 DEF GivenOut, EventOf
  <2>2. ASSUME NEW g \in Feeds, NEW i \in Positions(g)'
        PROVE  queue'[g][i].n <= seq[queue'[g][i].stream]
    <3>1. CASE g = f
      BY <1>3, <2>1, <3>1 DEF GivenOut
    <3>2. CASE g # f
      BY <1>4, <3>2 DEF GivenOut
    <3> QED
      BY <3>1, <3>2
  <2>3. \A q \in Producers : UnderWay(q)' => num'[q] <= seq'[StreamOf[q]]
    BY <1>1, <1>6 DEF GivenOut
  <2> QED
    BY <1>1, <2>2, <2>3 DEF GivenOut
<1>8. Distinct'
  <2>1. ASSUME NEW g \in Feeds
        PROVE  /\ \A q \in Producers : UnderWay(q)' =>
                      \A i \in Positions(g)' : queue'[g][i] # EventOf(q)'
               /\ \A i, j \in Positions(g)' : i # j => queue'[g][i] # queue'[g][j]
               /\ \A i \in Positions(g)' : queue'[g][i] \notin seen[g]
    <3>1. CASE g = f
      BY <1>2, <1>3, <1>6, <3>1 DEF Distinct
    <3>2. CASE g # f
      BY <1>4, <1>6, <3>2 DEF Distinct
    <3> QED
      BY <3>1, <3>2
  <2> QED
    BY <1>6, <2>1 DEF Distinct
<1> QED
  BY <1>5, <1>7, <1>8 DEF NoneMistaken

\* The runtime has not seen the event at the head of its channel.
LEMMA TakeKeeps ==
    ASSUME NumberInv, NEW f \in Feeds, Take(f)
    PROVE  NumberInv'
<1> DEFINE e == Head(queue[f])
<1> USE DEF NumberInv
<1>1. /\ queue[f] \in Seq(Numbered) /\ queue[f] # <<>>
      /\ queue' = [queue EXCEPT ![f] = Tail(queue[f])]
      /\ UNCHANGED <<ppc, num, seq>>
  BY DEF Take, NumbersTyped, producerVars
<1>2. /\ 1 \in Positions(f) /\ e = queue[f][1] /\ e \in Numbered
      /\ \A i \in Positions(f)' : /\ i + 1 \in Positions(f) /\ i + 1 # 1
                                  /\ queue'[f][i] = queue[f][i + 1]
  BY <1>1 DEF NumbersTyped, Positions
<1>3. e \notin seen[f]
  BY <1>2 DEF Distinct
<1>4. seen' = [seen EXCEPT ![f] = seen[f] \union {e}] /\ UNCHANGED mistaken
  BY <1>3 DEF Take
<1>5. \A g \in Feeds : g # f => /\ queue'[g] = queue[g] /\ Positions(g)' = Positions(g)
                                /\ seen'[g] = seen[g]
  BY <1>1, <1>4 DEF NumbersTyped, Positions
<1>6. seen'[f] = seen[f] \union {e}
  BY <1>4 DEF NumbersTyped
<1>7. NumbersTyped'
  BY <1>1, <1>2, <1>4 DEF NumbersTyped
<1>8. \A q \in Producers : EventOf(q)' = EventOf(q) /\ (UnderWay(q)' <=> UnderWay(q))
  BY <1>1 DEF EventOf, UnderWay
<1>9. GivenOut'
  <2>1. ASSUME NEW g \in Feeds
        PROVE  /\ \A i \in Positions(g)' : queue'[g][i].n <= seq[queue'[g][i].stream]
               /\ \A x \in seen'[g] : x.n <= seq[x.stream]
    <3>1. CASE g = f
      BY <1>2, <1>6, <3>1 DEF GivenOut
    <3>2. CASE g # f
      BY <1>5, <3>2 DEF GivenOut
    <3> QED
      BY <3>1, <3>2
  <2> QED
    BY <1>1, <1>8, <2>1 DEF GivenOut
<1>10. Distinct'
  <2>1. ASSUME NEW g \in Feeds
        PROVE  /\ \A q \in Producers : UnderWay(q) =>
                      /\ EventOf(q) \notin seen'[g]
                      /\ \A i \in Positions(g)' : queue'[g][i] # EventOf(q)
               /\ \A i, j \in Positions(g)' : i # j => queue'[g][i] # queue'[g][j]
               /\ \A i \in Positions(g)' : queue'[g][i] \notin seen'[g]
    <3>1. CASE g = f
      <4>1. \A i, j \in Positions(f)' : i # j => i + 1 # j + 1
        BY <1>1 DEF NumbersTyped, Positions
      <4> QED
        BY <1>2, <1>6, <3>1, <4>1 DEF Distinct
    <3>2. CASE g # f
      BY <1>5, <3>2 DEF Distinct
    <3> QED
      BY <3>1, <3>2
  <2> QED
    BY <1>8, <2>1 DEF Distinct
<1> QED
  BY <1>4, <1>7, <1>9, <1>10 DEF NoneMistaken

LEMMA NumberStep ==
    ASSUME FeedAssumption, NumberInv, [FeedNext]_fvars
    PROVE  NumberInv'
<1>1. ASSUME NEW p \in Producers, Number(p) PROVE NumberInv'
  BY <1>1, NumberKeeps
<1>2. ASSUME NEW p \in Producers, Borrow(p) PROVE NumberInv'
  BY <1>2, GotoKeeps DEF Borrow, UnderWay, runtimeVars
<1>3. ASSUME NEW p \in Producers, Emit(p) PROVE NumberInv'
  <2>1. CASE Emitted(p)
    BY <1>3, <2>1, EmittedKeeps DEF Emit, runtimeVars
  <2>2. CASE Withdrawn(p)
    BY <1>3, <2>2, GotoKeeps DEF Emit, Withdrawn, runtimeVars
  <2>3. CASE UNCHANGED <<producerVars, queue, free>>
    BY <1>3, <2>3, NumbersUntouched DEF Emit, producerVars, runtimeVars
  <2> QED
    BY <1>3, <2>1, <2>2, <2>3 DEF Emit
<1>4. ASSUME NEW p \in Producers, Leave(p) PROVE NumberInv'
  BY <1>4, GotoKeeps DEF Leave, runtimeVars
<1>5. ASSUME NEW f \in Feeds, Take(f) PROVE NumberInv'
  BY <1>5, TakeKeeps
<1>6. ASSUME NEW f \in Feeds,
             \/ Started(f) \/ StartRuntime(f) \/ Stop(f) \/ Watch(f) \/ Gone(f)
             \/ BorrowClone(f) \/ BorrowFails(f) \/ Deliver(f)
      PROVE  NumberInv'
  BY <1>6, NumbersUntouched
     DEF Started, StartRuntime, Stop, Watch, Gone, BorrowClone, BorrowFails, Deliver, Back,
         producerVars, runtimeVars
<1>7. CASE Shutdown \/ Consume \/ UNCHANGED fvars
  BY <1>7, NumbersUntouched DEF Shutdown, Consume, producerVars, runtimeVars, fvars
<1>8. CASE Mislay
  BY <1>8, NumbersUntouched DEF Mislay, producerVars, runtimeVars
<1> QED
  BY <1>1, <1>2, <1>3, <1>4, <1>5, <1>6, <1>7, <1>8 DEF FeedNext

\* No event that an adapter publishes is ever dropped as a duplicate (Publisher.nextSeq
\* against markSeen of the runtime), however many goroutines publish the same stream.
THEOREM NoEventIsMistaken ==
    ASSUME FeedAssumption
    PROVE  FeedSpec => []NoneMistaken
<1>1. FeedInit => NumberInv
  BY NumberInit
<1>2. NumberInv /\ [FeedNext]_fvars => NumberInv'
  BY NumberStep
<1>3. NumberInv => NoneMistaken
  BY DEF NumberInv
<1> QED
  BY <1>1, <1>2, <1>3, PTL DEF FeedSpec

-------------------------------------------------------------------------------
(* Where the events of the pool are *)

\* A runtime's channel has some, and the runtime the one it publishes with its clones;
\* a producer has one while it waits to send it.
Holds(f) == Len(queue[f]) + IF rpc[f] = "publish" THEN 1 + got[f] ELSE 0
Emits(p) == IF ppc[p] = "emit" THEN 1 ELSE 0
Held == SumFunctionOnSet([f \in Feeds |-> Holds(f)], Feeds)
Emitting == SumFunctionOnSet([p \in Producers |-> Emits(p)], Producers)

Shape ==
    /\ \A f \in Feeds : Len(queue[f]) <= Capacity
    /\ phase \in [Feeds -> {"starting", "open", "running"}]
    /\ rpc \in [Feeds -> {"off", "wait", "publish", "gone"}]
    /\ \A f \in Feeds : phase[f] # "running" => rpc[f] = "off"
    /\ got \in [Feeds -> Nat] /\ need \in [Feeds -> Nat]
    /\ \A f \in Feeds : got[f] <= need[f] /\ need[f] <= Fanout
    /\ \A f \in Feeds : rpc[f] # "publish" => got[f] = 0 /\ need[f] = 0
    /\ free \in Nat /\ clones \in Nat /\ mislaid \in Nat

\* Until something panics no event is lost but to a request left behind, and none is
\* counted twice.
Balanced == crash = "none" => free + clones + Held + Emitting = PoolSize - mislaid

AccountInv == NumbersTyped /\ Shape /\ Balanced

\* Each request left behind takes one event at most.
Losses == abandoned \in Nat /\ mislaid \in Nat /\ mislaid <= abandoned

LEMMA LossStep ==
    ASSUME Losses, [FeedNext]_fvars
    PROVE  Losses' /\ (Mislay \/ UNCHANGED mislaid)
<1>1. CASE UNCHANGED lossVars
  BY <1>1 DEF Losses, lossVars
<1>2. CASE GiveUp
  BY <1>2 DEF Losses, GiveUp
<1>3. CASE Mislay
  BY <1>3 DEF Losses, Mislay
<1>4. ASSUME NEW p \in Producers, Number(p) \/ Borrow(p) \/ Emit(p) \/ Leave(p)
      PROVE  UNCHANGED lossVars \/ GiveUp
  BY <1>4 DEF Number, Borrow, Emit, Leave
<1>5. ASSUME NEW f \in Feeds,
             \/ Started(f) \/ StartRuntime(f) \/ Stop(f) \/ Watch(f) \/ Take(f) \/ Gone(f)
             \/ BorrowClone(f) \/ BorrowFails(f) \/ Deliver(f)
      PROVE  UNCHANGED lossVars \/ GiveUp
  BY <1>5 DEF Started, StartRuntime, Stop, Watch, Take, Gone, BorrowClone, BorrowFails, Deliver, lossVars
<1>6. Shutdown \/ Consume \/ UNCHANGED fvars => UNCHANGED lossVars
  BY DEF Shutdown, Consume, fvars, lossVars
<1> QED
  BY <1>1, <1>2, <1>3, <1>4, <1>5, <1>6 DEF FeedNext

LEMMA HoldsTyped ==
    ASSUME FeedAssumption, NumbersTyped, Shape
    PROVE  /\ \A f \in Feeds : Len(queue[f]) \in Nat /\ Holds(f) \in Nat
           /\ \A p \in Producers : Emits(p) \in Nat
           /\ [f \in Feeds |-> Holds(f)] \in [Feeds -> Int]
           /\ [p \in Producers |-> Emits(p)] \in [Producers -> Int]
           /\ Held \in Int /\ Emitting \in Int
<1>1. \A f \in Feeds : Len(queue[f]) \in Nat /\ Holds(f) \in Nat
  BY DEF NumbersTyped, Shape, Holds
<1>2. \A p \in Producers : Emits(p) \in Nat
  BY DEF Emits
<1>3. /\ [f \in Feeds |-> Holds(f)] \in [Feeds -> Int]
      /\ [p \in Producers |-> Emits(p)] \in [Producers -> Int]
  BY <1>1, <1>2
<1>4. IsFiniteSet(Feeds) /\ IsFiniteSet(Producers)
  BY DEF FeedAssumption
<1>5. Held \in Int
  BY <1>3, <1>4, SumType DEF Held
<1>6. Emitting \in Int
  BY <1>3, <1>4, SumType DEF Emitting
<1> QED
  BY <1>1, <1>2, <1>3, <1>5, <1>6

\* What one provider, or one producer, does changes its share only.
LEMMA HeldChanges ==
    ASSUME FeedAssumption, NumbersTyped, Shape, NumbersTyped', Shape', NEW f \in Feeds,
           \A g \in Feeds : g # f => queue'[g] = queue[g] /\ rpc'[g] = rpc[g] /\ got'[g] = got[g]
    PROVE  Held' = Held + Holds(f)' - Holds(f)
<1>1. [g \in Feeds |-> Holds(g)] \in [Feeds -> Int]
  BY HoldsTyped
<1>2. [g \in Feeds |-> Holds(g)'] \in [Feeds -> Int]
  <2>1. \A g \in Feeds : Holds(g)' \in Int
    BY DEF NumbersTyped, Shape, Holds
  <2> QED
    BY <2>1
<1>3. PICK h \in [Feeds -> Int], k \in [Feeds -> Int] :
         h = [g \in Feeds |-> Holds(g)] /\ k = [g \in Feeds |-> Holds(g)']
  BY <1>1, <1>2
<1>4. \A g \in Feeds : g # f => k[g] = h[g]
  BY <1>3 DEF Holds
<1>5. IsFiniteSet(Feeds)
  BY DEF FeedAssumption
<1>6. SumFunctionOnSet(k, Feeds) = SumFunctionOnSet(h, Feeds) + k[f] - h[f]
  BY <1>4, <1>5, SumChange
<1>7. k[f] = Holds(f)' /\ h[f] = Holds(f)
  BY <1>3
<1>8. Held' = SumFunctionOnSet(k, Feeds)
  BY <1>3 DEF Held
<1>9. Held = SumFunctionOnSet(h, Feeds)
  BY <1>3 DEF Held
<1> QED
  BY <1>6, <1>7, <1>8, <1>9

LEMMA HeldSame ==
    ASSUME UNCHANGED <<queue, rpc, got>>
    PROVE  Held' = Held
BY DEF Held, Holds

LEMMA EmittingChanges ==
    ASSUME FeedAssumption, NEW p \in Producers,
           \A q \in Producers : q # p => ppc'[q] = ppc[q]
    PROVE  Emitting' = Emitting + Emits(p)' - Emits(p)
<1>1. PICK h \in [Producers -> Int], k \in [Producers -> Int] :
         h = [q \in Producers |-> Emits(q)] /\ k = [q \in Producers |-> Emits(q)']
  <2>1. \A q \in Producers : Emits(q) \in Int /\ Emits(q)' \in Int
    BY DEF Emits
  <2> QED
    BY <2>1
<1>2. \A q \in Producers : q # p => k[q] = h[q]
  BY <1>1 DEF Emits
<1>3. IsFiniteSet(Producers)
  BY DEF FeedAssumption
<1>4. SumFunctionOnSet(k, Producers) = SumFunctionOnSet(h, Producers) + k[p] - h[p]
  BY <1>2, <1>3, SumChange
<1>5. k[p] = Emits(p)' /\ h[p] = Emits(p)
  BY <1>1
<1>6. Emitting' = SumFunctionOnSet(k, Producers)
  BY <1>1 DEF Emitting
<1>7. Emitting = SumFunctionOnSet(h, Producers)
  BY <1>1 DEF Emitting
<1> QED
  BY <1>4, <1>5, <1>6, <1>7

LEMMA EmittingSame ==
    ASSUME UNCHANGED ppc
    PROVE  Emitting' = Emitting
BY DEF Emitting, Emits

\* Nothing is held at the start.
LEMMA AccountInit == FeedAssumption /\ FeedInit => AccountInv
<1> SUFFICES ASSUME FeedAssumption, FeedInit PROVE AccountInv
  OBVIOUS
<1>1. NumbersTyped
  BY NumberInit DEF NumberInv
<1>2. Shape /\ free = PoolSize /\ clones = 0 /\ mislaid = 0
  BY DEF Shape, FeedInit, FeedAssumption
<1>3. \A f \in Feeds : Holds(f) = 0
  BY DEF Holds, FeedInit
<1>4. \A p \in Producers : Emits(p) = 0
  BY DEF Emits, FeedInit
<1>5. IsFiniteSet(Feeds) /\ IsFiniteSet(Producers) /\ PoolSize \in Nat
  BY DEF FeedAssumption
<1>6. PICK h \in [Feeds -> Int] : h = [f \in Feeds |-> Holds(f)]
  BY <1>1, <1>2, HoldsTyped
<1>7. PICK k \in [Producers -> Int] : k = [p \in Producers |-> Emits(p)]
  BY <1>1, <1>2, HoldsTyped
<1>8. Held = 0
  <2>1. \A x \in Feeds : h[x] = 0
    BY <1>3, <1>6
  <2>2. SumFunctionOnSet(h, Feeds) = 0
    BY <1>5, <2>1, SumOfZeros
  <2> QED
    BY <1>6, <2>2 DEF Held
<1>9. Emitting = 0
  <2>1. \A x \in Producers : k[x] = 0
    BY <1>4, <1>7
  <2>2. SumFunctionOnSet(k, Producers) = 0
    BY <1>5, <2>1, SumOfZeros
  <2> QED
    BY <1>7, <2>2 DEF Emitting
<1> QED
  BY <1>1, <1>2, <1>5, <1>8, <1>9 DEF AccountInv, Balanced

\* Put on a pool that is open.
LEMMA GivenBack ==
    ASSUME Shape, NEW k \in Nat, GiveBack(k)
    PROVE  /\ free' \in Nat
           /\ crash' # "none" \/ (free' = free + k /\ UNCHANGED crash)
BY DEF GiveBack, Shape

LEMMA ProducerShape ==
    ASSUME FeedAssumption, Shape, NumbersTyped, NumbersTyped', UNCHANGED mislaid, NEW p \in Producers,
           Number(p) \/ Borrow(p) \/ Emit(p) \/ Leave(p)
    PROVE  Shape'
<1>1. UNCHANGED <<phase, rpc, got, need, clones>>
  BY DEF Number, Borrow, Emit, Leave, runtimeVars, stopVars
<1>2. free' \in Nat
  <2>1. CASE Emit(p)
    BY <2>1, GivenBack DEF Emit, Emitted, Withdrawn, Shape
  <2> QED
    BY <2>1 DEF Number, Borrow, Leave, Shape
<1>3. \A f \in Feeds : Len(queue'[f]) <= Capacity
  <2>1. CASE Emit(p) /\ Emitted(p)
    <3>1. FeedOf[p] \in Feeds /\ queue[FeedOf[p]] \in Seq(Numbered) /\ Capacity \in Nat
      BY DEF FeedAssumption, NumbersTyped
    <3>2. \E e : queue' = [queue EXCEPT ![FeedOf[p]] = Append(queue[FeedOf[p]], e)]
      BY <2>1 DEF Emitted
    <3> QED
      BY <2>1, <3>1, <3>2 DEF Emitted, HasRoom, Shape, NumbersTyped
  <2>2. CASE UNCHANGED queue
    BY <2>2 DEF Shape
  <2> QED
    BY <2>1, <2>2 DEF Number, Borrow, Leave, Emit, Withdrawn
<1> QED
  BY <1>1, <1>2, <1>3 DEF Shape

LEMMA ProducerBalance ==
    ASSUME FeedAssumption, Shape, NumbersTyped, NumbersTyped', Shape', Balanced, crash = "none", UNCHANGED mislaid,
           NEW p \in Producers, Number(p) \/ Borrow(p) \/ Emit(p) \/ Leave(p)
    PROVE  Balanced'
<1>1. /\ UNCHANGED <<rpc, got, need, clones>>
      /\ \A q \in Producers : q # p => ppc'[q] = ppc[q]
  BY DEF Number, Borrow, Emit, Leave, runtimeVars, producerVars, Proceed, Emitted, Withdrawn, NumbersTyped
<1>2. Emitting' = Emitting + Emits(p)' - Emits(p) /\ Emits(p) \in Int /\ Emits(p)' \in Int
  BY <1>1, EmittingChanges DEF Emits
<1>3. Held \in Int /\ Emitting \in Int /\ free \in Nat /\ clones \in Nat
      /\ free + clones + Held + Emitting = PoolSize - mislaid
  BY HoldsTyped DEF Shape, Balanced
<1>4. CASE Number(p) \/ Leave(p)
  <2>1. ppc[p] = "idle" /\ ppc'[p] \in {"borrow", "gone"} /\ UNCHANGED <<queue, free>>
    BY <1>4 DEF Number, Leave, Proceed, NumbersTyped
  <2>2. Emits(p)' = 0 /\ Emits(p) = 0 /\ Held' = Held
    BY <1>1, <2>1, HeldSame DEF Emits
  <2> QED
    BY <1>1, <1>2, <1>3, <2>1, <2>2 DEF Balanced
<1>5. CASE Borrow(p)
  <2>1. /\ ppc[p] = "borrow" /\ UNCHANGED queue
        /\ \/ ppc'[p] = "emit" /\ free' = free - 1
           \/ ppc'[p] = "idle" /\ free' = free
    BY <1>5 DEF Borrow, Proceed, NumbersTyped
  <2>2. Held' = Held /\ Emits(p) = 0
    BY <1>1, <2>1, HeldSame DEF Emits
  <2>3. CASE ppc'[p] = "emit" /\ free' = free - 1
    BY <1>1, <1>2, <1>3, <2>2, <2>3 DEF Balanced, Emits
  <2>4. CASE ppc'[p] = "idle" /\ free' = free
    BY <1>1, <1>2, <1>3, <2>2, <2>4 DEF Balanced, Emits
  <2> QED
    BY <2>1, <2>3, <2>4
<1>6. CASE Emit(p)
  <2>1. ppc[p] = "emit" /\ Emits(p) = 1
    BY <1>6 DEF Emit, Emits
  <2>2. CASE Emitted(p)
    <3>1. PICK f \in Feeds : f = FeedOf[p]
      BY DEF FeedAssumption
    <3>2. /\ queue[f] \in Seq(Numbered) /\ UNCHANGED free /\ ppc'[p] = "idle"
          /\ \E e : queue' = [queue EXCEPT ![f] = Append(queue[f], e)]
      BY <2>2, <3>1 DEF Emitted, Proceed, NumbersTyped
    <3>3. Len(queue'[f]) = Len(queue[f]) + 1 /\ \A g \in Feeds : g # f => queue'[g] = queue[g]
      BY <3>2 DEF NumbersTyped
    <3>4. Held' = Held + Holds(f)' - Holds(f)
      BY <1>1, <3>3, HeldChanges
    <3>5. Holds(f)' = Holds(f) + 1 /\ Holds(f) \in Int
      <4>1. Len(queue[f]) \in Nat /\ got[f] \in Nat /\ Holds(f) \in Int
        BY HoldsTyped DEF Shape
      <4>2. Holds(f)' = Len(queue'[f]) + IF rpc[f] = "publish" THEN 1 + got[f] ELSE 0
        BY <1>1 DEF Holds
      <4> QED
        BY <3>3, <4>1, <4>2 DEF Holds
    <3>6. Emits(p)' = 0
      BY <3>2 DEF Emits
    <3> QED
      BY <1>1, <1>2, <1>3, <2>1, <3>2, <3>4, <3>5, <3>6 DEF Balanced
  <2>3. CASE Withdrawn(p)
    <3>1. UNCHANGED queue /\ ppc'[p] = "idle" /\ GiveBack(1)
      BY <2>3 DEF Withdrawn, Proceed, NumbersTyped
    <3>2. Held' = Held /\ Emits(p)' = 0
      BY <1>1, <3>1, HeldSame DEF Emits
    <3>3. crash' # "none" \/ free' = free + 1
      BY <3>1, GivenBack
    <3> QED
      BY <1>1, <1>2, <1>3, <2>1, <3>2, <3>3 DEF Balanced
  <2>4. CASE UNCHANGED <<producerVars, queue, free>>
    <3>1. Held' = Held /\ Emits(p)' = Emits(p)
      BY <1>1, <2>4, HeldSame DEF Emits, producerVars
    <3> QED
      BY <1>1, <1>2, <1>3, <2>4, <3>1 DEF Balanced
  <2> QED
    BY <1>6, <2>2, <2>3, <2>4 DEF Emit
<1> QED
  BY <1>4, <1>5, <1>6

\* Steps of a runtime that leave the other providers and all producers alone.
LEMMA RuntimeBalance ==
    ASSUME FeedAssumption, NumbersTyped, Shape, NumbersTyped', Shape', Balanced, crash = "none",
           NEW f \in Feeds, UNCHANGED <<ppc, mislaid>>,
           \A g \in Feeds : g # f => queue'[g] = queue[g] /\ rpc'[g] = rpc[g] /\ got'[g] = got[g],
           \/ crash' # "none"
           \/ free' + clones' + Holds(f)' = free + clones + Holds(f)
    PROVE  Balanced'
<1>1. CASE crash' # "none"
  BY <1>1 DEF Balanced
<1>2. CASE free' + clones' + Holds(f)' = free + clones + Holds(f)
  <2>1. Held' = Held + Holds(f)' - Holds(f)
    BY HeldChanges
  <2>2. Emitting' = Emitting
    BY EmittingSame
  <2>3. Held \in Int /\ Emitting \in Int /\ Holds(f) \in Int
        /\ free \in Nat /\ clones \in Nat /\ free' \in Nat /\ clones' \in Nat
    BY HoldsTyped DEF Shape
  <2>4. Holds(f)' \in Int
    <3>1. Len(queue'[f]) \in Nat /\ got'[f] \in Nat
      BY DEF NumbersTyped, Shape
    <3> QED
      BY <3>1 DEF Holds
  <2>5. free + clones + Held + Emitting = PoolSize - mislaid
    BY DEF Balanced
  <2>6. free' + clones' + Held' + Emitting' = PoolSize - mislaid
    <3>1. PICK a \in Int, b \in Int : a = Holds(f) /\ b = Holds(f)'
      BY <2>3, <2>4
    <3>2. PICK i \in Int, j \in Int : i = Held /\ j = Held' /\ j = i + b - a
      BY <2>1, <2>3, <3>1
    <3>3. free' + clones' + b = free + clones + a
      BY <1>2, <3>1
    <3>4. PICK x \in Int, y \in Int, x1 \in Int, y1 \in Int, m \in Int :
             x = free /\ y = clones /\ x1 = free' /\ y1 = clones' /\ m = Emitting
      BY <2>3
    <3>5. x1 + y1 + b = x + y + a
      BY <3>3, <3>4
    <3>6. x1 + y1 + j + m = x + y + i + m
      BY <3>2, <3>5
    <3>7. x + y + i + m = PoolSize - mislaid
      BY <2>5, <3>2, <3>4
    <3> QED
      BY <2>2, <3>2, <3>4, <3>6, <3>7
  <2> QED
    BY <2>6 DEF Balanced
<1> QED
  BY <1>1, <1>2

LEMMA TakeAccounts ==
    ASSUME FeedAssumption, AccountInv, NumbersTyped', crash = "none", UNCHANGED mislaid, NEW f \in Feeds, Take(f)
    PROVE  AccountInv'
<1> USE DEF AccountInv
<1>1. /\ rpc[f] = "wait" /\ queue[f] \in Seq(Numbered) /\ queue[f] # <<>>
      /\ queue' = [queue EXCEPT ![f] = Tail(queue[f])]
      /\ UNCHANGED <<ppc, phase, got, clones>>
  BY DEF Take, NumbersTyped, producerVars, stopVars
<1>2. /\ Len(queue'[f]) = Len(queue[f]) - 1 /\ Len(queue[f]) \in Nat
      /\ \A g \in Feeds : g # f => queue'[g] = queue[g]
  BY <1>1 DEF NumbersTyped
<1>3. got[f] = 0 /\ free \in Nat
  BY <1>1 DEF Shape
<1>4. \/ /\ UNCHANGED <<rpc, need>> /\ GiveBack(1)
      \/ /\ rpc' = [rpc EXCEPT ![f] = "publish"]
         /\ \E n \in {0, Fanout} : need' = [need EXCEPT ![f] = n]
         /\ UNCHANGED <<free, crash>>
  BY DEF Take
<1>5. free' \in Nat
  BY <1>3, <1>4, GivenBack
<1>6. Shape'
  <2>1. Capacity \in Nat /\ Fanout \in Nat
    BY DEF FeedAssumption
  <2>2. \A g \in Feeds : Len(queue'[g]) <= Capacity
    BY <1>2, <2>1 DEF Shape
  <2>3. CASE UNCHANGED <<rpc, need>>
    BY <1>1, <1>5, <2>2, <2>3 DEF Shape
  <2>4. ASSUME NEW n \in {0, Fanout}, rpc' = [rpc EXCEPT ![f] = "publish"],
               need' = [need EXCEPT ![f] = n]
        PROVE  Shape'
    BY <1>1, <1>3, <1>5, <2>1, <2>2, <2>4 DEF Shape
  <2> QED
    BY <1>4, <2>3, <2>4
<1>7. \A g \in Feeds : g # f => rpc'[g] = rpc[g] /\ got'[g] = got[g]
  BY <1>1, <1>4 DEF Shape
<1>8. crash' # "none" \/ free' + clones' + Holds(f)' = free + clones + Holds(f)
  <2>1. Holds(f) = Len(queue[f])
    BY <1>1, <1>2 DEF Holds
  <2>2. CASE UNCHANGED rpc /\ GiveBack(1)
    <3>1. Holds(f)' = Len(queue[f]) - 1
      BY <1>1, <1>2, <2>2 DEF Holds
    <3>2. crash' # "none" \/ free' = free + 1
      BY <2>2, GivenBack
    <3>3. clones' = clones /\ clones \in Nat
      BY <1>1 DEF Shape
    <3>4. PICK n \in Int : n = Len(queue[f])
      BY <1>2
    <3>5. Holds(f)' = n - 1 /\ Holds(f) = n
      BY <2>1, <3>1, <3>4
    <3> QED
      BY <1>3, <3>2, <3>3, <3>5
  <2>3. CASE rpc' = [rpc EXCEPT ![f] = "publish"] /\ UNCHANGED free
    <3>1. Holds(f)' = Len(queue[f])
      BY <1>1, <1>2, <1>3, <2>3 DEF Holds, Shape
    <3> QED
      BY <1>1, <2>1, <2>3, <3>1
  <2> QED
    BY <1>4, <2>2, <2>3
<1>9. Balanced'
  BY <1>1, <1>2, <1>6, <1>7, <1>8, RuntimeBalance
<1> QED
  BY <1>6, <1>9

LEMMA BackAccounts ==
    ASSUME FeedAssumption, AccountInv, NumbersTyped', crash = "none", UNCHANGED mislaid, NEW f \in Feeds,
           rpc[f] = "publish", Back(f), NEW k \in {0, got[f]}, clones' = clones + k,
           GiveBack(1 + got[f] - k)
    PROVE  AccountInv'
<1> USE DEF AccountInv
<1>1. /\ rpc' = [rpc EXCEPT ![f] = "wait"] /\ got' = [got EXCEPT ![f] = 0]
      /\ need' = [need EXCEPT ![f] = 0]
      /\ UNCHANGED <<ppc, phase, queue>>
  BY DEF Back, producerVars, stopVars
<1>2. got[f] \in Nat /\ free \in Nat /\ clones \in Nat /\ 1 + got[f] - k \in Nat /\ k \in Nat
  BY DEF Shape
<1>3. free' \in Nat
  BY <1>2, GivenBack
<1>4. Shape'
  BY <1>1, <1>2, <1>3 DEF Shape, FeedAssumption
<1>5. \A g \in Feeds : g # f => queue'[g] = queue[g] /\ rpc'[g] = rpc[g] /\ got'[g] = got[g]
  BY <1>1 DEF Shape
<1>6. crash' # "none" \/ free' + clones' + Holds(f)' = free + clones + Holds(f)
  <2>1. Len(queue[f]) \in Nat
    BY HoldsTyped
  <2>2. Holds(f)' = Len(queue[f])
    BY <1>1, <2>1 DEF Holds, Shape
  <2>3. Holds(f) = Len(queue[f]) + 1 + got[f]
    BY <1>2, <2>1 DEF Holds
  <2>4. crash' # "none" \/ free' = free + (1 + got[f] - k)
    BY <1>2, GivenBack
  <2> QED
    BY <1>2, <2>1, <2>2, <2>3, <2>4
<1>7. Balanced'
  BY <1>1, <1>4, <1>5, <1>6, RuntimeBalance
<1> QED
  BY <1>4, <1>7

LEMMA RuntimeAccounts ==
    ASSUME FeedAssumption, AccountInv, NumbersTyped', crash = "none", UNCHANGED mislaid, NEW f \in Feeds,
           StartRuntime(f) \/ Gone(f) \/ BorrowClone(f) \/ BorrowFails(f) \/ Deliver(f)
    PROVE  AccountInv'
<1> USE DEF AccountInv
<1>1. got[f] \in Nat /\ need[f] \in Nat /\ free \in Nat /\ clones \in Nat /\ Len(queue[f]) \in Nat
  BY HoldsTyped DEF Shape
<1>2. CASE StartRuntime(f) \/ Gone(f)
  <2>1. /\ rpc[f] # "publish"
        /\ \E pc \in {"wait", "gone"} : rpc' = [rpc EXCEPT ![f] = pc]
        /\ UNCHANGED <<ppc, queue, got, need, free, clones, crash>>
    BY <1>2 DEF StartRuntime, Gone, producerVars, Shape
  <2>2. phase' \in [Feeds -> {"starting", "open", "running"}]
        /\ \A g \in Feeds : phase'[g] # "running" => rpc'[g] = "off"
    <3>1. CASE StartRuntime(f)
      BY <3>1 DEF StartRuntime, Shape
    <3>2. CASE Gone(f)
      BY <3>2 DEF Gone, Shape, stopVars
    <3> QED
      BY <1>2, <3>1, <3>2
  <2>3. Shape'
    BY <2>1, <2>2 DEF Shape
  <2>4. Held' = Held
    <3>1. \A g \in Feeds : g # f => queue'[g] = queue[g] /\ rpc'[g] = rpc[g] /\ got'[g] = got[g]
      BY <2>1 DEF Shape
    <3>2. Held' = Held + Holds(f)' - Holds(f)
      BY <2>3, <3>1, HeldChanges
    <3>3. Holds(f)' = Len(queue[f]) /\ Holds(f) = Len(queue[f])
      BY <1>1, <2>1 DEF Holds, Shape
    <3>4. Held \in Int
      BY HoldsTyped
    <3> QED
      BY <1>1, <3>2, <3>3, <3>4
  <2>5. Emitting' = Emitting
    BY <2>1, EmittingSame
  <2> QED
    BY <2>1, <2>3, <2>4, <2>5 DEF Balanced
<1>3. CASE BorrowClone(f)
  <2>1. /\ rpc[f] = "publish" /\ got[f] < need[f] /\ free > 0 /\ free' = free - 1
        /\ got' = [got EXCEPT ![f] = got[f] + 1]
        /\ UNCHANGED <<ppc, phase, queue, rpc, need, clones, crash>>
    BY <1>3 DEF BorrowClone, producerVars, stopVars
  <2>2. Shape'
    BY <1>1, <2>1 DEF Shape
  <2>3. \A g \in Feeds : g # f => queue'[g] = queue[g] /\ rpc'[g] = rpc[g] /\ got'[g] = got[g]
    BY <2>1 DEF Shape
  <2>4. Holds(f)' = Len(queue[f]) + 1 + got[f] + 1 /\ Holds(f) = Len(queue[f]) + 1 + got[f]
    <3>1. Holds(f)' = Len(queue[f]) + (1 + (got[f] + 1))
      BY <2>1 DEF Holds, Shape
    <3>2. Holds(f) = Len(queue[f]) + (1 + got[f])
      BY <2>1 DEF Holds
    <3> QED
      BY <1>1, <3>1, <3>2
  <2>5. free' + clones' + Holds(f)' = free + clones + Holds(f)
    BY <1>1, <2>1, <2>4
  <2> QED
    BY <2>1, <2>2, <2>3, <2>5, RuntimeBalance
<1>4. CASE BorrowFails(f)
  <2>1. rpc[f] = "publish" /\ GiveBack(1 + got[f] - 0) /\ Back(f) /\ clones' = clones + 0
    <3>1. got[f] + 1 = 1 + got[f] - 0 /\ clones + 0 = clones
      BY <1>1
    <3> QED
      BY <1>4, <3>1 DEF BorrowFails
  <2> QED
    BY <2>1, BackAccounts
<1>5. CASE Deliver(f)
  <2>1. rpc[f] = "publish" /\ Back(f)
        /\ \/ GiveBack(1 + got[f] - got[f]) /\ clones' = clones + got[f]
           \/ GiveBack(1 + got[f] - 0) /\ clones' = clones + 0
    <3>1. 1 + got[f] - got[f] = 1 /\ 1 + got[f] - 0 = 1 + got[f] /\ clones + 0 = clones
      BY <1>1
    <3> QED
      BY <1>5, <3>1 DEF Deliver, Recycled
  <2> QED
    BY <2>1, BackAccounts
<1> QED
  BY <1>2, <1>3, <1>4, <1>5

\* Steps that move no event.
LEMMA AccountsUntouched ==
    ASSUME AccountInv, NumbersTyped', phase' \in [Feeds -> {"starting", "open", "running"}],
           \A f \in Feeds : phase'[f] # "running" => phase[f] # "running",
           UNCHANGED <<ppc, queue, rpc, got, need, free, clones, mislaid, crash>>
    PROVE  AccountInv'
<1>1. Shape'
  BY DEF AccountInv, Shape
<1>2. Held' = Held /\ Emitting' = Emitting
  BY HeldSame, EmittingSame
<1> QED
  BY <1>1, <1>2 DEF AccountInv, Balanced

LEMMA AccountStep ==
    ASSUME FeedAssumption, AccountInv, NumbersTyped', Mislay \/ UNCHANGED mislaid, [FeedNext]_fvars
    PROVE  AccountInv'
<1> USE DEF AccountInv
<1>0. CASE Mislay
  <2>1. /\ free > 0 /\ free' = free - 1 /\ mislaid' = mislaid + 1
        /\ UNCHANGED <<phase, ppc, queue, rpc, got, need, clones, crash>>
    BY <1>0 DEF Mislay, stopVars, producerVars, runtimeVars
  <2>2. Shape'
    BY <2>1 DEF Shape
  <2>3. Held' = Held /\ Emitting' = Emitting
    BY <2>1, HeldSame, EmittingSame
  <2>4. /\ Held \in Int /\ Emitting \in Int /\ free \in Nat /\ clones \in Nat /\ mislaid \in Nat
        /\ PoolSize \in Nat /\ (crash = "none" => free + clones + Held + Emitting = PoolSize - mislaid)
    BY HoldsTyped DEF Balanced, Shape, FeedAssumption
  <2> QED
    BY <2>1, <2>2, <2>3, <2>4 DEF Balanced
<1> SUFFICES ASSUME UNCHANGED mislaid PROVE AccountInv'
  BY <1>0
<1>1. ASSUME crash = "none", NEW p \in Producers, Number(p) \/ Borrow(p) \/ Emit(p) \/ Leave(p)
      PROVE  AccountInv'
  BY <1>1, ProducerShape, ProducerBalance
<1>2. ASSUME crash = "none", NEW f \in Feeds, Take(f) PROVE AccountInv'
  BY <1>2, TakeAccounts
<1>3. ASSUME crash = "none", NEW f \in Feeds,
             StartRuntime(f) \/ Gone(f) \/ BorrowClone(f) \/ BorrowFails(f) \/ Deliver(f)
      PROVE  AccountInv'
  BY <1>3, RuntimeAccounts
<1>4. ASSUME NEW f \in Feeds, Started(f) \/ Stop(f) \/ Watch(f) PROVE AccountInv'
  <2>1. /\ UNCHANGED <<ppc, queue, rpc, got, need, free, clones, crash>>
        /\ \/ UNCHANGED phase
           \/ phase' = [phase EXCEPT ![f] = "open"] /\ phase[f] = "starting"
    BY <1>4 DEF Started, Stop, Watch, producerVars, runtimeVars
  <2>2. /\ phase' \in [Feeds -> {"starting", "open", "running"}]
        /\ \A g \in Feeds : phase'[g] # "running" => phase[g] # "running"
    BY <2>1 DEF Shape
  <2> QED
    BY <2>1, <2>2, AccountsUntouched
<1>5. CASE Shutdown \/ UNCHANGED fvars
  <2>1. UNCHANGED <<phase, ppc, queue, rpc, got, need, free, clones, crash>>
    BY <1>5 DEF Shutdown, producerVars, runtimeVars, fvars
  <2>2. /\ phase' \in [Feeds -> {"starting", "open", "running"}]
        /\ \A g \in Feeds : phase'[g] # "running" => phase[g] # "running"
    BY <2>1 DEF Shape
  <2> QED
    BY <2>1, <2>2, AccountsUntouched
<1>6. CASE crash = "none" /\ Consume
  <2>1. /\ clones > 0 /\ clones' = clones - 1 /\ GiveBack(1)
        /\ UNCHANGED <<phase, ppc, queue, rpc, got, need>>
    BY <1>6 DEF Consume, stopVars, producerVars, runtimeVars
  <2>2. Shape'
    BY <2>1, GivenBack DEF Shape
  <2>3. Held' = Held /\ Emitting' = Emitting
    BY <2>1, HeldSame, EmittingSame
  <2>4. Held \in Int /\ Emitting \in Int /\ free \in Nat /\ clones \in Nat
        /\ free + clones + Held + Emitting = PoolSize - mislaid
    BY <1>6, HoldsTyped DEF Balanced, Shape
  <2>5. crash' # "none" \/ free' = free + 1
    BY <2>1, GivenBack
  <2> QED
    BY <2>1, <2>2, <2>3, <2>4, <2>5 DEF Balanced
<1> QED
  BY <1>0, <1>1, <1>2, <1>3, <1>4, <1>5, <1>6 DEF FeedNext

LEMMA AccountInvariant ==
    ASSUME FeedAssumption
    PROVE  FeedSpec => [](AccountInv /\ Losses)
<1>1. FeedInit => NumberInv /\ AccountInv /\ Losses
  BY NumberInit, AccountInit DEF Losses, FeedInit
<1>2. NumberInv /\ AccountInv /\ Losses /\ [FeedNext]_fvars => NumberInv' /\ AccountInv' /\ Losses'
  BY NumberStep, LossStep, AccountStep DEF NumberInv
<1> QED
  BY <1>1, <1>2, PTL DEF FeedSpec

\* An ended runtime holds what its channel does, and its producers hold nothing.
LEMMA AccountEnds ==
    ASSUME FeedAssumption, AccountInv, Losses
    PROVE  OnlyQueuesKeep
<1> USE DEF AccountInv
<1> SUFFICES ASSUME crash = "none", clones = 0, \A f \in Feeds : Ended(f)
             PROVE  PoolSize - (free + Left) \in 0 .. abandoned
  BY DEF OnlyQueuesKeep
<1>1. \A f \in Feeds : Holds(f) = Len(queue[f])
  BY HoldsTyped DEF Ended, Holds
<1>2. Held = Left
  BY <1>1 DEF Held, Left
<1>3. \A p \in Producers : Emits(p) = 0
  BY DEF FeedAssumption, Ended, Emits
<1>4. PICK k \in [Producers -> Int] : k = [p \in Producers |-> Emits(p)]
  BY HoldsTyped
<1>5. Emitting = 0
  <2>1. \A x \in Producers : k[x] = 0
    BY <1>3, <1>4
  <2>2. IsFiniteSet(Producers)
    BY DEF FeedAssumption
  <2>3. SumFunctionOnSet(k, Producers) = 0
    BY <2>1, <2>2, SumOfZeros
  <2> QED
    BY <1>4, <2>3 DEF Emitting
<1>6. free \in Nat /\ Held \in Int /\ PoolSize \in Nat
  BY HoldsTyped DEF Shape, FeedAssumption
<1> QED
  BY <1>2, <1>5, <1>6 DEF Balanced, Losses

\* If all runtimes lacked clones the channels, the producers and the clones borrowed so
\* far would hold the whole pool, which is larger.
LEMMA AccountMoves ==
    ASSUME FeedAssumption, AccountInv
    PROVE  NoStandstill
<1> USE DEF AccountInv
<1> SUFFICES ASSUME crash = "none", free = 0, clones = 0, PoolSize - mislaid > Stuck,
                    \A f \in Feeds : ~(rpc[f] \in {"wait", "publish"} /\ ~Starved(f))
             PROVE  FALSE
  BY DEF NoStandstill
<1>1. IsFiniteSet(Feeds) /\ IsFiniteSet(Producers) /\ Capacity \in Nat /\ Fanout \in Nat
      /\ PoolSize \in Nat /\ mislaid \in Nat
  BY DEF FeedAssumption, Shape
<1>2. PICK c \in Nat : c = Capacity + Fanout
  BY <1>1
<1>3. PICK h \in [Feeds -> Int] : h = [f \in Feeds |-> Holds(f)]
  BY HoldsTyped
<1>4. PICK k \in [Producers -> Int] : k = [p \in Producers |-> Emits(p)]
  BY HoldsTyped
<1>5. \A f \in Feeds : h[f] <= c
  <2>1. ASSUME NEW f \in Feeds PROVE Holds(f) <= c
    <3>1. Len(queue[f]) \in Nat /\ Len(queue[f]) <= Capacity
      BY HoldsTyped DEF Shape
    <3>2. got[f] \in Nat /\ need[f] \in Nat /\ need[f] <= Fanout
      BY DEF Shape
    <3>3. rpc[f] = "publish" => got[f] < need[f]
      BY DEF Starved
    <3> QED
      BY <1>1, <1>2, <3>1, <3>2, <3>3 DEF Holds
  <2> QED
    BY <1>3, <2>1
<1>6. Held <= Cardinality(Feeds) * c
  <2>1. SumFunctionOnSet(h, Feeds) <= Cardinality(Feeds) * c
    BY <1>1, <1>5, SumBound
  <2> QED
    BY <1>3, <2>1 DEF Held
<1>7. Emitting <= Cardinality(Producers) * 1
  <2>1. \A p \in Producers : k[p] <= 1
    BY <1>4 DEF Emits
  <2>2. SumFunctionOnSet(k, Producers) <= Cardinality(Producers) * 1
    BY <1>1, <2>1, SumBound
  <2> QED
    BY <1>4, <2>2 DEF Emitting
<1>8. Cardinality(Feeds) \in Nat /\ Cardinality(Producers) \in Nat
  BY <1>1, FS_CardinalityType
<1>9. Stuck = Cardinality(Feeds) * c + Cardinality(Producers)
  BY <1>2 DEF Stuck
<1>10. Cardinality(Feeds) * c \in Nat
  BY <1>8
<1>11. Held \in Int /\ Emitting \in Int /\ Held + Emitting = PoolSize - mislaid
  BY HoldsTyped DEF Balanced
<1> QED
  BY <1>1, <1>6, <1>7, <1>8, <1>9, <1>10, <1>11

\* When everything has ended, the pool lacks only the events that the runtime left in
\* the channels (the loop of dispatcher/runtime.go returns on ctx.Done without
\* draining them), and at most one event for each borrow that ended with its context
\* while a worker of the pool had its request (object_pool.go:200-216).
THEOREM NoOtherEventIsLost ==
    ASSUME FeedAssumption
    PROVE  FeedSpec => []OnlyQueuesKeep
<1>1. AccountInv /\ Losses => OnlyQueuesKeep
  BY AccountEnds
<1> QED
  BY <1>1, AccountInvariant, PTL

\* The fan-outs of the bus, which borrow one clone after the other from the pool that
\* the adapters fill the channels from, never wait for each other.
THEOREM RuntimesGoOn ==
    ASSUME FeedAssumption
    PROVE  FeedSpec => []NoStandstill
<1>1. AccountInv => NoStandstill
  BY AccountMoves
<1> QED
  BY <1>1, AccountInvariant, PTL
===============================================================================
