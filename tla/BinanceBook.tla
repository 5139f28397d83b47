----------------------------- MODULE BinanceBook -----------------------------
(***************************************************************************)
(* The order book of one Binance symbol (infra/adapters/binance/provider.  *)
(* go): the stream's handler, which applies diffs or buffers them, and the *)
(* goroutines it starts to seed the book from a REST snapshot and to       *)
(* replay the buffer.  They share the bookHandle: two atomic flags, and a  *)
(* sequence number, a buffer and an assembler each under its own lock.     *)
(*                                                                         *)
(* The venue numbers its updates; the stream carries them in diffs of one  *)
(* or two, and loses some when it reconnects.                              *)
(***************************************************************************)
EXTENDS OrderBookAssembler, Functions

CONSTANTS
    Seeders,     \* bound: goroutines of seedAndReplayBook at the same time
    MaxVenue,    \* bound: updates of the venue
    MaxLag,      \* bound: how far the REST book may be behind the stream
    MaxLost,     \* bound: diffs the stream loses
    MaxFaults,   \* bound: REST calls that fail, diffs and snapshots that do not parse
    Handler

BookAssumption ==
    /\ MaxVenue \in Nat \ {0} /\ MaxLag \in Nat /\ MaxLost \in Nat /\ MaxFaults \in Nat
    /\ Handler \notin Seeders

Actors == Seeders \union {Handler}

VARIABLES
    venue, stream, lost, faults,
    asm, lastSeq, seeded, seeding, buffer,   \* the handle
    pc,             \* where each goroutine is
    todo,           \* the diffs it is applying, the current one first
    seen,           \* its snapshot's sequence number, then the current one
    out,            \* the book it is about to publish
    published,      \* the book published last
    overtaken       \* history: a snapshot has replaced the book under a diff being
                    \* applied, or a diff was compared with the number before it

venueVars  == <<venue, stream, lost, faults>>
actorVars  == <<pc, todo, seen, out>>
handleVars == <<asm, lastSeq, seeded, seeding, buffer>>
vars == <<venueVars, handleVars, actorVars, published, overtaken>>

Diffs == {d \in [first : 1..MaxVenue, last : 1..MaxVenue] : d.first <= d.last}
Books == [seq : 0..MaxVenue, has : SUBSET (1..MaxVenue), torn : BOOLEAN,
          ready : BOOLEAN, pending : Seq(Diffs)]

HandlerPcs == {"receive", "seeding", "append", "start", "spawn"}
SeederPcs  == {"none", "spawned", "fetch", "fit", "seed", "mark", "announce", "drain",
               "current", "seeded", "leave"}
SharedPcs  == {"read", "zero", "apply", "write", "publish", "unseed", "requeue", "retry"}

PcTypeOK ==
    /\ pc \in [Actors -> HandlerPcs \union SeederPcs \union SharedPcs]
    /\ pc[Handler] \in HandlerPcs \union (SharedPcs \ {"retry"})
    /\ \A s \in Seeders : pc[s] \in SeederPcs \union SharedPcs

BookTypeOK ==
    /\ venue \in 1..MaxVenue /\ lost \in 0..MaxLost /\ faults \in 0..MaxFaults
    /\ stream \in Seq(Diffs) /\ buffer \in Seq(Diffs) /\ todo \in [Actors -> Seq(Diffs)]
    /\ asm \in Books /\ published \in Books /\ out \in [Actors -> Books]
    /\ lastSeq \in 0..MaxVenue /\ seen \in [Actors -> 0..MaxVenue]
    /\ seeded \in BOOLEAN /\ seeding \in BOOLEAN /\ overtaken \in BOOLEAN
    /\ PcTypeOK

Init ==
    /\ venue = 1 /\ stream = <<>> /\ lost = 0 /\ faults = 0
    /\ asm = New /\ lastSeq = 0 /\ seeded = FALSE /\ seeding = FALSE /\ buffer = <<>>
    /\ pc = [a \in Actors |-> IF a = Handler THEN "receive" ELSE "none"]
    /\ todo = [a \in Actors |-> <<>>]
    /\ seen = [a \in Actors |-> 0]
    /\ out = [a \in Actors |-> New]
    /\ published = New /\ overtaken = FALSE

Goto(a, l) == pc' = [pc EXCEPT ![a] = l]
Quiet == UNCHANGED <<published, overtaken>>

-------------------------------------------------------------------------------
(* The venue and its stream *)

Emit ==
    /\ \E n \in 1..2 :
         /\ venue + n <= MaxVenue
         /\ venue' = venue + n
         /\ stream' = Append(stream, Diff(venue + 1, venue + n))
    /\ UNCHANGED <<lost, faults, handleVars, actorVars>> /\ Quiet

Lose ==
    /\ stream # <<>> /\ lost < MaxLost
    /\ stream' = Tail(stream) /\ lost' = lost + 1
    /\ UNCHANGED <<venue, faults, handleVars, actorVars>> /\ Quiet

-------------------------------------------------------------------------------
(* bookHandler *)

\* A message comes in; seeded is read first.
Receive ==
    /\ pc[Handler] = "receive" /\ stream # <<>>
    /\ todo' = [todo EXCEPT ![Handler] = <<Head(stream)>>]
    /\ stream' = Tail(stream)
    /\ Goto(Handler, IF seeded THEN "seeding" ELSE "append")
    /\ UNCHANGED <<venue, lost, faults, handleVars, seen, out>> /\ Quiet

ReadSeeding ==
    /\ pc[Handler] = "seeding"
    /\ Goto(Handler, IF seeding THEN "append" ELSE "read")
    /\ UNCHANGED <<venueVars, handleVars, todo, seen, out>> /\ Quiet

AppendDiff ==
    /\ pc[Handler] = "append"
    /\ buffer' = buffer \o todo[Handler]
    /\ todo' = [todo EXCEPT ![Handler] = <<>>]
    /\ Goto(Handler, "start")
    /\ UNCHANGED <<venueVars, asm, lastSeq, seeded, seeding, seen, out>> /\ Quiet

\* seeding is read a second time.
Start ==
    /\ pc[Handler] = "start"
    /\ Goto(Handler, IF seeding THEN "receive" ELSE "spawn")
    /\ UNCHANGED <<venueVars, handleVars, todo, seen, out>> /\ Quiet

Spawn ==
    /\ pc[Handler] = "spawn"
    /\ \E s \in Seeders :
         /\ pc[s] = "none"
         /\ pc' = [pc EXCEPT ![Handler] = "receive", ![s] = "spawned"]
    /\ UNCHANGED <<venueVars, handleVars, todo, seen, out>> /\ Quiet

-------------------------------------------------------------------------------
(* applyDepthDiff, by the handler or a seeder, on the first diff of todo *)

\* Where a goroutine goes when the diff is done, and when the book is out of sync.
Done(a) == IF a = Handler THEN "receive" ELSE IF Len(todo[a]) = 1 THEN "current" ELSE "read"
OutOfSync(a) == IF a = Handler THEN "unseed" ELSE "requeue"

FinishDiff(a) ==
    /\ todo' = [todo EXCEPT ![a] = Tail(@)]
    /\ Goto(a, Done(a))
    /\ UNCHANGED seen

Gap_Ignored(d, n) == FALSE
Gap(d, n) == d.first > n + 1

\* Both numbers are compared with the one read under the lock, which a seeder writes
\* after it has replaced the book.
ReadSeq(a) ==
    /\ pc[a] = "read"
    /\ LET d == Head(todo[a]) IN
         \/ d.last <= lastSeq /\ FinishDiff(a)
         \/ /\ d.last > lastSeq
            /\ Goto(a, IF Gap(d, lastSeq) THEN "zero" ELSE "apply")
            /\ UNCHANGED <<todo, seen>>
    /\ overtaken' = (overtaken \/ \E s \in Seeders : pc[s] = "mark")
    /\ UNCHANGED <<venueVars, handleVars, out, published>>

ForgetSeq(a) ==
    /\ pc[a] = "zero"
    /\ lastSeq' = 0
    /\ Goto(a, OutOfSync(a))
    /\ UNCHANGED <<venueVars, asm, seeded, seeding, buffer, todo, seen, out>> /\ Quiet

\* assembler.ApplyDiff
Apply(a) ==
    /\ pc[a] = "apply"
    /\ LET d == Head(todo[a]) IN
         \/ /\ Applies(asm, d)
            /\ asm' = ApplyDiff(asm, d)
            /\ out' = [out EXCEPT ![a] = asm']
            /\ Goto(a, "write")
            /\ UNCHANGED <<faults, todo, seen>>
         \/ /\ ~Applies(asm, d)
            /\ asm' = ApplyDiff(asm, d)
            /\ FinishDiff(a)
            /\ UNCHANGED <<faults, out>>
         \/ /\ Applies(asm, d) /\ faults < MaxFaults
            /\ faults' = faults + 1
            /\ asm' = DiffFails(asm)
            /\ IF a = Handler THEN FinishDiff(a) ELSE Goto(a, "retry") /\ UNCHANGED <<todo, seen>>
            /\ UNCHANGED out
    /\ UNCHANGED <<venue, stream, lost, lastSeq, seeded, seeding, buffer>> /\ Quiet

WriteSeq(a) ==
    /\ pc[a] = "write"
    /\ lastSeq' = Head(todo[a]).last
    /\ Goto(a, "publish")
    /\ UNCHANGED <<venueVars, asm, seeded, seeding, buffer, todo, seen, out>> /\ Quiet

PublishDiff(a) ==
    /\ pc[a] = "publish"
    /\ published' = out[a]
    /\ out' = [out EXCEPT ![a] = New]
    /\ FinishDiff(a)
    /\ UNCHANGED <<venueVars, handleVars, overtaken>>

Unseed(a) ==
    /\ pc[a] = "unseed"
    /\ seeded' = FALSE
    /\ Goto(a, IF a = Handler THEN "requeue" ELSE "fetch")
    /\ UNCHANGED <<venueVars, asm, lastSeq, seeding, buffer, todo, seen, out>> /\ Quiet

\* The diffs go back in front of the buffer.
Requeue(a) ==
    /\ pc[a] \in {"requeue", "retry"}
    /\ buffer' = todo[a] \o buffer
    /\ todo' = [todo EXCEPT ![a] = <<>>]
    /\ Goto(a, IF a = Handler THEN "spawn" ELSE IF pc[a] = "requeue" THEN "unseed" ELSE "fetch")
    /\ UNCHANGED <<venueVars, asm, lastSeq, seeded, seeding, seen, out>> /\ Quiet

-------------------------------------------------------------------------------
(* seedAndReplayBook and seedOrderBook, by a seeder *)

Ended_Kept == TRUE
Ended == FALSE

\* CompareAndSwap: one seeder goes on, another returns.
Swapped == ~seeding

Enter(s) ==
    /\ pc[s] = "spawned"
    /\ seeding' = TRUE
    /\ Goto(s, IF Swapped THEN "fetch" ELSE "none")
    /\ UNCHANGED <<venueVars, asm, lastSeq, seeded, buffer, todo, seen, out>> /\ Quiet

\* The venue answers with its book of the moment, or a little older, and the
\* answer arrives later.
Fetch(s) ==
    /\ pc[s] = "fetch"
    /\ \/ /\ \E n \in 1..venue : venue - n <= MaxLag /\ seen' = [seen EXCEPT ![s] = n]
          /\ Goto(s, "fit")
          /\ UNCHANGED faults
       \/ /\ faults < MaxFaults /\ faults' = faults + 1
          /\ UNCHANGED <<seen, pc>>
    /\ UNCHANGED <<venue, stream, lost, handleVars, todo, out>> /\ Quiet

\* A snapshot older than the first diff in the buffer is fetched again.
Fit(s) ==
    /\ pc[s] = "fit"
    /\ Goto(s, IF buffer # <<>> /\ seen[s] < Head(buffer).first THEN "fetch" ELSE "seed")
    /\ UNCHANGED <<venueVars, handleVars, todo, seen, out>> /\ Quiet

\* assembler.ApplySnapshot
Seed(s) ==
    /\ pc[s] = "seed"
    /\ asm' = ApplySnapshot(seen[s])
    /\ overtaken' = (overtaken \/ pc[Handler] \in {"apply", "write"})
    /\ Goto(s, "mark")
    /\ UNCHANGED <<venueVars, lastSeq, seeded, seeding, buffer, todo, seen, out, published>>

\* Its error: the seeder reports it, waits and fetches again.
SeedFails(s) ==
    /\ pc[s] = "seed"
    /\ faults < MaxFaults /\ faults' = faults + 1
    /\ asm' = SnapshotFails(asm)
    /\ Goto(s, "fetch")
    /\ UNCHANGED <<venue, stream, lost, lastSeq, seeded, seeding, buffer, todo, seen, out>> /\ Quiet

MarkSeq(s) ==
    /\ pc[s] = "mark"
    /\ lastSeq' = seen[s]
    /\ Goto(s, "announce")
    /\ UNCHANGED <<venueVars, asm, seeded, seeding, buffer, todo, seen, out>> /\ Quiet

PublishSnapshot(s) ==
    /\ pc[s] = "announce"
    /\ published' = ApplySnapshot(seen[s])
    /\ Goto(s, "drain")
    /\ UNCHANGED <<venueVars, handleVars, todo, seen, out, overtaken>>

\* drainBuffered drops the diffs at the front that are old; the rest is sorted.
SortDiffs(q) ==
    {r \in {[i \in DOMAIN q |-> q[p[i]]] : p \in Surjection(DOMAIN q, DOMAIN q)} :
        \A i, j \in DOMAIN q : i < j => r[i].last <= r[j].last}

FirstKept(q, n) ==
    CHOOSE i \in 1..(Len(q) + 1) : /\ i <= Len(q) => q[i].last > n
                                   /\ \A j \in 1..(i - 1) : q[j].last <= n

Kept(q, n) == SubSeq(q, FirstKept(q, n), Len(q))

Drain(s) ==
    /\ pc[s] = "drain"
    /\ LET kept == Kept(buffer, seen[s]) IN
         /\ \E sorted \in SortDiffs(kept) : todo' = [todo EXCEPT ![s] = sorted]
         /\ Goto(s, IF kept = <<>> THEN "seeded" ELSE "read")
    /\ buffer' = <<>>
    /\ UNCHANGED <<venueVars, asm, lastSeq, seeded, seeding, seen, out>> /\ Quiet

ReadCurrent(s) ==
    /\ pc[s] = "current"
    /\ seen' = [seen EXCEPT ![s] = lastSeq]
    /\ Goto(s, "drain")
    /\ UNCHANGED <<venueVars, handleVars, todo, out>> /\ Quiet

MarkSeeded(s) ==
    /\ pc[s] = "seeded"
    /\ seeded' = TRUE
    /\ Goto(s, "leave")
    /\ UNCHANGED <<venueVars, asm, lastSeq, seeding, buffer, todo, seen, out>> /\ Quiet

\* The deferred store.
LeaveSeeding(s) ==
    /\ pc[s] = "leave"
    /\ seeding' = Ended
    /\ Goto(s, "none")
    /\ UNCHANGED <<venueVars, asm, lastSeq, seeded, buffer, todo, seen, out>> /\ Quiet
-------------------------------------------------------------------------------
ApplyDepthDiff(a) ==
    ReadSeq(a) \/ ForgetSeq(a) \/ Apply(a) \/ WriteSeq(a) \/ PublishDiff(a) \/ Unseed(a) \/ Requeue(a)
BookHandler == Receive \/ ReadSeeding \/ AppendDiff \/ Start \/ Spawn \/ ApplyDepthDiff(Handler)
Seeder(s) ==
    \/ Enter(s) \/ Fetch(s) \/ Fit(s) \/ Seed(s) \/ SeedFails(s) \/ MarkSeq(s) \/ PublishSnapshot(s)
    \/ Drain(s) \/ ReadCurrent(s) \/ MarkSeeded(s) \/ LeaveSeeding(s) \/ ApplyDepthDiff(s)

Next == Emit \/ Lose \/ BookHandler \/ \E s \in Seeders : Seeder(s)

Spec == Init /\ [][Next]_vars

\* Goroutines run, and a REST call that is repeated is answered in the end, with
\* the book as it is; the venue need not send anything.
Fairness ==
    /\ WF_vars(BookHandler)
    /\ \A s \in Seeders : WF_vars(Seeder(s)) /\ SF_vars(Fetch(s) /\ seen'[s] = venue)
FairSpec == Spec /\ Fairness

-------------------------------------------------------------------------------
(* Properties *)

\* What is published is the venue's book at its sequence number, with no update
\* missing, unless a snapshot was applied in the middle of a diff's application, or
\* before a diff was compared with the older number: the checks of the sequence
\* numbers find every other gap.
GapsAreFound == ~overtaken => Exact(published)

\* A diff buffered while no seeder is at work is taken from the buffer: the handler
\* starts a seeder, whatever the one before it has left behind.
BufferedIsTaken ==
    (pc[Handler] = "start" /\ \A s \in Seeders : pc[s] = "none") ~> (buffer = <<>>)

-------------------------------------------------------------------------------
(* Why GapsAreFound is inductive *)

\* The diffs still to come to the handler, the one it has, and those put aside.
Coming == Range(stream)
AtHand == Range(todo[Handler])
PutAside == Range(buffer) \union UNION {Range(todo[s]) : s \in Seeders}

\* They come in the venue's order: what was put aside came before.
Before(d, e) == d.last < e.first
ComeInOrder ==
    /\ \A d \in Coming \union AtHand \union PutAside : d.last <= venue
    /\ \A i, j \in DOMAIN stream : i < j => Before(stream[i], stream[j])
    /\ \A d \in PutAside, e \in AtHand \union Coming : Before(d, e)
    /\ \A d \in AtHand, e \in Coming : Before(d, e)

\* One seeder is between its CompareAndSwap and its end.
AtSeeding(s) == pc[s] \notin {"none", "spawned"}
OneSeeds ==
    /\ seeding <=> \E s \in Seeders : AtSeeding(s)
    /\ \A s, t \in Seeders : AtSeeding(s) /\ AtSeeding(t) => s = t

\* The number a diff is compared with is not ahead of the book, once a snapshot's has
\* been written.
Marking == \E s \in Seeders : pc[s] = "mark"
NumberFollows ==
    /\ ~Marking => lastSeq <= asm.seq
    /\ \A s \in Seeders : pc[s] = "mark" => asm.seq = seen[s]
    /\ Marking => pc[Handler] \notin {"apply", "write"}
    /\ \A a \in Actors : pc[a] = "apply" => Head(todo[a]).first <= asm.seq + 1
    /\ \A a \in Actors : pc[a] = "write" => Head(todo[a]).last <= asm.seq

\* The diff that tore the book was the next, so nothing else is applied before the book
\* is seeded again.
NextUpdate == asm.seq + 1
Carries(d) == d.first <= NextUpdate /\ NextUpdate <= d.last
WillSeed == \E s \in Seeders : pc[s] \in {"retry", "fetch", "fit", "seed"}
TornIsLeft ==
    asm.torn =>
        /\ NextUpdate <= venue
        /\ \A d \in Coming \union AtHand : ~Carries(d)
        /\ WillSeed \/ \A d \in PutAside : ~Carries(d)

Sound ==
    /\ asm.has = 1..asm.seq
    /\ \A a \in Actors : Exact(out[a])
    /\ Exact(published)

HasDiffs ==
    /\ pc[Handler] \in {"seeding", "append", "read", "zero", "apply", "write", "publish", "unseed", "requeue"} =>
          Len(todo[Handler]) = 1
    /\ \A s \in Seeders : pc[s] \in {"read", "zero", "apply", "write", "publish"} => todo[s] # <<>>

BookInv ==
    /\ BookTypeOK /\ HasDiffs /\ OneSeeds /\ ComeInOrder
    /\ ~overtaken => NumberFollows /\ TornIsLeft /\ Sound
===============================================================================
