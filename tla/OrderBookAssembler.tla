-------------------------- MODULE OrderBookAssembler --------------------------
(***************************************************************************)
(* OrderBookAssembler (infra/adapters/shared/orderbook_assembler.go), as   *)
(* a value: each of its methods runs under its own lock.                   *)
(*                                                                         *)
(* The venue numbers its updates.  A book is the set `has` of the updates  *)
(* it contains; it is the venue's book at n when that set is 1..n.  A diff *)
(* carries the updates first..last.  One that fails to parse in the middle *)
(* leaves a book that is `torn`.                                           *)
(***************************************************************************)
EXTENDS Integers, Sequences

Diff(first, last) == [first |-> first, last |-> last]

New == [ready |-> FALSE, seq |-> 0, has |-> {}, torn |-> FALSE, pending |-> <<>>]

\* resetLocked empties the queue, so the loop over it finds nothing.
ApplySnapshot(n) == [ready |-> TRUE, seq |-> n, has |-> 1..n, torn |-> FALSE, pending |-> <<>>]

\* A quantity of the snapshot does not parse: the book was reset before, and is of no
\* use until the next snapshot; its number is the old one.
SnapshotFails(a) == [a EXCEPT !.ready = FALSE, !.pending = <<>>]

Stale(a, d) == d.last <= a.seq
Applies(a, d) == a.ready /\ ~Stale(a, d)

\* Diffs are queued while there is no book, and dropped when they are old.
ApplyDiff(a, d) ==
    IF Applies(a, d) THEN [a EXCEPT !.has = @ \union d.first..d.last, !.seq = d.last]
    ELSE IF a.ready THEN a
    ELSE [a EXCEPT !.pending = Append(@, d)]

\* Quantities are parsed as they are applied.
DiffFails(a) == [a EXCEPT !.torn = TRUE]

Exact(a) == a.has = 1..a.seq /\ ~a.torn
===============================================================================
