------------------------------- MODULE OkxBook -------------------------------
(***************************************************************************)
(* The order book of one OKX instrument (infra/adapters/okx/provider.go):  *)
(* handleBooks, which reads the stream's snapshots and diffs, and the      *)
(* goroutines that fetch a REST snapshot after a gap.  The handle is       *)
(* locked for each step, not between steps.                                *)
(*                                                                         *)
(* The venue numbers its updates; a diff carries the update after `prev`.  *)
(* When the stream reconnects it starts again with a snapshot.  The levels *)
(* of an update are its own: no other changes them.                        *)
(***************************************************************************)
EXTENDS OrderBookAssembler, TLC

CONSTANTS
    Resyncers,    \* bound: goroutines of resyncOrderBook at the same time
    MaxVenue,     \* bound: updates of the venue
    MaxReconnects,\* bound: reconnections of the stream
    MaxLag,       \* bound: updates a REST snapshot may be behind the venue
    MaxFaults,    \* bound: messages that do not decode, diffs and snapshots that do not
                  \* parse, snapshots an entry of which is dropped, REST calls that fail
    Coverage      \* the updates a checksum may cover, those of 25 levels a side: all, some,
                  \* or none, from a venue that sends no checksums

OkxAssumption ==
    /\ MaxVenue \in Nat \ {0} /\ MaxReconnects \in Nat /\ MaxLag \in Nat /\ MaxFaults \in Nat
    /\ Coverage \subseteq SUBSET (1..MaxVenue)

VARIABLES
    venue, stream, reconnects, faults,
    covered,                            \* the updates that this venue's checksums cover
    asm, lastSeq, seeded, resyncing,    \* the handle
    hpc, msg, out,                      \* handleBooks, its message, and the book it is
                                        \* about to publish
    rpc, snap,                          \* the resyncs, and their snapshots
    published, made,                    \* the book published last; it was made from a diff
    overtaken,                          \* a resync's snapshot has come in the middle of
                                        \* a message of the stream
    flawed                              \* an entry of a snapshot has been dropped

venueVars  == <<venue, stream, reconnects, faults, covered>>
handleVars == <<asm, lastSeq, seeded, resyncing>>
readVars   == <<hpc, msg, out>>
syncVars   == <<rpc, snap>>
bookVars   == <<published, made>>
pastVars   == <<overtaken, flawed>>
vars == <<venueVars, handleVars, readVars, syncVars, bookVars, pastVars>>

\* A timestamp in the place of a number that is missing: no update has it, and it is
\* larger than those of the updates.
Clock == MaxVenue + 1

Diffs == [first : 1..MaxVenue, last : 1..MaxVenue]
Books == [seq : 0..Clock, has : SUBSET (1..MaxVenue), torn : BOOLEAN,
          ready : BOOLEAN, pending : Seq(Diffs)]
Messages == [kind : {"snapshot", "diff"}, seq : 1..MaxVenue]
Nothing == [kind |-> "none", seq |-> 0]

OkxTypeOK ==
    /\ venue \in 1..MaxVenue /\ reconnects \in 0..MaxReconnects /\ faults \in 0..MaxFaults
    /\ stream \in Seq(Messages)
    /\ asm \in Books /\ out \in Books /\ published \in Books
    /\ lastSeq \in 0..Clock
    /\ covered \in Coverage
    /\ seeded \in BOOLEAN /\ resyncing \in BOOLEAN /\ made \in BOOLEAN
    /\ overtaken \in BOOLEAN /\ flawed \in BOOLEAN
    /\ hpc \in {"receive", "show", "init", "look", "apply", "check", "trigger", "spawn"}
    /\ msg \in Messages \union {Nothing}
    /\ rpc \in [Resyncers -> {"none", "fetch", "seed", "show"}]
    /\ snap \in [Resyncers -> Books]

Init ==
    /\ venue = 1 /\ stream = <<[kind |-> "snapshot", seq |-> 1]>>
    /\ reconnects = 0 /\ faults = 0 /\ covered \in Coverage
    /\ asm = New /\ lastSeq = 0 /\ seeded = FALSE /\ resyncing = FALSE
    /\ hpc = "receive" /\ msg = Nothing /\ out = New
    /\ rpc = [r \in Resyncers |-> "none"] /\ snap = [r \in Resyncers |-> New]
    /\ published = New /\ made = FALSE /\ overtaken = FALSE /\ flawed = FALSE

-------------------------------------------------------------------------------
(* The venue *)

Emit ==
    /\ venue < MaxVenue
    /\ venue' = venue + 1
    /\ stream' = Append(stream, [kind |-> "diff", seq |-> venue + 1])
    /\ UNCHANGED <<covered, reconnects, faults, handleVars, readVars, syncVars, bookVars, pastVars>>

Reconnect ==
    /\ reconnects < MaxReconnects
    /\ reconnects' = reconnects + 1
    /\ stream' = <<[kind |-> "snapshot", seq |-> venue]>>
    /\ UNCHANGED <<covered, venue, faults, handleVars, readVars, syncVars, bookVars, pastVars>>

-------------------------------------------------------------------------------
(* handleBooks *)

Prev == msg.seq - 1
Finish == hpc' = "receive" /\ msg' = Nothing

\* The levels of a snapshot of the venue's book at n, one of which may be dropped: an
\* entry without a price or a quantity.
Converted(n) ==
    {ApplySnapshot(n)} \union {[ApplySnapshot(n) EXCEPT !.has = @ \ {u}] : u \in 1..n}

Convert(n, b) ==
    \/ b = ApplySnapshot(n) /\ UNCHANGED <<faults, flawed>>
    \/ /\ b # ApplySnapshot(n)
       /\ faults < MaxFaults /\ faults' = faults + 1 /\ flawed' = TRUE

\* assembler.ApplySnapshot, and its error, which is reported and nothing else.
Install(b) ==
    \/ asm' = b /\ UNCHANGED faults
    \/ faults < MaxFaults /\ faults' = faults + 1 /\ asm' = SnapshotFails(asm)

Receive ==
    /\ hpc = "receive" /\ stream # <<>>
    /\ stream' = Tail(stream)
    /\ \/ /\ Head(stream).kind = "snapshot"
          /\ msg' = Head(stream)
          /\ seeded' = TRUE /\ lastSeq' = Head(stream).seq /\ resyncing' = FALSE
          /\ hpc' = "show"
          /\ \E b \in Converted(Head(stream).seq) : Convert(Head(stream).seq, b) /\ out' = b
       \/ /\ Head(stream).kind = "diff"
          /\ msg' = Head(stream)
          /\ hpc' = "look"
          /\ UNCHANGED <<faults, flawed, seeded, lastSeq, resyncing, out>>
       \/ /\ faults < MaxFaults    \* decode error: the message is lost
          /\ faults' = faults + 1
          /\ UNCHANGED <<hpc, msg, flawed, seeded, lastSeq, resyncing, out>>
    /\ UNCHANGED <<covered, venue, reconnects, asm, syncVars, bookVars, overtaken>>

\* A stream snapshot is published, though its checksum be wrong, and only then given
\* to the assembler.
ShowSnapshot ==
    /\ hpc = "show"
    /\ published' = out /\ made' = FALSE
    /\ hpc' = "init"
    /\ UNCHANGED <<venueVars, handleVars, msg, out, syncVars, pastVars>>

InitAssembler ==
    /\ hpc = "init"
    /\ Install(out) /\ out' = New
    /\ Finish
    /\ UNCHANGED <<covered, venue, stream, reconnects, lastSeq, seeded, resyncing, syncVars, bookVars,
                   pastVars>>

Gap_Ignored(n) == FALSE
Gap(n) == Prev # n

\* What the handle holds is read under its lock, which is free again before the
\* diff is applied.
Look ==
    /\ hpc = "look"
    /\ \/ ~seeded /\ resyncing /\ hpc' = "receive" /\ msg' = Nothing
       \/ ~seeded /\ ~resyncing /\ hpc' = "trigger" /\ UNCHANGED msg
       \/ seeded /\ Gap(lastSeq) /\ hpc' = "trigger" /\ UNCHANGED msg
       \/ seeded /\ ~Gap(lastSeq) /\ hpc' = "apply" /\ UNCHANGED msg
    /\ UNCHANGED <<venueVars, handleVars, out, syncVars, bookVars, pastVars>>

\* triggerOrderBookResync
Trigger ==
    /\ hpc = "trigger"
    /\ IF resyncing
       THEN Finish /\ UNCHANGED <<seeded, lastSeq, resyncing>>
       ELSE /\ seeded' = FALSE /\ lastSeq' = 0 /\ resyncing' = TRUE
            /\ hpc' = "spawn"
            /\ UNCHANGED msg
    /\ UNCHANGED <<venueVars, asm, out, syncVars, bookVars, pastVars>>

Spawn ==
    /\ hpc = "spawn"
    /\ \E r \in Resyncers :
         /\ rpc[r] = "none"
         /\ rpc' = [rpc EXCEPT ![r] = "fetch"]
    /\ Finish
    /\ UNCHANGED <<venueVars, handleVars, out, snap, bookVars, pastVars>>

\* assembler.ApplyDiff and the handle's new state, in one locked section
Apply ==
    /\ hpc = "apply"
    /\ LET d == Diff(msg.seq, msg.seq) IN
         \/ /\ Applies(asm, d)
            /\ asm' = ApplyDiff(asm, d)
            /\ out' = asm'
            /\ lastSeq' = msg.seq /\ resyncing' = FALSE
            /\ hpc' = "check"
            /\ UNCHANGED <<faults, msg, seeded>>
         \/ /\ ~Applies(asm, d)
            /\ asm' = ApplyDiff(asm, d)
            /\ Finish
            /\ UNCHANGED <<faults, out, lastSeq, seeded, resyncing>>
         \/ /\ Applies(asm, d) /\ faults < MaxFaults
            /\ faults' = faults + 1
            /\ asm' = DiffFails(asm)
            /\ seeded' = FALSE /\ lastSeq' = 0 /\ resyncing' = FALSE
            /\ hpc' = "trigger"
            /\ UNCHANGED <<msg, out>>
    /\ UNCHANGED <<covered, venue, stream, reconnects, syncVars, bookVars, pastVars>>

\* A book made from a diff is not published when it does not match the venue's
\* checksum, which covers the levels at the top; a zero is not compared.
TopExact(b) == \A n \in b.has : covered \intersect 1..n \subseteq b.has
Matches_Unchecked(b) == TRUE
Matches(b) == TopExact(b)

Check ==
    /\ hpc = "check"
    /\ out' = New
    /\ IF Matches(out)
       THEN published' = out /\ made' = TRUE /\ Finish
       ELSE hpc' = "trigger" /\ UNCHANGED <<bookVars, msg>>
    /\ UNCHANGED <<venueVars, handleVars, syncVars, pastVars>>

-------------------------------------------------------------------------------
(* resyncOrderBook *)

\* The venue's book of the moment, or a little older.  An answer without a number gets
\* a timestamp for it; its checksum is compared with itself.
Fetch(r) ==
    /\ rpc[r] = "fetch"
    /\ \/ /\ \E n \in 1..venue :
               /\ venue - n <= MaxLag
               /\ \E b \in Converted(n), id \in {n, Clock} :
                     /\ Convert(n, b)
                     /\ snap' = [snap EXCEPT ![r] = [b EXCEPT !.seq = id]]
          /\ rpc' = [rpc EXCEPT ![r] = "seed"]
          /\ UNCHANGED resyncing
       \/ /\ faults < MaxFaults /\ faults' = faults + 1
          /\ resyncing' = FALSE
          /\ rpc' = [rpc EXCEPT ![r] = "none"]
          /\ UNCHANGED <<snap, flawed>>
    /\ UNCHANGED <<covered, venue, stream, reconnects, asm, lastSeq, seeded, readVars, bookVars,
                   overtaken>>

Over_Kept == resyncing
Over == FALSE

Seed(r) ==
    /\ rpc[r] = "seed"
    /\ seeded' = TRUE /\ lastSeq' = snap[r].seq /\ resyncing' = Over
    /\ Install(snap[r])
    /\ rpc' = [rpc EXCEPT ![r] = "show"]
    /\ overtaken' = (overtaken \/ hpc \in {"show", "init", "apply"})
    /\ UNCHANGED <<covered, venue, stream, reconnects, readVars, snap, bookVars, flawed>>

ShowResync(r) ==
    /\ rpc[r] = "show"
    /\ published' = snap[r] /\ made' = FALSE
    /\ rpc' = [rpc EXCEPT ![r] = "none"]
    /\ snap' = [snap EXCEPT ![r] = New]
    /\ UNCHANGED <<venueVars, handleVars, readVars, pastVars>>

-------------------------------------------------------------------------------
HandleBooks == Receive \/ ShowSnapshot \/ InitAssembler \/ Look \/ Trigger \/ Spawn \/ Apply \/ Check
Resync(r) == Fetch(r) \/ Seed(r) \/ ShowResync(r)

Next == Emit \/ Reconnect \/ HandleBooks \/ \E r \in Resyncers : Resync(r)

Spec == Init /\ [][Next]_vars

\* Goroutines run, and REST calls are answered; the venue need not send anything.
FairSpec == Spec /\ WF_vars(HandleBooks) /\ \A r \in Resyncers : WF_vars(Resync(r))

-------------------------------------------------------------------------------
(* Properties *)

\* "If you detect missed sequences ... fetch a fresh snapshot, and replay diffs": a book
\* made from a diff lacks no update of the levels that checksums cover, though a
\* snapshot came between the comparisons and the diff's application.  Nor does the book
\* that the next diff will be applied to: one that has a gap is left to a resync, and a
\* resync under way never keeps another from starting for it.  An entry dropped from a
\* snapshot is found with the next diff.  Below these levels the checksum shows nothing.
PublishedExact ==
    /\ made \/ ~flawed => TopExact(published)
    /\ ~flawed /\ hpc = "receive" /\ seeded /\ asm.ready => TopExact(asm)

\* With or without checksums: no update is missing from what is published, at any
\* level, unless a resync's snapshot came between two steps of the handler on one
\* message, or an entry of a snapshot was dropped.
Complete(b) == ~b.torn /\ \E n \in 0..MaxVenue : b.has = 1..n /\ b.seq \in {n, Clock}
GapsAreFound == ~overtaken /\ ~flawed => Complete(published)

\* A resync ends: the flag, which keeps other resyncs from starting, is taken back.
ResyncEnds == resyncing ~> ~resyncing

\* Why GapsAreFound is inductive: the handle's number is the book's, except while a
\* snapshot of the stream is on its way to the assembler; and a diff is applied
\* to the book it was compared with, if there is one.
Showing == hpc \in {"show", "init"}
HasMessage == hpc \in {"show", "init", "look", "apply"} => msg \in Messages

NumberIsTheBooks ==
    /\ Showing => seeded /\ lastSeq = msg.seq /\ out.seq = msg.seq
    /\ seeded /\ ~Showing /\ asm.ready => asm.seq = lastSeq /\ Complete(asm)
    /\ hpc = "apply" => seeded /\ ~Gap(lastSeq)

\* Why PublishedExact is: a book with a gap is used no more, but by the steps from the
\* diff that made it to the resync, while the flag is down.
Usable == seeded /\ asm.ready => TopExact(asm)
Firm ==
    /\ TopExact(published) /\ (Showing => TopExact(out))
    /\ hpc = "check" => ~resyncing /\ (asm # out => Usable)
    /\ hpc \notin {"show", "init", "check"} /\ (hpc = "trigger" => resyncing) => Usable

OkxInv ==
    /\ OkxTypeOK /\ HasMessage
    /\ made => TopExact(published)
    /\ ~flawed => Firm /\ \A r \in Resyncers : Complete(snap[r])
    /\ ~overtaken /\ ~flawed => NumberIsTheBooks /\ Complete(out) /\ Complete(published)
===============================================================================
