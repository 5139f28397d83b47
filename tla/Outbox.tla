------------------------------- MODULE Outbox -------------------------------
(***************************************************************************)
(* The durable bus (infra/bus/eventbus/durable.go) over the events_outbox  *)
(* table (infra/persistence/postgres/outbox_store.go and                   *)
(* sql/events_outbox.sql): gateways that publish events live, and the      *)
(* replay worker of each, which claims rows under a lease and publishes    *)
(* them again.  Gateways close, crash and restart; every database call and *)
(* every publication on the inner bus may fail.                            *)
(*                                                                         *)
(* Time is relative: `wait` is how long a row is not yet available, `age`  *)
(* how long ago it was claimed, both in ticks and saturated.  A database   *)
(* statement is atomic.  MemoryBus is the inner bus; here a publication on *)
(* it is accepted (nil) or fails, possibly after some subscribers got it.  *)
(***************************************************************************)
EXTENDS Integers, FiniteSets

CONSTANTS
    Rows,         \* events, each published once and stored in a row of its own
    Gateways,     \* processes on the same database
    Home,         \* the gateway that publishes each event
    Batch,        \* replayBatchSize
    Lease,        \* replayLease, in ticks
    RetryDelay,   \* the 30 seconds of ResetEventForRetry, in ticks
    MaxFaults,    \* bound: calls that fail, closings and crashes, in all
    None

ASSUME OutboxAssumption ==
    /\ IsFiniteSet(Rows)
    /\ Home \in [Rows -> Gateways]
    /\ Batch \in Nat \ {0} /\ Lease \in Nat \ {0} /\ RetryDelay \in Nat
    /\ MaxFaults \in Nat /\ None \notin Rows

VARIABLES
    status, wait, age,             \* the table
    pub,                           \* the live publication of each event
    gate,                          \* each gateway
    batch, cur, wpc,               \* its worker: rows left, row in hand, step
    accepted,                      \* the events a publication of which returned nil
    faults

tableVars  == <<status, wait, age>>
workerVars == <<batch, cur, wpc>>
vars == <<tableVars, pub, gate, workerVars, accepted, faults>>

TypeOK ==
    /\ status \in [Rows -> {"none", "pending", "processing", "delivered"}]
    /\ wait \in [Rows -> 0..RetryDelay]
    /\ age \in [Rows -> 0..(Lease + 1)]
    /\ pub \in [Rows -> {"new", "stored", "accepted", "failed", "ok", "error"}]
    /\ gate \in [Gateways -> {"up", "closing", "down"}]
    /\ batch \in [Gateways -> SUBSET Rows]
    /\ \A g \in Gateways : Cardinality(batch[g]) <= Batch
    /\ cur \in [Gateways -> Rows \union {None}]
    /\ wpc \in [Gateways -> {"idle", "publish", "accepted", "failed"}]
    /\ accepted \subseteq Rows
    /\ faults \in 0..MaxFaults

Init ==
    /\ status = [r \in Rows |-> "none"]
    /\ wait = [r \in Rows |-> 0] /\ age = [r \in Rows |-> 0]
    /\ pub = [r \in Rows |-> "new"]
    /\ gate = [g \in Gateways |-> "up"]
    /\ batch = [g \in Gateways |-> {}] /\ cur = [g \in Gateways |-> None]
    /\ wpc = [g \in Gateways |-> "idle"]
    /\ accepted = {}
    /\ faults = 0

Fault == faults < MaxFaults /\ faults' = faults + 1
NoFault == UNCHANGED faults

-------------------------------------------------------------------------------
(* The statements *)

\* OutboxStore.Enqueue
Insert(r) ==
    /\ status' = [status EXCEPT ![r] = "pending"]
    /\ UNCHANGED <<wait, age>>

\* ClaimPendingEvents: pending rows, and rows whose claim is older than the lease
Lapsed_Never(r) == FALSE
Lapsed(r) == status[r] = "processing" /\ age[r] > Lease

Claimable == {r \in Rows : (status[r] = "pending" \/ Lapsed(r)) /\ wait[r] = 0}

WithinLimit(S) == Cardinality(S) <= Batch

Claimed(S) ==
    /\ status' = [r \in Rows |-> IF r \in S THEN "processing" ELSE status[r]]
    /\ age' = [r \in Rows |-> IF r \in S THEN 0 ELSE age[r]]
    /\ UNCHANGED wait

\* MarkDelivered, whatever the row's state
Delivered(r) ==
    /\ status' = [status EXCEPT ![r] = "delivered"]
    /\ age' = [age EXCEPT ![r] = 0]
    /\ UNCHANGED wait

\* MarkFailed
Retryable_Always(r) == TRUE
Retryable(r) == status[r] \in {"pending", "processing"}

ResetForRetry(r) ==
    IF ~Retryable(r) THEN UNCHANGED tableVars
    ELSE /\ status' = [status EXCEPT ![r] = "pending"]
         /\ age' = [age EXCEPT ![r] = 0]
         /\ wait' = [wait EXCEPT ![r] = RetryDelay]

-------------------------------------------------------------------------------
(* Publish, of the event r, live *)

\* The payload is over the cap, or Enqueue fails before it has stored the row.
Refuse(r) ==
    /\ pub[r] = "new" /\ gate[Home[r]] # "down"
    /\ Fault
    /\ pub' = [pub EXCEPT ![r] = "error"]
    /\ UNCHANGED <<tableVars, gate, workerVars, accepted>>

\* Enqueue stores the row; its answer may get lost.
Enqueue(r) ==
    /\ pub[r] = "new" /\ gate[Home[r]] # "down"
    /\ Insert(r)
    /\ \/ NoFault /\ pub' = [pub EXCEPT ![r] = "stored"]
       \/ Fault /\ pub' = [pub EXCEPT ![r] = "error"]
    /\ UNCHANGED <<gate, workerVars, accepted>>

AfterFailure_Accepted == "accepted"
AfterFailure == "failed"

\* inner.Publish returns, with nil or an error.
Accept(r) == accepted' = accepted \union {r}

PublishLive(r) ==
    /\ pub[r] = "stored"
    /\ \/ NoFault /\ Accept(r) /\ pub' = [pub EXCEPT ![r] = "accepted"]
       \/ Fault /\ UNCHANGED accepted /\ pub' = [pub EXCEPT ![r] = AfterFailure]
    /\ UNCHANGED <<tableVars, gate, workerVars>>

\* markFailure: its own failure is only logged, and Publish returns the error.
FailLive(r) ==
    /\ pub[r] = "failed"
    /\ pub' = [pub EXCEPT ![r] = "error"]
    /\ \/ NoFault /\ ResetForRetry(r)
       \/ Fault /\ UNCHANGED tableVars
    /\ UNCHANGED <<gate, workerVars, accepted>>

\* MarkDelivered: when it fails, whether it was executed or not, Publish fails.
SettleLive(r) ==
    /\ pub[r] = "accepted"
    /\ \/ NoFault /\ Delivered(r) /\ pub' = [pub EXCEPT ![r] = "ok"]
       \/ Fault /\ (Delivered(r) \/ UNCHANGED tableVars) /\ pub' = [pub EXCEPT ![r] = "error"]
    /\ UNCHANGED <<gate, workerVars, accepted>>

-------------------------------------------------------------------------------
(* The replay worker of gateway g *)

\* Its context is cancelled: no database call gets through, though a
\* publication may.
Cancelled(g) == gate[g] = "closing"
WorkerFault(g) == IF Cancelled(g) THEN NoFault ELSE Fault

\* A tick of the worker.  Which claimable rows it gets is left open (the oldest,
\* but locked ones are skipped), and RETURNING gives them in no particular order.
Claim(g) ==
    /\ gate[g] = "up" /\ wpc[g] = "idle" /\ batch[g] = {}
    /\ \E S \in (SUBSET Claimable) \ {{}} :
         /\ WithinLimit(S)
         /\ Claimed(S)
         /\ \/ NoFault /\ batch' = [batch EXCEPT ![g] = S]
            \/ Fault /\ UNCHANGED batch     \* committed, but the answer is lost
    /\ UNCHANGED <<cur, wpc, pub, gate, accepted>>

NextRecord(g) ==
    /\ wpc[g] = "idle"
    /\ \E r \in batch[g] :
         /\ cur' = [cur EXCEPT ![g] = r]
         /\ batch' = [batch EXCEPT ![g] = @ \ {r}]
    /\ wpc' = [wpc EXCEPT ![g] = "publish"]
    /\ UNCHANGED <<tableVars, pub, gate, accepted, faults>>

\* prepareReplayEvent and inner.Publish; the event may fail to decode, or none
\* may be free to hold it.
Replay(g) ==
    /\ wpc[g] = "publish"
    /\ \/ NoFault /\ Accept(cur[g]) /\ wpc' = [wpc EXCEPT ![g] = "accepted"]
       \/ /\ WorkerFault(g)
          /\ UNCHANGED accepted
          /\ wpc' = [wpc EXCEPT ![g] = AfterFailure]
    /\ UNCHANGED <<tableVars, pub, gate, batch, cur>>

FinishRecord(g) ==
    /\ wpc' = [wpc EXCEPT ![g] = "idle"]
    /\ cur' = [cur EXCEPT ![g] = None]
    /\ UNCHANGED <<pub, gate, batch, accepted>>

FailReplay(g) ==
    /\ wpc[g] = "failed"
    /\ \/ ~Cancelled(g) /\ NoFault /\ ResetForRetry(cur[g])
       \/ WorkerFault(g) /\ UNCHANGED tableVars
    /\ FinishRecord(g)

SettleReplay(g) ==
    /\ wpc[g] = "accepted"
    /\ \/ ~Cancelled(g) /\ NoFault /\ Delivered(cur[g])
       \/ ~Cancelled(g) /\ Fault /\ Delivered(cur[g])
       \/ WorkerFault(g) /\ UNCHANGED tableVars
    /\ FinishRecord(g)

-------------------------------------------------------------------------------
(* Gateways and time *)

\* Close cancels the worker's context and waits for it.
Close(g) ==
    /\ gate[g] = "up"
    /\ Fault
    /\ gate' = [gate EXCEPT ![g] = "closing"]
    /\ UNCHANGED <<tableVars, pub, workerVars, accepted>>

\* What is in memory is lost.
Vanish(g) ==
    /\ gate' = [gate EXCEPT ![g] = "down"]
    /\ batch' = [batch EXCEPT ![g] = {}]
    /\ cur' = [cur EXCEPT ![g] = None]
    /\ wpc' = [wpc EXCEPT ![g] = "idle"]
    /\ pub' = [r \in Rows |-> IF Home[r] = g /\ pub[r] \in {"stored", "accepted", "failed"}
                              THEN "error" ELSE pub[r]]
    /\ UNCHANGED <<tableVars, accepted>>

Exit(g) ==
    /\ gate[g] = "closing" /\ batch[g] = {} /\ wpc[g] = "idle"
    /\ Vanish(g) /\ NoFault

Crash(g) == gate[g] # "down" /\ Vanish(g) /\ Fault

Restart(g) ==
    /\ gate[g] = "down"
    /\ gate' = [gate EXCEPT ![g] = "up"]
    /\ UNCHANGED <<tableVars, pub, workerVars, accepted, faults>>

Older(n) == IF n > Lease THEN n ELSE n + 1

Tick ==
    /\ wait' = [r \in Rows |-> IF wait[r] > 0 THEN wait[r] - 1 ELSE 0]
    /\ age' = [r \in Rows |-> IF status[r] = "processing" THEN Older(age[r]) ELSE age[r]]
    /\ UNCHANGED <<status, pub, gate, workerVars, accepted, faults>>

-------------------------------------------------------------------------------
Live(r) == PublishLive(r) \/ FailLive(r) \/ SettleLive(r)
Worker(g) == NextRecord(g) \/ Replay(g) \/ FailReplay(g) \/ SettleReplay(g)

Next ==
    \/ \E r \in Rows : Refuse(r) \/ Enqueue(r) \/ Live(r)
    \/ \E g \in Gateways : Claim(g) \/ Worker(g) \/ Close(g) \/ Exit(g) \/ Crash(g) \/ Restart(g)
    \/ Tick

Spec == Init /\ [][Next]_vars

\* Goroutines run, the ticker ticks, and a gateway that is down is started again.
Fairness ==
    /\ WF_vars(Tick)
    /\ \A r \in Rows : WF_vars(Live(r))
    /\ \A g \in Gateways : WF_vars(Claim(g)) /\ WF_vars(Worker(g)) /\ WF_vars(Exit(g) \/ Restart(g))

FairSpec == Spec /\ Fairness

-------------------------------------------------------------------------------
(* Properties *)

\* Publish returns nil only when the row is settled, whatever the worker, other
\* gateways, lost answers and crashes have done to it since.
OkMeansDelivered == \A r \in Rows : pub[r] = "ok" => status[r] = "delivered"

\* The invariant the proofs use: a row exists from Enqueue on; what waits to be
\* settled, by the publisher or by a worker, has been accepted, and so has what
\* is settled.
OutboxInv ==
    /\ TypeOK
    /\ OkMeansDelivered
    /\ \A r \in Rows :
         /\ pub[r] = "new" => status[r] = "none"
         /\ pub[r] \in {"stored", "accepted", "failed"} => status[r] # "none"
         /\ pub[r] = "accepted" => r \in accepted
         /\ status[r] = "delivered" => r \in accepted
    /\ \A g \in Gateways :
         /\ \A r \in batch[g] : status[r] # "none"
         /\ wpc[g] # "idle" => cur[g] \in Rows /\ status[cur[g]] # "none"
         /\ wpc[g] = "accepted" => cur[g] \in accepted

\* ResetEventForRetry's status condition: a late failure never revives a row that
\* another publisher of it has settled.
DeliveredForGood ==
    [][\A r \in Rows : status[r] = "delivered" => status'[r] = "delivered"]_vars

\* A row stored is delivered in the end: no crash, lost answer or failure leaves
\* it where no worker claims it.
StoredIsDelivered == \A r \in Rows : (status[r] # "none") ~> (status[r] = "delivered")

\* The abstract promise: at-least-once hand-off into the inner bus.
Promise == INSTANCE Handoff WITH
    owed <- {r \in Rows : status[r] \in {"pending", "processing"}},
    settled <- {r \in Rows : status[r] = "delivered"}
HandoffSpec == Promise!Spec
===============================================================================
