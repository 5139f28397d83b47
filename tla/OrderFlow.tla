------------------------------- MODULE OrderFlow -------------------------------
(***************************************************************************)
(* Orders from the lambdas to the venues and back (app/lambda/core/base.   *)
(* go): SubmitOrder, which checks, stores and submits, each order in a     *)
(* goroutine of its own, and handleExecReport, in other goroutines, on     *)
(* what the venue reports.                                                 *)
(*                                                                         *)
(* A report may come before SubmitOrder has its answer, out of order (the  *)
(* answer to the submission is published as a report too), more than once  *)
(* (the outbox hands events over again) or never (the bus drops events     *)
(* when a lambda is slow).  `reports` is all that was ever sent.           *)
(***************************************************************************)
EXTENDS RiskManager

CONSTANTS
    Lambdas,
    Owner,         \* the lambda of an order
    Extends,       \* <<k, l>>: the name of l is that of k, a dash and more
    StoreTakesIds, \* whether the store accepts the ids SubmitOrder makes: Postgres's
                   \* parses them as UUIDs, which they are not
    MaxFaults      \* bound: failed calls to the store and lost answers of the venue

ASSUME FlowAssumption ==
    /\ Owner \in [Orders -> Lambdas]
    /\ Extends \subseteq Lambdas \X Lambdas
    /\ StoreTakesIds \in BOOLEAN
    /\ MaxFaults \in Nat

VARIABLES
    stage,         \* SubmitOrder, for each order
    row,           \* the state in the order's row
    venue,         \* the order at the venue: its state and what is filled
    reports,
    faults

flowVars == <<stage, row, venue, reports, faults>>
vars == <<riskVars, flowVars>>

Stages == {"new", "check", "persist", "submit", "answer", "failing", "refused", "failed", "done"}
RowStates == {"none", "PENDING"} \union ReportStates

TypeOK ==
    /\ RiskTypeOK
    /\ stage \in [Orders -> Stages]
    /\ row \in [Orders -> RowStates]
    /\ venue \in [Orders -> [state : {"none", "open", "closed"}, filled : Nat]]
    /\ reports \subseteq Reports
    /\ faults \in 0..MaxFaults

Init ==
    /\ RiskInit
    /\ stage = [o \in Orders |-> "new"]
    /\ row = [o \in Orders |-> "none"]
    /\ venue = [o \in Orders |-> [state |-> "none", filled |-> 0]]
    /\ reports = {} /\ faults = 0

Goto(o, l) == stage' = [stage EXCEPT ![o] = l]
Fault == faults < MaxFaults /\ faults' = faults + 1
NoFault == UNCHANGED faults

-------------------------------------------------------------------------------
(* SubmitOrder and SubmitMarketOrder *)

\* The pool or the throttle may refuse.
Acquire(o) ==
    /\ stage[o] = "new"
    /\ Goto(o, "check") \/ Goto(o, "refused")
    /\ UNCHANGED <<riskVars, row, venue, reports, faults>>

\* CheckOrder; an order may be invalid (type, quantity, price, band, notional).
Check(o) ==
    /\ stage[o] = "check"
    /\ \/ Register(o) /\ Goto(o, "persist")
       \/ RefuseHalted /\ Goto(o, "refused")
       \/ \E invalid \in BOOLEAN : RefuseOrder(o, invalid) /\ Goto(o, "refused")
    /\ UNCHANGED <<row, venue, reports, faults>>

\* persistNewOrder; a row may be there although the call has failed.
Persist(o) ==
    /\ stage[o] = "persist"
    /\ \/ /\ StoreTakesIds
          /\ row' = [row EXCEPT ![o] = "PENDING"]
          /\ (Goto(o, "submit") /\ NoFault) \/ (Goto(o, "failed") /\ Fault)
       \/ /\ Goto(o, "failed") /\ UNCHANGED row
          /\ IF StoreTakesIds THEN Fault ELSE NoFault
    /\ UNCHANGED <<riskVars, venue, reports>>

\* The request arrives at the venue, or is refused or lost on the way.
Reach(o) ==
    /\ stage[o] = "submit"
    /\ \/ Goto(o, "answer") /\ venue' = [venue EXCEPT ![o].state = "open"]
       \/ Goto(o, "failing") /\ UNCHANGED venue
    /\ UNCHANGED <<riskVars, row, reports, faults>>

\* The answer, published as a report of what the venue then knew; or none.
Answer(o) ==
    /\ stage[o] = "answer"
    /\ \/ /\ Goto(o, "done") /\ NoFault
          /\ reports' = reports \union {[order |-> o, cum |-> 0, state |-> "ACK"]}
       \/ Goto(o, "failing") /\ Fault /\ UNCHANGED reports
    /\ UNCHANGED <<riskVars, row, venue>>

\* persistOrderFailure, whatever the row says; its own failure is logged.
RecordFailure(o) ==
    /\ stage[o] = "failing"
    /\ Goto(o, "failed")
    /\ \/ row' = [row EXCEPT ![o] = "REJECTED"] /\ NoFault
       \/ Fault /\ UNCHANGED row
    /\ UNCHANGED <<riskVars, venue, reports>>

-------------------------------------------------------------------------------
(* The venue *)

Report(o, cum, state) == reports' = reports \union {[order |-> o, cum |-> cum, state |-> state]}

Fill(o) ==
    /\ venue[o].state = "open"
    /\ \E n \in (venue[o].filled + 1)..Quantity(o) :
         /\ venue' = [venue EXCEPT ![o] = [state |-> IF n = Quantity(o) THEN "closed" ELSE "open",
                                           filled |-> n]]
         /\ Report(o, n, IF n = Quantity(o) THEN "FILLED" ELSE "PARTIAL")
    /\ UNCHANGED <<riskVars, stage, row, faults>>

End(o) ==
    /\ venue[o].state = "open"
    /\ venue' = [venue EXCEPT ![o].state = "closed"]
    /\ \E s \in {"CANCELLED", "REJECTED", "EXPIRED"} :
         /\ s = "REJECTED" => venue[o].filled = 0
         /\ Report(o, venue[o].filled, s)
    /\ UNCHANGED <<riskVars, stage, row, faults>>

-------------------------------------------------------------------------------
(* handleExecReport *)

\* IsMyOrder compares the beginning of the order's id with the lambda's and a dash.
IsMyOrder(l, o) == Owner[o] = l \/ <<l, Owner[o]>> \in Extends

\* persistExecReport stores the state, a late one too (Ledger has the rest).  The two
\* calls are one step: no property compares the row with what the manager
\* holds, and any of them may be repeated.
Handle(l, r) ==
    /\ r \in reports
    /\ IsMyOrder(l, r.order)
    /\ \/ row' = [row EXCEPT ![r.order] = r.state] /\ NoFault
       \/ Fault /\ UNCHANGED row
    /\ HandleExecution(r)
    /\ UNCHANGED <<stage, venue, reports>>

-------------------------------------------------------------------------------
SubmitOrder(o) ==
    Acquire(o) \/ Check(o) \/ Persist(o) \/ Reach(o) \/ Answer(o) \/ RecordFailure(o)

Venue(o) == Fill(o) \/ End(o)

RiskControl == (Cooled \/ UpdateLimits) /\ UNCHANGED flowVars

Next ==
    \/ \E o \in Orders : SubmitOrder(o) \/ Venue(o)
    \/ \E l \in Lambdas, r \in reports : Handle(l, r)
    \/ RiskControl

Spec == Init /\ [][Next]_vars

-------------------------------------------------------------------------------
(* Properties *)

OrdersOf(s) == {o \in Orders : SymbolOf[o] = s}

\* What was traded of each order, at the venue and as far as the manager knows of it.
Traded == [o \in Orders |-> Sign(o) * venue[o].filled]
Seen == [o \in Orders |-> IF o \in Registered THEN Sign(o) * filled[o] ELSE Traded[o]]

\* A position is what was filled of each order: all of it once the order is no
\* longer registered, what the reports have told before that.  No fill counts
\* twice, in whatever order and however often reports come, and none is lost
\* with the report that ends the order.
PositionIsFills == \A s \in Symbols : position[s] = SumFunctionOnSet(Seen, OrdersOf(s))

OpenAt(s) == {o \in OrdersOf(s) : venue[o].state = "open"}

\* The venue never has more open orders of a symbol than CheckOrder admits,
\* although only reports, late and repeated ones too, give slots back.
OpenWithinLimit ==
    \A s \in Symbols : limits.maxConcurrent > 0 => Cardinality(OpenAt(s)) <= limits.maxConcurrent

\* Where a symbol may have one order at a time, what was really traded stays
\* within the position limit: the check need not count other orders.
ExposureWithinLimit ==
    \A s \in Symbols :
        limits.maxConcurrent = 1 /\ limits.maxPosition > 0
            => Magnitude(SumFunctionOnSet(Traded, OrdersOf(s))) <= limits.maxPosition

\* Both limits, over everything that reaches the venue.
VenueWithinLimits == OpenWithinLimit /\ ExposureWithinLimit

\* Why SlotsAreOrders is inductive: an order takes its slot once, for it is not
\* registered before its check.
SlotInv ==
    /\ Registered \subseteq Orders
    /\ inflight \in [Symbols -> Nat]
    /\ stage \in [Orders -> Stages]
    /\ \A o \in Orders : stage[o] \in {"new", "check"} => o \notin Registered
    /\ SlotsAreOrders

\* Why PositionIsFills is: an order is at the venue only while it is registered or after
\* a report has ended it; reports never tell more than was filled, and the one that
\* ends an order tells all of it.
OrderInv ==
    \A o \in Orders :
        /\ stage[o] \in {"new", "check", "refused"} => venue[o].state = "none"
        /\ stage[o] \in {"persist", "submit"} => o \in Registered /\ venue[o].state = "none"
        /\ venue[o].state = "none" => venue[o].filled = 0
        /\ venue[o].state = "open" => o \in Registered
        /\ venue[o].filled <= Quantity(o)
        /\ o \in Registered => filled[o] <= venue[o].filled

ReportInv ==
    \A r \in reports :
        /\ r.cum <= venue[r.order].filled
        /\ r.state \in Terminal => venue[r.order].state = "closed" /\ r.cum = venue[r.order].filled

FlowInv == TypeOK /\ SlotInv /\ OrderInv /\ ReportInv /\ PositionIsFills

\* Why VenueWithinLimits is: the orders that are over are within the position limit, with
\* the whole of any registered one too, which is alone where one is admitted.
Over == [o \in Orders |-> IF o \in Registered THEN 0 ELSE Traded[o]]
LimitInv ==
    \A s \in Symbols :
        LET settled == SumFunctionOnSet(Over, OrdersOf(s)) IN
        /\ limits.maxConcurrent > 0 => Cardinality(SlotsOf(s)) <= limits.maxConcurrent
        /\ limits.maxConcurrent = 1 /\ limits.maxPosition > 0 =>
              /\ ~Beyond(settled)
              /\ \A o \in SlotsOf(s) : ~Beyond(settled + Signed[o])

\* "SubmitOrder submits an order request to the specified provider": without a
\* fault, an order that has passed the check goes to the provider.
CheckedIsSubmitted ==
    \A o \in Orders : stage[o] = "failed" /\ faults = 0 => row[o] # "none"
===============================================================================
