------------------------------ MODULE RiskManager ------------------------------
(***************************************************************************)
(* The risk manager (app/risk/risk.go), one for all the lambdas: the       *)
(* orders that have passed its check and are not known to have ended, with *)
(* what it has seen filled of each, the slots they take, the positions,    *)
(* and the halt with its breaker.  Each method runs under the lock.        *)
(*                                                                         *)
(* Left out: the throttle (an order may be refused before the check), the  *)
(* notional limit and the price band (an order may be refused as invalid;  *)
(* a fill may breach the limit only as a position does), and               *)
(* ResetKillSwitch, which has no caller.                                   *)
(***************************************************************************)
EXTENDS Integers, FiniteSets, Functions

CONSTANTS
    Orders, Symbols,
    SymbolOf,      \* the symbol of an order
    Signed,        \* its quantity: positive to buy, negative to sell
    LimitSets      \* the limits that may be configured

ASSUME RiskAssumption ==
    /\ IsFiniteSet(Orders)
    /\ SymbolOf \in [Orders -> Symbols]
    /\ Signed \in [Orders -> Int] /\ \A o \in Orders : Signed[o] # 0
    /\ LimitSets \subseteq [maxPosition : Nat, maxConcurrent : Nat, killSwitch : BOOLEAN,
                            maxBreaches : Nat, breaker : BOOLEAN, threshold : Nat, cools : BOOLEAN]
    /\ LimitSets # {}

VARIABLES
    limits,
    filled,        \* m.orders: the orders registered, with the quantity seen filled
    inflight,      \* by symbol
    position,      \* by symbol
    halt           \* failureCount, killSwitch and cooldownUntil

riskVars == <<limits, filled, inflight, position, halt>>

Magnitude(n) == IF n < 0 THEN -n ELSE n
Quantity(o) == Magnitude(Signed[o])
Sign(o) == IF Signed[o] < 0 THEN -1 ELSE 1

Terminal == {"FILLED", "CANCELLED", "REJECTED", "EXPIRED"}
ReportStates == Terminal \union {"ACK", "PARTIAL"}
Reports == [order : Orders, cum : Nat, state : ReportStates]

Registered == DOMAIN filled
SlotsOf(s) == {o \in Registered : SymbolOf[o] = s}

RiskTypeOK ==
    /\ limits \in LimitSets
    /\ Registered \subseteq Orders /\ \A o \in Registered : filled[o] \in 0..Quantity(o)
    /\ inflight \in [Symbols -> Nat] /\ position \in [Symbols -> Int]
    /\ halt \in [failures : Nat, engaged : BOOLEAN, cooldown : {"unset", "running", "over"}]

RiskInit ==
    /\ limits \in LimitSets
    /\ filled = <<>>
    /\ inflight = [s \in Symbols |-> 0] /\ position = [s \in Symbols |-> 0]
    /\ halt = [failures |-> 0, engaged |-> FALSE, cooldown |-> "unset"]

-------------------------------------------------------------------------------
(* The halt *)

\* engageKillSwitchLocked does nothing where the kill switch is not enabled.
Engage(h) ==
    IF limits.killSwitch
    THEN [h EXCEPT !.engaged = TRUE,
                   !.cooldown = IF limits.breaker /\ limits.cools THEN "running" ELSE @]
    ELSE h

Reached(n, most) == most > 0 /\ n >= most

\* recordRiskBreachLocked
Breach(h) ==
    LET g == [h EXCEPT !.failures = @ + 1] IN
    IF Reached(g.failures, limits.maxBreaches) \/ (limits.breaker /\ Reached(g.failures, limits.threshold))
    THEN Engage(g) ELSE g

\* ensureTradingActiveLocked; the count of failures is not taken back.
Lifted(h) ==
    IF h.engaged /\ limits.breaker /\ h.cooldown = "over" THEN [h EXCEPT !.engaged = FALSE] ELSE h

\* Time passes.
Cooled ==
    /\ halt.cooldown = "running"
    /\ halt' = [halt EXCEPT !.cooldown = "over"]
    /\ UNCHANGED <<limits, filled, inflight, position>>

UpdateLimits ==
    /\ limits' \in LimitSets
    /\ UNCHANGED <<filled, inflight, position, halt>>

-------------------------------------------------------------------------------
(* CheckOrder, after the throttle *)

Beyond(n) == limits.maxPosition > 0 /\ Magnitude(n) > limits.maxPosition

HasSlot_OffByOne(s) == limits.maxConcurrent > 0 => inflight[s] <= limits.maxConcurrent
HasSlot(s) == limits.maxConcurrent > 0 => inflight[s] < limits.maxConcurrent

Halted == Lifted(halt).engaged

RefuseHalted ==
    /\ Halted
    /\ halt' = Lifted(halt)
    /\ UNCHANGED <<limits, filled, inflight, position>>

\* As if the slot were taken before the order is validated.
RefuseOrder_TakesSlot(o, invalid) ==
    /\ ~Halted
    /\ invalid
    /\ halt' = Breach(Lifted(halt))
    /\ inflight' = [inflight EXCEPT ![SymbolOf[o]] = @ + 1]
    /\ UNCHANGED <<limits, filled, position>>

RefuseOrder(o, invalid) ==
    /\ ~Halted
    /\ \/ invalid
       \/ Beyond(position[SymbolOf[o]] + Signed[o])
       \/ ~HasSlot(SymbolOf[o])
    /\ halt' = Breach(Lifted(halt))
    /\ UNCHANGED <<limits, filled, inflight, position>>

Register(o) ==
    /\ ~Halted
    /\ ~Beyond(position[SymbolOf[o]] + Signed[o])
    /\ HasSlot(SymbolOf[o])
    /\ halt' = Lifted(halt)
    /\ filled' = [p \in Registered \union {o} |-> IF p = o THEN 0 ELSE filled[p]]
    /\ inflight' = [inflight EXCEPT ![SymbolOf[o]] = @ + 1]
    /\ UNCHANGED <<limits, position>>

-------------------------------------------------------------------------------
(* HandleExecution *)

\* Reports carry the quantity filled so far; those that come late change nothing.
Fresh_Cumulative(r) == r.cum
Fresh(r) == IF r.cum > filled[r.order] THEN r.cum - filled[r.order] ELSE 0

\* The breach is recorded, and the switch engaged whatever the count.
AfterFill(h, p) == IF Beyond(p) THEN Engage(Breach(h)) ELSE h
AfterReject(h, r) == IF r.state = "REJECTED" /\ limits.killSwitch THEN Breach(h) ELSE h

Release(n) == IF n > 0 THEN n - 1 ELSE 0

Execute(r) ==
    LET s == SymbolOf[r.order]
        p == position[s] + Sign(r.order) * Fresh(r)
        h == IF Fresh(r) > 0 THEN AfterFill(halt, p) ELSE halt
    IN  /\ position' = [position EXCEPT ![s] = p]
        /\ halt' = AfterReject(h, r)
        /\ IF r.state \in Terminal
           THEN /\ filled' = Restrict(filled, Registered \ {r.order})
                /\ inflight' = [inflight EXCEPT ![s] = Release(@)]
           ELSE /\ filled' = [filled EXCEPT ![r.order] = @ + Fresh(r)]
                /\ UNCHANGED inflight
        /\ UNCHANGED limits

\* An order that is not registered: the report is ignored.
HandleExecution(r) ==
    IF r.order \in Registered THEN Execute(r) ELSE UNCHANGED riskVars

-------------------------------------------------------------------------------
(* Properties *)

\* The slots taken of a symbol are its registered orders, however often a report
\* is repeated.
SlotsAreOrders == \A s \in Symbols : inflight[s] = Cardinality(SlotsOf(s))

\* While trading is halted and the breaker has not cooled, no order is registered,
\* whatever is configured, filled or reported in the meantime.
HaltHolds ==
    [][halt.engaged /\ halt.cooldown # "over" => Registered' \subseteq Registered]_riskVars
===============================================================================
