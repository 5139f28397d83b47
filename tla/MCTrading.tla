------------------------------- MODULE MCTrading -------------------------------
(* What reaches a lambda and what it leaves behind, in one run: the feeds of two
   providers, the orders, and the tables of a provider and of its orders.  `side` says
   which of the three moves; the others stay in an initial state. *)
EXTENDS MCOrderFlow, Ledger, ProviderFeed
CONSTANTS user, handler, binance, okx
VARIABLE side

\* A provider with a user stream, and one that publishes an instrument within Start.
Adapter == user :> binance @@ handler :> okx
Stream == user :> "exec" @@ handler :> "instrument"
Seed == user :> 0 @@ handler :> 1
Burst == user :> 4 @@ handler :> 3
ASSUME FeedHasRoom == FeedAssumption

TradingInit ==
    /\ side \in {"orders", "feeds", "ledger"} /\ Init /\ FeedInit /\ LedgerInit
    /\ side # "orders" => limits = CHOOSE l \in LimitSets : TRUE
TradingNext ==
    \/ side = "orders" /\ Next /\ UNCHANGED <<side, fvars, ledgerVars>>
    \/ side = "feeds" /\ FeedNext /\ UNCHANGED <<side, vars, ledgerVars>>
    \/ side = "ledger" /\ LedgerNext /\ UNCHANGED <<side, vars, fvars>>
TradingSpec == TradingInit /\ [][TradingNext]_<<side, vars, fvars, ledgerVars>>

\* The callers of the provider manager are interchangeable.
Symmetry == Permutations(Clients)
===============================================================================
