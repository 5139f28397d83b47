------------------------------- MODULE MCControl -------------------------------
(* What the control API changes beside the lambdas, in one run: routing and the
   strategy registry.  `side` says which of them moves; the other stays in one
   initial state. *)
EXTENDS Routing, StrategyRegistry, TLC

CONSTANTS l1, ticker, book, btc, eth, h1

VARIABLE side

\* One lambda that trades one symbol or the other, by its tickers or by the book too.
EitherSymbol == l1 :> {[t \in Types |-> IF t \in T THEN {s} ELSE {}] :
                          s \in {btc, eth}, T \in {{ticker}, {ticker, book}}}

\* Each source has a tag of its own in its metadata.
OwnTags == [r \in Revisions |-> IF r = h1 THEN "v1" ELSE "v2"]

\* At first nothing has been uploaded, or everything.
ControlInit ==
    /\ side \in {"routes", "starts", "registry"}
    /\ Init
    /\ side = "starts" => cached = NoRoutes
    /\ side = "registry" => status = "absent"
    /\ RegistryInit /\ Listed(registry) \in {{}, Revisions}
    /\ side = "registry" \/ registry = NoEntry

\* Bound: as long as nothing overlaps the lambda may ask for both types, and the database
\* may have routes; otherwise the lambda asks for the tickers only.
ControlNext ==
    \/ side = "routes" /\ Next /\ calm' /\ UNCHANGED <<side, registryVars>>
    \/ side = "starts" /\ Next /\ reg'[l1][book] = {} /\ UNCHANGED <<side, registryVars>>
    \/ side = "registry" /\ RegistryNext /\ UNCHANGED <<side, vars>>

ControlSpec == ControlInit /\ [][ControlNext]_<<side, vars, registryVars>>

\* Clients and symbols are interchangeable; revisions are not, for the first is the default.
Symmetry == Permutations(Clients) \union Permutations(Symbols)
===============================================================================
