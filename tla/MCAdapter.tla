------------------------------ MODULE MCAdapter ------------------------------
(* From an exchange to the outbox, in one run: the order books of the two exchanges,
   the feed of one provider, and the durable bus with its table.  `side` says which
   of the four moves; the others stay in one initial state.  The definitions of
   Outbox, of ProviderFeed and of OrderBooks keep their names. *)
EXTENDS Outbox, ProviderFeed, OrderBooks, TLC

CONSTANTS r1, r2, g1, g2, user, ack, refresh, adapter, t1, t2

VARIABLE side

TwoHomes == (r1 :> g1) @@ (r2 :> g2)

\* The user stream and the answers to orders publish execution reports; the refresh
\* of instruments publishes one of them within Start.
AllOne == [p \in {user, ack, refresh} |-> 1]
Reports == user :> "exec" @@ ack :> "exec" @@ refresh :> "instrument"
OneFeed == [p \in {user, ack, refresh} |-> adapter]
Instruments == [AllOne EXCEPT ![user] = 0, ![ack] = 0]
ASSUME FeedHasRoom == FeedAssumption

all == <<side, vars, fvars, binanceVars, okxVars>>

AdapterInit ==
    /\ side \in {"binance", "okx", "feed", "outbox"}
    /\ Init /\ FeedInit /\ BooksInit
    /\ side # "okx" => covered = {}

InOutbox(A) == side = "outbox" /\ A /\ UNCHANGED <<side, fvars, binanceVars, okxVars>>
InFeed(A) == side = "feed" /\ A /\ UNCHANGED <<side, vars, binanceVars, okxVars>>
InBinance(A) == side = "binance" /\ A /\ UNCHANGED <<side, vars, fvars, okxVars>>
InOkx(A) == side = "okx" /\ A /\ UNCHANGED <<side, vars, fvars, binanceVars>>

AdapterNext == \/ InOutbox(Next) \/ InFeed(FeedNext)
               \/ InBinance(Binance!Next) \/ InOkx(Okx!Next)

Fetched(t) == Binance!Fetch(t) /\ current'[t] = venue

\* The fairness of each module, on its side: goroutines run, the pool and the channel
\* serve those who wait, subscribers consume, and a venue answers in the end.
AdapterFairness ==
    /\ WF_vars(side = "outbox" /\ Tick)
    /\ \A r \in Rows : WF_vars(side = "outbox" /\ Live(r))
    /\ \A g \in Gateways : /\ WF_vars(side = "outbox" /\ Claim(g))
                           /\ WF_vars(side = "outbox" /\ Worker(g))
                           /\ WF_vars(side = "outbox" /\ (Exit(g) \/ Restart(g)))
    /\ \A p \in {user, ack, refresh} : WF_fvars(side = "feed" /\ Leaving(p))
    /\ WF_fvars(side = "feed" /\ Seeding(refresh))
    /\ SF_all(InFeed(Producing(user)) \/ InBinance(Fetched(t1)))
    /\ SF_all(InFeed(Producing(ack)) \/ InBinance(Fetched(t2)))
    /\ SF_fvars(side = "feed" /\ Producing(refresh))
    /\ SF_fvars(side = "feed" /\ Dispatching(adapter))
    /\ WF_fvars(side = "feed" /\ Running(adapter))
    /\ WF_fvars(side = "feed" /\ Looping(adapter))
    /\ WF_fvars(side = "feed" /\ Consuming)
    /\ WF_binanceVars(side = "binance" /\ Binance!BookHandler)
    /\ WF_okxVars(side = "okx" /\ Okx!HandleBooks)
    /\ \A t \in {t1, t2} : /\ WF_binanceVars(side = "binance" /\ Binance!Seeder(t))
                           /\ WF_okxVars(side = "okx" /\ Okx!Resync(t))

AdapterSpec == AdapterInit /\ [][AdapterNext]_all /\ AdapterFairness
===============================================================================
