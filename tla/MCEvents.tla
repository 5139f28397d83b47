-------------------------------- MODULE MCEvents --------------------------------
(* What events go through, in one run: the pool manager around a pool, and the bus.
   `side` says which moves; the other stays in its initial state.  The bus comes in
   two: one whose subscribers quit, publishers give up and that is closed, for safety;
   one without, where every event must come home. *)
EXTENDS PoolManager, MemoryBus

VARIABLE side

Calm == INSTANCE MemoryBus WITH
    BufferSize <- 1, Quitters <- {}, Impatient <- {}, MayClose <- FALSE
ASSUME BusHasRoom == BusAssumption /\ Calm!BusAssumption

EventsInit == side \in {"pool", "bus", "calm"} /\ ManagerInit /\ BusInit

EventsNext ==
    \/ side = "pool" /\ ManagerNext /\ UNCHANGED <<side, busVars>>
    \/ side = "bus" /\ BusNext /\ UNCHANGED <<side, mvars>>
    \/ side = "calm" /\ Calm!BusNext /\ UNCHANGED <<side, mvars>>

\* The fairness of each module, on its side.  On the side of the bus every goroutine
\* that can run does; a publisher waiting in Get is served in turn (ObjectPool's queue
\* is first in, first out).  Nobody has to publish, subscribe, cancel or close.
EventsFairness ==
    /\ \A c \in Callers : /\ WF_mvars(side = "pool" /\ Serve(c))
                          /\ WF_mvars(side = "pool" /\ GiveBack(c))
    /\ \A o \in Objects : WF_mvars(side = "pool" /\ Serving(o))
    /\ WF_mvars(side = "pool" /\ shut # "none" /\ Shutdown)
    /\ \A p \in Publishers : /\ SF_busVars(side = "calm" /\ Calm!BorrowClone(p))
                             /\ WF_busVars(side = "calm" /\ Calm!Publish(p))
    /\ \A p \in Publishers, s \in Subs : WF_busVars(side = "calm" /\ Calm!Delivery(p, s))
    /\ \A s \in Subs : /\ WF_busVars(side = "calm" /\ Calm!Closing(s))
                       /\ WF_busVars(side = "calm" /\ Calm!Consumer(s))

EventsSpec == EventsInit /\ [][EventsNext]_<<side, mvars, busVars>> /\ EventsFairness

CalmEventsComeHome == side = "calm" => EventsComeHome
===============================================================================
