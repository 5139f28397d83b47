-------------------------------- MODULE Streams --------------------------------
(* A WebSocket session with an exchange: the connection loop with its reader and
   its pinger, the streams it is asked for, and the calls that ask.  The two
   managers, streamManager (Binance) and wsManager (OKX), differ in the locks they
   hold while they send and in what a ping waits for; one module has both, and
   the session that is run is chosen at the start and never changes.  A private
   session is OKX's user stream, which has to log in first.

   A Dial that fails, with its back-off, is a Dial not made yet: its only effect is
   a report.  Reports, metrics and the pace of requests are left out; a request
   is at most Batch streams.  The venue takes requests in the order of the writes. *)
EXTENDS Integers, FiniteSets, FiniteSetsExt

CONSTANTS
    Sessions,   \* which of "binance", "okx", "private" are run
    Topics,     \* the streams that routes ask for
    Callers,    \* goroutines in SubscribeRoute and UnsubscribeRoute
    Batch,      \* binanceMaxStreamsPerRequest, okxMaxSubscriptionsPerRequest
    MaxDrops,   \* bound: connections that break
    MaxCalls,   \* bound: calls
    Nobody

ASSUME StreamsAssumption ==
    /\ Sessions \subseteq {"binance", "okx", "private"}
    /\ Batch \in Nat \ {0} /\ MaxDrops \in Nat /\ MaxCalls \in Nat
    /\ IsFiniteSet(Topics) /\ {"login", "orders", "account"} \intersect Topics = {}
    /\ {Nobody, "reader"} \intersect Callers = {}

VARIABLES
    session,
    wanted,         \* the manager's subscriptions
    taken,          \* OKX: the provider's tradeSubs, tickerSubs and bookSubs
    conn,           \* sm.conn is not nil
    ready, stopped, \* the ready channel is closed, the context is cancelled
    loop, rest,     \* connect: where it is, and what it has to replay
    reader, pinger, \* where the goroutines of that connection are
    books,          \* who has the provider's bookMu
    call, calls,    \* each caller's call, and their number
    user,           \* the start of the user stream
    stop,           \* where stop is
    alive, drops,   \* the loop's connection lives, and how many have broken
    held, logged,   \* what the venue streams on it, and whether it knows us
    slipped         \* history: streams of which opposite requests crossed

mgrVars == <<wanted, taken, conn, ready, stopped>>
loopVars == <<loop, rest>>
connVars == <<reader, pinger>>
callVars == <<books, call, calls, user, stop>>
venueVars == <<alive, drops, held, logged>>
vars == <<session, mgrVars, loopVars, connVars, callVars, venueVars, slipped>>

Private == {"login", "orders", "account"}
All == Topics \union Private
Idle == [at |-> "idle", op |-> "subscribe", set |-> {}]
Calls == [at : {"idle", "lock", "map", "send"}, op : {"subscribe", "unsubscribe"}, set : SUBSET All]

StreamsTypeOK ==
    /\ session \in Sessions
    /\ wanted \subseteq All /\ taken \subseteq Topics
    /\ conn \in BOOLEAN /\ ready \in BOOLEAN /\ stopped \in BOOLEAN
    /\ loop \in {"off", "dial", "set", "snapshot", "login", "replay", "launch", "wait", "close", "join", "done"}
    /\ rest \subseteq All
    /\ reader \in {"none", "read", "handle", "ended"}
    /\ pinger \in {"none", "wait", "pong", "ended"}
    /\ books \in Callers \union {Nobody, "reader"}
    /\ call \in [Callers -> Calls] /\ calls \in 0..MaxCalls
    /\ user \in {"start", "login", "done"}
    /\ stop \in {"no", "close", "done"}
    /\ alive \in BOOLEAN /\ drops \in 0..MaxDrops
    /\ held \subseteq All /\ logged \in BOOLEAN
    /\ slipped \subseteq All

\* newStreamManager, newWSManager.
Init ==
    /\ session \in Sessions
    /\ wanted = {} /\ taken = {} /\ conn = FALSE /\ ready = FALSE /\ stopped = FALSE
    /\ loop = "off" /\ rest = {}
    /\ reader = "none" /\ pinger = "none" /\ books = Nobody
    /\ call = [c \in Callers |-> Idle] /\ calls = 0
    /\ user = IF session = "private" THEN "start" ELSE "done"
    /\ stop = "no"
    /\ alive = FALSE /\ drops = 0 /\ held = {} /\ logged = FALSE
    /\ slipped = {}

-------------------------------------------------------------------------------
(* The venue *)

\* A connection that breaks stays broken; who uses it finds out by an error.
Drop ==
    /\ alive /\ drops < MaxDrops
    /\ alive' = FALSE /\ drops' = drops + 1
    /\ UNCHANGED <<session, mgrVars, loopVars, connVars, callVars, held, logged, slipped>>

\* What a request adds to a connection: private channels only after a login, and
\* "login" is no channel.
Granted(set) == {s \in set : s \in Topics \/ (s # "login" /\ logged)}

Takes(op, set) ==
    held' = IF op = "subscribe" THEN held \union Granted(set) ELSE held \ set

-------------------------------------------------------------------------------
(* sendBatchedControlRequests: one request, in the section of controlMu *)

\* A Binance ping holds controlMu from the frame to its pong.
ControlFree == pinger # "pong"

Chunks(set) == kSubset(IF Cardinality(set) < Batch THEN Cardinality(set) ELSE Batch, set)

\* The request is written, or vanishes in a broken connection.
Writes(op, set) ==
    /\ conn /\ ~stopped
    /\ UNCHANGED logged
    /\ IF alive THEN Takes(op, set) ELSE UNCHANGED held

\* No connection: nil.  A cancelled context or a broken connection: an error.
Unwritten == ~conn
WriteFails == conn /\ (stopped \/ ~alive)

\* The branch for a single "login" argument of a manager that has an authFunc.
Logs ==
    /\ conn /\ ~stopped
    /\ logged' = (logged \/ alive)
    /\ UNCHANGED held

-------------------------------------------------------------------------------
(* start and stop *)

\* initStreamManagers, ensureWS at the first call, ensurePrivateWS.
Start ==
    /\ loop = "off"
    /\ session = "okx" => \E c \in Callers : call[c].at = "lock"
    /\ loop' = "dial"
    /\ UNCHANGED <<session, mgrVars, rest, connVars, callVars, venueVars, slipped>>

\* The ten seconds pass: Binance's Start fails and cancels everything; the user
\* stream is given up, its manager goes on.  (ensureWS would make another manager
\* at the next call: not modelled.)
StartTimesOut ==
    /\ loop # "off" /\ ~ready /\ ~stopped
    /\ \/ /\ session = "binance"
          /\ stopped' = TRUE
          /\ UNCHANGED user
       \/ /\ session = "private" /\ user = "start"
          /\ user' = "done"
          /\ UNCHANGED stopped
    /\ UNCHANGED <<session, wanted, taken, conn, ready, loopVars, connVars, books, call, calls, stop,
                   venueVars, slipped>>

\* stop, in the goroutine that waits for the provider's context: cancel, then the
\* section of connMu.
Cancel ==
    /\ stop = "no" /\ ~stopped /\ loop # "off"
    /\ stopped' = TRUE
    /\ stop' = IF ready THEN "close" ELSE "done"
    /\ UNCHANGED <<session, wanted, taken, conn, ready, loopVars, connVars, books, call, calls, user,
                   venueVars, slipped>>

StopConn ==
    /\ stop = "close"
    /\ alive' = (alive /\ ~conn) /\ conn' = FALSE
    /\ stop' = "done"
    /\ UNCHANGED <<session, wanted, taken, ready, stopped, loopVars, connVars, books, call, calls, user,
                   drops, held, logged, slipped>>

-------------------------------------------------------------------------------
(* connect, connectLoop *)

Goto(l) == loop' = l

GiveUp ==
    /\ loop = "dial" /\ stopped
    /\ Goto("done")
    /\ UNCHANGED <<session, mgrVars, rest, connVars, callVars, venueVars, slipped>>

\* The context may be cancelled when Dial has returned and before the connection is
\* recorded.  What is asked for and taken back at this moment may still cross.
Asking(c) == call[c].at \in {"map", "send"}

Dial ==
    /\ loop = "dial" /\ ~stopped
    /\ alive' = TRUE /\ held' = {} /\ logged' = FALSE
    /\ slipped' = {s \in slipped : \E c \in Callers : Asking(c) /\ s \in call[c].set}
    /\ Goto("set")
    /\ UNCHANGED <<session, mgrVars, rest, connVars, callVars, drops>>

SetConn ==
    /\ loop = "set"
    /\ conn' = TRUE /\ ready' = TRUE
    /\ Goto("snapshot")
    /\ UNCHANGED <<session, wanted, taken, stopped, rest, connVars, callVars, venueVars, slipped>>

\* subscribeAll: OKX keeps subsMu while it sends, Binance takes a copy.
Replayed == wanted

Snapshot ==
    /\ loop = "snapshot"
    /\ rest' = Replayed
    /\ Goto(IF Replayed = {} THEN "launch" ELSE IF Replayed = {"login"} THEN "login" ELSE "replay")
    /\ UNCHANGED <<session, mgrVars, connVars, callVars, venueVars, slipped>>

\* What is left to replay after a request.
Left_None(set) == {}
Left(set) == rest \ set

\* The first request that fails, or finds no connection, ends the replay.
Replay ==
    /\ \/ /\ loop = "login" /\ Logs
          /\ rest' = {}
       \/ /\ loop = "replay"
          /\ \E set \in Chunks(rest) : Writes("subscribe", set) /\ rest' = Left(set)
       \/ /\ loop \in {"login", "replay"} /\ (Unwritten \/ WriteFails)
          /\ rest' = {}
          /\ UNCHANGED <<held, logged>>
    /\ Goto(IF rest' = {} THEN "launch" ELSE "replay")
    /\ UNCHANGED <<session, mgrVars, connVars, callVars, alive, drops, slipped>>

Launch ==
    /\ loop = "launch"
    /\ reader' = "read" /\ pinger' = "wait"
    /\ Goto("wait")
    /\ UNCHANGED <<session, mgrVars, rest, callVars, venueVars, slipped>>

\* The first of the two to end takes the other with it.
FirstError ==
    /\ loop = "wait" /\ "ended" \in {reader, pinger}
    /\ conn' = FALSE
    /\ Goto("close")
    /\ UNCHANGED <<session, wanted, taken, ready, stopped, rest, connVars, callVars, venueVars, slipped>>

CloseConn ==
    /\ loop = "close"
    /\ alive' = FALSE
    /\ Goto("join")
    /\ UNCHANGED <<session, mgrVars, rest, connVars, callVars, drops, held, logged, slipped>>

Join ==
    /\ loop = "join" /\ reader = "ended" /\ pinger = "ended"
    /\ reader' = "none" /\ pinger' = "none"
    /\ Goto("dial")
    /\ UNCHANGED <<session, mgrVars, rest, callVars, venueVars, slipped>>

-------------------------------------------------------------------------------
(* readLoop and pingLoop *)

\* connCancel, or the end of the provider.
Cancelled_WithLoop == loop \in {"close", "join"}
Cancelled == stopped \/ loop \in {"close", "join"}

\* A message for an order book takes the provider's bookMu, which a call of
\* SubscribeRoute has while it sends.  Other handlers take no lock that is held long.
Receive ==
    /\ reader = "read" /\ alive /\ held # {} /\ session = "binance"
    /\ reader' = "handle"
    /\ UNCHANGED <<session, mgrVars, loopVars, pinger, callVars, venueVars, slipped>>

HandleMessage ==
    /\ reader = "handle" /\ books = Nobody
    /\ reader' = "read"
    /\ UNCHANGED <<session, mgrVars, loopVars, pinger, callVars, venueVars, slipped>>

ReadFails ==
    /\ reader = "read" /\ (~alive \/ Cancelled)
    /\ reader' = "ended"
    /\ UNCHANGED <<session, mgrVars, loopVars, pinger, callVars, venueVars, slipped>>

\* Binance's ping waits for its pong, which the reader has to read.  OKX writes
\* and does not wait; its "pong" is a message like another.
Ping ==
    /\ pinger = "wait" /\ ~Cancelled /\ session = "binance"
    /\ pinger' = "pong"
    /\ UNCHANGED <<session, mgrVars, loopVars, reader, callVars, venueVars, slipped>>

Pong ==
    /\ pinger = "pong" /\ alive /\ reader = "read"
    /\ pinger' = "wait"
    /\ UNCHANGED <<session, mgrVars, loopVars, reader, callVars, venueVars, slipped>>

\* binancePingTimeout: the connection is broken, or the reader waits for a lock whose
\* holder waits for controlMu.
Unanswered_Waits == ~alive
Unanswered == ~alive \/ (reader = "handle" /\ books # Nobody)

PingFails ==
    /\ \/ pinger = "pong" /\ (Unanswered \/ Cancelled)
       \/ pinger = "wait" /\ (Cancelled \/ (session # "binance" /\ ~alive))
    /\ pinger' = "ended"
    /\ UNCHANGED <<session, mgrVars, loopVars, reader, callVars, venueVars, slipped>>

-------------------------------------------------------------------------------
(* SubscribeRoute and UnsubscribeRoute: the provider's sections and the manager's *)

\* Requests for one stream, opposite, of which neither has ended.
Crossing(c) ==
    {s \in call[c].set :
       \/ \E d \in Callers \ {c} : Asking(d) /\ call[d].op # call[c].op /\ s \in call[d].set
       \/ call[c].op = "unsubscribe" /\ loop = "replay" /\ s \in rest}

Ends(c) == call' = [call EXCEPT ![c] = Idle]
Release(c) == books' = IF books = c THEN Nobody ELSE books

Begin(c) ==
    /\ call[c] = Idle /\ calls < MaxCalls /\ session # "private" /\ ~stopped
    /\ session = "binance" => ready
    /\ calls' = calls + 1
    /\ \E op \in {"subscribe", "unsubscribe"}, set \in (SUBSET Topics) \ {{}} :
         call' = [call EXCEPT ![c] = [at |-> "lock", op |-> op, set |-> set]]
    /\ UNCHANGED <<session, mgrVars, loopVars, connVars, books, user, stop, venueVars, slipped>>

\* Binance keeps the provider's lock to the end of the call.
LockBooks(c) ==
    /\ call[c].at = "lock" /\ session = "binance" /\ books = Nobody
    /\ books' = c
    /\ call' = [call EXCEPT ![c].at = "map"]
    /\ UNCHANGED <<session, mgrVars, loopVars, connVars, calls, user, stop, venueVars, slipped>>

\* OKX: ensureWS, then the provider's own sets.  When the provider has stopped
\* ensureWS fails, and an unsubscription has no manager to go to.
Changed(c, now) == IF call[c].op = "subscribe" THEN call[c].set \ now ELSE call[c].set \intersect now
After(c, now) == IF call[c].op = "subscribe" THEN now \union call[c].set ELSE now \ call[c].set

Take(c) ==
    /\ call[c].at = "lock" /\ session = "okx"
    /\ call[c].op = "subscribe" => ready \/ stopped
    /\ IF stopped \/ Changed(c, taken) = {}
       THEN Ends(c) /\ UNCHANGED <<taken, slipped>>
       ELSE /\ taken' = After(c, taken)
            /\ slipped' = slipped \union Crossing(c)
            /\ call' = [call EXCEPT ![c] = [@ EXCEPT !.at = "map", !.set = Changed(c, taken)]]
    /\ UNCHANGED <<session, wanted, conn, ready, stopped, loopVars, connVars, books, calls, user, stop,
                   venueVars>>

\* The section of subsMu in subscribe and unsubscribe: only what is new is sent.
Record(c) ==
    /\ call[c].at = "map"
    /\ session # "binance" => loop \notin {"login", "replay"}
    /\ wanted' = After(c, wanted)
    /\ slipped' = slipped \union Crossing(c)
    /\ IF Changed(c, wanted) = {}
       THEN Ends(c) /\ Release(c)
       ELSE call' = [call EXCEPT ![c] = [@ EXCEPT !.at = "send", !.set = Changed(c, wanted)]] /\ UNCHANGED books
    /\ UNCHANGED <<session, taken, conn, ready, stopped, loopVars, connVars, calls, user, stop, venueVars>>

\* One request; the last one, an error, or the lack of a connection ends the call.
\* What was not sent stays in the manager's map.
Sends(c) ==
    \/ /\ call[c].set # {"login"}
       /\ \E set \in Chunks(call[c].set) :
            /\ Writes(call[c].op, set)
            /\ IF set = call[c].set THEN Ends(c) /\ Release(c)
               ELSE call' = [call EXCEPT ![c].set = @ \ set] /\ UNCHANGED books
    \/ /\ call[c].set = {"login"}
       /\ Logs /\ Ends(c) /\ Release(c)

Send(c) ==
    /\ call[c].at = "send" /\ ControlFree
    /\ \/ Sends(c) /\ UNCHANGED user
       \/ Unwritten /\ Ends(c) /\ Release(c) /\ UNCHANGED <<held, logged, user>>
       \/ WriteFails /\ Ends(c) /\ Release(c) /\ UNCHANGED <<held, logged>>
          /\ user' = IF session = "private" THEN "done" ELSE user
    /\ UNCHANGED <<session, mgrVars, loopVars, connVars, calls, stop, alive, drops, slipped>>

\* startUserDataStream, by one goroutine: the login, half a second, the channels.
UserCall(c) ==
    /\ session = "private" /\ \A d \in Callers : call[d] = Idle
    /\ c = CHOOSE d \in Callers : TRUE
    /\ \/ /\ user = "start" /\ ready
          /\ user' = "login"
          /\ call' = [call EXCEPT ![c] = [at |-> "map", op |-> "subscribe", set |-> {"login"}]]
       \/ /\ user = "login"
          /\ user' = "done"
          /\ call' = [call EXCEPT ![c] = [at |-> "map", op |-> "subscribe", set |-> {"orders", "account"}]]
    /\ UNCHANGED <<session, mgrVars, loopVars, connVars, books, calls, stop, venueVars, slipped>>

-------------------------------------------------------------------------------
Loop == \/ GiveUp \/ Dial \/ SetConn \/ Snapshot \/ Replay \/ Launch \/ FirstError \/ CloseConn \/ Join
Reader == Receive \/ HandleMessage \/ ReadFails
Pinger == Ping \/ Pong \/ PingFails
Route(c) == LockBooks(c) \/ Take(c) \/ Record(c) \/ Send(c) \/ UserCall(c)

Next ==
    \/ Drop \/ Start \/ StartTimesOut \/ Cancel \/ StopConn
    \/ Loop \/ Reader \/ Pinger
    \/ \E c \in Callers : Begin(c) \/ Route(c)

Spec == Init /\ [][Next]_vars

\* Goroutines run, the venue answers pings, a Dial succeeds in the end, and what is
\* stopped is stopped to the end.  Nothing has to be asked for, to break or to stop.
Fairness ==
    /\ WF_vars(StopConn) /\ WF_vars(Start \/ Loop)
    /\ WF_vars(HandleMessage \/ ReadFails) /\ WF_vars(Pong \/ PingFails)
    /\ \A c \in Callers : SF_vars(Route(c))
FairSpec == Spec /\ Fairness

-------------------------------------------------------------------------------
(* Properties *)

\* "A reconnect loop that replays pending subscriptions": when nothing is under way
\* the venue streams what the manager thinks it does, whenever the calls came with
\* respect to a reconnection.  The streams excepted are those for which opposite
\* requests crossed on this connection: nothing orders a request's write after the
\* section that decided it.
Quiet == loop = "wait" /\ alive /\ ~stopped /\ \A c \in Callers : call[c] = Idle

StreamsMatch == Quiet /\ session # "private" => held \ slipped = wanted \ slipped

\* Once the provider has stopped no connection is left, also one that Dial returned
\* when stop had gone by, and a goroutine that waits for a lock or for a pong ends.
StopEnds == stopped ~> (loop \in {"off", "done"} /\ ~alive /\ books = Nobody)

\* What is asked for to the end comes in the end, though a ping, a reader and
\* a call wait for one another.
WantedArrives ==
    \A s \in Topics :
        <>[](s \in wanted /\ s \notin slipped /\ ~stopped) => <>[](alive /\ s \in held)

\* "Re-authenticate on every reconnect": a private session whose channels have been
\* asked for is known to the venue when its requests have been sent.
Reauthenticated == session = "private" /\ Quiet /\ user = "done" /\ "login" \in wanted => logged

\* "keep the connection alive and detect stale sockets": a ping ends no connection that
\* lives, unless the provider stops.
OnlyStaleIsDropped == [][pinger = "pong" /\ pinger' = "ended" => ~alive \/ Cancelled]_vars
===============================================================================
