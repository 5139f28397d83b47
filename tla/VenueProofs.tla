------------------------------ MODULE VenueProofs ------------------------------
(* What a provider keeps in step with its venue.  First the streams: the venue      *)
(* streams what the manager thinks it does, for any streams, callers, size of a     *)
(* request, and number of reconnections; a private session, whose login is replayed *)
(* as a channel, is typed here and otherwise left out.  Then the order books, for   *)
(* any number of updates, lag, losses, failures, seeders and resyncs.               *)
EXTENDS Streams, OrderBooks, SumProofs, Sequences, TLAPS

-------------------------------------------------------------------------------
(* The streams *)

Public == session # "private"

\* A connection is set when the loop is past it, and nothing is written before.
Established == {"snapshot", "login", "replay", "launch", "wait"}
Connected ==
    /\ conn => loop \in Established
    /\ alive /\ ~stopped /\ loop \in Established => conn
    /\ loop = "set" => held = {}
    /\ stop # "no" => stopped

\* A public session never logs in.
OnlyTopics ==
    /\ wanted \subseteq Topics /\ rest \subseteq Topics /\ held \subseteq Topics /\ loop # "login"
    /\ \A c \in Callers : call[c].set \subseteq Topics

\* Binance's callers keep the provider's lock.
OneAsks == session = "binance" => \A c \in Callers : Asking(c) => books = c

\* Opposite requests under way for one stream have crossed.
Opposites ==
    \A c, d \in Callers : Asking(c) /\ Asking(d) /\ call[c].op # call[d].op =>
        call[c].set \intersect call[d].set \subseteq slipped

\* A request that is being sent says what the manager's map does.
Sending(c, s) == call[c].at = "send" /\ s \in call[c].set
SendsWanted ==
    \A c \in Callers : \A s \in call[c].set \ slipped :
        call[c].at = "send" => (s \in wanted <=> call[c].op = "subscribe")

\* What is left to replay is still wanted.
ReplaysWanted == loop = "replay" => rest \ slipped \subseteq wanted

\* A stream that no request is about agrees, once it has been replayed; before, the
\* venue has at most what is wanted.
Agrees(s) ==
    /\ loop = "snapshot" /\ s \in held => s \in wanted
    /\ loop \in {"launch", "wait"} \/ (loop = "replay" /\ s \notin rest) =>
          (s \in held <=> s \in wanted)
Settled ==
    alive /\ ~stopped =>
        \A s \in Topics \ slipped : (\A c \in Callers : ~Sending(c, s)) => Agrees(s)

PublicInv ==
    Connected /\ OnlyTopics /\ OneAsks /\ Opposites /\ SendsWanted /\ ReplaysWanted /\ Settled

StreamsInv == StreamsTypeOK /\ (Public => PublicInv)

LEMMA StreamsInit == Init => StreamsInv
<1> SUFFICES ASSUME Init PROVE StreamsInv
  OBVIOUS
<1> USE DEF Init
<1>1. StreamsTypeOK
  <2>1. call \in [Callers -> Calls]
    <3>1. Idle \in Calls
      BY DEF Idle, Calls
    <3> QED
      BY <3>1
  <2>2. calls \in 0..MaxCalls /\ drops \in 0..MaxDrops
    BY StreamsAssumption DEF StreamsAssumption
  <2> QED
    BY <2>1, <2>2 DEF StreamsTypeOK
<1>2. PublicInv
  BY DEF PublicInv, Connected, OnlyTopics, OneAsks, Opposites, SendsWanted, ReplaysWanted, Settled,
         Asking, Idle, Established
<1> QED
  BY <1>1, <1>2 DEF StreamsInv

-------------------------------------------------------------------------------
(* Types *)

LEMMA CallTyped ==
    ASSUME StreamsTypeOK, NEW c \in Callers
    PROVE  /\ call[c].at \in {"idle", "lock", "map", "send"}
           /\ call[c].op \in {"subscribe", "unsubscribe"}
           /\ call[c].set \subseteq All
           /\ call[c] = [at |-> call[c].at, op |-> call[c].op, set |-> call[c].set]
BY DEF StreamsTypeOK, Calls

LEMMA CallMoves ==
    ASSUME StreamsTypeOK, NEW c \in Callers, NEW a, NEW q
    PROVE  [call[c] EXCEPT !.at = a, !.set = q] = [at |-> a, op |-> call[c].op, set |-> q]
<1>1. PICK b, o, r : call[c] = [at |-> b, op |-> o, set |-> r]
  BY CallTyped
<1>2. PICK m : m = [call[c] EXCEPT !.at = a]
  OBVIOUS
<1>3. m = [at |-> a, op |-> o, set |-> r]
  BY <1>1, <1>2
<1>4. [m EXCEPT !.set = q] = [at |-> a, op |-> o, set |-> q]
  BY <1>3
<1> QED
  BY <1>1, <1>2, <1>4

\* A request is part of what its caller has left.
LEMMA ChunksTyped ==
    ASSUME NEW set, NEW part \in Chunks(set)
    PROVE  part \subseteq set
BY DEF Chunks, kSubset

LEMMA CrossingTyped ==
    ASSUME StreamsTypeOK, NEW c \in Callers
    PROVE  Crossing(c) \subseteq call[c].set /\ Crossing(c) \subseteq All
BY CallTyped DEF Crossing

LEMMA ChangedTyped ==
    ASSUME StreamsTypeOK, NEW c \in Callers, NEW D, NEW now \in SUBSET D, call[c].set \subseteq D
    PROVE  Changed(c, now) \subseteq call[c].set /\ After(c, now) \subseteq D
BY DEF Changed, After

LEMMA EndsTyped ==
    ASSUME StreamsTypeOK, NEW c \in Callers, Ends(c), Release(c)
    PROVE  /\ call' \in [Callers -> Calls] /\ books' \in Callers \union {Nobody, "reader"}
           /\ call'[c] = Idle
           /\ \A d \in Callers : d # c => call'[d] = call[d]
           /\ books' = IF books = c THEN Nobody ELSE books
BY DEF Ends, Release, Idle, Calls, StreamsTypeOK

LEMMA WritesTyped ==
    ASSUME StreamsTypeOK, NEW op \in {"subscribe", "unsubscribe"}, NEW set \in SUBSET All, Writes(op, set)
    PROVE  held' \subseteq All /\ logged' \in BOOLEAN
BY DEF Writes, Takes, Granted, StreamsTypeOK

\* What a connection, and those who stop it, leave alone.
LEMMA ConnTyped ==
    ASSUME StreamsTypeOK, \/ Drop \/ Start \/ StartTimesOut \/ Cancel \/ StopConn
                          \/ Loop \/ Reader \/ Pinger
    PROVE  StreamsTypeOK'
<1> USE DEF StreamsTypeOK, mgrVars, loopVars, connVars, callVars, venueVars
<1>1. CASE Drop
  <2>1. drops' \in 0..MaxDrops
    BY <1>1, StreamsAssumption DEF Drop, StreamsAssumption
  <2>2. /\ alive' = FALSE
        /\ UNCHANGED <<session, mgrVars, loopVars, connVars, callVars, held, logged, slipped>>
    BY <1>1 DEF Drop
  <2>3. alive' \in BOOLEAN
    BY <2>2
  <2>4. UNCHANGED <<session, wanted, taken, conn, ready, stopped, loop, rest, reader, pinger, books,
                    call, calls, user, stop, held, logged, slipped>>
    BY <2>2
  <2> QED
    BY <2>1, <2>3, <2>4
<1>2. CASE Start \/ StartTimesOut \/ Cancel \/ StopConn
  BY <1>2 DEF Start, StartTimesOut, Cancel, StopConn
<1>3. CASE Loop
  <2>1. CASE Replay
    <3>1. ASSUME NEW set \in Chunks(rest), Writes("subscribe", set), rest' = Left(set)
          PROVE  held' \subseteq All /\ logged' \in BOOLEAN /\ rest' \subseteq All
      <4>1. set \subseteq All
        BY <3>1, ChunksTyped
      <4> QED
        BY <3>1, <4>1, WritesTyped DEF Left
    <3>2. held' \subseteq All /\ logged' \in BOOLEAN /\ rest' \subseteq All
      BY <2>1, <3>1 DEF Replay, Logs
    <3> QED
      BY <2>1, <3>2 DEF Replay, Goto
  <2>2. CASE Dial \/ SetConn \/ Snapshot
    BY <2>2 DEF Dial, SetConn, Snapshot, Goto, Replayed
  <2>3. CASE GiveUp \/ Launch \/ FirstError \/ CloseConn \/ Join
    BY <2>3 DEF GiveUp, Launch, FirstError, CloseConn, Join, Goto
  <2> QED
    BY <1>3, <2>1, <2>2, <2>3 DEF Loop
<1>4. CASE Reader
  BY <1>4 DEF Reader, Receive, HandleMessage, ReadFails
<1>5. CASE Pinger
  BY <1>5 DEF Pinger, Ping, Pong, PingFails
<1> QED
  BY <1>1, <1>2, <1>3, <1>4, <1>5

LEMMA AskTyped ==
    ASSUME StreamsTypeOK, Public => OnlyTopics, NEW c \in Callers,
           Begin(c) \/ LockBooks(c) \/ Take(c) \/ Record(c)
    PROVE  StreamsTypeOK'
<1> USE DEF StreamsTypeOK, mgrVars, loopVars, connVars, callVars, venueVars
<1>0. call[c] \in Calls
  OBVIOUS
<1>1. CASE Begin(c)
  <2>1. calls' \in 0..MaxCalls
    BY <1>1, StreamsAssumption DEF Begin, StreamsAssumption
  <2>2. \E k \in Calls : call' = [call EXCEPT ![c] = k]
    <3>1. \A op \in {"subscribe", "unsubscribe"}, set \in (SUBSET Topics) \ {{}} :
            [at |-> "lock", op |-> op, set |-> set] \in Calls
      BY DEF Calls, All
    <3> QED
      BY <1>1, <3>1 DEF Begin
  <2> QED
    BY <1>1, <2>1, <2>2 DEF Begin
<1>2. CASE LockBooks(c)
  <2>1. call' \in [Callers -> Calls]
    BY <1>0, <1>2 DEF LockBooks, Calls
  <2> QED
    BY <1>2, <2>1 DEF LockBooks
<1>3. CASE Take(c)
  <2>1. Public /\ call[c].set \subseteq Topics /\ taken \subseteq Topics
    BY <1>3 DEF Take, Public, OnlyTopics
  <2>2. taken' \subseteq Topics /\ slipped' \subseteq All
    BY <1>3, <2>1, ChangedTyped, CrossingTyped DEF Take
  <2>3. Changed(c, taken) \subseteq All
    BY <2>1, ChangedTyped, CallTyped
  <2>4. [call[c] EXCEPT !.at = "map", !.set = Changed(c, taken)] \in Calls /\ Idle \in Calls
    BY <1>0, <2>3 DEF Calls, Idle
  <2>5. \E k \in Calls : call' = [call EXCEPT ![c] = k]
    BY <1>3, <2>4 DEF Take, Ends
  <2>6. call' \in [Callers -> Calls]
    BY <2>5
  <2> QED
    BY <1>3, <2>2, <2>6 DEF Take
<1>4. CASE Record(c)
  <2>1. wanted' \subseteq All /\ slipped' \subseteq All /\ Changed(c, wanted) \subseteq All
    BY <1>4, ChangedTyped, CrossingTyped, CallTyped DEF Record
  <2>2. [call[c] EXCEPT !.at = "send", !.set = Changed(c, wanted)] \in Calls /\ Idle \in Calls
    BY <1>0, <2>1 DEF Calls, Idle
  <2>3. \E k \in Calls : call' = [call EXCEPT ![c] = k]
    BY <1>4, <2>2 DEF Record, Ends
  <2>4. call' \in [Callers -> Calls] /\ books' \in Callers \union {Nobody, "reader"}
    BY <1>4, <2>3 DEF Record, Release
  <2> QED
    BY <1>4, <2>1, <2>4 DEF Record
<1> QED
  BY <1>1, <1>2, <1>3, <1>4

\* A request, or the end of a call.
SendsPart(c) ==
    \E part \in SUBSET call[c].set :
        /\ Writes(call[c].op, part)
        /\ \/ part = call[c].set /\ Ends(c) /\ Release(c)
           \/ /\ call' = [call EXCEPT ![c] = [at |-> "send", op |-> call[c].op, set |-> call[c].set \ part]]
              /\ UNCHANGED books

LEMMA SendIs ==
    ASSUME StreamsTypeOK, NEW c \in Callers, Send(c)
    PROVE  /\ call[c].at = "send"
           /\ \/ SendsPart(c)
              \/ call[c].set = {"login"} /\ Logs /\ Ends(c) /\ Release(c)
              \/ (Unwritten \/ WriteFails) /\ Ends(c) /\ Release(c) /\ UNCHANGED <<held, logged>>
<1>1. ASSUME NEW part \in Chunks(call[c].set), Writes(call[c].op, part),
             IF part = call[c].set THEN Ends(c) /\ Release(c)
             ELSE call' = [call EXCEPT ![c].set = @ \ part] /\ UNCHANGED books
      PROVE  SendsPart(c)
  <2>1. part \in SUBSET call[c].set
    BY <1>1, ChunksTyped
  <2>2. call[c].at = "send"
    BY DEF Send
  <2>3. [call[c] EXCEPT !.set = call[c].set \ part]
           = [at |-> "send", op |-> call[c].op, set |-> call[c].set \ part]
    <3>1. call[c] = [at |-> "send", op |-> call[c].op, set |-> call[c].set]
      BY <2>2, CallTyped
    <3>2. PICK o, q : call[c] = [at |-> "send", op |-> o, set |-> q]
      BY <3>1
    <3> QED
      BY <3>2
  <2>4. \/ part = call[c].set /\ Ends(c) /\ Release(c)
        \/ /\ call' = [call EXCEPT ![c] = [at |-> "send", op |-> call[c].op, set |-> call[c].set \ part]]
           /\ UNCHANGED books
    BY <1>1, <2>3
  <2> QED
    BY <1>1, <2>1, <2>4 DEF SendsPart
<1> QED
  BY <1>1 DEF Send, Sends

LEMMA SendTyped ==
    ASSUME StreamsTypeOK, NEW c \in Callers, Send(c)
    PROVE  StreamsTypeOK'
<1> USE DEF StreamsTypeOK, mgrVars, loopVars, connVars, callVars, venueVars
<1>1. /\ UNCHANGED <<session, mgrVars, loopVars, connVars, calls, stop, alive, drops, slipped>>
      /\ user' \in {"start", "login", "done"}
  BY DEF Send
<1>2. call' \in [Callers -> Calls] /\ books' \in Callers \union {Nobody, "reader"}
      /\ held' \subseteq All /\ logged' \in BOOLEAN
  <2>1. CASE SendsPart(c)
    <3>1. PICK part \in SUBSET call[c].set :
            /\ Writes(call[c].op, part)
            /\ \/ Ends(c) /\ Release(c)
               \/ /\ call' = [call EXCEPT ![c] = [at |-> "send", op |-> call[c].op, set |-> call[c].set \ part]]
                  /\ UNCHANGED books
      BY <2>1 DEF SendsPart
    <3>2. held' \subseteq All /\ logged' \in BOOLEAN
      <4>1. part \in SUBSET All /\ call[c].op \in {"subscribe", "unsubscribe"}
        BY CallTyped
      <4> QED
        BY <3>1, <4>1, WritesTyped
    <3>3. [at |-> "send", op |-> call[c].op, set |-> call[c].set \ part] \in Calls
      BY CallTyped DEF Calls
    <3> QED
      BY <3>1, <3>2, <3>3, EndsTyped
  <2>2. CASE Logs /\ Ends(c) /\ Release(c)
    BY <2>2, EndsTyped DEF Logs
  <2>3. CASE Ends(c) /\ Release(c) /\ UNCHANGED <<held, logged>>
    BY <2>3, EndsTyped
  <2> QED
    BY <2>1, <2>2, <2>3, SendIs
<1> QED
  BY <1>1, <1>2

LEMMA UserTyped ==
    ASSUME StreamsTypeOK, NEW c \in Callers, UserCall(c)
    PROVE  StreamsTypeOK'
<1> USE DEF StreamsTypeOK, mgrVars, loopVars, connVars, callVars, venueVars
<1>1. \E k \in Calls : call' = [call EXCEPT ![c] = k]
  <2>1. /\ [at |-> "map", op |-> "subscribe", set |-> {"login"}] \in Calls
        /\ [at |-> "map", op |-> "subscribe", set |-> {"orders", "account"}] \in Calls
    BY DEF Calls, All, Private
  <2> QED
    BY <2>1 DEF UserCall
<1> QED
  BY <1>1 DEF UserCall

-------------------------------------------------------------------------------
(* The connection of a public session *)

\* A connection that goes on, breaks or is stopped under the same map and calls.
LEMMA StandsStill ==
    ASSUME PublicInv,
           UNCHANGED <<session, wanted, call, books, held, slipped, rest, loop>>,
           alive' => alive, stopped => stopped',
           conn' => conn, alive' /\ ~stopped' => conn' = conn, stop' # "no" => stopped'
    PROVE  PublicInv'
<1> USE DEF PublicInv
<1>1. Connected'
  BY DEF Connected
<1>2. OnlyTopics' /\ OneAsks' /\ Opposites' /\ SendsWanted' /\ ReplaysWanted'
  BY DEF OnlyTopics, OneAsks, Opposites, SendsWanted, ReplaysWanted, Asking
<1>3. Settled'
  BY DEF Settled, Agrees, Sending
<1> QED
  BY <1>1, <1>2, <1>3

\* The loop goes on to a place where nothing has to agree.
LEMMA LoopWaits ==
    ASSUME PublicInv,
           UNCHANGED <<session, wanted, call, books, held, slipped, rest, stopped, stop>>,
           loop' \in {"dial", "close", "join", "done"}, conn' = FALSE
    PROVE  PublicInv'
<1> USE DEF PublicInv
<1>1. Connected'
  BY DEF Connected, Established
<1>2. OnlyTopics' /\ OneAsks' /\ Opposites' /\ SendsWanted' /\ ReplaysWanted'
  BY DEF OnlyTopics, OneAsks, Opposites, SendsWanted, ReplaysWanted, Asking
<1>3. Settled'
  BY DEF Settled, Agrees
<1> QED
  BY <1>1, <1>2, <1>3

\* The venue starts with nothing; what crossed and is not under way any more is clean.
LEMMA DialKeeps ==
    ASSUME StreamsTypeOK, PublicInv, Dial
    PROVE  PublicInv'
<1> USE DEF PublicInv
<1>1. /\ UNCHANGED <<session, wanted, taken, conn, stopped, stop, call, books, rest>>
      /\ loop = "dial" /\ loop' = "set" /\ held' = {}
      /\ slipped' = {s \in slipped : \E c \in Callers : Asking(c) /\ s \in call[c].set}
  BY DEF Dial, Goto, mgrVars, connVars, callVars
<1>2. Connected'
  BY <1>1 DEF Connected, Established
<1>3. OnlyTopics' /\ OneAsks' /\ ReplaysWanted' /\ Settled'
  BY <1>1 DEF OnlyTopics, OneAsks, ReplaysWanted, Settled, Agrees, Asking
<1>4. Opposites'
  <2>1. ASSUME NEW c \in Callers, NEW d \in Callers, Asking(c), Asking(d), call[c].op # call[d].op,
               NEW s \in call[c].set \intersect call[d].set
        PROVE  s \in slipped'
    BY <1>1, <2>1 DEF Opposites
  <2> QED
    BY <1>1, <2>1 DEF Opposites, Asking
<1>5. SendsWanted'
  <2>1. ASSUME NEW c \in Callers, NEW s \in call[c].set, s \notin slipped', call[c].at = "send"
        PROVE  s \notin slipped
    BY <1>1, <2>1 DEF Asking
  <2> QED
    BY <1>1, <2>1 DEF SendsWanted
<1> QED
  BY <1>2, <1>3, <1>4, <1>5

LEMMA SnapshotKeeps ==
    ASSUME StreamsTypeOK, PublicInv, Snapshot
    PROVE  PublicInv'
<1> USE DEF PublicInv
<1>1. /\ UNCHANGED <<session, wanted, taken, conn, stopped, stop, call, books, held, slipped, alive>>
      /\ loop = "snapshot" /\ rest' = wanted
  BY DEF Snapshot, Replayed, mgrVars, connVars, callVars, venueVars
<1>2. \/ wanted = {} /\ loop' = "launch"
      \/ loop' = "replay"
  <2>1. wanted # {"login"}
    BY StreamsAssumption DEF StreamsAssumption, OnlyTopics
  <2> QED
    BY <2>1 DEF Snapshot, Replayed, Goto
<1>3. Connected'
  BY <1>1, <1>2 DEF Connected, Established
<1>4. OnlyTopics' /\ OneAsks' /\ Opposites' /\ SendsWanted'
  BY <1>1, <1>2 DEF OnlyTopics, OneAsks, Opposites, SendsWanted, Asking
<1>5. ReplaysWanted'
  BY <1>1 DEF ReplaysWanted
<1>6. Settled'
  <2>1. ASSUME alive, ~stopped, NEW s \in Topics \ slipped, \A c \in Callers : ~Sending(c, s)
        PROVE  Agrees(s)'
    <3>1. s \in held => s \in wanted
      BY <1>1, <2>1 DEF Settled, Agrees
    <3> QED
      BY <1>1, <1>2, <3>1 DEF Agrees
  <2> QED
    BY <1>1, <2>1 DEF Settled, Sending
<1> QED
  BY <1>3, <1>4, <1>5, <1>6

\* A request of the replay: what it asks for is still wanted.
LEMMA ReplayKeeps ==
    ASSUME StreamsTypeOK, PublicInv, Replay
    PROVE  PublicInv'
<1> USE DEF PublicInv
<1>1. /\ UNCHANGED <<session, wanted, taken, conn, stopped, stop, call, books, slipped, alive>>
      /\ loop = "replay"
      /\ loop' \in {"launch", "replay"} /\ (loop' = "launch" => rest' = {})
  BY DEF Replay, Goto, mgrVars, connVars, callVars, OnlyTopics
<1>2. \/ \E part \in SUBSET rest : Writes("subscribe", part) /\ rest' = rest \ part
      \/ (Unwritten \/ WriteFails) /\ rest' = {} /\ UNCHANGED held
  BY <1>1, ChunksTyped DEF Replay, Left
<1>3. rest' \subseteq rest /\ held' \subseteq Topics
  BY <1>2 DEF Writes, Takes, Granted, OnlyTopics
<1>4. Connected'
  BY <1>1 DEF Connected, Established
<1>5. OnlyTopics' /\ OneAsks' /\ Opposites' /\ SendsWanted' /\ ReplaysWanted'
  BY <1>1, <1>3 DEF OnlyTopics, OneAsks, Opposites, SendsWanted, ReplaysWanted, Asking
<1>6. Settled'
  <2>1. ASSUME alive, ~stopped, NEW s \in Topics \ slipped, \A c \in Callers : ~Sending(c, s)
        PROVE  Agrees(s)'
    <3>1. conn
      BY <1>1, <2>1 DEF Connected, Established
    <3>2. PICK part \in SUBSET rest : Writes("subscribe", part) /\ rest' = rest \ part
      BY <1>2, <2>1, <3>1 DEF Unwritten, WriteFails
    <3>3. held' = held \union part
      <4>1. Granted(part) = part
        BY DEF Granted, OnlyTopics
      <4> QED
        BY <2>1, <3>2, <4>1 DEF Writes, Takes
    <3>4. CASE s \in part
      <4>1. s \in held' /\ s \in wanted
        BY <1>1, <2>1, <3>3, <3>4 DEF ReplaysWanted
      <4> QED
        BY <1>1, <4>1 DEF Agrees
    <3>5. CASE s \notin part
      <4>1. s \in rest' <=> s \in rest
        BY <3>2, <3>5
      <4>2. s \notin rest => (s \in held <=> s \in wanted)
        BY <1>1, <2>1 DEF Settled, Agrees
      <4>3. s \in held' <=> s \in held
        BY <3>3, <3>5
      <4> QED
        BY <1>1, <4>1, <4>2, <4>3 DEF Agrees
    <3> QED
      BY <3>4, <3>5
  <2> QED
    BY <1>1, <2>1 DEF Settled, Sending
<1> QED
  BY <1>4, <1>5, <1>6

LEMMA ConnKeeps ==
    ASSUME StreamsTypeOK, PublicInv, \/ Drop \/ Start \/ StartTimesOut \/ Cancel \/ StopConn
                                     \/ Loop \/ Reader \/ Pinger
    PROVE  PublicInv'
<1> USE DEF mgrVars, loopVars, connVars, callVars, venueVars
<1>0. stop # "no" => stopped
  BY DEF PublicInv, Connected
<1>1. CASE Drop \/ Reader \/ Pinger
  BY <1>0, <1>1, StandsStill
     DEF Drop, Reader, Receive, HandleMessage, ReadFails, Pinger, Ping, Pong, PingFails
<1>2. CASE StartTimesOut \/ Cancel
  BY <1>0, <1>2, StandsStill DEF StartTimesOut, Cancel
<1>3. CASE StopConn
  BY <1>0, <1>3, StandsStill DEF StopConn
<1>4. CASE Start \/ GiveUp
  <2>1. ~conn
    BY <1>4 DEF Start, GiveUp, PublicInv, Connected, Established
  <2> QED
    BY <1>4, <2>1, LoopWaits DEF Start, GiveUp, Goto, StreamsTypeOK
<1>5. CASE FirstError
  BY <1>5, LoopWaits DEF FirstError, Goto
<1>6. CASE CloseConn \/ Join
  <2>1. ~conn
    BY <1>6 DEF CloseConn, Join, PublicInv, Connected, Established
  <2> QED
    BY <1>6, <2>1, LoopWaits DEF CloseConn, Join, Goto, StreamsTypeOK
<1>7. CASE SetConn
  <2>1. /\ UNCHANGED <<session, wanted, stopped, stop, call, books, held, slipped, rest, alive>>
        /\ loop' = "snapshot" /\ conn' = TRUE /\ held = {}
    BY <1>7 DEF SetConn, Goto, PublicInv, Connected
  <2>2. Connected'
    BY <2>1 DEF PublicInv, Connected, Established
  <2>3. OnlyTopics' /\ OneAsks' /\ Opposites' /\ SendsWanted' /\ ReplaysWanted'
    BY <2>1 DEF PublicInv, OnlyTopics, OneAsks, Opposites, SendsWanted, ReplaysWanted, Asking
  <2>4. Settled'
    BY <2>1 DEF Settled, Agrees
  <2> QED
    BY <2>2, <2>3, <2>4 DEF PublicInv
<1>8. CASE Launch
  <2>1. /\ UNCHANGED <<session, wanted, conn, stopped, stop, call, books, held, slipped, rest, alive>>
        /\ loop = "launch" /\ loop' = "wait"
    BY <1>8 DEF Launch, Goto
  <2>2. Connected' /\ OnlyTopics' /\ OneAsks' /\ Opposites' /\ SendsWanted' /\ ReplaysWanted'
    BY <2>1 DEF PublicInv, Connected, Established, OnlyTopics, OneAsks, Opposites, SendsWanted,
                ReplaysWanted, Asking
  <2>3. Settled'
    BY <2>1 DEF PublicInv, Settled, Agrees, Sending
  <2> QED
    BY <2>2, <2>3 DEF PublicInv
<1> QED
  BY <1>1, <1>2, <1>3, <1>4, <1>5, <1>6, <1>7, <1>8, DialKeeps, SnapshotKeeps, ReplayKeeps DEF Loop

-------------------------------------------------------------------------------
(* The calls of a public session *)

\* What a caller asks for before it sends changes neither the map nor the venue.
LEMMA AskKeeps ==
    ASSUME StreamsTypeOK, PublicInv, NEW c \in Callers, Begin(c) \/ LockBooks(c) \/ Take(c)
    PROVE  PublicInv'
<1> USE DEF PublicInv
<1>1. /\ UNCHANGED <<session, wanted, conn, stopped, stop, loop, rest, alive, held>>
      /\ slipped \subseteq slipped'
      /\ \A d \in Callers : d # c => call'[d] = call[d]
      /\ call[c].at \in {"idle", "lock"}
  BY DEF Begin, LockBooks, Take, Ends, mgrVars, loopVars, venueVars, callVars, StreamsTypeOK, Idle
<1>2. call'[c].at \in {"idle", "lock", "map"} /\ call'[c].set \subseteq Topics
  <2>1. CASE Begin(c)
    <3>1. PICK op \in {"subscribe", "unsubscribe"}, set \in SUBSET Topics :
            call' = [call EXCEPT ![c] = [at |-> "lock", op |-> op, set |-> set]]
      BY <2>1 DEF Begin
    <3> QED
      BY <3>1 DEF StreamsTypeOK
  <2>2. CASE LockBooks(c)
    <3>1. call'[c] = [call[c] EXCEPT !.at = "map"]
      BY <2>2 DEF LockBooks, StreamsTypeOK
    <3>2. PICK a, o, q : call[c] = [at |-> a, op |-> o, set |-> q]
      BY CallTyped
    <3> QED
      BY <3>1, <3>2 DEF OnlyTopics
  <2>3. CASE Take(c)
    <3>1. \/ call'[c] = Idle
          \/ call'[c] = [call[c] EXCEPT !.at = "map", !.set = Changed(c, taken)]
      BY <2>3 DEF Take, Ends, StreamsTypeOK
    <3>2. Changed(c, taken) \subseteq Topics
      BY DEF Changed, OnlyTopics
    <3>3. \/ call'[c] = Idle
          \/ call'[c] = [at |-> "map", op |-> call[c].op, set |-> Changed(c, taken)]
      BY <3>1, CallMoves
    <3> QED
      BY <3>2, <3>3 DEF Idle
  <2> QED
    BY <2>1, <2>2, <2>3
<1>3. ~Asking(c) /\ \A d \in Callers : d # c => (Asking(d)' <=> Asking(d))
  BY <1>1 DEF Asking
<1>4. \A d \in Callers, s \in All : Sending(d, s)' <=> Sending(d, s)
  <2>1. \A s : ~Sending(c, s) /\ ~Sending(c, s)'
    BY <1>1, <1>2 DEF Sending
  <2> QED
    BY <1>1, <2>1 DEF Sending
<1>5. Connected' /\ ReplaysWanted'
  BY <1>1 DEF Connected, ReplaysWanted
<1>6. OnlyTopics'
  BY <1>1, <1>2 DEF OnlyTopics
<1>7. OneAsks'
  <2>1. CASE LockBooks(c)
    <3>1. books = Nobody /\ books' = c /\ session = "binance"
      BY <2>1 DEF LockBooks
    <3>2. \A d \in Callers : d # Nobody
      BY StreamsAssumption DEF StreamsAssumption
    <3> QED
      BY <1>3, <3>1, <3>2 DEF OneAsks
  <2>2. CASE Begin(c)
    <3>1. books' = books /\ ~Asking(c)'
      BY <2>2 DEF Begin, Asking, StreamsTypeOK
    <3> QED
      BY <1>1, <1>3, <3>1 DEF OneAsks
  <2>3. CASE Take(c)
    BY <1>1, <2>3 DEF Take, OneAsks
  <2> QED
    BY <2>1, <2>2, <2>3
<1>8. Opposites'
  <2>1. ASSUME NEW d \in Callers, d # c, Asking(c)', Asking(d), call'[c].op # call[d].op,
               NEW s \in call'[c].set \intersect call[d].set
        PROVE  s \in slipped'
    <3>1. CASE Begin(c)
      BY <2>1, <3>1 DEF Begin, Asking, StreamsTypeOK
    <3>2. CASE LockBooks(c)
      <4>1. books = d /\ books = Nobody
        BY <2>1, <3>2 DEF LockBooks, OneAsks
      <4> QED
        BY <4>1, StreamsAssumption DEF StreamsAssumption
    <3>3. CASE Take(c)
      <4>1. call'[c] = [call[c] EXCEPT !.at = "map", !.set = Changed(c, taken)]
            /\ slipped' = slipped \union Crossing(c)
        BY <2>1, <3>3 DEF Take, Ends, Asking, Idle, StreamsTypeOK
      <4>2. PICK a, o, q : call[c] = [at |-> a, op |-> o, set |-> q]
        BY CallTyped
      <4>3. call'[c].op = call[c].op /\ call'[c].set \subseteq call[c].set
        BY <4>1, <4>2 DEF Changed
      <4>4. s \in Crossing(c)
        BY <2>1, <4>3 DEF Crossing
      <4> QED
        BY <4>1, <4>4
    <3> QED
      BY <3>1, <3>2, <3>3
  <2> QED
    BY <1>1, <1>3, <2>1 DEF Opposites
<1>9. SendsWanted'
  BY <1>1, <1>2 DEF SendsWanted
<1>10. Settled'
  BY <1>1, <1>4 DEF Settled, Agrees, All
<1> QED
  BY <1>5, <1>6, <1>7, <1>8, <1>9, <1>10

\* The map changes for the streams that are sent next.
LEMMA RecordKeeps ==
    ASSUME StreamsTypeOK, PublicInv, NEW c \in Callers, Record(c)
    PROVE  PublicInv'
<1> USE DEF PublicInv
<1>1. /\ UNCHANGED <<session, conn, stopped, stop, loop, rest, alive, held>>
      /\ wanted' = After(c, wanted) /\ slipped' = slipped \union Crossing(c)
      /\ \A d \in Callers : d # c => call'[d] = call[d]
      /\ call[c].at = "map" /\ call[c].op \in {"subscribe", "unsubscribe"}
  BY CallTyped DEF Record, Ends, mgrVars, loopVars, venueVars, StreamsTypeOK
<1>2. \/ /\ Changed(c, wanted) = {} /\ call'[c] = Idle
         /\ books' = IF books = c THEN Nobody ELSE books
      \/ /\ Changed(c, wanted) # {}
         /\ call'[c] = [at |-> "send", op |-> call[c].op, set |-> Changed(c, wanted)]
         /\ UNCHANGED books
  <2>1. [call[c] EXCEPT !.at = "send", !.set = Changed(c, wanted)]
           = [at |-> "send", op |-> call[c].op, set |-> Changed(c, wanted)]
    BY CallMoves
  <2> QED
    BY <2>1 DEF Record, Ends, Release, StreamsTypeOK
<1>3. /\ Changed(c, wanted) \subseteq call[c].set
      /\ \A s \in Changed(c, wanted) : s \in wanted' <=> call[c].op = "subscribe"
      /\ \A s : s \notin Changed(c, wanted) => (s \in wanted' <=> s \in wanted)
      /\ \A s : s \notin call[c].set => (s \in wanted' <=> s \in wanted)
      /\ \A s \in call[c].set : s \in wanted' <=> call[c].op = "subscribe"
  BY <1>1 DEF Changed, After
<1>4. /\ Asking(c) /\ \A d \in Callers : d # c => (Asking(d)' <=> Asking(d))
      /\ Asking(c)' => /\ call'[c].op = call[c].op /\ call'[c].set \subseteq call[c].set
                       /\ UNCHANGED books
  BY <1>1, <1>2, <1>3 DEF Asking, Idle
<1>5. Connected'
  BY <1>1 DEF Connected
<1>6. OnlyTopics'
  BY <1>1, <1>2, <1>3 DEF OnlyTopics, Idle, After
<1>7. OneAsks'
  BY <1>1, <1>2, <1>4 DEF OneAsks
<1>8. Opposites'
  <2>1. ASSUME NEW d \in Callers, d # c, Asking(c)', Asking(d), call'[c].op # call[d].op
        PROVE  call'[c].set \intersect call[d].set \subseteq slipped'
    BY <1>1, <1>4, <2>1 DEF Opposites
  <2> QED
    BY <1>1, <1>4, <2>1 DEF Opposites
<1>9. SendsWanted'
  <2>1. ASSUME NEW d \in Callers, d # c, NEW s \in call[d].set, s \notin slipped', call[d].at = "send"
        PROVE  s \in wanted' <=> call[d].op = "subscribe"
    <3>1. s \notin slipped /\ (s \in wanted <=> call[d].op = "subscribe")
      BY <1>1, <2>1 DEF SendsWanted
    <3>2. CASE s \in call[c].set
      <4>1. call[d].op = call[c].op
        BY <1>1, <2>1, <3>2 DEF Crossing, Asking
      <4> QED
        BY <1>3, <3>2, <4>1
    <3>3. CASE s \notin call[c].set
      BY <1>3, <3>1, <3>3
    <3> QED
      BY <3>2, <3>3
  <2>2. ASSUME NEW s \in call'[c].set, call'[c].at = "send"
        PROVE  s \in wanted' <=> call'[c].op = "subscribe"
    BY <1>2, <1>3, <2>2 DEF Idle
  <2> QED
    BY <1>1, <2>1, <2>2 DEF SendsWanted
<1>10. ReplaysWanted'
  <2>1. ASSUME loop = "replay", NEW s \in rest, s \notin slipped' PROVE s \in wanted'
    <3>1. s \in wanted
      BY <1>1, <2>1 DEF ReplaysWanted
    <3>2. s \in call[c].set => call[c].op = "subscribe"
      BY <1>1, <2>1 DEF Crossing
    <3> QED
      BY <1>3, <3>1, <3>2
  <2> QED
    BY <1>1, <2>1 DEF ReplaysWanted
<1>11. Settled'
  <2>1. ASSUME alive, ~stopped, NEW s \in Topics, s \notin slipped', \A d \in Callers : ~Sending(d, s)'
        PROVE  Agrees(s)'
    <3>1. s \notin Changed(c, wanted)
      BY <1>2, <2>1 DEF Sending
    <3>2. \A d \in Callers : ~Sending(d, s)
      BY <1>1, <2>1 DEF Sending
    <3>3. Agrees(s)
      BY <1>1, <2>1, <3>2 DEF Settled
    <3> QED
      BY <1>1, <1>3, <3>1, <3>3 DEF Agrees
  <2> QED
    BY <1>1, <2>1 DEF Settled
<1> QED
  BY <1>5, <1>6, <1>7, <1>8, <1>9, <1>10, <1>11

\* A request that is sent brings the venue to what the map says; one that cannot be
\* sent finds no connection that lives.
LEMMA SendKeeps ==
    ASSUME StreamsTypeOK, PublicInv, NEW c \in Callers, Send(c)
    PROVE  PublicInv'
<1> USE DEF PublicInv
<1>1. /\ UNCHANGED <<session, wanted, conn, stopped, stop, loop, rest, alive, slipped>>
      /\ call[c].at = "send" /\ call[c].op \in {"subscribe", "unsubscribe"}
  BY CallTyped DEF Send, mgrVars, loopVars
<1>2. \/ SendsPart(c)
      \/ ~(alive /\ ~stopped /\ conn) /\ Ends(c) /\ Release(c) /\ UNCHANGED held
  <2>1. call[c].set # {"login"}
    BY StreamsAssumption DEF StreamsAssumption, OnlyTopics
  <2> QED
    BY <2>1, SendIs DEF Unwritten, WriteFails
<1>3. /\ \A d \in Callers : d # c => call'[d] = call[d]
      /\ \/ call'[c] = Idle /\ books' = IF books = c THEN Nobody ELSE books
         \/ /\ call'[c].at = "send" /\ call'[c].op = call[c].op /\ call'[c].set \subseteq call[c].set
            /\ UNCHANGED books
  BY <1>2, EndsTyped DEF SendsPart, StreamsTypeOK
<1>4. /\ Asking(c) /\ \A d \in Callers : d # c => (Asking(d)' <=> Asking(d))
      /\ Asking(c)' => /\ call'[c].op = call[c].op /\ call'[c].set \subseteq call[c].set
                       /\ UNCHANGED books
  BY <1>1, <1>3 DEF Asking, Idle
<1>5. Connected'
  <2>1. loop = "set" => held' = held
    <3>1. loop = "set" => ~conn
      BY DEF Connected, Established
    <3> QED
      BY <1>2, <3>1 DEF SendsPart, Writes
  <2> QED
    BY <1>1, <2>1 DEF Connected
<1>6. OnlyTopics'
  <2>1. held' \subseteq Topics
    BY <1>2 DEF SendsPart, Writes, Takes, Granted, OnlyTopics
  <2> QED
    BY <1>1, <1>3, <2>1 DEF OnlyTopics, Idle
<1>7. OneAsks'
  BY <1>1, <1>3, <1>4 DEF OneAsks
<1>8. Opposites'
  BY <1>1, <1>3, <1>4 DEF Opposites
<1>9. SendsWanted'
  BY <1>1, <1>3 DEF SendsWanted, Idle
<1>10. ReplaysWanted'
  BY <1>1 DEF ReplaysWanted
<1>11. Settled'
  <2>1. ASSUME alive, ~stopped, NEW s \in Topics \ slipped, \A d \in Callers : ~Sending(d, s)'
        PROVE  Agrees(s)'
    <3>1. CASE loop \notin Established
      BY <1>1, <3>1 DEF Agrees, Established
    <3>2. CASE loop \in Established
      <4>1. conn
        BY <2>1, <3>2 DEF Connected
      <4>2. PICK part \in SUBSET call[c].set :
              /\ Writes(call[c].op, part)
              /\ \/ part = call[c].set
                 \/ call' = [call EXCEPT ![c] = [at |-> "send", op |-> call[c].op, set |-> call[c].set \ part]]
        BY <1>2, <2>1, <4>1 DEF SendsPart
      <4>3. held' = IF call[c].op = "subscribe" THEN held \union part ELSE held \ part
        <5>1. Granted(part) = part
          BY DEF Granted, OnlyTopics
        <5> QED
          BY <2>1, <4>2, <5>1 DEF Writes, Takes
      <4>4. CASE s \in part
        <5>1. s \in wanted <=> call[c].op = "subscribe"
          BY <1>1, <2>1, <4>4 DEF SendsWanted
        <5>2. s \in held' <=> s \in wanted
          BY <4>3, <4>4, <5>1
        <5> QED
          BY <1>1, <5>2 DEF Agrees
      <4>5. CASE s \notin part
        <5>1. ~Sending(c, s)
          <6>1. s \in call[c].set => part # call[c].set
            BY <4>5
          <6>2. part # call[c].set => call'[c] = [at |-> "send", op |-> call[c].op, set |-> call[c].set \ part]
            BY <4>2 DEF StreamsTypeOK
          <6> QED
            BY <2>1, <4>5, <6>1, <6>2 DEF Sending
        <5>2. \A d \in Callers : ~Sending(d, s)
          BY <1>3, <2>1, <5>1 DEF Sending
        <5>3. Agrees(s)
          BY <2>1, <5>2 DEF Settled
        <5>4. s \in held' <=> s \in held
          BY <4>3, <4>5
        <5> QED
          BY <1>1, <5>3, <5>4 DEF Agrees
      <4> QED
        BY <4>4, <4>5
    <3> QED
      BY <3>1, <3>2
  <2> QED
    BY <1>1, <2>1 DEF Settled
<1> QED
  BY <1>5, <1>6, <1>7, <1>8, <1>9, <1>10, <1>11

-------------------------------------------------------------------------------
LEMMA StreamsStep == StreamsInv /\ [Next]_vars => StreamsInv'
<1> SUFFICES ASSUME StreamsInv, [Next]_vars PROVE StreamsInv'
  OBVIOUS
<1>1. StreamsTypeOK /\ (Public => PublicInv) /\ (Public => OnlyTopics)
  BY DEF StreamsInv, PublicInv
<1>2. CASE Drop \/ Start \/ StartTimesOut \/ Cancel \/ StopConn \/ Loop \/ Reader \/ Pinger
  <2>1. StreamsTypeOK'
    BY <1>1, <1>2, ConnTyped
  <2>2. Public => PublicInv'
    BY <1>1, <1>2, ConnKeeps
  <2>3. UNCHANGED session
    BY <1>2 DEF Drop, Start, StartTimesOut, Cancel, StopConn, Reader, Receive, HandleMessage, ReadFails,
                Pinger, Ping, Pong, PingFails, Loop, GiveUp, Dial, SetConn, Snapshot, Replay, Launch,
                FirstError, CloseConn, Join
  <2> QED
    BY <2>1, <2>2, <2>3 DEF StreamsInv, Public
<1>3. ASSUME NEW c \in Callers, Begin(c) \/ LockBooks(c) \/ Take(c) \/ Record(c)
      PROVE  StreamsInv'
  <2>1. StreamsTypeOK'
    BY <1>1, <1>3, AskTyped
  <2>2. Public => PublicInv'
    BY <1>1, <1>3, AskKeeps, RecordKeeps
  <2>3. UNCHANGED session
    BY <1>3 DEF Begin, LockBooks, Take, Record
  <2> QED
    BY <2>1, <2>2, <2>3 DEF StreamsInv, Public
<1>4. ASSUME NEW c \in Callers, Send(c) PROVE StreamsInv'
  <2>1. StreamsTypeOK'
    BY <1>1, <1>4, SendTyped
  <2>2. Public => PublicInv'
    BY <1>1, <1>4, SendKeeps
  <2>3. UNCHANGED session
    BY <1>4 DEF Send
  <2> QED
    BY <2>1, <2>2, <2>3 DEF StreamsInv, Public
<1>5. ASSUME NEW c \in Callers, UserCall(c) PROVE StreamsInv'
  <2>1. StreamsTypeOK'
    BY <1>1, <1>5, UserTyped
  <2>2. ~Public /\ UNCHANGED session
    BY <1>5 DEF UserCall, Public
  <2> QED
    BY <2>1, <2>2 DEF StreamsInv, Public
<1>6. CASE UNCHANGED vars
  <2>1. StreamsTypeOK'
    BY <1>1, <1>6 DEF StreamsTypeOK, vars, mgrVars, loopVars, connVars, callVars, venueVars
  <2>2. Public => PublicInv'
    BY <1>1, <1>6, StandsStill DEF vars, mgrVars, loopVars, connVars, callVars, venueVars, PublicInv, Connected
  <2>3. UNCHANGED session
    BY <1>6 DEF vars
  <2> QED
    BY <2>1, <2>2, <2>3 DEF StreamsInv, Public
<1> QED
  BY <1>2, <1>3, <1>4, <1>5, <1>6 DEF Next, Route

\* Whatever calls, reconnections and stops come in whatever order, every variable has
\* its type: no set of streams grows beyond the streams there are, and a call is one
\* of those that streamManager and wsManager make.
THEOREM StreamsTypes == Spec => []StreamsTypeOK
<1>1. Init => StreamsInv
  BY StreamsInit
<1>2. StreamsInv /\ [Next]_vars => StreamsInv'
  BY StreamsStep
<1>3. StreamsInv => StreamsTypeOK
  BY DEF StreamsInv
<1> QED
  BY <1>1, <1>2, <1>3, PTL DEF Spec

\* A manager that is quiet has the venue stream what its map says (subscribe,
\* unsubscribe and subscribeAll of both ws_manager.go), however its calls fell into
\* reconnections, but for the streams of which opposite requests crossed.
THEOREM VenueStreamsWanted == Spec => []StreamsMatch
<1>1. Init => StreamsInv
  BY StreamsInit
<1>2. StreamsInv /\ [Next]_vars => StreamsInv'
  BY StreamsStep
<1>3. StreamsInv => StreamsMatch
  <2> SUFFICES ASSUME StreamsInv, Quiet, Public PROVE held \ slipped = wanted \ slipped
    BY DEF StreamsMatch, Public
  <2>1. PublicInv
    BY DEF StreamsInv
  <2>2. \A c \in Callers, s \in Topics : ~Sending(c, s)
    BY DEF Sending, Quiet, Idle
  <2>3. \A s \in Topics \ slipped : s \in held <=> s \in wanted
    BY <2>1, <2>2 DEF PublicInv, Settled, Agrees, Quiet
  <2>4. held \subseteq Topics /\ wanted \subseteq Topics
    BY <2>1 DEF PublicInv, OnlyTopics
  <2> QED
    BY <2>3, <2>4
<1> QED
  BY <1>1, <1>2, <1>3, PTL DEF Spec

-------------------------------------------------------------------------------
(* OKX's book *)

LEMMA OkxBounds ==
    /\ OkxUpdates \in Nat \ {0} /\ MaxLag \in Nat /\ MaxReconnects \in Nat /\ BookFaults \in Nat
    /\ Okx!Clock = OkxUpdates + 1
BY BooksAssumption DEF Okx!OkxAssumption, Okx!Clock

\* The fields of a book.
LEMMA OkxFields ==
    ASSUME NEW b \in Okx!Books
    PROVE  /\ b.seq \in 0..Okx!Clock /\ b.has \in SUBSET (1..OkxUpdates) /\ b.torn \in BOOLEAN
           /\ b.ready \in BOOLEAN /\ b.pending \in Seq(Okx!Diffs)
           /\ b = [seq |-> b.seq, has |-> b.has, torn |-> b.torn, ready |-> b.ready, pending |-> b.pending]
BY DEF Okx!Books

LEMMA OkxIsBook ==
    ASSUME NEW n \in 0..Okx!Clock, NEW h \in SUBSET (1..OkxUpdates), NEW t \in BOOLEAN,
           NEW y \in BOOLEAN, NEW q \in Seq(Okx!Diffs)
    PROVE  [ready |-> y, seq |-> n, has |-> h, torn |-> t, pending |-> q] \in Okx!Books
BY DEF Okx!Books

LEMMA OkxNew == Okx!New \in Okx!Books /\ Okx!Complete(Okx!New)
<1>1. Okx!New \in Okx!Books
  <2>1. 0 \in 0..Okx!Clock /\ {} \in SUBSET (1..OkxUpdates) /\ <<>> \in Seq(Okx!Diffs)
    BY OkxBounds
  <2> QED
    BY <2>1, OkxIsBook DEF Okx!New
<1>2. Okx!New.has = 1..0 /\ Okx!New.seq = 0 /\ ~Okx!New.torn /\ 0 \in 0..OkxUpdates
  BY OkxBounds DEF Okx!New
<1> QED
  BY <1>1, <1>2 DEF Okx!Complete

\* A snapshot under its own number, or under a timestamp, lacks nothing.
LEMMA OkxSnapshot ==
    ASSUME NEW n \in 1..OkxUpdates, NEW id \in {n, Okx!Clock}
    PROVE  LET b == [Okx!ApplySnapshot(n) EXCEPT !.seq = id] IN
           b \in Okx!Books /\ b.ready /\ b.seq = id /\ Okx!Complete(b)
<1>1. [Okx!ApplySnapshot(n) EXCEPT !.seq = id]
         = [ready |-> TRUE, seq |-> id, has |-> 1..n, torn |-> FALSE, pending |-> <<>>]
  <2>1. PICK a, y, t, h, q : a = Okx!ApplySnapshot(n) /\ y = TRUE /\ t = FALSE /\ h = 1..n /\ q = <<>>
    OBVIOUS
  <2>2. a = [ready |-> y, seq |-> n, has |-> h, torn |-> t, pending |-> q]
    BY <2>1, Zenon DEF Okx!ApplySnapshot
  <2>3. [a EXCEPT !.seq = id] = [ready |-> y, seq |-> id, has |-> h, torn |-> t, pending |-> q]
    BY <2>2
  <2> QED
    BY <2>1, <2>3, Zenon
<1>2. PICK b : b = [ready |-> TRUE, seq |-> id, has |-> 1..n, torn |-> FALSE, pending |-> <<>>]
  OBVIOUS
<1>3. id \in 0..Okx!Clock /\ 1..n \in SUBSET (1..OkxUpdates) /\ n \in 0..OkxUpdates
      /\ <<>> \in Seq(Okx!Diffs)
  BY OkxBounds
<1>4. b \in Okx!Books
  BY <1>2, <1>3, OkxIsBook
<1>5. Okx!Complete(b)
  BY <1>2, <1>3 DEF Okx!Complete
<1> QED
  BY <1>1, <1>2, <1>4, <1>5

\* One whose entries are dropped is flawed.
LEMMA OkxConverted ==
    ASSUME Okx!OkxTypeOK, NEW n \in 1..OkxUpdates, NEW b \in Okx!Converted(n), Okx!Convert(n, b),
           NEW id \in {n, Okx!Clock}
    PROVE  LET s == [b EXCEPT !.seq = id] IN
           /\ s \in Okx!Books /\ s.seq = id /\ b.seq = n
           /\ okxFailed' \in 0..BookFaults /\ flawed' \in BOOLEAN
           /\ flawed => flawed'
           /\ ~flawed' => Okx!Complete(s)
<1>1. okxFailed' \in 0..BookFaults /\ flawed' \in BOOLEAN /\ (flawed => flawed')
  <2>1. okxFailed' \in 0..BookFaults
    <3>1. okxFailed \in 0..BookFaults
      BY DEF Okx!OkxTypeOK
    <3> QED
      BY <3>1, OkxBounds DEF Okx!Convert
  <2> QED
    BY <2>1 DEF Okx!Convert, Okx!OkxTypeOK
<1>2. ~flawed' => b = Okx!ApplySnapshot(n)
  BY DEF Okx!Convert
<1>3. PICK h \in SUBSET (1..OkxUpdates) :
        b = [ready |-> TRUE, seq |-> n, has |-> h, torn |-> FALSE, pending |-> <<>>]
  <2>1. 1..n \in SUBSET (1..OkxUpdates)
    BY OkxBounds
  <2>2. CASE b = Okx!ApplySnapshot(n)
    BY <2>1, <2>2 DEF Okx!ApplySnapshot
  <2>3. ASSUME NEW u \in 1..n, b = [Okx!ApplySnapshot(n) EXCEPT !.has = Okx!ApplySnapshot(n).has \ {u}]
        PROVE  \E h \in SUBSET (1..OkxUpdates) :
                  b = [ready |-> TRUE, seq |-> n, has |-> h, torn |-> FALSE, pending |-> <<>>]
    <3>1. b = [ready |-> TRUE, seq |-> n, has |-> (1..n) \ {u}, torn |-> FALSE, pending |-> <<>>]
      BY <2>3 DEF Okx!ApplySnapshot
    <3>2. (1..n) \ {u} \in SUBSET (1..OkxUpdates)
      BY <2>1
    <3> QED
      BY <3>1, <3>2
  <2> QED
    BY <2>2, <2>3 DEF Okx!Converted
<1>4. [b EXCEPT !.seq = id] = [ready |-> TRUE, seq |-> id, has |-> h, torn |-> FALSE, pending |-> <<>>]
  <2>1. PICK y, t, q : y = TRUE /\ t = FALSE /\ q = <<>>
    OBVIOUS
  <2>2. b = [ready |-> y, seq |-> n, has |-> h, torn |-> t, pending |-> q]
    BY <1>3, <2>1, Zenon
  <2>3. [b EXCEPT !.seq = id] = [ready |-> y, seq |-> id, has |-> h, torn |-> t, pending |-> q]
    BY <2>2
  <2> QED
    BY <2>1, <2>3, Zenon
<1>5. [b EXCEPT !.seq = id] \in Okx!Books
  <2>1. id \in 0..Okx!Clock /\ <<>> \in Seq(Okx!Diffs)
    BY OkxBounds
  <2>2. [ready |-> TRUE, seq |-> id, has |-> h, torn |-> FALSE, pending |-> <<>>] \in Okx!Books
    BY <2>1, OkxIsBook
  <2> QED
    BY <1>4, <2>2, Zenon
<1>6. ~flawed' => Okx!Complete([b EXCEPT !.seq = id])
  BY <1>2, OkxSnapshot
<1> QED
  BY <1>1, <1>3, <1>4, <1>5, <1>6

\* The assembler has the book it is given, or none.
LEMMA OkxInstalled ==
    ASSUME Okx!OkxTypeOK, NEW b \in Okx!Books, Okx!Install(b)
    PROVE  /\ okxAsm' \in Okx!Books /\ okxFailed' \in 0..BookFaults
           /\ okxAsm'.ready => okxAsm' = b
<1>1. okxAsm \in Okx!Books /\ okxFailed \in 0..BookFaults
  BY DEF Okx!OkxTypeOK
<1>2. CASE okxAsm' = b /\ UNCHANGED okxFailed
  BY <1>1, <1>2
<1>3. CASE okxFailed < BookFaults /\ okxFailed' = okxFailed + 1 /\ okxAsm' = Okx!SnapshotFails(okxAsm)
  <2>1. okxAsm' = [ready |-> FALSE, seq |-> okxAsm.seq, has |-> okxAsm.has, torn |-> okxAsm.torn,
                   pending |-> <<>>]
    <3>1. PICK n, h, t, y, q :
            okxAsm = [seq |-> n, has |-> h, torn |-> t, ready |-> y, pending |-> q]
      BY <1>1, OkxFields
    <3> QED
      BY <1>3, <3>1 DEF Okx!SnapshotFails
  <2>2. okxAsm' \in Okx!Books
    <3>1. /\ okxAsm.seq \in 0..Okx!Clock /\ okxAsm.has \in SUBSET (1..OkxUpdates)
          /\ okxAsm.torn \in BOOLEAN /\ FALSE \in BOOLEAN /\ <<>> \in Seq(Okx!Diffs)
      BY <1>1, OkxFields
    <3> QED
      BY <2>1, <3>1, OkxIsBook, Zenon
  <2>3. okxFailed' \in 0..BookFaults
    BY <1>1, <1>3, OkxBounds
  <2> QED
    BY <2>1, <2>2, <2>3
<1> QED
  BY <1>2, <1>3 DEF Okx!Install

\* A diff of one update: it is applied, or the book stays as it is, or it is queued.
LEMMA OkxApplied ==
    ASSUME NEW b \in Okx!Books, NEW n \in 1..OkxUpdates, NEW d, d = Okx!Diff(n, n)
    PROVE  /\ Okx!ApplyDiff(b, d) \in Okx!Books
           /\ ~Okx!Applies(b, d) /\ Okx!ApplyDiff(b, d).ready => Okx!ApplyDiff(b, d) = b
           /\ Okx!Applies(b, d) =>
                 /\ Okx!ApplyDiff(b, d).seq = n
                 /\ Okx!Complete(b) /\ n = b.seq + 1 => Okx!Complete(Okx!ApplyDiff(b, d))
           /\ Okx!DiffFails(b) \in Okx!Books
<1> USE OkxBounds
<1>1. d.first = n /\ d.last = n /\ d \in Okx!Diffs
  BY DEF Okx!Diff, Okx!Diffs
<1>2. d.first..d.last = {n}
  BY <1>1
<1>3. PICK m \in 0..Okx!Clock, h \in SUBSET (1..OkxUpdates), t \in BOOLEAN, y \in BOOLEAN,
           q \in Seq(Okx!Diffs) :
        b = [seq |-> m, has |-> h, torn |-> t, ready |-> y, pending |-> q]
  BY OkxFields
<1>4. Okx!DiffFails(b) \in Okx!Books
  <2>1. Okx!DiffFails(b) = [ready |-> y, seq |-> m, has |-> h, torn |-> TRUE, pending |-> q]
    <3>1. PICK u : u = TRUE
      OBVIOUS
    <3>2. [b EXCEPT !.torn = u] = [ready |-> y, seq |-> m, has |-> h, torn |-> u, pending |-> q]
      BY <1>3
    <3> QED
      BY <3>1, <3>2, Zenon DEF Okx!DiffFails
  <2> QED
    BY <2>1, OkxIsBook
<1>5. CASE Okx!Applies(b, d)
  <2>1. Okx!ApplyDiff(b, d) = [b EXCEPT !.has = b.has \union {n}, !.seq = n]
    BY <1>1, <1>2, <1>5 DEF Okx!ApplyDiff
  <2>2. PICK c : c = [ready |-> y, seq |-> n, has |-> h \union {n}, torn |-> t, pending |-> q]
    OBVIOUS
  <2>3. Okx!ApplyDiff(b, d) = c
    BY <1>3, <2>1, <2>2
  <2>4. h \union {n} \in SUBSET (1..OkxUpdates) /\ n \in 0..Okx!Clock
    OBVIOUS
  <2>5. c \in Okx!Books
    BY <2>2, <2>4, OkxIsBook
  <2>6. ASSUME Okx!Complete(b), n = b.seq + 1 PROVE Okx!Complete(c)
    <3>1. PICK k \in 0..OkxUpdates : h = 1..k /\ m \in {k, Okx!Clock} /\ ~t
      BY <1>3, <2>6 DEF Okx!Complete
    <3>2. k = m /\ n = k + 1
      BY <1>3, <2>6, <3>1
    <3>3. h \union {n} = 1..n /\ n \in 0..OkxUpdates
      BY <3>1, <3>2
    <3> QED
      BY <2>2, <3>1, <3>3 DEF Okx!Complete
  <2> QED
    BY <1>4, <1>5, <2>2, <2>3, <2>5, <2>6
<1>6. CASE ~Okx!Applies(b, d) /\ y
  <2>1. Okx!ApplyDiff(b, d) = b
    BY <1>3, <1>6 DEF Okx!ApplyDiff
  <2> QED
    BY <1>4, <1>6, <2>1
<1>7. CASE ~Okx!Applies(b, d) /\ ~y
  <2>1. Okx!ApplyDiff(b, d) = [b EXCEPT !.pending = Append(b.pending, d)]
    BY <1>3, <1>7 DEF Okx!ApplyDiff
  <2>2. Okx!ApplyDiff(b, d) = [ready |-> y, seq |-> m, has |-> h, torn |-> t, pending |-> Append(q, d)]
    BY <1>3, <2>1
  <2>3. Append(q, d) \in Seq(Okx!Diffs)
    BY <1>1
  <2>4. Okx!ApplyDiff(b, d) \in Okx!Books
    BY <2>2, <2>3, OkxIsBook
  <2> QED
    BY <1>4, <1>7, <2>2, <2>4
<1> QED
  BY <1>5, <1>6, <1>7

\* A book that lacks nothing lacks nothing at the top.
LEMMA OkxCovers ==
    ASSUME NEW b \in Okx!Books, Okx!Complete(b)
    PROVE  Okx!TopExact(b)
<1>1. PICK k \in 0..OkxUpdates : b.has = 1..k
  BY DEF Okx!Complete
<1> QED
  BY <1>1, OkxBounds DEF Okx!TopExact

OkxMade == made => Okx!TopExact(okxPublished)

LEMMA OkxInit == Okx!Init => Okx!OkxInv
<1> SUFFICES ASSUME Okx!Init PROVE Okx!OkxInv
  OBVIOUS
<1> USE DEF Okx!Init
<1>1. [kind |-> "snapshot", seq |-> 1] \in Okx!Messages
  BY OkxBounds DEF Okx!Messages
<1>2. okxStream \in Seq(Okx!Messages)
  BY <1>1
<1>3. Okx!OkxTypeOK
  <2>1. /\ 0 \in 0..Okx!Clock /\ 1 \in 1..OkxUpdates /\ 0 \in 0..BookFaults /\ 0 \in 0..MaxReconnects
        /\ okxRpc \in [Resyncers -> {"none", "fetch", "seed", "show"}] /\ snap \in [Resyncers -> Okx!Books]
    BY OkxBounds, OkxNew
  <2> QED
    BY OkxNew, <1>2, <2>1 DEF Okx!OkxTypeOK
<1>4. Okx!HasMessage /\ Okx!NumberIsTheBooks
  BY DEF Okx!HasMessage, Okx!NumberIsTheBooks, Okx!Showing
<1>5. Okx!Firm
  BY OkxNew, OkxCovers DEF Okx!Firm, Okx!Showing, Okx!Usable
<1> QED
  BY <1>3, <1>4, <1>5, OkxNew DEF Okx!OkxInv

\* The venue's steps.
LEMMA OkxVenueStep ==
    ASSUME Okx!OkxInv, Okx!Emit \/ Okx!Reconnect
    PROVE  Okx!OkxInv'
<1> USE DEF Okx!OkxInv, OkxMade, Okx!handleVars, Okx!readVars, Okx!syncVars, Okx!bookVars, Okx!pastVars
<1>1. okxStream' \in Seq(Okx!Messages) /\ okxVenue' \in 1..OkxUpdates /\ reconnects' \in 0..MaxReconnects
  <2>1. CASE Okx!Emit
    <3>1. [kind |-> "diff", seq |-> okxVenue + 1] \in Okx!Messages
      BY OkxBounds, <2>1 DEF Okx!Emit, Okx!Messages, Okx!OkxTypeOK
    <3> QED
      BY OkxBounds, <2>1, <3>1 DEF Okx!Emit, Okx!OkxTypeOK
  <2>2. CASE Okx!Reconnect
    <3>1. [kind |-> "snapshot", seq |-> okxVenue] \in Okx!Messages
      BY DEF Okx!Messages, Okx!OkxTypeOK
    <3> QED
      BY OkxBounds, <2>2, <3>1 DEF Okx!Reconnect, Okx!OkxTypeOK
  <2> QED
    BY <2>1, <2>2
<1>2. UNCHANGED <<covered, okxFailed, okxAsm, okxLastSeq, okxSeeded, resyncing, hpc, msg, okxOut,
                  okxRpc, snap, okxPublished, made, okxOvertaken, flawed>>
  BY DEF Okx!Emit, Okx!Reconnect
<1>3. Okx!OkxTypeOK'
  BY <1>1, <1>2 DEF Okx!OkxTypeOK
<1>4. Okx!HasMessage' /\ OkxMade'
  BY <1>2 DEF Okx!HasMessage, Okx!Showing, OkxMade, Okx!TopExact
<1>5. ~okxOvertaken /\ ~flawed => Okx!NumberIsTheBooks'
  BY <1>2 DEF Okx!NumberIsTheBooks, Okx!Showing, Okx!Gap, Okx!Prev, Okx!Complete
<1>6. ~flawed => Okx!Firm'
  BY <1>2 DEF Okx!Firm, Okx!Showing, Okx!Usable, Okx!TopExact
<1> QED
  BY <1>2, <1>3, <1>4, <1>5, <1>6 DEF Okx!Complete

\* What a message of the stream does.
LEMMA OkxReceiveStep ==
    ASSUME Okx!OkxInv, Okx!Receive
    PROVE  Okx!OkxInv'
<1> USE DEF Okx!OkxInv, OkxMade, Okx!syncVars, Okx!bookVars
<1>0. /\ hpc = "receive" /\ okxStream # <<>> /\ okxStream' = Tail(okxStream)
      /\ UNCHANGED <<covered, okxVenue, reconnects, okxAsm, okxRpc, snap, okxPublished, made, okxOvertaken>>
  BY DEF Okx!Receive
<1>1. /\ Head(okxStream) \in Okx!Messages /\ Tail(okxStream) \in Seq(Okx!Messages)
      /\ Head(okxStream).seq \in 1..OkxUpdates
  <2>1. okxStream \in Seq(Okx!Messages)
    BY DEF Okx!OkxTypeOK
  <2>2. Head(okxStream) \in Okx!Messages /\ Tail(okxStream) \in Seq(Okx!Messages)
    BY <1>0, <2>1
  <2> QED
    BY <2>2 DEF Okx!Messages
<1>2. OkxMade'
  BY <1>0 DEF OkxMade, Okx!TopExact
<1>3. CASE /\ msg' = Head(okxStream) /\ okxSeeded' = TRUE /\ okxLastSeq' = Head(okxStream).seq
           /\ resyncing' = FALSE /\ hpc' = "show"
           /\ \E b \in Okx!Converted(Head(okxStream).seq) :
                 Okx!Convert(Head(okxStream).seq, b) /\ okxOut' = b
  <2>1. PICK n \in 1..OkxUpdates : n = Head(okxStream).seq
    BY <1>1
  <2>2. PICK b \in Okx!Converted(n) : Okx!Convert(n, b) /\ okxOut' = b
    BY <1>3, <2>1
  <2>3. PICK s : s = [b EXCEPT !.seq = n]
    OBVIOUS
  <2>4. /\ s \in Okx!Books /\ b.seq = n /\ okxFailed' \in 0..BookFaults /\ flawed' \in BOOLEAN
        /\ flawed => flawed'
        /\ ~flawed' => Okx!Complete(s)
    BY <2>2, <2>3, OkxConverted
  <2>5. s = b
    <3>1. b = Okx!ApplySnapshot(n) \/ \E u \in 1..n : b = [Okx!ApplySnapshot(n) EXCEPT !.has = @ \ {u}]
      BY <2>2 DEF Okx!Converted
    <3> QED
      BY <2>3, <3>1 DEF Okx!ApplySnapshot
  <2>6. Okx!OkxTypeOK'
    <3>1. okxLastSeq' \in 0..Okx!Clock /\ okxOut' \in Okx!Books
      BY <1>1, <1>3, <2>2, <2>4, <2>5, OkxBounds
    <3> QED
      BY <1>0, <1>1, <1>3, <2>4, <3>1 DEF Okx!OkxTypeOK
  <2>7. Okx!HasMessage'
    BY <1>1, <1>3 DEF Okx!HasMessage
  <2>8. ~flawed' => Okx!Firm'
    <3> SUFFICES ASSUME ~flawed' PROVE Okx!Firm'
      OBVIOUS
    <3>1. Okx!TopExact(b) /\ Okx!TopExact(okxPublished)
      BY <2>4, <2>5, OkxCovers DEF Okx!Firm
    <3> QED
      BY <1>0, <1>3, <2>2, <3>1 DEF Okx!Firm, Okx!Showing, Okx!TopExact
  <2>9. ~okxOvertaken /\ ~flawed' => Okx!NumberIsTheBooks' /\ Okx!Complete(okxOut')
    BY <1>3, <2>1, <2>2, <2>4, <2>5 DEF Okx!NumberIsTheBooks, Okx!Showing
  <2> QED
    BY <1>0, <1>2, <2>4, <2>6, <2>7, <2>8, <2>9 DEF Okx!Complete
<1>4. CASE /\ \/ msg' = Head(okxStream) /\ hpc' = "look" /\ UNCHANGED okxFailed
              \/ okxFailed < BookFaults /\ okxFailed' = okxFailed + 1 /\ UNCHANGED <<hpc, msg>>
           /\ UNCHANGED <<flawed, okxSeeded, okxLastSeq, resyncing, okxOut>>
  <2>1. okxFailed' \in 0..BookFaults
    BY <1>4, OkxBounds DEF Okx!OkxTypeOK
  <2>2. msg' \in Okx!Messages \union {Okx!Nothing}
    BY <1>1, <1>4 DEF Okx!OkxTypeOK
  <2>3. Okx!OkxTypeOK'
    BY <1>0, <1>1, <1>4, <2>1, <2>2 DEF Okx!OkxTypeOK
  <2>4. Okx!HasMessage'
    BY <1>0, <1>1, <1>4 DEF Okx!HasMessage
  <2>5. ~okxOvertaken /\ ~flawed => Okx!NumberIsTheBooks'
    BY <1>0, <1>4 DEF Okx!NumberIsTheBooks, Okx!Showing, Okx!Complete
  <2>6. ~flawed => Okx!Firm'
    BY <1>0, <1>4 DEF Okx!Firm, Okx!Showing, Okx!Usable, Okx!TopExact
  <2> QED
    BY <1>0, <1>2, <1>4, <2>3, <2>4, <2>5, <2>6 DEF Okx!Complete
<1> QED
  BY <1>3, <1>4 DEF Okx!Receive

\* A snapshot of the stream is shown, and then given to the assembler.
LEMMA OkxShowStep ==
    ASSUME Okx!OkxInv, Okx!ShowSnapshot \/ Okx!InitAssembler
    PROVE  Okx!OkxInv'
<1> USE DEF Okx!OkxInv, OkxMade, Okx!venueVars, Okx!handleVars, Okx!syncVars, Okx!bookVars, Okx!pastVars
<1>1. hpc \in {"show", "init"} /\ msg \in Okx!Messages /\ okxOut \in Okx!Books
  BY DEF Okx!ShowSnapshot, Okx!InitAssembler, Okx!HasMessage, Okx!OkxTypeOK
<1>2. CASE Okx!ShowSnapshot
  <2> USE <1>2 DEF Okx!ShowSnapshot
  <2>1. Okx!OkxTypeOK'
    BY <1>1 DEF Okx!OkxTypeOK
  <2>2. Okx!HasMessage' /\ OkxMade'
    BY <1>1 DEF Okx!HasMessage, OkxMade
  <2>3. ~okxOvertaken /\ ~flawed => Okx!NumberIsTheBooks'
    BY DEF Okx!NumberIsTheBooks, Okx!Showing
  <2>4. ~flawed => Okx!Firm'
    BY DEF Okx!Firm, Okx!Showing, Okx!TopExact
  <2> QED
    BY <2>1, <2>2, <2>3, <2>4 DEF Okx!Complete
<1>3. CASE Okx!InitAssembler
  <2>1. /\ hpc = "init" /\ Okx!Install(okxOut) /\ okxOut' = Okx!New
        /\ hpc' = "receive" /\ msg' = Okx!Nothing
        /\ UNCHANGED <<covered, okxVenue, okxStream, reconnects, okxLastSeq, okxSeeded, resyncing,
                       okxRpc, snap, okxPublished, made, okxOvertaken, flawed>>
    BY <1>3 DEF Okx!InitAssembler, Okx!Finish
  <2>2. /\ okxAsm' \in Okx!Books /\ okxFailed' \in 0..BookFaults
        /\ okxAsm'.ready => okxAsm' = okxOut
    BY <1>1, <2>1, OkxInstalled
  <2>3. Okx!OkxTypeOK'
    BY <2>1, <2>2, OkxNew DEF Okx!OkxTypeOK
  <2>4. Okx!HasMessage' /\ OkxMade'
    BY <2>1 DEF Okx!HasMessage, OkxMade, Okx!TopExact
  <2>5. ~okxOvertaken /\ ~flawed => Okx!NumberIsTheBooks'
    BY <2>1, <2>2 DEF Okx!NumberIsTheBooks, Okx!Showing, Okx!Complete
  <2>6. ~flawed => Okx!Firm'
    BY <1>1, <2>1, <2>2 DEF Okx!Firm, Okx!Showing, Okx!Usable, Okx!TopExact
  <2> QED
    BY <2>1, <2>3, <2>4, <2>5, <2>6, OkxNew DEF Okx!Complete
<1> QED
  BY <1>2, <1>3

\* A diff is compared, or makes a resync start.
LEMMA OkxLookStep ==
    ASSUME Okx!OkxInv, Okx!Look \/ Okx!Trigger \/ Okx!Spawn
    PROVE  Okx!OkxInv'
<1> USE DEF Okx!OkxInv, OkxMade, Okx!Look, Okx!Trigger, Okx!Spawn, Okx!Finish, Okx!venueVars, Okx!handleVars,
            Okx!syncVars, Okx!bookVars, Okx!pastVars
<1>1. Okx!OkxTypeOK'
  <2>1. CASE Okx!Trigger
    <3>1. 0 \in 0..Okx!Clock
      BY OkxBounds
    <3> QED
      BY <2>1, <3>1 DEF Okx!OkxTypeOK
  <2>2. CASE Okx!Look \/ Okx!Spawn
    BY <2>2 DEF Okx!OkxTypeOK
  <2> QED
    BY <2>1, <2>2
<1>2. Okx!HasMessage' /\ OkxMade'
  BY DEF Okx!HasMessage, OkxMade, Okx!TopExact
<1>3. ~okxOvertaken /\ ~flawed => Okx!NumberIsTheBooks'
  <2>1. CASE Okx!Look
    BY <2>1 DEF Okx!NumberIsTheBooks, Okx!Showing, Okx!Gap, Okx!Prev, Okx!Complete
  <2>2. CASE Okx!Trigger
    BY <2>2 DEF Okx!NumberIsTheBooks, Okx!Showing, Okx!Complete
  <2>3. CASE Okx!Spawn
    BY <2>3 DEF Okx!NumberIsTheBooks, Okx!Showing, Okx!Complete
  <2> QED
    BY <2>1, <2>2, <2>3
<1>4. UNCHANGED <<okxOut, okxPublished, snap, okxOvertaken, flawed>>
  OBVIOUS
<1>5. ~flawed => Okx!Firm'
  <2>1. CASE Okx!Look
    BY <2>1 DEF Okx!Firm, Okx!Showing, Okx!Usable, Okx!TopExact
  <2>2. CASE Okx!Trigger
    BY <2>2 DEF Okx!Firm, Okx!Showing, Okx!Usable, Okx!TopExact
  <2>3. CASE Okx!Spawn
    BY <2>3 DEF Okx!Firm, Okx!Showing, Okx!Usable, Okx!TopExact
  <2> QED
    BY <2>1, <2>2, <2>3
<1> QED
  BY <1>1, <1>2, <1>3, <1>4, <1>5 DEF Okx!Complete

\* A diff is applied to the book it was compared with.
LEMMA OkxApplyStep ==
    ASSUME Okx!OkxInv, Okx!Apply
    PROVE  Okx!OkxInv'
<1> USE DEF Okx!OkxInv, OkxMade, Okx!syncVars, Okx!bookVars, Okx!pastVars
<1>1. hpc = "apply" /\ msg \in Okx!Messages /\ msg.seq \in 1..OkxUpdates /\ okxAsm \in Okx!Books
  BY DEF Okx!Apply, Okx!HasMessage, Okx!Messages, Okx!OkxTypeOK
<1>2. PICK d : d = Okx!Diff(msg.seq, msg.seq)
  OBVIOUS
<1>3. PICK b : b = Okx!ApplyDiff(okxAsm, d)
  OBVIOUS
<1>4. PICK t : t = Okx!DiffFails(okxAsm)
  OBVIOUS
<1>5. /\ b \in Okx!Books /\ t \in Okx!Books
      /\ ~Okx!Applies(okxAsm, d) /\ b.ready => b = okxAsm
      /\ Okx!Applies(okxAsm, d) =>
            /\ b.seq = msg.seq
            /\ Okx!Complete(okxAsm) /\ msg.seq = okxAsm.seq + 1 => Okx!Complete(b)
  BY <1>1, <1>2, <1>3, <1>4, OkxApplied
<1>6. UNCHANGED <<covered, okxVenue, okxStream, reconnects, okxRpc, snap, okxPublished, made,
                  okxOvertaken, flawed>>
  BY DEF Okx!Apply
<1>7. OkxMade'
  BY <1>6 DEF OkxMade, Okx!TopExact
<1>8. CASE /\ Okx!Applies(okxAsm, d) /\ okxAsm' = b /\ okxOut' = b
           /\ okxLastSeq' = msg.seq /\ resyncing' = FALSE /\ hpc' = "check"
           /\ UNCHANGED <<okxFailed, msg, okxSeeded>>
  <2>1. Okx!OkxTypeOK'
    <3>1. okxLastSeq' \in 0..Okx!Clock
      BY <1>1, <1>8, OkxBounds
    <3> QED
      BY <1>5, <1>6, <1>8, <3>1 DEF Okx!OkxTypeOK
  <2>2. Okx!HasMessage'
    BY <1>8 DEF Okx!HasMessage
  <2>3. ~okxOvertaken /\ ~flawed => Okx!Complete(b)
    <3>1. okxAsm.ready
      BY <1>8 DEF Okx!Applies
    <3>2. ~okxOvertaken /\ ~flawed =>
             okxSeeded /\ okxLastSeq = msg.seq - 1 /\ okxAsm.seq = okxLastSeq /\ Okx!Complete(okxAsm)
      BY <1>1, <3>1 DEF Okx!NumberIsTheBooks, Okx!Showing, Okx!Gap, Okx!Prev
    <3> QED
      BY <1>1, <1>5, <1>8, <3>2
  <2>4. ~okxOvertaken /\ ~flawed => Okx!NumberIsTheBooks'
    <3>1. hpc' = "check" /\ okxAsm' = b /\ b.seq = okxLastSeq'
      BY <1>5, <1>8
    <3>2. ~okxOvertaken /\ ~flawed => Okx!Complete(okxAsm')
      BY <1>8, <2>3
    <3> QED
      BY <3>1, <3>2 DEF Okx!NumberIsTheBooks, Okx!Showing, Okx!Complete
  <2>5. ~flawed => Okx!Firm'
    BY <1>6, <1>8 DEF Okx!Firm, Okx!Showing, Okx!TopExact
  <2> QED
    BY <1>6, <1>7, <1>8, <2>1, <2>2, <2>3, <2>4, <2>5 DEF Okx!Complete
<1>9. CASE /\ ~Okx!Applies(okxAsm, d) /\ okxAsm' = b /\ Okx!Finish
           /\ UNCHANGED <<okxFailed, okxOut, okxLastSeq, okxSeeded, resyncing>>
  <2>1. Okx!OkxTypeOK'
    BY <1>5, <1>6, <1>9 DEF Okx!OkxTypeOK, Okx!Finish
  <2>2. Okx!HasMessage'
    BY <1>9 DEF Okx!HasMessage, Okx!Finish
  <2>3. ~okxOvertaken /\ ~flawed => Okx!NumberIsTheBooks'
    BY <1>1, <1>5, <1>9 DEF Okx!NumberIsTheBooks, Okx!Showing, Okx!Finish, Okx!Complete
  <2>4. ~flawed => Okx!Firm'
    BY <1>1, <1>5, <1>6, <1>9 DEF Okx!Firm, Okx!Showing, Okx!Usable, Okx!TopExact, Okx!Finish
  <2> QED
    BY <1>6, <1>7, <1>9, <2>1, <2>2, <2>3, <2>4 DEF Okx!Complete
<1>10. CASE /\ okxFailed < BookFaults /\ okxFailed' = okxFailed + 1 /\ okxAsm' = t
            /\ okxSeeded' = FALSE /\ okxLastSeq' = 0 /\ resyncing' = FALSE /\ hpc' = "trigger"
            /\ UNCHANGED <<msg, okxOut>>
  <2>1. Okx!OkxTypeOK'
    <3>1. okxLastSeq' \in 0..Okx!Clock /\ okxFailed' \in 0..BookFaults
      BY <1>10, OkxBounds DEF Okx!OkxTypeOK
    <3> QED
      BY <1>5, <1>6, <1>10, <3>1 DEF Okx!OkxTypeOK
  <2>2. Okx!HasMessage'
    BY <1>10 DEF Okx!HasMessage
  <2>3. ~okxOvertaken /\ ~flawed => Okx!NumberIsTheBooks'
    BY <1>10 DEF Okx!NumberIsTheBooks, Okx!Showing
  <2>4. ~flawed => Okx!Firm'
    BY <1>6, <1>10 DEF Okx!Firm, Okx!Showing, Okx!TopExact
  <2> QED
    BY <1>6, <1>7, <1>10, <2>1, <2>2, <2>3, <2>4 DEF Okx!Complete
<1> QED
  BY <1>2, <1>3, <1>4, <1>8, <1>9, <1>10 DEF Okx!Apply

\* What does not match the checksum is not published.
LEMMA OkxCheckStep ==
    ASSUME Okx!OkxInv, Okx!Check
    PROVE  Okx!OkxInv'
<1> USE DEF Okx!OkxInv, OkxMade, Okx!Check, Okx!Finish, Okx!venueVars, Okx!handleVars, Okx!syncVars,
            Okx!bookVars, Okx!pastVars
<1>1. Okx!OkxTypeOK'
  BY OkxNew DEF Okx!OkxTypeOK
<1>2. Okx!HasMessage'
  BY DEF Okx!HasMessage
<1>3. OkxMade'
  BY DEF OkxMade, Okx!Matches, Okx!TopExact
<1>4. ~okxOvertaken /\ ~flawed => Okx!NumberIsTheBooks'
  BY DEF Okx!NumberIsTheBooks, Okx!Showing, Okx!Complete
<1>5. ~okxOvertaken /\ ~flawed => Okx!Complete(okxOut') /\ Okx!Complete(okxPublished')
  BY OkxNew
<1>6. UNCHANGED <<snap, okxOvertaken, flawed>>
  OBVIOUS
<1>7. ~flawed => Okx!Firm'
  BY DEF Okx!Firm, Okx!Showing, Okx!Usable, Okx!TopExact, Okx!Matches
<1> QED
  BY <1>1, <1>2, <1>3, <1>4, <1>5, <1>6, <1>7 DEF Okx!Complete

\* What a REST snapshot, or the lack of one, leaves behind.
OkxFetched ==
    /\ okxFailed' \in 0..BookFaults /\ flawed' \in BOOLEAN /\ (flawed => flawed')
    /\ snap' \in [Resyncers -> Okx!Books] /\ resyncing' \in BOOLEAN
    /\ okxRpc' \in [Resyncers -> {"none", "fetch", "seed", "show"}]
    /\ ~flawed' => \A q \in Resyncers : Okx!Complete(snap'[q])
    /\ resyncing' => resyncing

LEMMA OkxFetchStep ==
    ASSUME Okx!OkxInv, NEW r \in Resyncers, Okx!Fetch(r)
    PROVE  Okx!OkxInv'
<1> USE DEF Okx!OkxInv, OkxMade, Okx!readVars, Okx!bookVars
<1>1. UNCHANGED <<covered, okxVenue, okxStream, reconnects, okxAsm, okxLastSeq, okxSeeded, hpc, msg,
                  okxOut, okxPublished, made, okxOvertaken>>
  BY DEF Okx!Fetch
<1>2. OkxFetched
  <2>1. ASSUME NEW n \in 1..okxVenue, NEW b \in Okx!Converted(n), NEW id \in {n, Okx!Clock},
               Okx!Convert(n, b), snap' = [snap EXCEPT ![r] = [b EXCEPT !.seq = id]],
               okxRpc' = [okxRpc EXCEPT ![r] = "seed"], UNCHANGED resyncing
        PROVE  OkxFetched
    <3>1. n \in 1..OkxUpdates
      BY OkxBounds DEF Okx!OkxTypeOK
    <3>2. PICK s : s = [b EXCEPT !.seq = id]
      OBVIOUS
    <3>3. /\ s \in Okx!Books /\ okxFailed' \in 0..BookFaults /\ flawed' \in BOOLEAN
          /\ flawed => flawed'
          /\ ~flawed' => Okx!Complete(s)
      BY <2>1, <3>1, <3>2, OkxConverted
    <3>4. snap' = [snap EXCEPT ![r] = s]
      BY <2>1, <3>2
    <3> QED
      BY <2>1, <3>3, <3>4 DEF Okx!OkxTypeOK, OkxFetched
  <2>2. CASE /\ okxFailed < BookFaults /\ okxFailed' = okxFailed + 1
             /\ resyncing' = FALSE /\ okxRpc' = [okxRpc EXCEPT ![r] = "none"]
             /\ UNCHANGED <<snap, flawed>>
    <3>1. okxFailed \in 0..BookFaults /\ okxFailed' \in 0..BookFaults
      BY <2>2, OkxBounds DEF Okx!OkxTypeOK
    <3> QED
      BY <2>2, <3>1 DEF Okx!OkxTypeOK, OkxFetched
  <2> QED
    BY <2>1, <2>2 DEF Okx!Fetch
<1>3. Okx!OkxTypeOK'
  BY <1>1, <1>2 DEF Okx!OkxTypeOK, OkxFetched
<1>4. Okx!HasMessage' /\ OkxMade'
  BY <1>1 DEF Okx!HasMessage, OkxMade, Okx!TopExact
<1>5. ~okxOvertaken /\ ~flawed' => Okx!NumberIsTheBooks'
  BY <1>1, <1>2 DEF OkxFetched, Okx!NumberIsTheBooks, Okx!Showing, Okx!Gap, Okx!Prev, Okx!Complete
<1>6. ~flawed' => Okx!Firm'
  BY <1>1, <1>2 DEF OkxFetched, Okx!Firm, Okx!Showing, Okx!Usable, Okx!TopExact
<1> QED
  BY <1>1, <1>2, <1>3, <1>4, <1>5, <1>6 DEF Okx!Complete, OkxFetched

LEMMA OkxResyncStep ==
    ASSUME Okx!OkxInv, NEW r \in Resyncers, Okx!Resync(r)
    PROVE  Okx!OkxInv'
<1> USE DEF Okx!OkxInv, OkxMade, Okx!venueVars, Okx!handleVars, Okx!readVars, Okx!bookVars, Okx!pastVars
<1>1. snap[r] \in Okx!Books
  BY DEF Okx!OkxTypeOK
<1>2. CASE Okx!Seed(r)
  <2>1. /\ okxSeeded' = TRUE /\ okxLastSeq' = snap[r].seq /\ resyncing' = FALSE
        /\ Okx!Install(snap[r]) /\ okxRpc' = [okxRpc EXCEPT ![r] = "show"]
        /\ okxOvertaken' = (okxOvertaken \/ hpc \in {"show", "init", "apply"})
        /\ UNCHANGED <<covered, okxVenue, okxStream, reconnects, hpc, msg, okxOut, snap, okxPublished,
                       made, flawed>>
    BY <1>2 DEF Okx!Seed, Okx!Over
  <2>2. /\ okxAsm' \in Okx!Books /\ okxFailed' \in 0..BookFaults
        /\ okxAsm'.ready => okxAsm' = snap[r]
    BY <1>1, <2>1, OkxInstalled
  <2>3. Okx!OkxTypeOK'
    <3>1. okxLastSeq' \in 0..Okx!Clock
      BY <1>1, <2>1, OkxFields
    <3> QED
      BY <2>1, <2>2, <3>1 DEF Okx!OkxTypeOK
  <2>4. Okx!HasMessage' /\ OkxMade'
    BY <2>1 DEF Okx!HasMessage, OkxMade, Okx!TopExact
  <2>5. ~okxOvertaken' /\ ~flawed => Okx!NumberIsTheBooks'
    BY <2>1, <2>2 DEF Okx!NumberIsTheBooks, Okx!Showing, Okx!Complete
  <2>6. ~flawed => Okx!Firm'
    <3>1. ~flawed => Okx!TopExact(snap[r])
      BY <1>1, OkxCovers
    <3> QED
      BY <2>1, <2>2, <3>1 DEF Okx!Firm, Okx!Showing, Okx!Usable, Okx!TopExact
  <2> QED
    BY <2>1, <2>3, <2>4, <2>5, <2>6 DEF Okx!Complete
<1>3. CASE Okx!ShowResync(r)
  <2> USE <1>3 DEF Okx!ShowResync
  <2>1. Okx!OkxTypeOK'
    BY <1>1, OkxNew DEF Okx!OkxTypeOK
  <2>2. Okx!HasMessage' /\ OkxMade'
    BY DEF Okx!HasMessage, OkxMade
  <2>3. ~okxOvertaken /\ ~flawed => Okx!NumberIsTheBooks'
    BY DEF Okx!NumberIsTheBooks, Okx!Showing, Okx!Gap, Okx!Prev, Okx!Complete
  <2>4. ~flawed => Okx!Complete(okxPublished') /\ \A q \in Resyncers : Okx!Complete(snap'[q])
    BY <1>1, OkxNew DEF Okx!OkxTypeOK
  <2>5. ~flawed => Okx!Firm'
    <3>1. ~flawed => Okx!TopExact(snap[r])
      BY <1>1, OkxCovers
    <3> QED
      BY <3>1 DEF Okx!Firm, Okx!Showing, Okx!Usable, Okx!TopExact
  <2> QED
    BY <2>1, <2>2, <2>3, <2>4, <2>5 DEF Okx!Complete
<1> QED
  BY <1>2, <1>3, OkxFetchStep DEF Okx!Resync

LEMMA OkxStill ==
    ASSUME Okx!OkxInv, UNCHANGED okxVars
    PROVE  Okx!OkxInv'
BY DEF okxVars, Okx!OkxInv, Okx!OkxTypeOK, Okx!HasMessage, Okx!Showing, Okx!Firm, Okx!Usable,
       Okx!TopExact, Okx!NumberIsTheBooks, Okx!Gap, Okx!Prev, Okx!Complete

LEMMA OkxStep == Okx!OkxInv /\ (Okx!Next \/ UNCHANGED okxVars) => Okx!OkxInv'
<1> SUFFICES ASSUME Okx!OkxInv, Okx!Next \/ UNCHANGED okxVars PROVE Okx!OkxInv'
  OBVIOUS
<1>1. CASE Okx!HandleBooks
  BY <1>1, OkxReceiveStep, OkxShowStep, OkxLookStep, OkxApplyStep, OkxCheckStep DEF Okx!HandleBooks
<1> QED
  BY <1>1, OkxVenueStep, OkxResyncStep, OkxStill DEF Okx!Next

-------------------------------------------------------------------------------
(* Binance's book: its operations and its queues *)

LEMMA BinanceBounds ==
    /\ MaxVenue \in Nat \ {0} /\ MaxLag \in Nat /\ MaxLost \in Nat /\ BookFaults \in Nat
    /\ Handler \notin Seeders
BY BooksAssumption DEF Binance!BookAssumption

LEMMA NewBook == Binance!New \in Binance!Books /\ Binance!Exact(Binance!New)
<1>1. Binance!New.has = 1..Binance!New.seq
  BY DEF Binance!New
<1>2. /\ Binance!New.seq \in 0..MaxVenue /\ Binance!New.has \in SUBSET (1..MaxVenue)
  BY BinanceBounds DEF Binance!New
<1>3. Binance!New \in Binance!Books
  BY <1>2 DEF Binance!Books, Binance!New
<1> QED
  BY <1>1, <1>3 DEF Binance!Exact, Binance!New

LEMMA SnapshotBook ==
    ASSUME NEW n \in 0..MaxVenue
    PROVE  LET b == Binance!ApplySnapshot(n) IN
           b \in Binance!Books /\ Binance!Exact(b) /\ ~b.torn /\ b.seq = n
BY BinanceBounds DEF Binance!ApplySnapshot, Binance!Books, Binance!Exact

LEMMA DiffTyped ==
    ASSUME NEW d \in Binance!Diffs
    PROVE  d.first \in 1..MaxVenue /\ d.last \in 1..MaxVenue /\ d.first <= d.last
BY DEF Binance!Diffs

\* A book that a diff is applied to, or that is torn by one.
LEMMA DiffedBook ==
    ASSUME NEW b \in Binance!Books, NEW d \in Binance!Diffs
    PROVE  /\ Binance!Applies(b, d) =>
                 LET c == Binance!ApplyDiff(b, d) IN
                 /\ d.last > b.seq /\ c \in Binance!Books /\ c.seq = d.last /\ c.torn = b.torn
                 /\ d.first <= b.seq + 1 /\ b.has = 1..b.seq => c.has = 1..c.seq
           /\ LET t == Binance!DiffFails(b) IN t \in Binance!Books /\ t.torn /\ t.seq = b.seq /\ t.has = b.has
<1>1. /\ d.first \in 1..MaxVenue /\ d.last \in 1..MaxVenue /\ d.first <= d.last
      /\ b.seq \in 0..MaxVenue /\ b.has \in SUBSET (1..MaxVenue)
  BY DiffTyped DEF Binance!Books
<1>2. LET t == Binance!DiffFails(b) IN t \in Binance!Books /\ t.torn /\ t.seq = b.seq /\ t.has = b.has
  BY DEF Binance!Books, Binance!DiffFails
<1>3. CASE Binance!Applies(b, d)
  <2>1. d.last > b.seq
    BY <1>1, <1>3 DEF Binance!Applies, Binance!Stale
  <2>2. PICK h : h = b.has \union d.first..d.last
    OBVIOUS
  <2>3. h \in SUBSET (1..MaxVenue) /\ d.last \in 0..MaxVenue
    BY <1>1, <2>2, BinanceBounds
  <2>4. Binance!ApplyDiff(b, d) = [b EXCEPT !.has = h, !.seq = d.last]
    BY <1>3, <2>2 DEF Binance!ApplyDiff
  <2>5. LET c == Binance!ApplyDiff(b, d) IN c \in Binance!Books /\ c.seq = d.last /\ c.torn = b.torn /\ c.has = h
    BY <2>3, <2>4 DEF Binance!Books
  <2>6. d.first <= b.seq + 1 => (1..b.seq) \union (d.first..d.last) = 1..d.last
    BY <1>1, <2>1
  <2> QED
    BY <1>2, <2>1, <2>2, <2>5, <2>6
<1> QED
  BY <1>2, <1>3

\* A diff that is not applied is dropped or queued.
LEMMA QueuedBook ==
    ASSUME NEW b \in Binance!Books, NEW d \in Binance!Diffs, ~Binance!Applies(b, d)
    PROVE  LET c == Binance!ApplyDiff(b, d) IN
           c \in Binance!Books /\ c.seq = b.seq /\ c.has = b.has /\ c.torn = b.torn
<1>1. CASE b.ready
  BY <1>1 DEF Binance!ApplyDiff
<1>2. CASE ~b.ready
  <2>1. PICK q : q = Append(b.pending, d)
    OBVIOUS
  <2>2. q \in Seq(Binance!Diffs)
    BY <2>1 DEF Binance!Books
  <2>3. Binance!ApplyDiff(b, d) = [b EXCEPT !.pending = q]
    BY <1>2, <2>1 DEF Binance!ApplyDiff
  <2> QED
    BY <2>2, <2>3 DEF Binance!Books
<1> QED
  BY <1>1, <1>2

\* What a queue holds.
LEMMA ElementsOf ==
    ASSUME NEW S, NEW q \in Seq(S)
    PROVE  /\ Binance!Range(q) \subseteq S
           /\ q # <<>> => /\ Head(q) \in Binance!Range(q) /\ Tail(q) \in Seq(S)
                          /\ Binance!Range(Tail(q)) \subseteq Binance!Range(q)
           /\ \A x \in S : Binance!Range(Append(q, x)) \subseteq Binance!Range(q) \union {x}
           /\ \A x \in S : Binance!Range(<<x>>) = {x} /\ <<x>> \in Seq(S)
           /\ \A r \in Seq(S) : /\ q \o r \in Seq(S)
                                /\ Binance!Range(q \o r) \subseteq Binance!Range(q) \union Binance!Range(r)
<1> USE DEF Binance!Range
<1>1. ASSUME q # <<>>
      PROVE  /\ Head(q) \in Binance!Range(q) /\ Tail(q) \in Seq(S)
             /\ Binance!Range(Tail(q)) \subseteq Binance!Range(q)
  <2>1. \A i \in DOMAIN Tail(q) : i + 1 \in DOMAIN q /\ Tail(q)[i] = q[i + 1]
    BY <1>1
  <2>2. Head(q) = q[1] /\ 1 \in DOMAIN q
    BY <1>1
  <2> QED
    BY <1>1, <2>1, <2>2
<1>2. ASSUME NEW x \in S
      PROVE  /\ Binance!Range(Append(q, x)) \subseteq Binance!Range(q) \union {x}
             /\ Binance!Range(<<x>>) = {x} /\ <<x>> \in Seq(S)
  <2>1. \A i \in DOMAIN Append(q, x) : Append(q, x)[i] = x \/ (i \in DOMAIN q /\ Append(q, x)[i] = q[i])
    OBVIOUS
  <2>2. DOMAIN <<x>> = {1} /\ <<x>>[1] = x
    OBVIOUS
  <2> QED
    BY <2>1, <2>2
<1>3. ASSUME NEW r \in Seq(S)
      PROVE  /\ q \o r \in Seq(S)
             /\ Binance!Range(q \o r) \subseteq Binance!Range(q) \union Binance!Range(r)
  <2>1. \A i \in DOMAIN (q \o r) : \/ i \in DOMAIN q /\ (q \o r)[i] = q[i]
                                   \/ i - Len(q) \in DOMAIN r /\ (q \o r)[i] = r[i - Len(q)]
    OBVIOUS
  <2> QED
    BY <2>1
<1>4. Binance!Range(q) \subseteq S
  OBVIOUS
<1> QED
  BY <1>1, <1>2, <1>3, <1>4

\* The part drainBuffered keeps, in whatever order, is of the buffer.
LEMMA KeptOf ==
    ASSUME NEW q \in Seq(Binance!Diffs), NEW n \in Nat,
           NEW r \in Binance!SortDiffs(Binance!Kept(q, n))
    PROVE  /\ r \in Seq(Binance!Diffs) /\ Binance!Range(r) \subseteq Binance!Range(q)
           /\ Binance!Kept(q, n) # <<>> => r # <<>>
<1> DEFINE Fits(i) == /\ i <= Len(q) => q[i].last > n
                      /\ \A j \in 1..(i - 1) : q[j].last <= n
<1>1. \E i \in 1..(Len(q) + 1) : Fits(i)
  <2> DEFINE Late == {i \in 1..(Len(q) + 1) : i <= Len(q) => ~(q[i].last <= n)}
  <2>1. Late \in SUBSET Nat /\ Len(q) + 1 \in Late
    OBVIOUS
  <2>2. PICK i \in Late : \A j \in Late : i <= j
    BY <2>1, SmallestNumber
  <2>3. \A j \in 1..(i - 1) : j \in 1..(Len(q) + 1) /\ j <= Len(q) /\ ~(i <= j)
    BY <2>2
  <2>4. \A j \in 1..(i - 1) : q[j].last <= n
    BY <2>2, <2>3
  <2>5. i <= Len(q) => q[i].last > n
    <3> SUFFICES ASSUME i <= Len(q) PROVE q[i].last > n
      OBVIOUS
    <3>1. q[i] \in Binance!Diffs
      BY <2>2
    <3> QED
      BY <2>2, <3>1, DiffTyped
  <2> QED
    BY <2>2, <2>4, <2>5
<1>2. Binance!FirstKept(q, n) \in 1..(Len(q) + 1)
  BY <1>1 DEF Binance!FirstKept
<1>3. PICK k \in 1..(Len(q) + 1) : k = Binance!FirstKept(q, n)
  BY <1>2
<1> DEFINE kept == Binance!Kept(q, n)
<1> HIDE DEF kept
<1>4. /\ kept \in Seq(Binance!Diffs)
      /\ \A i \in DOMAIN kept : k + i - 1 \in DOMAIN q /\ kept[i] = q[k + i - 1]
  BY <1>3 DEF Binance!Kept, kept
<1>5. PICK p \in Binance!Surjection(DOMAIN kept, DOMAIN kept) : r = [i \in DOMAIN kept |-> kept[p[i]]]
  BY DEF Binance!SortDiffs, kept
<1>6. p \in [DOMAIN kept -> DOMAIN kept]
  BY <1>5 DEF Binance!Surjection
<1>7. DOMAIN r = DOMAIN kept /\ \A i \in DOMAIN r : p[i] \in DOMAIN kept /\ r[i] = kept[p[i]]
  BY <1>5, <1>6
<1>8. r \in [1..Len(kept) -> Binance!Diffs]
  <2>1. DOMAIN kept = 1..Len(kept) /\ \A i \in DOMAIN kept : kept[i] \in Binance!Diffs
    BY <1>4
  <2> QED
    BY <1>5, <1>6, <2>1
<1>9. r \in Seq(Binance!Diffs) /\ (kept # <<>> => r # <<>>)
  <2>1. Len(kept) \in Nat /\ (kept # <<>> => Len(kept) # 0)
    BY <1>4
  <2>2. PICK m \in Nat : m = Len(kept)
    BY <2>1
  <2>3. r \in [1..m -> Binance!Diffs]
    BY <1>8, <2>2
  <2>4. r \in Seq(Binance!Diffs) /\ (m # 0 => r # <<>>)
    BY <2>3
  <2> QED
    BY <2>1, <2>2, <2>4
<1>10. Binance!Range(r) \subseteq Binance!Range(q)
  <2>1. ASSUME NEW i \in DOMAIN r
        PROVE  k + p[i] - 1 \in DOMAIN q /\ r[i] = q[k + p[i] - 1]
    BY <1>4, <1>7
  <2> QED
    BY <2>1 DEF Binance!Range
<1> QED
  BY <1>9, <1>10 DEF kept

-------------------------------------------------------------------------------
(* Binance's book: what a goroutine's step leaves as it was *)

\* A label of the goroutine, with the diffs it has there.
LabelOf(a, l) ==
    IF a = Handler THEN l \in Binance!HandlerPcs \union (Binance!SharedPcs \ {"retry"})
    ELSE l \in Binance!SeederPcs \union Binance!SharedPcs
HasFor(a, l, q) ==
    IF a = Handler
    THEN l \in {"seeding", "append", "read", "zero", "apply", "write", "publish", "unseed", "requeue"}
             => Len(q) = 1
    ELSE l \in {"read", "zero", "apply", "write", "publish"} => q # <<>>
Active(l) == l \notin {"none", "spawned"}
BeforeSeed(l) == l \in {"retry", "fetch", "fit", "seed"}

LEMMA ActorKinds ==
    /\ Handler \in Binance!Actors /\ Handler \notin Seeders /\ Seeders \subseteq Binance!Actors
    /\ \A a \in Binance!Actors : a # Handler => a \in Seeders
BY BinanceBounds DEF Binance!Actors

LEMMA PcsStep ==
    ASSUME Binance!BookTypeOK, Binance!HasDiffs, NEW a \in Binance!Actors, NEW l, LabelOf(a, l),
           pc' = [pc EXCEPT ![a] = l], \A b \in Binance!Actors \ {a} : todo'[b] = todo[b],
           HasFor(a, l, todo'[a])
    PROVE  Binance!PcTypeOK' /\ Binance!HasDiffs'
<1>1. /\ pc \in [Binance!Actors -> Binance!HandlerPcs \union Binance!SeederPcs \union Binance!SharedPcs]
      /\ pc[Handler] \in Binance!HandlerPcs \union (Binance!SharedPcs \ {"retry"})
      /\ \A s \in Seeders : pc[s] \in Binance!SeederPcs \union Binance!SharedPcs
  BY DEF Binance!BookTypeOK, Binance!PcTypeOK
<1>2. l \in Binance!HandlerPcs \union Binance!SeederPcs \union Binance!SharedPcs
  BY DEF LabelOf
<1>3. pc'[a] = l /\ \A b \in Binance!Actors \ {a} : pc'[b] = pc[b]
  BY <1>1
<1>4. Binance!PcTypeOK'
  BY <1>1, <1>2, <1>3, ActorKinds DEF Binance!PcTypeOK, LabelOf
<1>5. Binance!HasDiffs'
  BY <1>3, ActorKinds DEF Binance!HasDiffs, HasFor
<1> QED
  BY <1>4, <1>5

LEMMA SeedsStep ==
    ASSUME Binance!BookTypeOK, Binance!OneSeeds, NEW a \in Binance!Actors, NEW l,
           pc' = [pc EXCEPT ![a] = l],
           a \in Seeders => (Active(l) <=> Active(pc[a])), seeding' = seeding
    PROVE  Binance!OneSeeds'
<1>1. pc'[a] = l /\ \A b \in Binance!Actors \ {a} : pc'[b] = pc[b]
  BY DEF Binance!BookTypeOK, Binance!PcTypeOK
<1>2. \A s \in Seeders : Binance!AtSeeding(s)' <=> Binance!AtSeeding(s)
  BY <1>1, ActorKinds DEF Binance!AtSeeding, Active
<1> QED
  BY <1>2 DEF Binance!OneSeeds

\* Diffs go from the handler's hand to those put aside, or are dropped.
LEMMA OrderStep ==
    ASSUME Binance!BookTypeOK, Binance!ComeInOrder, venue' = venue, stream' = stream,
           Binance!AtHand' \subseteq Binance!AtHand,
           Binance!PutAside' \subseteq Binance!PutAside \union Binance!AtHand,
           Binance!AtHand' = {} \/ Binance!PutAside' \subseteq Binance!PutAside
    PROVE  Binance!ComeInOrder'
<1>1. Binance!Coming' = Binance!Coming
  BY DEF Binance!Coming
<1>2. \A d \in (Binance!Coming \union Binance!AtHand \union Binance!PutAside)' : d.last <= venue'
  BY <1>1 DEF Binance!ComeInOrder
<1>3. \A d \in Binance!PutAside', e \in (Binance!AtHand \union Binance!Coming)' : Binance!Before(d, e)
  BY <1>1 DEF Binance!ComeInOrder
<1>4. \A d \in Binance!AtHand', e \in Binance!Coming' : Binance!Before(d, e)
  BY <1>1 DEF Binance!ComeInOrder
<1>5. \A i, j \in DOMAIN stream' : i < j => Binance!Before(stream'[i], stream'[j])
  BY DEF Binance!ComeInOrder
<1> QED
  BY <1>2, <1>3, <1>4, <1>5 DEF Binance!ComeInOrder, Binance!Before

\* The assembler forgets or queues diffs, or is not ready any more: the book is the same.
SameBook ==
    /\ asm' \in Binance!Books /\ asm'.seq = asm.seq /\ asm'.has = asm.has /\ asm'.torn = asm.torn

LEMMA TornStep ==
    ASSUME Binance!TornIsLeft, venue' = venue, asm' = asm \/ SameBook,
           (Binance!Coming \union Binance!AtHand)' \subseteq Binance!Coming \union Binance!AtHand,
           Binance!PutAside' \subseteq Binance!PutAside \union Binance!AtHand,
           Binance!WillSeed => Binance!WillSeed'
    PROVE  Binance!TornIsLeft'
<1> SUFFICES ASSUME asm.torn
             PROVE  /\ Binance!NextUpdate' <= venue'
                    /\ \A d \in (Binance!Coming \union Binance!AtHand)' : ~Binance!Carries(d)'
                    /\ Binance!WillSeed' \/ \A d \in Binance!PutAside' : ~Binance!Carries(d)'
  BY DEF Binance!TornIsLeft, SameBook
<1>1. Binance!NextUpdate' = Binance!NextUpdate /\ \A d : Binance!Carries(d)' <=> Binance!Carries(d)
  BY DEF Binance!NextUpdate, Binance!Carries, SameBook
<1>2. /\ Binance!NextUpdate <= venue
      /\ \A d \in Binance!Coming \union Binance!AtHand : ~Binance!Carries(d)
      /\ Binance!WillSeed \/ \A d \in Binance!PutAside : ~Binance!Carries(d)
  BY DEF Binance!TornIsLeft
<1> QED
  BY <1>1, <1>2

LEMMA NumberStep ==
    ASSUME Binance!BookTypeOK, Binance!NumberFollows, NEW a \in Binance!Actors, NEW l,
           pc' = [pc EXCEPT ![a] = l],
           asm' = asm \/ SameBook, lastSeq' = lastSeq \/ lastSeq' <= asm.seq,
           \A b \in Binance!Actors \ {a} : todo'[b] = todo[b],
           \A s \in Seeders \ {a} : current'[s] = current[s],
           pc[a] # "mark", l \notin {"mark", "apply", "write"}
    PROVE  Binance!NumberFollows'
<1>1. pc'[a] = l /\ \A b \in Binance!Actors \ {a} : pc'[b] = pc[b]
  BY DEF Binance!BookTypeOK, Binance!PcTypeOK
<1>2. Binance!Marking' <=> Binance!Marking
  BY <1>1, ActorKinds DEF Binance!Marking
<1>3. asm'.seq = asm.seq
  BY DEF SameBook
<1> QED
  BY <1>1, <1>2, <1>3, ActorKinds DEF Binance!NumberFollows

LEMMA WillSeedStep ==
    ASSUME Binance!BookTypeOK, NEW a \in Binance!Actors, NEW l, pc' = [pc EXCEPT ![a] = l],
           a \in Seeders /\ BeforeSeed(pc[a]) => BeforeSeed(l)
    PROVE  Binance!WillSeed => Binance!WillSeed'
<1>1. pc'[a] = l /\ \A b \in Binance!Actors \ {a} : pc'[b] = pc[b]
  BY DEF Binance!BookTypeOK, Binance!PcTypeOK
<1> QED
  BY <1>1, ActorKinds DEF Binance!WillSeed, BeforeSeed

\* A step that is not one of the book's or the number's.
LEMMA QuietStep ==
    ASSUME Binance!BookInv, NEW a \in Binance!Actors, NEW l, LabelOf(a, l), pc' = [pc EXCEPT ![a] = l],
           UNCHANGED <<venue, stream, lost, lastSeq, seeding>>, asm' = asm \/ SameBook,
           failed' \in 0..BookFaults, seeded' \in BOOLEAN, overtaken' \in BOOLEAN,
           buffer' \in Seq(Binance!Diffs), todo' \in [Binance!Actors -> Seq(Binance!Diffs)],
           \A b \in Binance!Actors \ {a} : todo'[b] = todo[b],
           current' \in [Binance!Actors -> 0..MaxVenue],
           \A s \in Seeders \ {a} : current'[s] = current[s],
           out' \in [Binance!Actors -> Binance!Books], published' \in Binance!Books,
           HasFor(a, l, todo'[a]),
           a \in Seeders => (Active(l) <=> Active(pc[a])),
           pc[a] # "mark", l \notin {"mark", "apply", "write"},
           a \in Seeders /\ BeforeSeed(pc[a]) => BeforeSeed(l),
           Binance!AtHand' \subseteq Binance!AtHand,
           Binance!PutAside' \subseteq Binance!PutAside \union Binance!AtHand,
           Binance!AtHand' = {} \/ Binance!PutAside' \subseteq Binance!PutAside,
           ~overtaken' => /\ ~overtaken /\ Binance!Exact(published')
                          /\ \A b \in Binance!Actors : Binance!Exact(out'[b])
    PROVE  Binance!BookInv'
<1>1. Binance!BookTypeOK /\ Binance!HasDiffs /\ Binance!OneSeeds /\ Binance!ComeInOrder
  BY DEF Binance!BookInv
<1>2. Binance!PcTypeOK' /\ Binance!HasDiffs'
  BY <1>1, PcsStep
<1>3. Binance!BookTypeOK'
  <2>1. asm' \in Binance!Books
    BY <1>1 DEF Binance!BookTypeOK, SameBook
  <2> QED
    BY <1>1, <1>2, <2>1 DEF Binance!BookTypeOK
<1>4. Binance!OneSeeds'
  BY <1>1, SeedsStep
<1>5. Binance!ComeInOrder'
  BY <1>1, OrderStep
<1>6. ASSUME ~overtaken'
      PROVE  Binance!NumberFollows' /\ Binance!TornIsLeft' /\ Binance!Sound'
  <2>1. Binance!NumberFollows /\ Binance!TornIsLeft /\ Binance!Sound
    BY <1>6 DEF Binance!BookInv
  <2>2. Binance!NumberFollows'
    BY <1>1, <2>1, NumberStep
  <2>3. Binance!Coming' = Binance!Coming
    BY DEF Binance!Coming
  <2>4. Binance!WillSeed => Binance!WillSeed'
    BY <1>1, WillSeedStep
  <2>5. Binance!TornIsLeft'
    BY <2>1, <2>3, <2>4, TornStep
  <2>6. Binance!Sound'
    <3>1. (asm.has = 1..asm.seq)'
      BY <2>1 DEF Binance!Sound, SameBook
    <3>2. Binance!Exact(published') /\ \A b \in Binance!Actors : Binance!Exact(out'[b])
      BY <1>6
    <3> QED
      BY <3>1, <3>2 DEF Binance!Sound, Binance!Exact
  <2> QED
    BY <2>2, <2>5, <2>6
<1> QED
  BY <1>2, <1>3, <1>4, <1>5, <1>6 DEF Binance!BookInv

-------------------------------------------------------------------------------
(* Binance's book: the queues of a step *)

LEMMA TodoStep ==
    ASSUME Binance!BookTypeOK, NEW a \in Binance!Actors, NEW q \in Seq(Binance!Diffs),
           todo' = [todo EXCEPT ![a] = q]
    PROVE  /\ todo' \in [Binance!Actors -> Seq(Binance!Diffs)] /\ todo'[a] = q
           /\ \A b \in Binance!Actors \ {a} : todo'[b] = todo[b]
           /\ a = Handler => Binance!AtHand' = Binance!Range(q)
           /\ a # Handler => Binance!AtHand' = Binance!AtHand
           /\ \A S : Binance!Range(buffer') \subseteq S /\ (a # Handler => Binance!Range(q) \subseteq S)
                        => Binance!PutAside' \subseteq Binance!PutAside \union S
<1>1. /\ todo' \in [Binance!Actors -> Seq(Binance!Diffs)] /\ todo'[a] = q
      /\ \A b \in Binance!Actors \ {a} : todo'[b] = todo[b]
  BY DEF Binance!BookTypeOK
<1>2. /\ a = Handler => Binance!AtHand' = Binance!Range(q)
      /\ a # Handler => Binance!AtHand' = Binance!AtHand
  BY <1>1, ActorKinds DEF Binance!AtHand
<1>3. ASSUME NEW S, Binance!Range(buffer') \subseteq S, a # Handler => Binance!Range(q) \subseteq S
      PROVE  Binance!PutAside' \subseteq Binance!PutAside \union S
  <2> SUFFICES ASSUME NEW s \in Seeders, NEW d \in Binance!Range(todo'[s])
               PROVE  d \in Binance!PutAside \union S
    BY <1>3 DEF Binance!PutAside
  <2>1. CASE s = a
    BY <1>1, <1>3, <2>1, ActorKinds
  <2>2. CASE s # a
    BY <1>1, <2>2, ActorKinds DEF Binance!PutAside
  <2> QED
    BY <2>1, <2>2
<1> QED
  BY <1>1, <1>2, <1>3

LEMMA Lengths ==
    ASSUME NEW S, NEW q \in Seq(S)
    PROVE  /\ Len(q) \in Nat /\ (q = <<>> <=> Len(q) = 0)
           /\ q # <<>> => Len(Tail(q)) = Len(q) - 1 /\ Tail(q) \in Seq(S)
           /\ Len(q) = 1 => q = <<Head(q)>>
OBVIOUS

\* The first diff of a goroutine that applies one.
LEMMA FirstDiff ==
    ASSUME Binance!BookTypeOK, Binance!HasDiffs, NEW a \in Binance!Actors,
           pc[a] \in {"read", "zero", "apply", "write", "publish"}
    PROVE  /\ todo[a] \in Seq(Binance!Diffs) /\ todo[a] # <<>> /\ (a = Handler => Len(todo[a]) = 1)
           /\ Head(todo[a]) \in Binance!Diffs
           /\ a = Handler => Head(todo[a]) \in Binance!AtHand
           /\ a # Handler => Head(todo[a]) \in Binance!PutAside
<1>1. todo[a] \in Seq(Binance!Diffs)
  BY DEF Binance!BookTypeOK
<1>2. a = Handler => Len(todo[a]) = 1
  BY DEF Binance!HasDiffs
<1>3. a # Handler => todo[a] # <<>>
  BY ActorKinds DEF Binance!HasDiffs
<1>4. todo[a] # <<>>
  BY <1>1, <1>2, <1>3, Lengths
<1>5. Head(todo[a]) \in Binance!Range(todo[a]) /\ Binance!Range(todo[a]) \subseteq Binance!Diffs
  BY <1>1, <1>4, ElementsOf
<1> QED
  BY <1>1, <1>2, <1>4, <1>5, ActorKinds DEF Binance!AtHand, Binance!PutAside

LEMMA FinishStep ==
    ASSUME Binance!BookTypeOK, Binance!HasDiffs, NEW a \in Binance!Actors, pc[a] \in {"read", "apply",
           "publish"},
           Binance!FinishDiff(a), buffer' = buffer
    PROVE  /\ LabelOf(a, Binance!Done(a)) /\ pc' = [pc EXCEPT ![a] = Binance!Done(a)]
           /\ HasFor(a, Binance!Done(a), todo'[a])
           /\ todo' \in [Binance!Actors -> Seq(Binance!Diffs)]
           /\ \A b \in Binance!Actors \ {a} : todo'[b] = todo[b]
           /\ Binance!AtHand' \subseteq Binance!AtHand /\ Binance!PutAside' \subseteq Binance!PutAside
           /\ Binance!Done(a) \in {"receive", "current", "read"} /\ (a # Handler => Active(Binance!Done(a)))
<1>1. /\ todo[a] \in Seq(Binance!Diffs) /\ todo[a] # <<>>
  BY FirstDiff
<1>2. /\ Tail(todo[a]) \in Seq(Binance!Diffs)
      /\ Binance!Range(Tail(todo[a])) \subseteq Binance!Range(todo[a])
  BY <1>1, ElementsOf
<1>3. todo' = [todo EXCEPT ![a] = Tail(todo[a])] /\ pc' = [pc EXCEPT ![a] = Binance!Done(a)]
  BY DEF Binance!FinishDiff, Binance!Goto
<1>4. /\ todo' \in [Binance!Actors -> Seq(Binance!Diffs)] /\ todo'[a] = Tail(todo[a])
      /\ \A b \in Binance!Actors \ {a} : todo'[b] = todo[b]
      /\ a = Handler => Binance!AtHand' = Binance!Range(Tail(todo[a]))
      /\ a # Handler => Binance!AtHand' = Binance!AtHand
      /\ \A S : Binance!Range(buffer') \subseteq S /\ (a # Handler => Binance!Range(Tail(todo[a])) \subseteq S)
                   => Binance!PutAside' \subseteq Binance!PutAside \union S
  BY <1>2, <1>3, TodoStep
<1>5. Binance!AtHand' \subseteq Binance!AtHand
  BY <1>2, <1>4 DEF Binance!AtHand
<1>6. Binance!PutAside' \subseteq Binance!PutAside
  <2>1. /\ Binance!Range(buffer') \subseteq Binance!PutAside
        /\ a # Handler => Binance!Range(Tail(todo[a])) \subseteq Binance!PutAside
    BY <1>2, ActorKinds DEF Binance!PutAside
  <2> QED
    BY <1>4, <2>1
<1>7. Len(todo[a]) # 1 => Tail(todo[a]) # <<>>
  <2>1. /\ Len(todo[a]) \in Nat /\ Len(todo[a]) # 0
        /\ Len(Tail(todo[a])) = Len(todo[a]) - 1 /\ Tail(todo[a]) \in Seq(Binance!Diffs)
    BY <1>1, Lengths
  <2>2. Tail(todo[a]) = <<>> => Len(Tail(todo[a])) = 0
    BY <1>2, Lengths
  <2> QED
    BY <2>1, <2>2
<1> QED
  BY <1>3, <1>4, <1>5, <1>6, <1>7
     DEF LabelOf, HasFor, Active, Binance!Done, Binance!HandlerPcs, Binance!SeederPcs, Binance!SharedPcs

-------------------------------------------------------------------------------
(* Binance's book: the steps that leave the book and its number as they are *)

LEMMA InvParts ==
    ASSUME Binance!BookInv
    PROVE  /\ Binance!BookTypeOK /\ Binance!HasDiffs /\ Binance!OneSeeds /\ Binance!ComeInOrder
           /\ venue \in 1..MaxVenue /\ lost \in 0..MaxLost /\ failed \in 0..BookFaults
           /\ stream \in Seq(Binance!Diffs) /\ buffer \in Seq(Binance!Diffs)
           /\ todo \in [Binance!Actors -> Seq(Binance!Diffs)]
           /\ asm \in Binance!Books /\ published \in Binance!Books
           /\ out \in [Binance!Actors -> Binance!Books]
           /\ lastSeq \in 0..MaxVenue /\ current \in [Binance!Actors -> 0..MaxVenue]
           /\ seeded \in BOOLEAN /\ seeding \in BOOLEAN /\ overtaken \in BOOLEAN
           /\ pc \in [Binance!Actors -> Binance!HandlerPcs \union Binance!SeederPcs \union Binance!SharedPcs]
           /\ ~overtaken => /\ Binance!NumberFollows /\ Binance!TornIsLeft /\ Binance!Sound
                            /\ Binance!Exact(published)
                            /\ \A b \in Binance!Actors : Binance!Exact(out[b])
BY DEF Binance!BookInv, Binance!BookTypeOK, Binance!PcTypeOK, Binance!Sound

LEMMA QueuesStay ==
    ASSUME todo' = todo, buffer' = buffer
    PROVE  Binance!AtHand' = Binance!AtHand /\ Binance!PutAside' = Binance!PutAside
BY DEF Binance!AtHand, Binance!PutAside

\* A goroutine that only goes on, and sets a flag.
LEMMA GoesOn ==
    ASSUME Binance!BookInv, NEW a \in Binance!Actors, NEW l, LabelOf(a, l), pc' = [pc EXCEPT ![a] = l],
           UNCHANGED <<Binance!venueVars, asm, lastSeq, seeding, buffer, todo, current, out,
                       published, overtaken>>,
           seeded' \in BOOLEAN, HasFor(a, l, todo[a]),
           a \in Seeders => (Active(l) <=> Active(pc[a])),
           pc[a] # "mark", l \notin {"mark", "apply", "write"},
           a \in Seeders /\ BeforeSeed(pc[a]) => BeforeSeed(l)
    PROVE  Binance!BookInv'
<1>1. Binance!AtHand' = Binance!AtHand /\ Binance!PutAside' = Binance!PutAside
  BY QueuesStay
<1>2. UNCHANGED <<venue, stream, lost, asm, lastSeq, seeding>> /\ failed' = failed
  BY DEF Binance!venueVars
<1>3. HasFor(a, l, todo'[a])
  OBVIOUS
<1> QED
  BY <1>1, <1>2, <1>3, InvParts, QuietStep

LEMMA HandlerGoesOn ==
    ASSUME Binance!BookInv, Binance!ReadSeeding \/ Binance!Start
    PROVE  Binance!BookInv'
<1>1. Binance!BookTypeOK /\ Binance!HasDiffs /\ Handler \in Binance!Actors /\ Handler \notin Seeders
  BY InvParts, ActorKinds
<1>2. CASE Binance!ReadSeeding
  <2>1. PICK l \in {"append", "read"} : pc' = [pc EXCEPT ![Handler] = l]
    BY <1>2 DEF Binance!ReadSeeding, Binance!Goto
  <2>2. /\ LabelOf(Handler, l) /\ HasFor(Handler, l, todo[Handler])
        /\ pc[Handler] # "mark" /\ l \notin {"mark", "apply", "write"}
    BY <1>1, <1>2, <2>1
       DEF Binance!ReadSeeding, LabelOf, HasFor, Binance!HandlerPcs, Binance!SharedPcs, Binance!HasDiffs
  <2>3. UNCHANGED <<Binance!venueVars, asm, lastSeq, seeding, buffer, todo, current, out,
                    published, overtaken>> /\ seeded' \in BOOLEAN
    BY <1>2, InvParts DEF Binance!ReadSeeding, Binance!handleVars, Binance!Quiet
  <2> QED
    BY <1>1, <2>1, <2>2, <2>3, GoesOn
<1>3. CASE Binance!Start
  <2>1. PICK l \in {"receive", "spawn"} : pc' = [pc EXCEPT ![Handler] = l]
    BY <1>3 DEF Binance!Start, Binance!Goto
  <2>2. /\ LabelOf(Handler, l) /\ HasFor(Handler, l, todo[Handler])
        /\ pc[Handler] # "mark" /\ l \notin {"mark", "apply", "write"}
    BY <1>1, <1>3, <2>1
       DEF Binance!Start, LabelOf, HasFor, Binance!HandlerPcs, Binance!SharedPcs, Binance!HasDiffs
  <2>3. UNCHANGED <<Binance!venueVars, asm, lastSeq, seeding, buffer, todo, current, out,
                    published, overtaken>> /\ seeded' \in BOOLEAN
    BY <1>3, InvParts DEF Binance!Start, Binance!handleVars, Binance!Quiet
  <2> QED
    BY <1>1, <2>1, <2>2, <2>3, GoesOn
<1> QED
  BY <1>2, <1>3

LEMMA SeederGoesOn ==
    ASSUME Binance!BookInv, NEW s \in Seeders, Binance!Fit(s) \/ Binance!MarkSeeded(s)
    PROVE  Binance!BookInv'
<1>1. Binance!BookTypeOK /\ Binance!HasDiffs /\ s \in Binance!Actors /\ s # Handler
  BY InvParts, ActorKinds
<1>2. CASE Binance!Fit(s)
  <2>1. PICK l \in {"fetch", "seed"} : pc' = [pc EXCEPT ![s] = l]
    BY <1>2 DEF Binance!Fit, Binance!Goto
  <2>2. /\ LabelOf(s, l) /\ HasFor(s, l, todo[s]) /\ (Active(l) <=> Active(pc[s]))
        /\ pc[s] # "mark" /\ l \notin {"mark", "apply", "write"} /\ BeforeSeed(l)
    BY <1>1, <1>2, <2>1 DEF Binance!Fit, LabelOf, HasFor, Active, BeforeSeed, Binance!SeederPcs
  <2>3. UNCHANGED <<Binance!venueVars, asm, lastSeq, seeding, buffer, todo, current, out,
                    published, overtaken>> /\ seeded' \in BOOLEAN
    BY <1>2, InvParts DEF Binance!Fit, Binance!handleVars, Binance!Quiet
  <2> QED
    BY <1>1, <2>1, <2>2, <2>3, GoesOn
<1>3. CASE Binance!MarkSeeded(s)
  <2>1. pc' = [pc EXCEPT ![s] = "leave"]
    BY <1>3 DEF Binance!MarkSeeded, Binance!Goto
  <2>2. /\ LabelOf(s, "leave") /\ HasFor(s, "leave", todo[s]) /\ (Active("leave") <=> Active(pc[s]))
        /\ pc[s] # "mark" /\ ~BeforeSeed(pc[s])
    BY <1>1, <1>3 DEF Binance!MarkSeeded, LabelOf, HasFor, Active, BeforeSeed, Binance!SeederPcs
  <2>3. UNCHANGED <<Binance!venueVars, asm, lastSeq, seeding, buffer, todo, current, out,
                    published, overtaken>> /\ seeded' \in BOOLEAN
    BY <1>3 DEF Binance!MarkSeeded, Binance!Quiet
  <2> QED
    BY <1>1, <2>1, <2>2, <2>3, GoesOn
<1> QED
  BY <1>2, <1>3

LEMMA UnseedStep ==
    ASSUME Binance!BookInv, NEW a \in Binance!Actors, Binance!Unseed(a)
    PROVE  Binance!BookInv'
<1>1. Binance!BookTypeOK /\ Binance!HasDiffs
  BY InvParts
<1>2. PICK l : l = (IF a = Handler THEN "requeue" ELSE "fetch") /\ pc' = [pc EXCEPT ![a] = l]
  BY DEF Binance!Unseed, Binance!Goto
<1>3. /\ LabelOf(a, l) /\ (Active(l) <=> Active(pc[a]))
      /\ pc[a] # "mark" /\ l \notin {"mark", "apply", "write"} /\ ~BeforeSeed(pc[a])
  BY <1>2 DEF Binance!Unseed, LabelOf, Active, BeforeSeed, Binance!SeederPcs, Binance!SharedPcs
<1>4. HasFor(a, l, todo[a])
  BY <1>1, <1>2 DEF Binance!Unseed, Binance!HasDiffs, HasFor
<1>5. UNCHANGED <<Binance!venueVars, asm, lastSeq, seeding, buffer, todo, current, out,
                  published, overtaken>> /\ seeded' \in BOOLEAN
  BY DEF Binance!Unseed, Binance!Quiet
<1> QED
  BY <1>2, <1>3, <1>4, <1>5, GoesOn

\* The handler's diff goes behind the buffer, or a goroutine's in front of it.
LEMMA AppendStep ==
    ASSUME Binance!BookInv, Binance!AppendDiff
    PROVE  Binance!BookInv'
<1>1. Binance!BookTypeOK /\ Binance!HasDiffs /\ Handler \in Binance!Actors /\ Handler \notin Seeders
  BY InvParts, ActorKinds
<1>2. todo[Handler] \in Seq(Binance!Diffs) /\ buffer \in Seq(Binance!Diffs)
  BY <1>1, InvParts
<1>3. /\ buffer' \in Seq(Binance!Diffs)
      /\ Binance!Range(buffer') \subseteq Binance!Range(buffer) \union Binance!Range(todo[Handler])
  BY <1>2, ElementsOf DEF Binance!AppendDiff
<1>4. <<>> \in Seq(Binance!Diffs) /\ Binance!Range(<<>>) = {}
  BY DEF Binance!Range
<1>5. todo' = [todo EXCEPT ![Handler] = <<>>] /\ pc' = [pc EXCEPT ![Handler] = "start"]
  BY DEF Binance!AppendDiff, Binance!Goto
<1>6. /\ todo' \in [Binance!Actors -> Seq(Binance!Diffs)] /\ todo'[Handler] = <<>>
      /\ \A b \in Binance!Actors \ {Handler} : todo'[b] = todo[b]
      /\ Binance!AtHand' = {}
      /\ \A S : Binance!Range(buffer') \subseteq S => Binance!PutAside' \subseteq Binance!PutAside \union S
  BY <1>1, <1>4, <1>5, TodoStep
<1>7. Binance!PutAside' \subseteq Binance!PutAside \union Binance!AtHand
  <2>1. Binance!Range(buffer') \subseteq Binance!PutAside \union Binance!AtHand
    BY <1>3 DEF Binance!PutAside, Binance!AtHand
  <2> QED
    BY <1>6, <2>1
<1>8. LabelOf(Handler, "start") /\ HasFor(Handler, "start", todo'[Handler]) /\ pc[Handler] # "mark"
  BY DEF Binance!AppendDiff, LabelOf, HasFor, Binance!HandlerPcs
<1>9. UNCHANGED <<venue, stream, lost, failed, asm, lastSeq, seeded, seeding, current, out,
                  published, overtaken>>
  BY DEF Binance!AppendDiff, Binance!venueVars, Binance!Quiet
<1> QED
  BY <1>1, <1>3, <1>5, <1>6, <1>7, <1>8, <1>9, InvParts, QuietStep

LEMMA RequeueStep ==
    ASSUME Binance!BookInv, NEW a \in Binance!Actors, Binance!Requeue(a)
    PROVE  Binance!BookInv'
<1>1. Binance!BookTypeOK /\ Binance!HasDiffs
  BY InvParts
<1>2. todo[a] \in Seq(Binance!Diffs) /\ buffer \in Seq(Binance!Diffs)
  BY <1>1, InvParts
<1>3. /\ buffer' \in Seq(Binance!Diffs)
      /\ Binance!Range(buffer') \subseteq Binance!Range(todo[a]) \union Binance!Range(buffer)
  BY <1>2, ElementsOf DEF Binance!Requeue
<1>4. <<>> \in Seq(Binance!Diffs) /\ Binance!Range(<<>>) = {}
  BY DEF Binance!Range
<1>5. PICK l : /\ l = (IF a = Handler THEN "spawn" ELSE IF pc[a] = "requeue" THEN "unseed" ELSE "fetch")
               /\ todo' = [todo EXCEPT ![a] = <<>>] /\ pc' = [pc EXCEPT ![a] = l]
  BY DEF Binance!Requeue, Binance!Goto
<1>6. /\ todo' \in [Binance!Actors -> Seq(Binance!Diffs)] /\ todo'[a] = <<>>
      /\ \A b \in Binance!Actors \ {a} : todo'[b] = todo[b]
      /\ a = Handler => Binance!AtHand' = {}
      /\ a # Handler => Binance!AtHand' = Binance!AtHand
      /\ \A S : Binance!Range(buffer') \subseteq S => Binance!PutAside' \subseteq Binance!PutAside \union S
  BY <1>1, <1>4, <1>5, TodoStep
<1>7. /\ Binance!AtHand' \subseteq Binance!AtHand
      /\ Binance!PutAside' \subseteq Binance!PutAside \union Binance!AtHand
      /\ Binance!AtHand' = {} \/ Binance!PutAside' \subseteq Binance!PutAside
  <2>1. CASE a = Handler
    <3>1. Binance!Range(buffer') \subseteq Binance!PutAside \union Binance!AtHand
      BY <1>3, <2>1 DEF Binance!PutAside, Binance!AtHand
    <3> QED
      BY <1>6, <2>1, <3>1
  <2>2. CASE a # Handler
    <3>1. Binance!Range(buffer') \subseteq Binance!PutAside
      BY <1>3, <2>2, ActorKinds DEF Binance!PutAside
    <3> QED
      BY <1>6, <2>2, <3>1
  <2> QED
    BY <2>1, <2>2
<1>8. /\ LabelOf(a, l) /\ HasFor(a, l, todo'[a]) /\ (Active(l) <=> Active(pc[a]))
      /\ pc[a] # "mark" /\ l \notin {"mark", "apply", "write"}
  BY <1>5
     DEF Binance!Requeue, LabelOf, HasFor, Active, Binance!HandlerPcs, Binance!SeederPcs, Binance!SharedPcs
<1>9. a \in Seeders /\ BeforeSeed(pc[a]) => BeforeSeed(l)
  BY <1>5, ActorKinds DEF Binance!Requeue, BeforeSeed
<1>10. UNCHANGED <<venue, stream, lost, failed, asm, lastSeq, seeded, seeding, current, out,
                   published, overtaken>>
  BY DEF Binance!Requeue, Binance!venueVars, Binance!Quiet
<1> QED
  BY <1>1, <1>3, <1>5, <1>6, <1>7, <1>8, <1>9, <1>10, InvParts, QuietStep

LEMMA DrainStep ==
    ASSUME Binance!BookInv, NEW s \in Seeders, Binance!Drain(s)
    PROVE  Binance!BookInv'
<1>1. Binance!BookTypeOK /\ Binance!HasDiffs /\ s \in Binance!Actors /\ s # Handler
  BY InvParts, ActorKinds
<1>2. buffer \in Seq(Binance!Diffs) /\ current[s] \in Nat
  BY <1>1, InvParts, BinanceBounds
<1>3. PICK kept : kept = Binance!Kept(buffer, current[s])
  OBVIOUS
<1>4. PICK q \in Binance!SortDiffs(kept) : todo' = [todo EXCEPT ![s] = q]
  BY <1>3 DEF Binance!Drain
<1>5. q \in Seq(Binance!Diffs) /\ Binance!Range(q) \subseteq Binance!Range(buffer) /\ (kept # <<>> => q # <<>>)
  BY <1>2, <1>3, <1>4, KeptOf
<1>6. PICK l : l = (IF kept = <<>> THEN "seeded" ELSE "read") /\ pc' = [pc EXCEPT ![s] = l]
  BY <1>3 DEF Binance!Drain, Binance!Goto
<1>7. buffer' = <<>> /\ <<>> \in Seq(Binance!Diffs) /\ Binance!Range(buffer') = {}
  BY DEF Binance!Drain, Binance!Range
<1>8. /\ todo' \in [Binance!Actors -> Seq(Binance!Diffs)] /\ todo'[s] = q
      /\ \A b \in Binance!Actors \ {s} : todo'[b] = todo[b]
      /\ Binance!AtHand' = Binance!AtHand
      /\ \A S : Binance!Range(buffer') \subseteq S /\ Binance!Range(q) \subseteq S
                   => Binance!PutAside' \subseteq Binance!PutAside \union S
  BY <1>1, <1>4, <1>5, TodoStep
<1>9. Binance!PutAside' \subseteq Binance!PutAside
  <2>1. Binance!Range(q) \subseteq Binance!PutAside
    BY <1>5 DEF Binance!PutAside
  <2> QED
    BY <1>7, <1>8, <2>1
<1>10. /\ LabelOf(s, l) /\ HasFor(s, l, todo'[s]) /\ (Active(l) <=> Active(pc[s]))
       /\ pc[s] # "mark" /\ l \notin {"mark", "apply", "write"} /\ ~BeforeSeed(pc[s])
  BY <1>1, <1>5, <1>6, <1>8
     DEF Binance!Drain, LabelOf, HasFor, Active, BeforeSeed, Binance!SeederPcs, Binance!SharedPcs
<1>11. UNCHANGED <<venue, stream, lost, failed, asm, lastSeq, seeded, seeding, current, out,
                   published, overtaken>>
  BY DEF Binance!Drain, Binance!venueVars, Binance!Quiet
<1> QED
  BY <1>1, <1>6, <1>7, <1>8, <1>9, <1>10, <1>11, InvParts, QuietStep

\* A snapshot is fetched or its book published, or the number read again.
LEMMA SnapshotSteps ==
    ASSUME Binance!BookInv, NEW s \in Seeders,
           Binance!Fetch(s) \/ Binance!PublishSnapshot(s) \/ Binance!ReadCurrent(s)
    PROVE  Binance!BookInv'
<1>1. Binance!BookTypeOK /\ Binance!HasDiffs /\ s \in Binance!Actors /\ s # Handler
  BY InvParts, ActorKinds
<1>2. todo' = todo /\ buffer' = buffer
  BY DEF Binance!Fetch, Binance!PublishSnapshot, Binance!ReadCurrent, Binance!handleVars
<1>3. Binance!AtHand' = Binance!AtHand /\ Binance!PutAside' = Binance!PutAside
  BY <1>2, QueuesStay
<1>4. UNCHANGED <<venue, stream, lost, asm, lastSeq, seeding, seeded, out, overtaken>>
  BY DEF Binance!Fetch, Binance!PublishSnapshot, Binance!ReadCurrent, Binance!handleVars,
         Binance!venueVars, Binance!Quiet
<1>5. CASE Binance!Fetch(s)
  <2>1. PICK l \in {"fetch", "fit"} : pc' = [pc EXCEPT ![s] = l]
    BY <1>1, <1>5, InvParts DEF Binance!Fetch, Binance!Goto
  <2>2. /\ LabelOf(s, l) /\ HasFor(s, l, todo'[s]) /\ (Active(l) <=> Active(pc[s]))
        /\ pc[s] # "mark" /\ l \notin {"mark", "apply", "write"} /\ BeforeSeed(l)
    BY <1>1, <1>5, <2>1 DEF Binance!Fetch, LabelOf, HasFor, Active, BeforeSeed, Binance!SeederPcs
  <2>3. failed' \in 0..BookFaults /\ published' = published
    BY <1>1, <1>5, InvParts, BinanceBounds DEF Binance!Fetch, Binance!Quiet
  <2>4. /\ current' \in [Binance!Actors -> 0..MaxVenue]
        /\ \A t \in Seeders \ {s} : current'[t] = current[t]
    <3>1. CASE current' = current
      BY <3>1, InvParts
    <3>2. CASE \E n \in 1..venue : current' = [current EXCEPT ![s] = n]
      <4>1. PICK n \in 1..venue : current' = [current EXCEPT ![s] = n]
        BY <3>2
      <4>2. n \in 0..MaxVenue
        BY InvParts, BinanceBounds
      <4> QED
        BY <1>1, <4>1, <4>2, InvParts
    <3> QED
      BY <1>5, <3>1, <3>2 DEF Binance!Fetch
  <2> QED
    BY <1>1, <1>2, <1>3, <1>4, <2>1, <2>2, <2>3, <2>4, InvParts, QuietStep
<1>6. CASE Binance!PublishSnapshot(s)
  <2>1. /\ pc' = [pc EXCEPT ![s] = "drain"] /\ published' = Binance!ApplySnapshot(current[s])
        /\ failed' = failed /\ current' = current
    BY <1>6 DEF Binance!PublishSnapshot, Binance!Goto, Binance!venueVars
  <2>2. /\ LabelOf(s, "drain") /\ HasFor(s, "drain", todo'[s]) /\ (Active("drain") <=> Active(pc[s]))
        /\ pc[s] # "mark" /\ ~BeforeSeed(pc[s])
    BY <1>1, <1>6 DEF Binance!PublishSnapshot, LabelOf, HasFor, Active, BeforeSeed, Binance!SeederPcs
  <2>3. current[s] \in 0..MaxVenue
    BY <1>1, InvParts
  <2>4. published' \in Binance!Books /\ Binance!Exact(published')
    BY <2>1, <2>3, SnapshotBook
  <2> QED
    BY <1>1, <1>2, <1>3, <1>4, <2>1, <2>2, <2>4, InvParts, QuietStep
<1>7. CASE Binance!ReadCurrent(s)
  <2>1. /\ pc' = [pc EXCEPT ![s] = "drain"] /\ current' = [current EXCEPT ![s] = lastSeq]
        /\ failed' = failed /\ published' = published
    BY <1>7 DEF Binance!ReadCurrent, Binance!Goto, Binance!venueVars, Binance!Quiet
  <2>2. /\ LabelOf(s, "drain") /\ HasFor(s, "drain", todo'[s]) /\ (Active("drain") <=> Active(pc[s]))
        /\ pc[s] # "mark" /\ ~BeforeSeed(pc[s])
    BY <1>1, <1>7 DEF Binance!ReadCurrent, LabelOf, HasFor, Active, BeforeSeed, Binance!SeederPcs
  <2>3. /\ current' \in [Binance!Actors -> 0..MaxVenue]
        /\ \A t \in Seeders \ {s} : current'[t] = current[t]
    BY <1>1, <2>1, InvParts
  <2> QED
    BY <1>1, <1>2, <1>3, <1>4, <2>1, <2>2, <2>3, InvParts, QuietStep
<1> QED
  BY <1>5, <1>6, <1>7

\* A diff is done: it was old, or its book is published.
LEMMA PublishStep ==
    ASSUME Binance!BookInv, NEW a \in Binance!Actors, Binance!PublishDiff(a)
    PROVE  Binance!BookInv'
<1>1. /\ Binance!BookTypeOK /\ Binance!HasDiffs /\ pc[a] = "publish" /\ buffer' = buffer
      /\ Binance!FinishDiff(a)
  BY InvParts DEF Binance!PublishDiff, Binance!handleVars
<1>2. PICK l : /\ l = Binance!Done(a) /\ LabelOf(a, l) /\ pc' = [pc EXCEPT ![a] = l]
               /\ HasFor(a, l, todo'[a])
               /\ todo' \in [Binance!Actors -> Seq(Binance!Diffs)]
               /\ \A b \in Binance!Actors \ {a} : todo'[b] = todo[b]
               /\ Binance!AtHand' \subseteq Binance!AtHand
               /\ Binance!PutAside' \subseteq Binance!PutAside
               /\ l \in {"receive", "current", "read"} /\ (a # Handler => Active(l))
  BY <1>1, FinishStep
<1>3. a \in Seeders => (Active(l) <=> Active(pc[a])) /\ ~BeforeSeed(pc[a])
  BY <1>1, <1>2, ActorKinds DEF Active, BeforeSeed
<1>4. /\ UNCHANGED <<venue, stream, lost, failed, asm, lastSeq, seeded, seeding, current, overtaken>>
      /\ buffer' \in Seq(Binance!Diffs)
  BY <1>1, InvParts DEF Binance!PublishDiff, Binance!FinishDiff, Binance!venueVars, Binance!handleVars
<1>5. /\ published' \in Binance!Books /\ out' \in [Binance!Actors -> Binance!Books]
      /\ ~overtaken => Binance!Exact(published') /\ \A b \in Binance!Actors : Binance!Exact(out'[b])
  <2>1. published' = out[a] /\ out' = [out EXCEPT ![a] = Binance!New]
    BY DEF Binance!PublishDiff
  <2>2. /\ out' \in [Binance!Actors -> Binance!Books] /\ out'[a] = Binance!New
        /\ \A b \in Binance!Actors \ {a} : out'[b] = out[b]
    BY <2>1, NewBook, InvParts
  <2> QED
    BY <2>1, <2>2, NewBook, InvParts
<1> QED
  BY <1>1, <1>2, <1>3, <1>4, <1>5, InvParts, QuietStep

LEMMA OldStep ==
    ASSUME Binance!BookInv, NEW a \in Binance!Actors, pc[a] \in {"read", "apply"},
           Binance!FinishDiff(a),
           UNCHANGED <<Binance!venueVars, lastSeq, seeded, seeding, buffer, out, published>>,
           asm' = asm \/ SameBook, overtaken' \in BOOLEAN, ~overtaken' => ~overtaken
    PROVE  Binance!BookInv'
<1>1. Binance!BookTypeOK /\ Binance!HasDiffs /\ buffer' = buffer
  BY InvParts
<1>2. PICK l : /\ l = Binance!Done(a) /\ LabelOf(a, l) /\ pc' = [pc EXCEPT ![a] = l]
               /\ HasFor(a, l, todo'[a])
               /\ todo' \in [Binance!Actors -> Seq(Binance!Diffs)]
               /\ \A b \in Binance!Actors \ {a} : todo'[b] = todo[b]
               /\ Binance!AtHand' \subseteq Binance!AtHand
               /\ Binance!PutAside' \subseteq Binance!PutAside
               /\ l \in {"receive", "current", "read"} /\ (a # Handler => Active(l))
  BY <1>1, FinishStep
<1>3. a \in Seeders => (Active(l) <=> Active(pc[a])) /\ ~BeforeSeed(pc[a])
  BY <1>2, ActorKinds DEF Active, BeforeSeed
<1>4. /\ UNCHANGED <<venue, stream, lost, failed, lastSeq, seeded, seeding, current>>
      /\ buffer' \in Seq(Binance!Diffs)
  BY <1>1, InvParts DEF Binance!FinishDiff, Binance!venueVars
<1> QED
  BY <1>1, <1>2, <1>3, <1>4, InvParts, QuietStep

-------------------------------------------------------------------------------
(* Binance's book: the steps of the book and its number *)

\* A step at the goroutine's diff that changes none of the queues.
LEMMA AtDiff ==
    ASSUME Binance!BookInv, NEW a \in Binance!Actors, NEW l, LabelOf(a, l), HasFor(a, l, todo[a]),
           pc[a] \in {"read", "zero", "apply", "write"}, a # Handler => Active(l),
           pc' = [pc EXCEPT ![a] = l],
           UNCHANGED <<venue, stream, lost, seeded, seeding, buffer, todo, current, published>>,
           failed' \in 0..BookFaults, lastSeq' \in 0..MaxVenue, asm' \in Binance!Books,
           out' \in [Binance!Actors -> Binance!Books], overtaken' \in BOOLEAN,
           ~overtaken' => Binance!NumberFollows' /\ Binance!TornIsLeft' /\ Binance!Sound'
    PROVE  Binance!BookInv'
<1>1. Binance!BookTypeOK /\ Binance!HasDiffs /\ Binance!OneSeeds /\ Binance!ComeInOrder
  BY InvParts
<1>2. Binance!PcTypeOK' /\ Binance!HasDiffs'
  BY <1>1, PcsStep
<1>3. Binance!BookTypeOK'
  BY <1>1, <1>2 DEF Binance!BookTypeOK
<1>4. Binance!OneSeeds'
  <2>1. a \in Seeders => (Active(l) <=> Active(pc[a]))
    BY ActorKinds DEF Active
  <2> QED
    BY <1>1, <2>1, SeedsStep
<1>5. Binance!ComeInOrder'
  <2>1. Binance!AtHand' = Binance!AtHand /\ Binance!PutAside' = Binance!PutAside
    BY QueuesStay
  <2> QED
    BY <1>1, <2>1, OrderStep
<1> QED
  BY <1>2, <1>3, <1>4, <1>5 DEF Binance!BookInv

\* A seeder at its diff is the one that seeds.
LEMMA OneAtDiff ==
    ASSUME Binance!BookInv, NEW a \in Seeders, Active(pc[a])
    PROVE  \A s \in Seeders : Active(pc[s]) => s = a
BY InvParts DEF Binance!OneSeeds, Binance!AtSeeding, Active

LEMMA ReadStep ==
    ASSUME Binance!BookInv, NEW a \in Binance!Actors, Binance!ReadSeq(a)
    PROVE  Binance!BookInv'
<1>1. /\ Binance!BookTypeOK /\ Binance!HasDiffs /\ pc[a] = "read"
      /\ overtaken' = (overtaken \/ Binance!Marking)
      /\ UNCHANGED <<Binance!venueVars, Binance!handleVars, out, published>>
  BY InvParts DEF Binance!ReadSeq, Binance!Marking
<1>2. overtaken' \in BOOLEAN /\ (~overtaken' => ~overtaken)
  BY <1>1, InvParts
<1>3. CASE Binance!FinishDiff(a)
  BY <1>1, <1>2, <1>3, OldStep DEF Binance!handleVars
<1>4. CASE ~Binance!FinishDiff(a)
  <2>1. PICK l : /\ l = (IF Binance!Gap(Head(todo[a]), lastSeq) THEN "zero" ELSE "apply")
                 /\ pc' = [pc EXCEPT ![a] = l] /\ todo' = todo /\ current' = current
    BY <1>4 DEF Binance!ReadSeq, Binance!Goto
  <2>2. /\ todo[a] \in Seq(Binance!Diffs) /\ todo[a] # <<>> /\ (a = Handler => Len(todo[a]) = 1)
        /\ Head(todo[a]) \in Binance!Diffs
    BY <1>1, FirstDiff
  <2>3. LabelOf(a, l) /\ HasFor(a, l, todo[a]) /\ Active(l) /\ l \in {"zero", "apply"}
    BY <2>1, <2>2 DEF LabelOf, HasFor, Active, Binance!SharedPcs
  <2>4. UNCHANGED <<venue, stream, lost, failed, asm, lastSeq, seeded, seeding, buffer>>
    BY <1>1 DEF Binance!venueVars, Binance!handleVars
  <2>5. ASSUME ~overtaken'
        PROVE  Binance!NumberFollows' /\ Binance!TornIsLeft' /\ Binance!Sound'
    <3>1. Binance!NumberFollows /\ Binance!TornIsLeft /\ Binance!Sound /\ ~Binance!Marking
      BY <1>1, <2>5, InvParts
    <3>2. pc'[a] = l /\ \A b \in Binance!Actors \ {a} : pc'[b] = pc[b]
      BY <2>1, InvParts
    <3>3. ~Binance!Marking'
      BY <2>3, <3>1, <3>2, ActorKinds DEF Binance!Marking
    <3>4. lastSeq <= asm.seq
      BY <3>1 DEF Binance!NumberFollows
    <3>5. l = "apply" => Head(todo[a]).first <= asm.seq + 1
      <4>1. /\ lastSeq \in Int /\ asm.seq \in Int /\ Head(todo[a]).first \in Int
        BY <2>2, DiffTyped, InvParts, BinanceBounds DEF Binance!Books
      <4>2. l = "apply" => ~(Head(todo[a]).first > lastSeq + 1)
        BY <2>1 DEF Binance!Gap
      <4> QED
        BY <3>4, <4>1, <4>2
    <3>6. Binance!NumberFollows'
      <4>1. \A b \in Binance!Actors : pc'[b] = "apply" => Head(todo'[b]).first <= asm'.seq + 1
        BY <2>1, <2>4, <3>1, <3>2, <3>5 DEF Binance!NumberFollows
      <4>2. \A b \in Binance!Actors : pc'[b] = "write" => Head(todo'[b]).last <= asm'.seq
        BY <2>1, <2>3, <2>4, <3>1, <3>2 DEF Binance!NumberFollows
      <4>3. ~Binance!Marking' => lastSeq' <= asm'.seq
        BY <2>4, <3>4
      <4>4. \A s \in Seeders : pc'[s] # "mark"
        BY <3>3 DEF Binance!Marking
      <4> QED
        BY <3>3, <4>1, <4>2, <4>3, <4>4 DEF Binance!NumberFollows
    <3>7. Binance!TornIsLeft'
      <4>1. /\ Binance!AtHand' = Binance!AtHand /\ Binance!PutAside' = Binance!PutAside
            /\ Binance!Coming' = Binance!Coming
        BY <2>1, <2>4, QueuesStay DEF Binance!Coming
      <4>2. Binance!WillSeed => Binance!WillSeed'
        <5>1. a \in Seeders /\ BeforeSeed(pc[a]) => BeforeSeed(l)
          BY <1>1 DEF BeforeSeed
        <5> QED
          BY <1>1, <2>1, <5>1, WillSeedStep
      <4> QED
        BY <2>4, <3>1, <4>1, <4>2, TornStep
    <3>8. Binance!Sound'
      BY <1>1, <2>4, <3>1 DEF Binance!Sound, Binance!Exact
    <3> QED
      BY <3>6, <3>7, <3>8
  <2> QED
    BY <1>1, <1>2, <2>1, <2>3, <2>4, <2>5, InvParts, AtDiff
<1> QED
  BY <1>3, <1>4

LEMMA NumberSteps ==
    ASSUME Binance!BookInv, NEW a \in Binance!Actors, Binance!ForgetSeq(a) \/ Binance!WriteSeq(a)
    PROVE  Binance!BookInv'
<1>1. Binance!BookTypeOK /\ Binance!HasDiffs /\ pc[a] \in {"zero", "write"}
  BY InvParts DEF Binance!ForgetSeq, Binance!WriteSeq
<1>2. /\ todo[a] \in Seq(Binance!Diffs) /\ todo[a] # <<>> /\ (a = Handler => Len(todo[a]) = 1)
      /\ Head(todo[a]) \in Binance!Diffs
  BY <1>1, FirstDiff
<1>3. UNCHANGED <<venue, stream, lost, failed, asm, seeded, seeding, buffer, todo, current, out,
                  published, overtaken>>
  BY DEF Binance!ForgetSeq, Binance!WriteSeq, Binance!venueVars, Binance!Quiet
<1>4. PICK l \in {"unseed", "requeue", "publish"} :
          /\ pc' = [pc EXCEPT ![a] = l] /\ LabelOf(a, l) /\ HasFor(a, l, todo[a]) /\ Active(l)
  <2>1. CASE Binance!ForgetSeq(a)
    BY <1>2, <2>1
       DEF Binance!ForgetSeq, Binance!OutOfSync, Binance!Goto, LabelOf, HasFor, Active, Binance!SharedPcs
  <2>2. CASE Binance!WriteSeq(a)
    BY <1>2, <2>2 DEF Binance!WriteSeq, Binance!Goto, LabelOf, HasFor, Active, Binance!SharedPcs
  <2> QED
    BY <2>1, <2>2
<1>5. lastSeq' \in 0..MaxVenue
  BY <1>2, DiffTyped, BinanceBounds DEF Binance!ForgetSeq, Binance!WriteSeq
<1>6. ASSUME ~overtaken'
      PROVE  Binance!NumberFollows' /\ Binance!TornIsLeft' /\ Binance!Sound'
  <2>1. Binance!NumberFollows /\ Binance!TornIsLeft /\ Binance!Sound
    BY <1>3, <1>6, InvParts
  <2>2. lastSeq' <= asm.seq
    <3>1. CASE Binance!ForgetSeq(a)
      <4>1. lastSeq' = 0 /\ asm.seq \in 0..MaxVenue
        BY <3>1, InvParts DEF Binance!ForgetSeq, Binance!Books
      <4> QED
        BY <4>1, BinanceBounds
    <3>2. CASE Binance!WriteSeq(a)
      BY <2>1, <3>2 DEF Binance!WriteSeq, Binance!NumberFollows
    <3> QED
      BY <3>1, <3>2
  <2>3. Binance!NumberFollows'
    BY <1>1, <1>3, <1>4, <2>1, <2>2, NumberStep
  <2>4. Binance!TornIsLeft'
    <3>1. /\ Binance!AtHand' = Binance!AtHand /\ Binance!PutAside' = Binance!PutAside
          /\ Binance!Coming' = Binance!Coming
      BY <1>3, QueuesStay DEF Binance!Coming
    <3>2. Binance!WillSeed => Binance!WillSeed'
      <4>1. ~BeforeSeed(pc[a])
        BY <1>1 DEF BeforeSeed
      <4> QED
        BY <1>1, <1>4, <4>1, WillSeedStep
    <3> QED
      BY <1>3, <2>1, <3>1, <3>2, TornStep
  <2>5. Binance!Sound'
    BY <1>3, <2>1 DEF Binance!Sound, Binance!Exact
  <2> QED
    BY <2>3, <2>4, <2>5
<1> QED
  BY <1>1, <1>3, <1>4, <1>5, <1>6, InvParts, AtDiff

\* Nothing seeds while a diff is applied that was not overtaken, and a diff that applies
\* carries the next update.
LEMMA NextIsApplied ==
    ASSUME Binance!BookInv, ~overtaken, NEW a \in Binance!Actors, pc[a] = "apply",
           Binance!Applies(asm, Head(todo[a]))
    PROVE  /\ Binance!Carries(Head(todo[a])) /\ ~asm.torn /\ ~Binance!Marking
           /\ Head(todo[a]).first <= asm.seq + 1 /\ Head(todo[a]).last > asm.seq
<1>1. /\ Binance!BookTypeOK /\ Binance!HasDiffs /\ Binance!NumberFollows /\ Binance!TornIsLeft
  BY InvParts
<1>2. /\ Head(todo[a]) \in Binance!Diffs
      /\ a = Handler => Head(todo[a]) \in Binance!AtHand
      /\ a # Handler => Head(todo[a]) \in Binance!PutAside
  BY <1>1, FirstDiff
<1>3. /\ Head(todo[a]).first \in Int /\ Head(todo[a]).last \in Int /\ asm.seq \in Int
  BY <1>2, DiffTyped, InvParts, BinanceBounds DEF Binance!Books
<1>4. Head(todo[a]).first <= asm.seq + 1
  BY <1>1 DEF Binance!NumberFollows
<1>5. ~(Head(todo[a]).last <= asm.seq)
  BY DEF Binance!Applies, Binance!Stale
<1>6. Binance!Carries(Head(todo[a]))
  BY <1>3, <1>4, <1>5 DEF Binance!Carries, Binance!NextUpdate
<1>7. a # Handler => ~Binance!WillSeed
  <2> SUFFICES ASSUME a # Handler PROVE ~Binance!WillSeed
    OBVIOUS
  <2>1. a \in Seeders /\ Active(pc[a])
    BY ActorKinds DEF Active
  <2>2. \A s \in Seeders : Active(pc[s]) => s = a
    BY <2>1, OneAtDiff
  <2> QED
    BY <2>2 DEF Binance!WillSeed, Active
<1>8. ~asm.torn
  BY <1>1, <1>2, <1>6, <1>7 DEF Binance!TornIsLeft
<1>9. ~Binance!Marking
  <2>1. CASE a = Handler
    BY <1>1, <2>1 DEF Binance!NumberFollows
  <2>2. CASE a # Handler
    <3>1. a \in Seeders /\ Active(pc[a])
      BY <2>2, ActorKinds DEF Active
    <3>2. \A s \in Seeders : Active(pc[s]) => s = a
      BY <3>1, OneAtDiff
    <3> QED
      BY <3>2 DEF Binance!Marking, Active
  <2> QED
    BY <2>1, <2>2
<1> QED
  BY <1>3, <1>4, <1>5, <1>6, <1>8, <1>9

LEMMA AppliedStep ==
    ASSUME Binance!BookInv, NEW a \in Binance!Actors, pc[a] = "apply", Binance!Applies(asm,
           Head(todo[a])),
           asm' = Binance!ApplyDiff(asm, Head(todo[a])), out' = [out EXCEPT ![a] = asm'],
           pc' = [pc EXCEPT ![a] = "write"],
           UNCHANGED <<Binance!venueVars, lastSeq, seeded, seeding, buffer, todo, current,
                       published, overtaken>>
    PROVE  Binance!BookInv'
<1>1. Binance!BookTypeOK /\ Binance!HasDiffs
  BY InvParts
<1>2. /\ todo[a] \in Seq(Binance!Diffs) /\ todo[a] # <<>> /\ (a = Handler => Len(todo[a]) = 1)
      /\ Head(todo[a]) \in Binance!Diffs
  BY <1>1, FirstDiff
<1>3. PICK d \in Binance!Diffs : d = Head(todo[a])
  BY <1>2
<1>4. asm \in Binance!Books /\ asm' = Binance!ApplyDiff(asm, d) /\ Binance!Applies(asm, d)
  BY <1>3, InvParts
<1>5. /\ asm' \in Binance!Books /\ asm'.seq = d.last /\ asm'.torn = asm.torn /\ d.last > asm.seq
      /\ d.first <= asm.seq + 1 /\ asm.has = 1..asm.seq => asm'.has = 1..asm'.seq
  <2>1. PICK b \in Binance!Books : b = asm
    BY <1>4
  <2>2. LET c == Binance!ApplyDiff(b, d) IN
        /\ d.last > b.seq /\ c \in Binance!Books /\ c.seq = d.last /\ c.torn = b.torn
        /\ d.first <= b.seq + 1 /\ b.has = 1..b.seq => c.has = 1..c.seq
    BY <1>4, <2>1, DiffedBook
  <2> QED
    BY <1>4, <2>1, <2>2
<1>6. LabelOf(a, "write") /\ HasFor(a, "write", todo[a]) /\ Active("write")
  BY <1>2 DEF LabelOf, HasFor, Active, Binance!SharedPcs
<1>7. UNCHANGED <<venue, stream, lost, failed>>
  BY DEF Binance!venueVars
<1>8. /\ out' \in [Binance!Actors -> Binance!Books] /\ out'[a] = asm'
      /\ \A b \in Binance!Actors \ {a} : out'[b] = out[b]
  BY <1>5, InvParts
<1>9. ASSUME ~overtaken'
      PROVE  Binance!NumberFollows' /\ Binance!TornIsLeft' /\ Binance!Sound'
  <2>1. Binance!NumberFollows /\ Binance!TornIsLeft /\ Binance!Sound /\ ~overtaken
    BY <1>9, InvParts
  <2>2. ~asm.torn /\ ~Binance!Marking /\ d.first <= asm.seq + 1
    BY <1>3, <2>1, NextIsApplied
  <2>3. ~asm'.torn /\ asm'.has = 1..asm'.seq
    BY <1>5, <2>1, <2>2 DEF Binance!Sound
  <2>4. pc'[a] = "write" /\ \A b \in Binance!Actors \ {a} : pc'[b] = pc[b]
    BY InvParts
  <2>5. \A s \in Seeders : pc'[s] # "mark"
    BY <2>2, <2>4, ActorKinds DEF Binance!Marking
  <2>6. /\ asm.seq \in Int /\ asm'.seq \in Int /\ lastSeq \in Int /\ asm.seq <= asm'.seq
        /\ \A b \in Binance!Actors : pc[b] \in {"apply", "write"} =>
              Head(todo[b]).first \in Int /\ Head(todo[b]).last \in Int
    <3>1. asm.seq \in Int /\ asm'.seq \in Int /\ lastSeq \in Int
      BY <1>5, InvParts, BinanceBounds DEF Binance!Books
    <3>2. \A b \in Binance!Actors : pc[b] \in {"apply", "write"} => Head(todo[b]) \in Binance!Diffs
      BY <1>1, FirstDiff
    <3> QED
      BY <1>5, <3>1, <3>2, DiffTyped
  <2>7. \A b \in Binance!Actors : pc'[b] = "apply" => Head(todo'[b]).first <= asm'.seq + 1
    <3>1. \A b \in Binance!Actors : pc[b] = "apply" => Head(todo[b]).first <= asm.seq + 1
      BY <2>1 DEF Binance!NumberFollows
    <3> QED
      BY <2>4, <2>6, <3>1
  <2>8. \A b \in Binance!Actors : pc'[b] = "write" => Head(todo'[b]).last <= asm'.seq
    <3>1. \A b \in Binance!Actors : pc[b] = "write" => Head(todo[b]).last <= asm.seq
      BY <2>1 DEF Binance!NumberFollows
    <3>2. Head(todo'[a]).last <= asm'.seq
      BY <1>3, <1>5, <2>6
    <3> QED
      BY <2>4, <2>6, <3>1, <3>2
  <2>9. lastSeq' <= asm'.seq
    BY <2>1, <2>2, <2>6 DEF Binance!NumberFollows
  <2>10. Binance!NumberFollows'
    BY <2>5, <2>7, <2>8, <2>9 DEF Binance!NumberFollows, Binance!Marking
  <2>11. Binance!TornIsLeft'
    BY <2>3 DEF Binance!TornIsLeft
  <2>12. Binance!Sound'
    BY <1>8, <2>1, <2>3 DEF Binance!Sound, Binance!Exact
  <2> QED
    BY <2>10, <2>11, <2>12
<1> QED
  BY <1>5, <1>6, <1>7, <1>8, <1>9, InvParts, AtDiff

\* A diff that fails tears the book: no other diff carries the update that is missing.
LEMMA FailedStep ==
    ASSUME Binance!BookInv, NEW a \in Binance!Actors, pc[a] = "apply", Binance!Applies(asm,
           Head(todo[a])),
           failed' \in 0..BookFaults, asm' = Binance!DiffFails(asm),
           IF a = Handler THEN Binance!FinishDiff(a)
           ELSE pc' = [pc EXCEPT ![a] = "retry"] /\ UNCHANGED <<todo, current>>,
           UNCHANGED <<venue, stream, lost, lastSeq, seeded, seeding, buffer, out, published,
                       overtaken>>
    PROVE  Binance!BookInv'
<1>1. Binance!BookTypeOK /\ Binance!HasDiffs /\ Binance!OneSeeds /\ Binance!ComeInOrder
  BY InvParts
<1>2. /\ todo[a] \in Seq(Binance!Diffs) /\ todo[a] # <<>> /\ (a = Handler => Len(todo[a]) = 1)
      /\ Head(todo[a]) \in Binance!Diffs
      /\ a = Handler => Head(todo[a]) \in Binance!AtHand
      /\ a # Handler => Head(todo[a]) \in Binance!PutAside
  BY <1>1, FirstDiff
<1>3. PICK d \in Binance!Diffs : d = Head(todo[a])
  BY <1>2
<1>4. asm' \in Binance!Books /\ asm'.torn /\ asm'.seq = asm.seq /\ asm'.has = asm.has
  <2>1. PICK b \in Binance!Books : b = asm
    BY InvParts
  <2> QED
    BY <1>3, <2>1, DiffedBook
<1>5. current' = current
  BY DEF Binance!FinishDiff
<1>6. PICK l : /\ l = (IF a = Handler THEN "receive" ELSE "retry")
               /\ LabelOf(a, l) /\ pc' = [pc EXCEPT ![a] = l] /\ HasFor(a, l, todo'[a])
               /\ todo' \in [Binance!Actors -> Seq(Binance!Diffs)]
               /\ \A b \in Binance!Actors \ {a} : todo'[b] = todo[b]
               /\ Binance!AtHand' \subseteq Binance!AtHand
               /\ Binance!PutAside' \subseteq Binance!PutAside
  <2>1. CASE a = Handler
    <3>1. Binance!Done(a) = "receive"
      BY <2>1 DEF Binance!Done
    <3> QED
      BY <1>1, <2>1, <3>1, FinishStep
  <2>2. CASE a # Handler
    <3>1. Binance!AtHand' = Binance!AtHand /\ Binance!PutAside' = Binance!PutAside
      BY <2>2, QueuesStay
    <3>2. LabelOf(a, "retry") /\ HasFor(a, "retry", todo'[a])
      BY <2>2 DEF LabelOf, HasFor, Binance!SharedPcs
    <3> QED
      BY <2>2, <3>1, <3>2, InvParts
  <2> QED
    BY <2>1, <2>2
<1>7. Binance!PcTypeOK' /\ Binance!HasDiffs'
  BY <1>1, <1>6, PcsStep
<1>8. Binance!BookTypeOK'
  BY <1>1, <1>4, <1>5, <1>6, <1>7 DEF Binance!BookTypeOK
<1>9. Binance!OneSeeds'
  <2>1. a \in Seeders => (Active(l) <=> Active(pc[a]))
    BY <1>6, ActorKinds DEF Active
  <2> QED
    BY <1>1, <1>6, <2>1, SeedsStep
<1>10. Binance!ComeInOrder'
  BY <1>1, <1>6, OrderStep
<1>11. ASSUME ~overtaken'
       PROVE  Binance!NumberFollows' /\ Binance!TornIsLeft' /\ Binance!Sound'
  <2>1. Binance!NumberFollows /\ Binance!Sound /\ ~overtaken
    BY <1>11, InvParts
  <2>2. Binance!Carries(d)
    BY <1>3, <2>1, NextIsApplied
  <2>3. pc'[a] = l /\ \A b \in Binance!Actors \ {a} : pc'[b] = pc[b]
    BY <1>6, InvParts
  <2>4. Binance!NumberFollows'
    <3>1. Binance!Marking' <=> Binance!Marking
      BY <1>6, <2>3, ActorKinds DEF Binance!Marking
    <3>2. asm'.seq = asm.seq /\ lastSeq' = lastSeq /\ current' = current
      BY <1>4, <1>5
    <3>3. ~Binance!Marking' => lastSeq' <= asm'.seq
      BY <2>1, <3>1, <3>2 DEF Binance!NumberFollows
    <3>4. /\ \A t \in Seeders : pc'[t] = "mark" => asm'.seq = current'[t]
          /\ Binance!Marking' => pc'[Handler] \notin {"apply", "write"}
      BY <1>6, <2>1, <2>3, <3>1, <3>2, ActorKinds DEF Binance!NumberFollows
    <3>5. \A b \in Binance!Actors :
             /\ pc'[b] = "apply" => Head(todo'[b]).first <= asm'.seq + 1
             /\ pc'[b] = "write" => Head(todo'[b]).last <= asm'.seq
      BY <1>6, <2>1, <2>3, <3>2, ActorKinds DEF Binance!NumberFollows
    <3> QED
      BY <3>3, <3>4, <3>5 DEF Binance!NumberFollows
  <2>5. Binance!TornIsLeft'
    <3>1. Binance!NextUpdate' = Binance!NextUpdate /\ \A e : Binance!Carries(e)' <=> Binance!Carries(e)
      <4>1. asm'.seq = asm.seq
        BY <1>4
      <4> QED
        BY <4>1 DEF Binance!NextUpdate, Binance!Carries
    <3>2. d \in Binance!Coming \union Binance!AtHand \union Binance!PutAside /\ d.last <= venue
      BY <1>2, <1>3, <1>1 DEF Binance!ComeInOrder
    <3>3. Binance!NextUpdate \in Int /\ d.first \in Int /\ d.last \in Int /\ venue \in Int
      <4>1. asm \in Binance!Books /\ venue \in 1..MaxVenue
        BY InvParts
      <4>2. asm.seq \in 0..MaxVenue
        BY <4>1 DEF Binance!Books
      <4> QED
        BY <4>1, <4>2, DiffTyped, BinanceBounds DEF Binance!NextUpdate
    <3>4. Binance!NextUpdate <= venue
      BY <2>2, <3>2, <3>3 DEF Binance!Carries
    <3>5. ASSUME NEW e \in Binance!Diffs, Binance!Before(d, e) \/ Binance!Before(e, d)
          PROVE  ~Binance!Carries(e)
      <4>1. e.first \in Int /\ e.last \in Int
        BY DiffTyped
      <4> QED
        BY <2>2, <3>3, <3>5, <4>1 DEF Binance!Carries, Binance!Before
    <3>6. /\ Binance!Coming \subseteq Binance!Diffs
          /\ Binance!AtHand \subseteq Binance!Diffs
          /\ Binance!PutAside \subseteq Binance!Diffs
      <4>1. \A q \in Seq(Binance!Diffs) : Binance!Range(q) \subseteq Binance!Diffs
        BY ElementsOf
      <4> QED
        BY <4>1, InvParts, ActorKinds DEF Binance!Coming, Binance!AtHand, Binance!PutAside
    <3>7. Binance!Coming' = Binance!Coming
      BY DEF Binance!Coming
    <3>8. CASE a = Handler
      <4>1. Binance!AtHand' = {}
        <5>1. todo' = [todo EXCEPT ![a] = Tail(todo[a])]
          BY <3>8 DEF Binance!FinishDiff
        <5>2. Tail(todo[a]) \in Seq(Binance!Diffs) /\ Len(Tail(todo[a])) = 0
          BY <1>2, <3>8, Lengths
        <5>3. Tail(todo[a]) = <<>>
          BY <5>2, Lengths
        <5>4. todo'[Handler] = <<>>
          BY <3>8, <5>1, <5>3, InvParts
        <5> QED
          BY <5>4 DEF Binance!AtHand, Binance!Range
      <4>2. \A e \in Binance!Coming \union Binance!PutAside : ~Binance!Carries(e)
        BY <1>1, <1>2, <1>3, <3>5, <3>6, <3>8 DEF Binance!ComeInOrder
      <4> QED
        BY <1>6, <3>1, <3>4, <3>7, <4>1, <4>2 DEF Binance!TornIsLeft
    <3>9. CASE a # Handler
      <4>1. \A e \in Binance!Coming \union Binance!AtHand : ~Binance!Carries(e)
        BY <1>1, <1>2, <1>3, <3>5, <3>6, <3>9 DEF Binance!ComeInOrder
      <4>2. Binance!WillSeed'
        BY <1>6, <2>3, <3>9, ActorKinds DEF Binance!WillSeed
      <4> QED
        BY <1>6, <3>1, <3>4, <3>7, <4>1, <4>2 DEF Binance!TornIsLeft
    <3> QED
      BY <3>8, <3>9
  <2>6. Binance!Sound'
    BY <1>4, <2>1 DEF Binance!Sound, Binance!Exact
  <2> QED
    BY <2>4, <2>5, <2>6
<1> QED
  BY <1>7, <1>8, <1>9, <1>10, <1>11 DEF Binance!BookInv

LEMMA ApplyStep ==
    ASSUME Binance!BookInv, NEW a \in Binance!Actors, Binance!Apply(a)
    PROVE  Binance!BookInv'
<1>1. /\ pc[a] = "apply"
      /\ UNCHANGED <<venue, stream, lost, lastSeq, seeded, seeding, buffer, published, overtaken>>
  BY DEF Binance!Apply, Binance!Quiet
<1>2. PICK d : d = Head(todo[a])
  OBVIOUS
<1>3. \/ /\ Binance!Applies(asm, d) /\ asm' = Binance!ApplyDiff(asm, d) /\ out' = [out EXCEPT ![a] = asm']
         /\ pc' = [pc EXCEPT ![a] = "write"] /\ UNCHANGED <<failed, todo, current>>
      \/ /\ ~Binance!Applies(asm, d) /\ asm' = Binance!ApplyDiff(asm, d)
         /\ Binance!FinishDiff(a) /\ UNCHANGED <<failed, out>>
      \/ /\ Binance!Applies(asm, d) /\ failed < BookFaults
         /\ failed' = failed + 1 /\ asm' = Binance!DiffFails(asm)
         /\ IF a = Handler THEN Binance!FinishDiff(a)
            ELSE pc' = [pc EXCEPT ![a] = "retry"] /\ UNCHANGED <<todo, current>>
         /\ UNCHANGED out
  BY <1>2 DEF Binance!Apply, Binance!Goto
<1>4. CASE /\ Binance!Applies(asm, d) /\ asm' = Binance!ApplyDiff(asm, d) /\ out' = [out EXCEPT ![a] = asm']
           /\ pc' = [pc EXCEPT ![a] = "write"] /\ UNCHANGED <<failed, todo, current>>
  BY <1>1, <1>2, <1>4, AppliedStep DEF Binance!venueVars
<1>5. CASE /\ ~Binance!Applies(asm, d) /\ asm' = Binance!ApplyDiff(asm, d)
           /\ Binance!FinishDiff(a) /\ UNCHANGED <<failed, out>>
  <2>1. d \in Binance!Diffs /\ asm \in Binance!Books
    BY <1>1, <1>2, InvParts, FirstDiff
  <2>2. SameBook
    BY <1>5, <2>1, QueuedBook DEF SameBook
  <2> QED
    BY <1>1, <1>5, <2>2, OldStep, InvParts DEF Binance!venueVars
<1>6. CASE /\ Binance!Applies(asm, d) /\ failed < BookFaults
           /\ failed' = failed + 1 /\ asm' = Binance!DiffFails(asm)
           /\ IF a = Handler THEN Binance!FinishDiff(a)
              ELSE pc' = [pc EXCEPT ![a] = "retry"] /\ UNCHANGED <<todo, current>>
           /\ UNCHANGED out
  <2>1. failed' \in 0..BookFaults
    BY <1>6, InvParts, BinanceBounds
  <2> QED
    BY <1>1, <1>2, <1>6, <2>1, FailedStep
<1> QED
  BY <1>3, <1>4, <1>5, <1>6

\* A snapshot replaces the book; nothing else is applied, so its number can follow.
LEMMA SeedStep ==
    ASSUME Binance!BookInv, NEW s \in Seeders, Binance!Seed(s)
    PROVE  Binance!BookInv'
<1>1. /\ Binance!BookTypeOK /\ Binance!HasDiffs /\ Binance!OneSeeds /\ Binance!ComeInOrder
      /\ s \in Binance!Actors /\ s # Handler /\ pc[s] = "seed"
  BY InvParts, ActorKinds DEF Binance!Seed
<1>2. /\ asm' = Binance!ApplySnapshot(current[s]) /\ pc' = [pc EXCEPT ![s] = "mark"]
      /\ overtaken' = (overtaken \/ pc[Handler] \in {"apply", "write"})
      /\ UNCHANGED <<venue, stream, lost, failed, lastSeq, seeded, seeding, buffer, todo, current,
                     out, published>>
  BY DEF Binance!Seed, Binance!Goto, Binance!venueVars
<1>3. current[s] \in 0..MaxVenue
  BY <1>1, InvParts
<1>4. /\ asm' \in Binance!Books /\ Binance!Exact(asm') /\ ~asm'.torn /\ asm'.seq = current[s]
  BY <1>2, <1>3, SnapshotBook
<1>5. LabelOf(s, "mark") /\ HasFor(s, "mark", todo'[s]) /\ Active("mark") /\ Active(pc[s])
  BY <1>1 DEF LabelOf, HasFor, Active, Binance!SeederPcs
<1>6. Binance!PcTypeOK' /\ Binance!HasDiffs'
  BY <1>1, <1>2, <1>5, PcsStep
<1>7. Binance!BookTypeOK'
  <2>1. overtaken' \in BOOLEAN
    BY <1>2
  <2> QED
    BY <1>1, <1>2, <1>4, <1>6, <2>1 DEF Binance!BookTypeOK
<1>8. Binance!OneSeeds'
  BY <1>1, <1>2, <1>5, SeedsStep
<1>9. Binance!ComeInOrder'
  <2>1. Binance!AtHand' = Binance!AtHand /\ Binance!PutAside' = Binance!PutAside
    BY <1>2, QueuesStay
  <2> QED
    BY <1>1, <1>2, <2>1, OrderStep
<1>10. ASSUME ~overtaken'
       PROVE  Binance!NumberFollows' /\ Binance!TornIsLeft' /\ Binance!Sound'
  <2>1. Binance!Sound /\ pc[Handler] \notin {"apply", "write"}
    BY <1>2, <1>10, InvParts
  <2>2. pc'[s] = "mark" /\ \A b \in Binance!Actors \ {s} : pc'[b] = pc[b]
    BY <1>1, <1>2, InvParts
  <2>3. \A t \in Seeders \ {s} : ~Active(pc[t])
    BY <1>5, OneAtDiff
  <2>4. \A b \in Binance!Actors : pc'[b] \notin {"apply", "write"}
    BY <2>1, <2>2, <2>3, ActorKinds DEF Active
  <2>5. \A t \in Seeders : pc'[t] = "mark" => t = s
    BY <2>2, <2>3, ActorKinds DEF Active
  <2>6. Binance!Marking'
    BY <2>2 DEF Binance!Marking
  <2>7. Binance!NumberFollows'
    BY <1>2, <1>4, <2>1, <2>4, <2>5, <2>6, ActorKinds DEF Binance!NumberFollows
  <2>8. Binance!TornIsLeft'
    BY <1>4 DEF Binance!TornIsLeft
  <2>9. Binance!Sound'
    BY <1>2, <1>4, <2>1 DEF Binance!Sound, Binance!Exact
  <2> QED
    BY <2>7, <2>8, <2>9
<1> QED
  BY <1>6, <1>7, <1>8, <1>9, <1>10 DEF Binance!BookInv

\* A snapshot that does not parse leaves the book and its number; the seeder goes back.
LEMMA SeedFailsStep ==
    ASSUME Binance!BookInv, NEW s \in Seeders, Binance!SeedFails(s)
    PROVE  Binance!BookInv'
<1>1. /\ Binance!BookTypeOK /\ Binance!HasDiffs /\ s \in Binance!Actors /\ s # Handler /\ pc[s] = "seed"
  BY InvParts, ActorKinds DEF Binance!SeedFails
<1>2. /\ asm' = Binance!SnapshotFails(asm) /\ pc' = [pc EXCEPT ![s] = "fetch"]
      /\ failed < BookFaults /\ failed' = failed + 1
      /\ UNCHANGED <<venue, stream, lost, lastSeq, seeded, seeding, buffer, todo, current, out,
                     published, overtaken>>
  BY DEF Binance!SeedFails, Binance!Goto, Binance!Quiet
<1>3. SameBook
  <2>1. PICK b \in Binance!Books : b = asm
    BY InvParts
  <2>2. asm' = [b EXCEPT !.ready = FALSE, !.pending = <<>>]
    BY <1>2, <2>1 DEF Binance!SnapshotFails
  <2>3. <<>> \in Seq(Binance!Diffs)
    OBVIOUS
  <2> QED
    BY <2>1, <2>2, <2>3 DEF SameBook, Binance!Books
<1>4. failed' \in 0..BookFaults
  BY <1>2, InvParts, BinanceBounds
<1>5. LabelOf(s, "fetch") /\ HasFor(s, "fetch", todo'[s]) /\ Active("fetch") /\ Active(pc[s])
      /\ BeforeSeed("fetch")
  BY <1>1 DEF LabelOf, HasFor, Active, BeforeSeed, Binance!SeederPcs
<1>6. Binance!AtHand' = Binance!AtHand /\ Binance!PutAside' = Binance!PutAside
  BY <1>2, QueuesStay
<1> QED
  BY <1>1, <1>2, <1>3, <1>4, <1>5, <1>6, InvParts, QuietStep

LEMMA MarkStep ==
    ASSUME Binance!BookInv, NEW s \in Seeders, Binance!MarkSeq(s)
    PROVE  Binance!BookInv'
<1>1. /\ Binance!BookTypeOK /\ Binance!HasDiffs /\ Binance!OneSeeds /\ Binance!ComeInOrder
      /\ s \in Binance!Actors /\ s # Handler /\ pc[s] = "mark"
  BY InvParts, ActorKinds DEF Binance!MarkSeq
<1>2. /\ lastSeq' = current[s] /\ pc' = [pc EXCEPT ![s] = "announce"]
      /\ UNCHANGED <<venue, stream, lost, failed, asm, seeded, seeding, buffer, todo, current, out,
                     published, overtaken>>
  BY DEF Binance!MarkSeq, Binance!Goto, Binance!venueVars, Binance!Quiet
<1>3. lastSeq' \in 0..MaxVenue
  BY <1>1, <1>2, InvParts
<1>4. LabelOf(s, "announce") /\ HasFor(s, "announce", todo'[s]) /\ Active("announce") /\ Active(pc[s])
  BY <1>1 DEF LabelOf, HasFor, Active, Binance!SeederPcs
<1>5. Binance!PcTypeOK' /\ Binance!HasDiffs'
  BY <1>1, <1>2, <1>4, PcsStep
<1>6. Binance!BookTypeOK'
  BY <1>1, <1>2, <1>3, <1>5 DEF Binance!BookTypeOK
<1>7. Binance!OneSeeds'
  BY <1>1, <1>2, <1>4, SeedsStep
<1>8. /\ Binance!AtHand' = Binance!AtHand /\ Binance!PutAside' = Binance!PutAside
      /\ Binance!Coming' = Binance!Coming
  BY <1>2, QueuesStay DEF Binance!Coming
<1>9. Binance!ComeInOrder'
  BY <1>1, <1>2, <1>8, OrderStep
<1>10. ASSUME ~overtaken'
       PROVE  Binance!NumberFollows' /\ Binance!TornIsLeft' /\ Binance!Sound'
  <2>1. Binance!NumberFollows /\ Binance!TornIsLeft /\ Binance!Sound
    BY <1>2, <1>10, InvParts
  <2>2. pc'[s] = "announce" /\ \A b \in Binance!Actors \ {s} : pc'[b] = pc[b]
    BY <1>1, <1>2, InvParts
  <2>3. \A t \in Seeders \ {s} : ~Active(pc[t])
    BY <1>4, OneAtDiff
  <2>4. \A t \in Seeders : pc'[t] # "mark"
    BY <2>2, <2>3, ActorKinds DEF Active
  <2>5. lastSeq' = asm.seq /\ asm.seq \in Int
    BY <1>1, <1>2, <2>1, InvParts, BinanceBounds DEF Binance!NumberFollows, Binance!Books
  <2>6. /\ \A b \in Binance!Actors : pc'[b] = "apply" => Head(todo'[b]).first <= asm'.seq + 1
        /\ \A b \in Binance!Actors : pc'[b] = "write" => Head(todo'[b]).last <= asm'.seq
    BY <1>2, <2>1, <2>2 DEF Binance!NumberFollows
  <2>7. Binance!NumberFollows'
    BY <1>2, <2>4, <2>5, <2>6 DEF Binance!NumberFollows, Binance!Marking
  <2>8. Binance!TornIsLeft'
    <3>1. ~BeforeSeed(pc[s])
      BY <1>1 DEF BeforeSeed
    <3>2. Binance!WillSeed => Binance!WillSeed'
      BY <1>1, <1>2, <3>1, WillSeedStep
    <3> QED
      BY <1>2, <1>8, <2>1, <3>2, TornStep
  <2>9. Binance!Sound'
    BY <1>2, <2>1 DEF Binance!Sound, Binance!Exact
  <2> QED
    BY <2>7, <2>8, <2>9
<1> QED
  BY <1>5, <1>6, <1>7, <1>9, <1>10 DEF Binance!BookInv

\* The CompareAndSwap lets one seeder in, and the deferred store lets it out.
LEMMA DoorStep ==
    ASSUME Binance!BookInv, NEW s \in Seeders, Binance!Enter(s) \/ Binance!LeaveSeeding(s)
    PROVE  Binance!BookInv'
<1>1. /\ Binance!BookTypeOK /\ Binance!HasDiffs /\ Binance!OneSeeds /\ Binance!ComeInOrder
      /\ s \in Binance!Actors /\ s # Handler /\ pc[s] \in {"spawned", "leave"}
  BY InvParts, ActorKinds DEF Binance!Enter, Binance!LeaveSeeding
<1>2. PICK l \in {"fetch", "none"} :
          /\ pc' = [pc EXCEPT ![s] = l]
          /\ Binance!Enter(s) => seeding' = TRUE /\ l = (IF ~seeding THEN "fetch" ELSE "none")
          /\ ~Binance!Enter(s) => seeding' = FALSE /\ l = "none" /\ pc[s] = "leave"
  BY DEF Binance!Enter, Binance!LeaveSeeding, Binance!Swapped, Binance!Ended, Binance!Goto
<1>3. UNCHANGED <<venue, stream, lost, failed, asm, lastSeq, seeded, buffer, todo, current, out,
                  published, overtaken>>
  BY DEF Binance!Enter, Binance!LeaveSeeding, Binance!venueVars, Binance!Quiet
<1>4. LabelOf(s, l) /\ HasFor(s, l, todo'[s])
  BY <1>1 DEF LabelOf, HasFor, Binance!SeederPcs
<1>5. Binance!PcTypeOK' /\ Binance!HasDiffs'
  BY <1>1, <1>2, <1>3, <1>4, PcsStep
<1>6. Binance!BookTypeOK'
  <2>1. seeding' \in BOOLEAN
    BY <1>2
  <2> QED
    BY <1>1, <1>3, <1>5, <2>1 DEF Binance!BookTypeOK
<1>7. pc'[s] = l /\ \A t \in Seeders \ {s} : pc'[t] = pc[t]
  BY <1>1, <1>2, InvParts, ActorKinds
<1>8. Binance!OneSeeds'
  <2>1. /\ seeding <=> \E t \in Seeders : Active(pc[t])
        /\ \A t, u \in Seeders : Active(pc[t]) /\ Active(pc[u]) => t = u
    BY <1>1 DEF Binance!OneSeeds, Binance!AtSeeding, Active
  <2>2. /\ seeding' <=> \E t \in Seeders : Active(pc'[t])
        /\ \A t, u \in Seeders : Active(pc'[t]) /\ Active(pc'[u]) => t = u
    <3>1. CASE Binance!Enter(s) /\ ~seeding
      BY <1>2, <1>7, <2>1, <3>1 DEF Active
    <3>2. CASE Binance!Enter(s) /\ seeding
      <4>1. pc[s] = "spawned"
        BY <3>2 DEF Binance!Enter
      <4> QED
        BY <1>2, <1>7, <2>1, <3>2, <4>1 DEF Active
    <3>3. CASE ~Binance!Enter(s)
      BY <1>2, <1>7, <2>1, <3>3 DEF Active
    <3> QED
      BY <3>1, <3>2, <3>3
  <2> QED
    BY <2>2 DEF Binance!OneSeeds, Binance!AtSeeding, Active
<1>9. /\ Binance!AtHand' = Binance!AtHand /\ Binance!PutAside' = Binance!PutAside
      /\ Binance!Coming' = Binance!Coming
  BY <1>3, QueuesStay DEF Binance!Coming
<1>10. Binance!ComeInOrder'
  BY <1>1, <1>3, <1>9, OrderStep
<1>11. ASSUME ~overtaken'
       PROVE  Binance!NumberFollows' /\ Binance!TornIsLeft' /\ Binance!Sound'
  <2>1. Binance!NumberFollows /\ Binance!TornIsLeft /\ Binance!Sound
    BY <1>3, <1>11, InvParts
  <2>2. Binance!NumberFollows'
    BY <1>1, <1>2, <1>3, <2>1, NumberStep
  <2>3. Binance!TornIsLeft'
    <3>1. ~BeforeSeed(pc[s])
      BY <1>1 DEF BeforeSeed
    <3>2. Binance!WillSeed => Binance!WillSeed'
      BY <1>1, <1>2, <3>1, WillSeedStep
    <3> QED
      BY <1>3, <1>9, <2>1, <3>2, TornStep
  <2>4. Binance!Sound'
    BY <1>3, <2>1 DEF Binance!Sound, Binance!Exact
  <2> QED
    BY <2>2, <2>3, <2>4
<1> QED
  BY <1>5, <1>6, <1>8, <1>10, <1>11 DEF Binance!BookInv

-------------------------------------------------------------------------------
(* Binance's book: the stream and the handler's queue *)

LEMMA SpawnStep ==
    ASSUME Binance!BookInv, Binance!Spawn
    PROVE  Binance!BookInv'
<1>1. /\ Binance!BookTypeOK /\ Binance!HasDiffs /\ Binance!OneSeeds /\ Binance!ComeInOrder
      /\ Handler \in Binance!Actors /\ Handler \notin Seeders
  BY InvParts, ActorKinds
<1>2. PICK s \in Seeders : pc[s] = "none" /\ pc' = [pc EXCEPT ![Handler] = "receive", ![s] = "spawned"]
  BY DEF Binance!Spawn
<1>3. UNCHANGED <<venue, stream, lost, failed, asm, lastSeq, seeded, seeding, buffer, todo, current,
                  out, published, overtaken>>
  BY DEF Binance!Spawn, Binance!venueVars, Binance!handleVars, Binance!Quiet
<1>4. /\ pc'[Handler] = "receive" /\ pc'[s] = "spawned"
      /\ \A b \in Binance!Actors : b # Handler /\ b # s => pc'[b] = pc[b]
      /\ pc' \in [Binance!Actors -> Binance!HandlerPcs \union Binance!SeederPcs \union Binance!SharedPcs]
  BY <1>1, <1>2, InvParts, ActorKinds DEF Binance!HandlerPcs, Binance!SeederPcs
<1>5. /\ pc'[Handler] \in Binance!HandlerPcs \union (Binance!SharedPcs \ {"retry"})
      /\ \A t \in Seeders : pc'[t] \in Binance!SeederPcs \union Binance!SharedPcs
  BY <1>1, <1>4, ActorKinds
     DEF Binance!BookTypeOK, Binance!PcTypeOK, Binance!HandlerPcs, Binance!SeederPcs
<1>6. Binance!BookTypeOK'
  BY <1>1, <1>3, <1>4, <1>5 DEF Binance!BookTypeOK, Binance!PcTypeOK
<1>7. Binance!HasDiffs'
  BY <1>1, <1>3, <1>4, ActorKinds DEF Binance!HasDiffs
<1>8. \A t \in Seeders : Binance!AtSeeding(t)' <=> Binance!AtSeeding(t)
  BY <1>1, <1>2, <1>4, ActorKinds DEF Binance!AtSeeding
<1>9. Binance!OneSeeds'
  BY <1>1, <1>3, <1>8 DEF Binance!OneSeeds
<1>10. /\ Binance!AtHand' = Binance!AtHand /\ Binance!PutAside' = Binance!PutAside
       /\ Binance!Coming' = Binance!Coming
  BY <1>3, QueuesStay DEF Binance!Coming
<1>11. Binance!ComeInOrder'
  BY <1>1, <1>3, <1>10, OrderStep
<1>12. ASSUME ~overtaken'
       PROVE  Binance!NumberFollows' /\ Binance!TornIsLeft' /\ Binance!Sound'
  <2>1. Binance!NumberFollows /\ Binance!TornIsLeft /\ Binance!Sound
    BY <1>3, <1>12, InvParts
  <2>2. Binance!Marking' <=> Binance!Marking
    BY <1>1, <1>2, <1>4, ActorKinds DEF Binance!Marking
  <2>3. Binance!NumberFollows'
    BY <1>1, <1>3, <1>4, <2>1, <2>2, ActorKinds DEF Binance!NumberFollows
  <2>4. Binance!WillSeed => Binance!WillSeed'
    BY <1>1, <1>2, <1>4, ActorKinds DEF Binance!WillSeed
  <2>5. Binance!TornIsLeft'
    BY <1>3, <1>10, <2>1, <2>4, TornStep
  <2>6. Binance!Sound'
    BY <1>3, <2>1 DEF Binance!Sound, Binance!Exact
  <2> QED
    BY <2>3, <2>5, <2>6
<1> QED
  BY <1>6, <1>7, <1>9, <1>11, <1>12 DEF Binance!BookInv

LEMMA ReceiveStep ==
    ASSUME Binance!BookInv, Binance!Receive
    PROVE  Binance!BookInv'
<1>1. /\ Binance!BookTypeOK /\ Binance!HasDiffs /\ Binance!OneSeeds /\ Binance!ComeInOrder
      /\ Handler \in Binance!Actors /\ Handler \notin Seeders /\ pc[Handler] = "receive"
  BY InvParts, ActorKinds DEF Binance!Receive
<1>2. PICK d : d = Head(stream)
  OBVIOUS
<1>3. PICK l \in {"seeding", "append"} : pc' = [pc EXCEPT ![Handler] = l]
  BY DEF Binance!Receive, Binance!Goto
<1>4. /\ stream # <<>> /\ stream' = Tail(stream) /\ todo' = [todo EXCEPT ![Handler] = <<d>>]
      /\ UNCHANGED <<venue, lost, failed, asm, lastSeq, seeded, seeding, buffer, current,
                     out, published, overtaken>>
  BY <1>2 DEF Binance!Receive, Binance!venueVars, Binance!handleVars, Binance!Quiet
<1>5. /\ stream \in Seq(Binance!Diffs) /\ stream' \in Seq(Binance!Diffs)
      /\ d \in Binance!Diffs /\ d \in Binance!Coming
      /\ Binance!Coming' \subseteq Binance!Coming /\ Binance!Coming \subseteq Binance!Diffs
      /\ <<d>> \in Seq(Binance!Diffs) /\ Binance!Range(<<d>>) = {d}
  <2>1. stream \in Seq(Binance!Diffs)
    BY InvParts
  <2>2. d \in Binance!Diffs /\ d \in Binance!Coming /\ Binance!Coming \subseteq Binance!Diffs
    BY <1>2, <1>4, <2>1, ElementsOf DEF Binance!Coming
  <2> QED
    BY <1>2, <1>4, <2>1, <2>2, ElementsOf DEF Binance!Coming
<1>6. /\ todo' \in [Binance!Actors -> Seq(Binance!Diffs)] /\ todo'[Handler] = <<d>>
      /\ \A b \in Binance!Actors \ {Handler} : todo'[b] = todo[b]
      /\ Binance!AtHand' = {d}
      /\ Binance!PutAside' \subseteq Binance!PutAside
  <2>1. Binance!Range(buffer') \subseteq Binance!PutAside
    BY <1>4 DEF Binance!PutAside
  <2>2. Binance!PutAside' \subseteq Binance!PutAside \union Binance!PutAside
    BY <1>1, <1>4, <1>5, <2>1, TodoStep
  <2> QED
    BY <1>1, <1>4, <1>5, <2>2, TodoStep
<1>7. LabelOf(Handler, l) /\ HasFor(Handler, l, todo'[Handler])
  <2>1. Len(<<d>>) = 1
    OBVIOUS
  <2> QED
    BY <1>6, <2>1 DEF LabelOf, HasFor, Binance!HandlerPcs
<1>8. Binance!PcTypeOK' /\ Binance!HasDiffs'
  BY <1>1, <1>3, <1>6, <1>7, PcsStep
<1>9. Binance!BookTypeOK'
  BY <1>1, <1>4, <1>5, <1>6, <1>8 DEF Binance!BookTypeOK
<1>10. Binance!OneSeeds'
  BY <1>1, <1>3, <1>4, SeedsStep
<1>11. Binance!ComeInOrder'
  <2>1. DOMAIN stream = 1..Len(stream) /\ Len(stream) \in Nat /\ d = stream[1] /\ 1 \in DOMAIN stream
    BY <1>2, <1>4, <1>5, Lengths
  <2>2. \A i \in DOMAIN stream' : i + 1 \in DOMAIN stream /\ 1 < i + 1 /\ stream'[i] = stream[i + 1]
    BY <1>4, <1>5
  <2>3. \A i, j \in DOMAIN stream' : i < j => i + 1 < j + 1
    BY <1>5
  <2>4. \A i, j \in DOMAIN stream' : i < j => Binance!Before(stream'[i], stream'[j])
    BY <1>1, <2>2, <2>3 DEF Binance!ComeInOrder
  <2>5. \A e \in Binance!Coming' : Binance!Before(d, e)
    BY <1>1, <2>1, <2>2 DEF Binance!ComeInOrder, Binance!Coming, Binance!Range
  <2>6. \A e \in (Binance!Coming \union Binance!AtHand \union Binance!PutAside)' : e.last <= venue'
    BY <1>1, <1>4, <1>5, <1>6 DEF Binance!ComeInOrder
  <2>7. \A e \in Binance!PutAside', f \in (Binance!AtHand \union Binance!Coming)' : Binance!Before(e, f)
    BY <1>1, <1>5, <1>6 DEF Binance!ComeInOrder
  <2>8. \A e \in Binance!AtHand', f \in Binance!Coming' : Binance!Before(e, f)
    BY <1>6, <2>5
  <2> QED
    BY <2>4, <2>6, <2>7, <2>8 DEF Binance!ComeInOrder, Binance!Before
<1>12. ASSUME ~overtaken'
       PROVE  Binance!NumberFollows' /\ Binance!TornIsLeft' /\ Binance!Sound'
  <2>1. Binance!NumberFollows /\ Binance!TornIsLeft /\ Binance!Sound
    BY <1>4, <1>12, InvParts
  <2>2. Binance!NumberFollows'
    BY <1>1, <1>3, <1>4, <1>6, <2>1, NumberStep
  <2>3. Binance!WillSeed => Binance!WillSeed'
    BY <1>1, <1>3, WillSeedStep
  <2>4. Binance!TornIsLeft'
    BY <1>4, <1>5, <1>6, <2>1, <2>3, TornStep
  <2>5. Binance!Sound'
    BY <1>4, <2>1 DEF Binance!Sound, Binance!Exact
  <2> QED
    BY <2>2, <2>4, <2>5
<1> QED
  BY <1>8, <1>9, <1>10, <1>11, <1>12 DEF Binance!BookInv

\* The venue's next diff begins after its last update.
LEMMA StreamStep ==
    ASSUME Binance!BookInv, Binance!Emit \/ Binance!Lose
    PROVE  Binance!BookInv'
<1>1. /\ Binance!BookTypeOK /\ Binance!HasDiffs /\ Binance!OneSeeds /\ Binance!ComeInOrder
  BY InvParts
<1>2. UNCHANGED <<failed, asm, lastSeq, seeded, seeding, buffer, pc, todo, current, out,
                  published, overtaken>>
  BY DEF Binance!Emit, Binance!Lose, Binance!handleVars, Binance!actorVars, Binance!Quiet
<1>3. Binance!AtHand' = Binance!AtHand /\ Binance!PutAside' = Binance!PutAside
  BY <1>2, QueuesStay
<1>4. stream \in Seq(Binance!Diffs) /\ venue \in 1..MaxVenue
  BY InvParts
<1>5. \A q \in Seq(Binance!Diffs) : Binance!Range(q) \subseteq Binance!Diffs
  BY ElementsOf
<1>6. /\ venue' \in 1..MaxVenue /\ lost' \in 0..MaxLost /\ stream' \in Seq(Binance!Diffs)
      /\ Binance!ComeInOrder'
      /\ asm.torn /\ Binance!TornIsLeft =>
            Binance!NextUpdate <= venue' /\ \A d \in Binance!Coming' : ~Binance!Carries(d)
  <2>1. CASE Binance!Emit
    <3>1. PICK n \in 1..2 : /\ venue + n <= MaxVenue /\ venue' = venue + n
                            /\ stream' = Append(stream, Binance!Diff(venue + 1, venue + n))
      BY <2>1 DEF Binance!Emit
    <3>2. PICK d : d = Binance!Diff(venue + 1, venue + n)
      OBVIOUS
    <3>3. d \in Binance!Diffs /\ d.first = venue + 1 /\ d.last = venue'
      BY <1>4, <3>1, <3>2, BinanceBounds DEF Binance!Diff, Binance!Diffs
    <3>4. venue' \in 1..MaxVenue /\ stream' \in Seq(Binance!Diffs) /\ lost' = lost /\ venue < venue'
      BY <1>4, <2>1, <3>1, <3>2, <3>3, BinanceBounds DEF Binance!Emit
    <3>5. Binance!Coming' \subseteq Binance!Coming \union {d}
      BY <1>4, <3>1, <3>2, <3>3, ElementsOf DEF Binance!Coming
    <3>6. /\ Binance!Coming \union Binance!AtHand \union Binance!PutAside \subseteq Binance!Diffs
          /\ \A e \in Binance!Coming \union Binance!AtHand \union Binance!PutAside : e.last <= venue
      BY <1>1, <1>5, InvParts, ActorKinds
         DEF Binance!ComeInOrder, Binance!Coming, Binance!AtHand, Binance!PutAside
    <3>7. \A e \in Binance!Coming \union Binance!AtHand \union Binance!PutAside :
              e.last <= venue' /\ Binance!Before(e, d)
      <4> SUFFICES ASSUME NEW e \in Binance!Diffs,
           e.last <= venue PROVE e.last <= venue' /\ Binance!Before(e, d)
        BY <3>6
      <4> QED
        BY <1>4, <3>1, <3>3, DiffTyped DEF Binance!Before
    <3>8. \A i, j \in DOMAIN stream' : i < j => Binance!Before(stream'[i], stream'[j])
      <4> SUFFICES ASSUME NEW i \in DOMAIN stream', NEW j \in DOMAIN stream', i < j
                   PROVE  Binance!Before(stream'[i], stream'[j])
        OBVIOUS
      <4>1. i \in DOMAIN stream /\ stream'[i] = stream[i]
        BY <1>4, <3>1, <3>2, <3>3
      <4>2. \/ j \in DOMAIN stream /\ stream'[j] = stream[j]
            \/ stream'[j] = d
        BY <1>4, <3>1, <3>2, <3>3
      <4>3. stream[i] \in Binance!Coming
        BY <4>1 DEF Binance!Coming, Binance!Range
      <4> QED
        BY <1>1, <3>7, <4>1, <4>2, <4>3 DEF Binance!ComeInOrder
    <3>9. Binance!ComeInOrder'
      <4>1. \A e \in (Binance!Coming \union Binance!AtHand \union Binance!PutAside)' : e.last <= venue'
        <5>1. d.last <= venue'
          BY <3>3, <3>4
        <5> QED
          BY <1>3, <3>5, <3>7, <5>1
      <4>2. \A e \in Binance!PutAside', f \in (Binance!AtHand \union Binance!Coming)' : Binance!Before(e, f)
        BY <1>1, <1>3, <3>5, <3>7 DEF Binance!ComeInOrder
      <4>3. \A e \in Binance!AtHand', f \in Binance!Coming' : Binance!Before(e, f)
        BY <1>1, <1>3, <3>5, <3>7 DEF Binance!ComeInOrder
      <4> QED
        BY <3>8, <4>1, <4>2, <4>3 DEF Binance!ComeInOrder, Binance!Before
    <3>10. ASSUME asm.torn, Binance!TornIsLeft
           PROVE  Binance!NextUpdate <= venue' /\ \A e \in Binance!Coming' : ~Binance!Carries(e)
      <4>1. Binance!NextUpdate <= venue /\ Binance!NextUpdate \in Int
        BY <3>10, InvParts, BinanceBounds DEF Binance!TornIsLeft, Binance!NextUpdate, Binance!Books
      <4>2. ~Binance!Carries(d)
        BY <1>4, <3>3, <4>1 DEF Binance!Carries
      <4> QED
        BY <1>4, <3>4, <3>5, <3>10, <4>1, <4>2 DEF Binance!TornIsLeft
    <3> QED
      BY <3>4, <3>9, <3>10, InvParts
  <2>2. CASE Binance!Lose
    <3>1. stream # <<>> /\ stream' = Tail(stream) /\ venue' = venue /\ lost' \in 0..MaxLost
      BY <2>2, InvParts, BinanceBounds DEF Binance!Lose
    <3>2. stream' \in Seq(Binance!Diffs) /\ Binance!Coming' \subseteq Binance!Coming
      BY <1>4, <3>1, ElementsOf DEF Binance!Coming
    <3>3. \A i \in DOMAIN stream' : i + 1 \in DOMAIN stream /\ stream'[i] = stream[i + 1]
      BY <1>4, <3>1
    <3>4. \A i, j \in DOMAIN stream' : i < j => i + 1 < j + 1
      BY <3>2
    <3>5. \A i, j \in DOMAIN stream' : i < j => Binance!Before(stream'[i], stream'[j])
      BY <1>1, <3>3, <3>4 DEF Binance!ComeInOrder
    <3>6. Binance!ComeInOrder'
      BY <1>1, <1>3, <3>1, <3>2, <3>5 DEF Binance!ComeInOrder, Binance!Before
    <3>7. asm.torn /\ Binance!TornIsLeft =>
             Binance!NextUpdate <= venue' /\ \A d \in Binance!Coming' : ~Binance!Carries(d)
      BY <3>1, <3>2 DEF Binance!TornIsLeft
    <3> QED
      BY <1>4, <3>1, <3>2, <3>6, <3>7
  <2> QED
    BY <2>1, <2>2
<1>7. Binance!BookTypeOK'
  BY <1>1, <1>2, <1>6 DEF Binance!BookTypeOK, Binance!PcTypeOK
<1>8. Binance!HasDiffs' /\ Binance!OneSeeds'
  BY <1>1, <1>2 DEF Binance!HasDiffs, Binance!OneSeeds, Binance!AtSeeding
<1>9. ASSUME ~overtaken'
      PROVE  Binance!NumberFollows' /\ Binance!TornIsLeft' /\ Binance!Sound'
  <2>1. Binance!NumberFollows /\ Binance!TornIsLeft /\ Binance!Sound
    BY <1>2, <1>9, InvParts
  <2>2. Binance!NumberFollows'
    BY <1>2, <2>1 DEF Binance!NumberFollows, Binance!Marking
  <2>3. Binance!TornIsLeft'
    <3> SUFFICES ASSUME asm'.torn
                 PROVE  /\ Binance!NextUpdate' <= venue'
                        /\ \A d \in (Binance!Coming \union Binance!AtHand)' : ~Binance!Carries(d)'
                        /\ Binance!WillSeed' \/ \A d \in Binance!PutAside' : ~Binance!Carries(d)'
      BY DEF Binance!TornIsLeft
    <3>1. Binance!NextUpdate' = Binance!NextUpdate /\ \A d : Binance!Carries(d)' <=> Binance!Carries(d)
      BY <1>2 DEF Binance!NextUpdate, Binance!Carries
    <3>2. Binance!WillSeed => Binance!WillSeed'
      BY <1>2 DEF Binance!WillSeed
    <3>3. asm.torn
      BY <1>2
    <3> QED
      BY <1>3, <1>6, <2>1, <3>1, <3>2, <3>3 DEF Binance!TornIsLeft
  <2>4. Binance!Sound'
    BY <1>2, <2>1 DEF Binance!Sound, Binance!Exact
  <2> QED
    BY <2>2, <2>3, <2>4
<1> QED
  BY <1>6, <1>7, <1>8, <1>9 DEF Binance!BookInv

-------------------------------------------------------------------------------
(* Binance's book: the invariant *)

LEMMA BinanceInit == Binance!Init => Binance!BookInv
<1> SUFFICES ASSUME Binance!Init PROVE Binance!BookInv
  OBVIOUS
<1> USE DEF Binance!Init
<1>1. Binance!BookTypeOK
  <2>1. pc[Handler] = "receive" /\ \A s \in Seeders : pc[s] = "none"
    BY ActorKinds
  <2>2. pc \in [Binance!Actors -> Binance!HandlerPcs \union Binance!SeederPcs \union Binance!SharedPcs]
    BY DEF Binance!HandlerPcs, Binance!SeederPcs
  <2>3. pc[Handler] \in Binance!HandlerPcs /\ \A s \in Seeders : pc[s] \in Binance!SeederPcs
    BY <2>1 DEF Binance!HandlerPcs, Binance!SeederPcs
  <2>4. /\ venue \in 1..MaxVenue /\ lost \in 0..MaxLost /\ failed \in 0..BookFaults
        /\ lastSeq \in 0..MaxVenue /\ current \in [Binance!Actors -> 0..MaxVenue]
    BY BinanceBounds
  <2>5. /\ asm \in Binance!Books /\ published \in Binance!Books
        /\ out \in [Binance!Actors -> Binance!Books]
    BY NewBook
  <2>6. /\ stream \in Seq(Binance!Diffs) /\ buffer \in Seq(Binance!Diffs)
        /\ todo \in [Binance!Actors -> Seq(Binance!Diffs)]
    OBVIOUS
  <2> QED
    BY <2>2, <2>3, <2>4, <2>5, <2>6 DEF Binance!BookTypeOK, Binance!PcTypeOK
<1>2. pc[Handler] = "receive" /\ \A s \in Seeders : pc[s] = "none"
  BY ActorKinds
<1>3. Binance!Coming = {} /\ Binance!AtHand = {} /\ Binance!PutAside = {}
  BY ActorKinds DEF Binance!Coming, Binance!AtHand, Binance!PutAside, Binance!Range
<1>4. Binance!HasDiffs /\ Binance!OneSeeds
  BY <1>2 DEF Binance!HasDiffs, Binance!OneSeeds, Binance!AtSeeding
<1>5. Binance!ComeInOrder
  BY <1>3 DEF Binance!ComeInOrder
<1>6. Binance!NumberFollows
  <2>1. lastSeq = 0 /\ asm.seq = 0
    BY DEF Binance!New
  <2>2. \A a \in Binance!Actors : pc[a] \in {"receive", "none"}
    BY <1>2, ActorKinds
  <2> QED
    BY <1>2, <2>1, <2>2 DEF Binance!NumberFollows, Binance!Marking
<1>7. Binance!TornIsLeft
  BY DEF Binance!TornIsLeft, Binance!New
<1>8. Binance!Sound
  BY NewBook DEF Binance!Sound, Binance!Exact
<1> QED
  BY <1>1, <1>4, <1>5, <1>6, <1>7, <1>8 DEF Binance!BookInv

LEMMA BinanceStep == Binance!BookInv /\ (Binance!Next \/ UNCHANGED binanceVars) => Binance!BookInv'
<1> SUFFICES ASSUME Binance!BookInv, Binance!Next \/ UNCHANGED binanceVars PROVE Binance!BookInv'
  OBVIOUS
<1>1. ASSUME NEW a \in Binance!Actors, Binance!ApplyDepthDiff(a)
      PROVE  Binance!BookInv'
  BY <1>1, ReadStep, NumberSteps, ApplyStep, PublishStep, UnseedStep, RequeueStep
     DEF Binance!ApplyDepthDiff
<1>2. CASE Binance!Emit \/ Binance!Lose
  BY <1>2, StreamStep
<1>3. CASE Binance!BookHandler
  BY <1>1, <1>3, ReceiveStep, HandlerGoesOn, AppendStep, SpawnStep, ActorKinds DEF Binance!BookHandler
<1>4. ASSUME NEW s \in Seeders, Binance!Seeder(s)
      PROVE  Binance!BookInv'
  BY <1>1, <1>4, DoorStep, SnapshotSteps, SeederGoesOn, SeedStep, SeedFailsStep, MarkStep, DrainStep, ActorKinds
     DEF Binance!Seeder
<1>5. CASE UNCHANGED binanceVars
  <2>1. UNCHANGED <<venue, stream, lost, failed, asm, lastSeq, seeded, seeding, buffer, pc, todo,
                    current, out, published, overtaken>>
    BY <1>5 DEF binanceVars
  <2>2. /\ Binance!AtHand' = Binance!AtHand /\ Binance!PutAside' = Binance!PutAside
        /\ Binance!Coming' = Binance!Coming
    BY <2>1, QueuesStay DEF Binance!Coming
  <2>3. Binance!BookTypeOK'
    BY <2>1, InvParts DEF Binance!BookTypeOK, Binance!PcTypeOK
  <2>4. Binance!HasDiffs' /\ Binance!OneSeeds'
    BY <2>1, InvParts DEF Binance!HasDiffs, Binance!OneSeeds, Binance!AtSeeding
  <2>5. Binance!ComeInOrder'
    BY <2>1, <2>2, InvParts, OrderStep
  <2>6. ASSUME ~overtaken'
        PROVE  Binance!NumberFollows' /\ Binance!TornIsLeft' /\ Binance!Sound'
    <3>1. Binance!NumberFollows /\ Binance!TornIsLeft /\ Binance!Sound
      BY <2>1, <2>6, InvParts
    <3>2. Binance!NumberFollows'
      BY <2>1, <3>1 DEF Binance!NumberFollows, Binance!Marking
    <3>3. Binance!WillSeed => Binance!WillSeed'
      BY <2>1 DEF Binance!WillSeed
    <3>4. Binance!TornIsLeft'
      BY <2>1, <2>2, <3>1, <3>3, TornStep
    <3>5. Binance!Sound'
      BY <2>1, <3>1 DEF Binance!Sound, Binance!Exact
    <3> QED
      BY <3>2, <3>4, <3>5
  <2> QED
    BY <2>3, <2>4, <2>5, <2>6 DEF Binance!BookInv
<1> QED
  BY <1>2, <1>3, <1>4, <1>5 DEF Binance!Next

-------------------------------------------------------------------------------
(* Both books *)

BooksInv == Binance!BookInv /\ Okx!OkxInv

LEMMA BooksStart == BooksInit => BooksInv
BY BinanceInit, OkxInit DEF BooksInit, BooksInv

LEMMA BooksStep == BooksInv /\ [BooksNext]_<<binanceVars, okxVars>> => BooksInv'
<1> SUFFICES ASSUME BooksInv, [BooksNext]_<<binanceVars, okxVars>> PROVE BooksInv'
  OBVIOUS
<1>1. Binance!Next \/ UNCHANGED binanceVars
  BY DEF BooksNext
<1>2. Okx!Next \/ UNCHANGED okxVars
  BY DEF BooksNext
<1> QED
  BY <1>1, <1>2, BinanceStep, OkxStep DEF BooksInv

\* The books, the numbers and the queues have their types: a diff is never applied to
\* a book, nor a number written, beyond what the venue can send.
THEOREM BooksTypes == BooksSpec => [](Binance!BookTypeOK /\ Okx!OkxTypeOK)
<1>1. BooksInv => Binance!BookTypeOK /\ Okx!OkxTypeOK
  BY DEF BooksInv, Binance!BookInv, Okx!OkxInv
<1> QED
  BY <1>1, BooksStart, BooksStep, PTL DEF BooksSpec

\* applyDepthDiff, seedOrderBook and handleBooks: a book that is published has every
\* update up to its number, whatever the stream loses and wherever a diff fails, unless
\* a snapshot came between a diff's comparison and its application, or, in OKX's book,
\* an entry of a snapshot was dropped.
THEOREM NoGapIsPublished == BooksSpec => []GapsAreFound
<1>1. BooksInv => GapsAreFound
  BY DEF BooksInv, Binance!BookInv, Binance!Sound, Okx!OkxInv, GapsAreFound,
         Binance!GapsAreFound, Okx!GapsAreFound
<1> QED
  BY <1>1, BooksStart, BooksStep, PTL DEF BooksSpec

\* handleBooks: a book made from a diff lacks no update that checksums cover, and neither
\* does the one that the next diff is applied to, overtaken or not, as long as no entry
\* of a snapshot was dropped.
THEOREM ChecksumsHold == BooksSpec => []PublishedExact
<1>1. BooksInv => PublishedExact
  BY DEF BooksInv, Okx!OkxInv, Okx!Firm, Okx!Usable, PublishedExact, Okx!PublishedExact
<1> QED
  BY <1>1, BooksStart, BooksStep, PTL DEF BooksSpec
================================================================================
