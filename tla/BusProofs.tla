------------------------------ MODULE BusProofs ------------------------------
(* Theorems about the two buses.  MemoryBus, for any events, publishers, subscriptions,
   buffer and workers: every event has one owner, and a consumer sees the events of a
   publisher in order.  Outbox, for any rows, gateways, batch, lease and delays: what nil
   means, and that the durable bus is an at-least-once hand-off. *)
EXTENDS MemoryBus, Outbox, FiniteSetTheorems, TLAPS

-------------------------------------------------------------------------------
(* The memory bus *)

\* What a publisher and a subscription have agrees with where they are.
BusForm ==
    /\ BusTypeOK
    /\ \A p \in Publishers : src[p] = Nothing <=> ppc[p] = "idle"
    /\ \A p \in Publishers : hand[p] # {} => ppc[p] = "borrow"
    /\ \A p \in Publishers, s \in Subs :
          /\ clone[p][s] = Nothing <=> dpc[p][s] = "none"
          /\ dpc[p][s] # "none" => ppc[p] \in {"dispatch", "panicked"}
    /\ \A s \in Subs : spc[s] \in {"closing", "closed"} => s \in subCtx

\* Where every event is: the kind of place, the publisher and the subscription.
InQueue(s, e) == \E i \in 1..Len(ch[s]) : ch[s][i] = e
Where(kind, at, to) ==
    \A e \in Events :
        /\ e \in free <=> kind[e] = "free"
        /\ \A p \in Publishers : src[p] = e <=> kind[e] = "source" /\ at[e] = p
        /\ \A p \in Publishers : e \in hand[p] <=> kind[e] = "hand" /\ at[e] = p
        /\ \A p \in Publishers, s \in Subs :
              clone[p][s] = e <=> kind[e] = "clone" /\ at[e] = p /\ to[e] = s
        /\ \A s \in Subs : InQueue(s, e) <=> kind[e] = "queue" /\ to[e] = s
        /\ \A s \in Subs : reading[s] = e <=> kind[e] = "reading" /\ to[e] = s
        /\ kind[e] \in {"source", "hand", "clone"} => at[e] \in Publishers
        /\ kind[e] \in {"clone", "queue", "reading"} => to[e] \in Subs
Kinds == {"free", "source", "hand", "clone", "queue", "reading"}

\* A channel has an event once.
NoneTwice == \A s \in Subs : \A i, j \in 1..Len(ch[s]) : ch[s][i] = ch[s][j] => i = j

Located == \E kind \in [Events -> Kinds], at \in [Events -> Publishers \union {Nothing}],
              to \in [Events -> Subs \union {Nothing}] : Where(kind, at, to)

\* The inductive invariant of OneOwner: Located is its own reason, every step takes one
\* event, or one publication's events, from the places it names to others.
OwnInv == BusForm /\ Located /\ NoneTwice

(* What sequences do *)

LEMMA QueueFacts ==
    ASSUME NEW S, NEW q \in Seq(S)
    PROVE  /\ Len(q) \in Nat /\ \A i \in 1..Len(q) : q[i] \in S
           /\ q = <<>> <=> Len(q) = 0
           /\ q # <<>> => /\ Head(q) = q[1] /\ Head(q) \in S /\ Tail(q) \in Seq(S)
                          /\ Len(Tail(q)) = Len(q) - 1
                          /\ \A i \in 1..Len(Tail(q)) : Tail(q)[i] = q[i + 1]
           /\ \A x \in S : /\ Append(q, x) \in Seq(S)
                           /\ Len(Append(q, x)) = Len(q) + 1
                           /\ \A i \in 1..Len(q) : Append(q, x)[i] = q[i]
                           /\ Append(q, x)[Len(q) + 1] = x
OBVIOUS

LEMMA ConcatFacts ==
    ASSUME NEW S, NEW q \in Seq(S), NEW r \in Seq(S)
    PROVE  /\ Len(q \o r) = Len(q) + Len(r) /\ DOMAIN (q \o r) = 1..Len(q) + Len(r)
           /\ \A k \in 1..(Len(q) + Len(r)) : (q \o r)[k] = IF k <= Len(q) THEN q[k] ELSE r[k - Len(q)]
<1>1. Len(q \o r) = Len(q) + Len(r)
  OBVIOUS
<1>2. DOMAIN (q \o r) = 1..Len(q) + Len(r)
  OBVIOUS
<1>3. ASSUME NEW k \in 1..(Len(q) + Len(r))
      PROVE  (q \o r)[k] = IF k <= Len(q) THEN q[k] ELSE r[k - Len(q)]
  OBVIOUS
<1> QED
  BY <1>1, <1>2, <1>3

LEMMA NothingApart ==
    ASSUME BusAssumption
    PROVE  Nothing \notin Events /\ Nothing \notin Subs
BY DEF BusAssumption

LEMMA OwnInit == ASSUME BusAssumption, BusInit PROVE OwnInv
<1> USE DEF BusInit
<1>1. BusForm
  BY DEF BusForm, BusTypeOK, Stamps, BusAssumption
<1>2. NoneTwice
  BY DEF NoneTwice
<1>3. Located
  <2>1. \A e \in Events, s \in Subs : ~InQueue(s, e)
    BY DEF InQueue
  <2> DEFINE kind == [e \in Events |-> "free"]
             at == [e \in Events |-> Nothing]
  <2>2. Where(kind, at, at)
    BY <2>1, NothingApart DEF Where
  <2>3. /\ kind \in [Events -> Kinds]
        /\ at \in [Events -> Publishers \union {Nothing}] /\ at \in [Events -> Subs \union {Nothing}]
    BY DEF Kinds
  <2> QED
    BY <2>2, <2>3 DEF Located
<1> QED
  BY <1>1, <1>2, <1>3 DEF OwnInv

\* Events leave the places where they are and are free.
LEMMA FreedLocated ==
    ASSUME Located, NEW E \in SUBSET Events,
           free' = free \union E,
           \A p \in Publishers : src'[p] = IF src[p] \in E THEN Nothing ELSE src[p],
           \A p \in Publishers : hand'[p] = hand[p] \ E,
           \A p \in Publishers, s \in Subs : clone'[p][s] = IF clone[p][s] \in E THEN Nothing ELSE clone[p][s],
           \A s \in Subs, e \in Events : InQueue(s, e)' <=> InQueue(s, e) /\ e \notin E,
           \A s \in Subs : reading'[s] = IF reading[s] \in E THEN Nothing ELSE reading[s],
           Nothing \notin Events
    PROVE  Located'
<1> PICK kind \in [Events -> Kinds], at \in [Events -> Publishers \union {Nothing}],
         to \in [Events -> Subs \union {Nothing}] : Where(kind, at, to)
  BY DEF Located
<1> PICK kind2 : kind2 = [e \in Events |-> IF e \in E THEN "free" ELSE kind[e]]
  OBVIOUS
<1>1. kind2 \in [Events -> Kinds]
  BY DEF Kinds
<1>2. ASSUME NEW e \in Events
      PROVE  /\ e \in free' <=> kind2[e] = "free"
             /\ \A p \in Publishers : src'[p] = e <=> kind2[e] = "source" /\ at[e] = p
             /\ \A p \in Publishers : e \in hand'[p] <=> kind2[e] = "hand" /\ at[e] = p
             /\ \A p \in Publishers, s \in Subs :
                   clone'[p][s] = e <=> kind2[e] = "clone" /\ at[e] = p /\ to[e] = s
             /\ \A s \in Subs : InQueue(s, e)' <=> kind2[e] = "queue" /\ to[e] = s
             /\ \A s \in Subs : reading'[s] = e <=> kind2[e] = "reading" /\ to[e] = s
             /\ kind2[e] \in {"source", "hand", "clone"} => at[e] \in Publishers
             /\ kind2[e] \in {"clone", "queue", "reading"} => to[e] \in Subs
  <2>1. kind2[e] = IF e \in E THEN "free" ELSE kind[e]
    OBVIOUS
  <2>2. CASE e \in E
    BY <2>1, <2>2 DEF Where
  <2>3. CASE e \notin E
    BY <2>1, <2>3 DEF Where
  <2> QED
    BY <2>2, <2>3
<1>3. Where(kind2, at, to)'
  BY <1>2 DEF Where
<1> QED
  BY <1>1, <1>3 DEF Located

LEMMA RecycleTyped ==
    ASSUME BusTypeOK, NEW E \in SUBSET Events, Recycle(E)
    PROVE  free' \subseteq Events /\ stamp' \in [Events -> Stamps]
BY DEF BusTypeOK, Recycle, Stamps

\* No event moves.
LEMMA LocatedUntouched ==
    ASSUME Located, UNCHANGED <<free, src, hand, clone, ch, reading>>
    PROVE  Located'
BY DEF Located, Where, InQueue

(* The form of the states *)

LEMMA FormReject ==
    ASSUME BusForm, NEW p \in Publishers, EndEarly(p), ppc[p] \in {"publish", "borrow"}
    PROVE  BusForm'
<1>1. Reclaimed(p) \in SUBSET Events
  BY DEF BusForm, BusTypeOK, Reclaimed
<1>2. BusTypeOK'
  BY <1>1, RecycleTyped DEF BusForm, BusTypeOK, EndEarly, subVars, closingVars, conVars
<1>3. \A q \in Publishers : /\ src'[q] = IF q = p THEN Nothing ELSE src[q]
                            /\ hand'[q] = IF q = p THEN {} ELSE hand[q]
                            /\ ppc'[q] = IF q = p THEN "idle" ELSE ppc[q]
  BY DEF BusForm, BusTypeOK, EndEarly
<1> QED
  BY <1>2, <1>3 DEF BusForm, EndEarly, subVars

LEMMA FormBegin ==
    ASSUME BusForm, BusAssumption, NEW p \in Publishers, BeginPublish(p)
    PROVE  BusForm'
<1> PICK e \in free : /\ free' = free \ {e}
                      /\ stamp' = [stamp EXCEPT ![e] = <<p, count[p] + 1>>]
                      /\ src' = [src EXCEPT ![p] = e]
  BY DEF BeginPublish
<1>1. <<p, count[p] + 1>> \in Stamps /\ count[p] + 1 \in 0..MaxPublish
  BY DEF BusForm, BusTypeOK, BusAssumption, BeginPublish, Stamps
<1>2. BusTypeOK'
  BY <1>1 DEF BusForm, BusTypeOK, BeginPublish, subVars, closingVars, conVars
<1>3. e # Nothing
  BY NothingApart DEF BusForm, BusTypeOK
<1> QED
  BY <1>2, <1>3 DEF BusForm, BusTypeOK, BeginPublish, subVars

\* A publisher that moves from one step of Publish to the next.
LEMMA FormPublishes ==
    ASSUME BusForm, NEW p \in Publishers,
           ppc' \in [Publishers -> {"idle", "publish", "borrow", "dispatch", "panicked"}],
           src' \in [Publishers -> Events \union {Nothing}],
           snap' \in [Publishers -> SUBSET Subs],
           hand' \in [Publishers -> SUBSET Events],
           free' \subseteq Events, stamp' \in [Events -> Stamps], err' \subseteq Publishers,
           \A q \in Publishers \ {p} : ppc'[q] = ppc[q] /\ src'[q] = src[q] /\ hand'[q] = hand[q],
           src'[p] = Nothing <=> ppc'[p] = "idle",
           hand'[p] # {} => ppc'[p] = "borrow",
           (\A s \in Subs : dpc[p][s] = "none") \/ ppc'[p] \in {"dispatch", "panicked"},
           UNCHANGED <<count, pctx, dpc, clone, subVars, ch, closingVars, conVars>>
    PROVE  BusForm'
<1> USE DEF subVars, closingVars, conVars
<1>1. BusTypeOK'
  BY DEF BusForm, BusTypeOK
<1> QED
  BY <1>1 DEF BusForm

LEMMA DispatchTyped ==
    ASSUME BusForm, BusAssumption, NEW p \in Publishers, Dispatch(p)
    PROVE  \E f \in [snap[p] -> hand[p]] :
              /\ \A s, t \in snap[p] : f[s] = f[t] => s = t
              /\ \A e \in hand[p] : \E s \in snap[p] : f[s] = e
              /\ clone' = [clone EXCEPT ![p] = [s \in Subs |-> IF s \in snap[p] THEN f[s] ELSE Nothing]]
<1> DEFINE Fits(f) == \A s, t \in snap[p] : f[s] = f[t] => s = t
           g == CHOOSE f \in [snap[p] -> hand[p]] : Fits(f)
<1>1. /\ snap[p] \in SUBSET Subs /\ hand[p] \in SUBSET Events
      /\ Cardinality(hand[p]) = Cardinality(snap[p])
      /\ IsFiniteSet(Subs) /\ IsFiniteSet(Events)
  BY DEF BusForm, BusTypeOK, Dispatch, BusAssumption
<1>2. IsFiniteSet(snap[p]) /\ IsFiniteSet(hand[p])
  BY <1>1, FS_Subset
<1>3. ExistsBijection(snap[p], hand[p])
  BY <1>1, <1>2, FS_SameCardinalityBij
<1>4. \E f \in [snap[p] -> hand[p]] : Fits(f)
  BY <1>3 DEF ExistsBijection, Bijection, Injection, IsInjective
<1>5. g \in [snap[p] -> hand[p]] /\ Fits(g)
  BY <1>4
<1>6. g \in Injection(snap[p], hand[p])
  BY <1>5 DEF Injection, IsInjective
<1>7. g \in Surjection(snap[p], hand[p])
  BY <1>1, <1>2, <1>6, FS_Injection
<1>8. \A e \in hand[p] : \E s \in snap[p] : g[s] = e
  BY <1>7 DEF Surjection
<1>9. clone' = [clone EXCEPT ![p] = [s \in Subs |-> IF s \in snap[p] THEN g[s] ELSE Nothing]]
  BY DEF Dispatch
<1> HIDE DEF g
<1> QED
  BY <1>5, <1>8, <1>9

LEMMA FormDispatch ==
    ASSUME BusForm, BusAssumption, NEW p \in Publishers, Dispatch(p)
    PROVE  BusForm'
<1> PICK f \in [snap[p] -> hand[p]] :
        clone' = [clone EXCEPT ![p] = [s \in Subs |-> IF s \in snap[p] THEN f[s] ELSE Nothing]]
  BY DispatchTyped
<1>1. /\ snap[p] \in SUBSET Subs /\ hand[p] \in SUBSET Events /\ src[p] \in Events
      /\ ppc[p] = "borrow"
  BY DEF Dispatch, BusForm, BusTypeOK
<1>2. dpc' = [dpc EXCEPT ![p] = [s \in Subs |-> IF s \in snap[p] THEN "ready" ELSE "none"]]
  BY DEF Dispatch
<1>3. \A q \in Publishers, s \in Subs :
         /\ clone'[q][s] = IF q # p THEN clone[q][s] ELSE IF s \in snap[p] THEN f[s] ELSE Nothing
         /\ dpc'[q][s] = IF q # p THEN dpc[q][s] ELSE IF s \in snap[p] THEN "ready" ELSE "none"
  BY <1>2 DEF BusForm, BusTypeOK
<1>4. \A s \in snap[p] : f[s] \in Events /\ f[s] # Nothing
  BY <1>1, NothingApart
<1>5. clone' \in [Publishers -> [Subs -> Events \union {Nothing}]]
  <2>1. [s \in Subs |-> IF s \in snap[p] THEN f[s] ELSE Nothing] \in [Subs -> Events \union {Nothing}]
    BY <1>4
  <2> QED
    BY <2>1 DEF BusForm, BusTypeOK
<1>6. dpc' \in [Publishers -> [Subs -> {"none", "ready", "select", "full", "retry", "panicked"}]]
  BY <1>2 DEF BusForm, BusTypeOK
<1>7. stamp' \in [Events -> Stamps]
  BY <1>1 DEF Dispatch, BusForm, BusTypeOK
<1>8. /\ ppc' \in [Publishers -> {"idle", "publish", "borrow", "dispatch", "panicked"}]
      /\ hand' \in [Publishers -> SUBSET Events]
      /\ \A q \in Publishers : ppc'[q] = (IF q = p THEN "dispatch" ELSE ppc[q])
      /\ \A q \in Publishers : hand'[q] = (IF q = p THEN {} ELSE hand[q])
  BY DEF Dispatch, BusForm, BusTypeOK
<1>9. UNCHANGED <<free, count, pctx, src, snap, err, subVars, ch, closingVars, conVars>>
  BY DEF Dispatch
<1>10. BusTypeOK'
  BY <1>5, <1>6, <1>7, <1>8, <1>9 DEF BusForm, BusTypeOK, subVars, closingVars, conVars
<1>11. \A q \in Publishers, s \in Subs :
          /\ clone'[q][s] = Nothing <=> dpc'[q][s] = "none"
          /\ dpc'[q][s] # "none" => ppc'[q] \in {"dispatch", "panicked"}
  BY <1>3, <1>4, <1>8 DEF BusForm
<1> QED
  BY <1>1, <1>8, <1>9, <1>10, <1>11 DEF BusForm, subVars

LEMMA FormPublish ==
    ASSUME BusForm, BusAssumption, NEW p \in Publishers, Publish(p)
    PROVE  BusForm'
<1>a. /\ free \subseteq Events /\ stamp \in [Events -> Stamps] /\ err \subseteq Publishers
      /\ subscribers \in SUBSET Subs
  BY DEF BusForm, BusTypeOK
<1>1. CASE Reject(p)
  BY <1>1, FormReject DEF Reject
<1>2. CASE Snapshot(p)
  <2>1. CASE EndEarly(p)
    BY <1>2, <2>1, FormReject DEF Snapshot
  <2>2. CASE ~EndEarly(p)
    <3>1. /\ ppc[p] = "publish"
          /\ ppc' = [ppc EXCEPT ![p] = "borrow"]
          /\ snap' = [snap EXCEPT ![p] = subscribers]
          /\ UNCHANGED <<free, stamp, count, pctx, src, hand, dpc, clone, err, subVars, ch, closingVars, conVars>>
      BY <1>2, <2>2 DEF Snapshot, poolVars
    <3>2. /\ ppc' \in [Publishers -> {"idle", "publish", "borrow", "dispatch", "panicked"}]
          /\ src' \in [Publishers -> Events \union {Nothing}]
          /\ snap' \in [Publishers -> SUBSET Subs]
          /\ hand' \in [Publishers -> SUBSET Events]
          /\ \A q \in Publishers : ppc'[q] = IF q = p THEN "borrow" ELSE ppc[q]
      BY <1>a, <3>1 DEF BusForm, BusTypeOK
    <3>3. src[p] # Nothing /\ \A s \in Subs : dpc[p][s] = "none"
      BY <3>1 DEF BusForm
    <3> QED
      BY <1>a, <3>1, <3>2, <3>3, FormPublishes
  <2> QED
    BY <2>1, <2>2
<1>3. CASE BorrowClone(p)
  <2>1. PICK e \in free : hand' = [hand EXCEPT ![p] = hand[p] \union {e}]
    BY <1>3 DEF BorrowClone
  <2>2. /\ ppc[p] = "borrow" /\ free' \subseteq free
        /\ UNCHANGED <<stamp, ppc, count, pctx, src, snap, dpc, clone, err, subVars, ch, closingVars, conVars>>
    BY <1>3 DEF BorrowClone
  <2>3. /\ ppc' \in [Publishers -> {"idle", "publish", "borrow", "dispatch", "panicked"}]
        /\ src' \in [Publishers -> Events \union {Nothing}]
        /\ snap' \in [Publishers -> SUBSET Subs]
        /\ hand' \in [Publishers -> SUBSET Events]
        /\ \A q \in Publishers \ {p} : hand'[q] = hand[q]
    BY <1>a, <2>1, <2>2 DEF BusForm, BusTypeOK
  <2>4. src[p] # Nothing /\ \A s \in Subs : dpc[p][s] = "none"
    BY <2>2 DEF BusForm
  <2>5. /\ free' \subseteq Events /\ stamp' \in [Events -> Stamps] /\ err' \subseteq Publishers
        /\ ppc'[p] = "borrow" /\ src'[p] # Nothing
        /\ \A q \in Publishers \ {p} : ppc'[q] = ppc[q] /\ src'[q] = src[q] /\ hand'[q] = hand[q]
        /\ UNCHANGED <<count, pctx, dpc, clone, subVars, ch, closingVars, conVars>>
    BY <1>a, <2>2, <2>3, <2>4
  <2> QED
    BY <2>3, <2>4, <2>5, FormPublishes
<1>4. CASE CloneFails(p)
  BY <1>4, FormReject DEF CloneFails
<1>5. CASE Dispatch(p)
  BY <1>5, FormDispatch
<1>6. CASE Finish(p)
  <2>1. src[p] \in Events /\ ppc[p] = "dispatch" /\ hand[p] = {}
    <3>1. ppc[p] = "dispatch"
      BY <1>6 DEF Finish
    <3>2. src[p] # Nothing /\ hand[p] = {}
      BY <3>1 DEF BusForm
    <3> QED
      BY <3>1, <3>2 DEF BusForm, BusTypeOK
  <2>2. Spent(p) \in SUBSET Events
    BY <2>1 DEF Spent
  <2>3. UNCHANGED <<count, pctx, hand, dpc, clone, subVars, ch, closingVars, conVars>>
    BY <1>6 DEF Finish
  <2>4. CASE \A s \in Subs : dpc[p][s] = "none"
    <3>1. /\ Recycle(Spent(p)) /\ ppc' = [ppc EXCEPT ![p] = "idle"]
          /\ src' = [src EXCEPT ![p] = Nothing] /\ snap' = [snap EXCEPT ![p] = {}]
          /\ err' = err \ {p}
      BY <1>6, <2>4 DEF Finish
    <3>2. free' \subseteq Events /\ stamp' \in [Events -> Stamps]
      BY <2>2, <3>1, RecycleTyped DEF BusForm
    <3>3. /\ ppc' \in [Publishers -> {"idle", "publish", "borrow", "dispatch", "panicked"}]
          /\ src' \in [Publishers -> Events \union {Nothing}]
          /\ snap' \in [Publishers -> SUBSET Subs]
          /\ hand' \in [Publishers -> SUBSET Events]
          /\ \A q \in Publishers : ppc'[q] = (IF q = p THEN "idle" ELSE ppc[q])
          /\ \A q \in Publishers : src'[q] = (IF q = p THEN Nothing ELSE src[q])
      BY <2>3, <3>1 DEF BusForm, BusTypeOK
    <3> QED
      BY <1>a, <2>1, <2>3, <2>4, <3>1, <3>2, <3>3, FormPublishes
  <2>5. CASE ~(\A s \in Subs : dpc[p][s] = "none")
    <3>1. ppc' = [ppc EXCEPT ![p] = "panicked"] /\ UNCHANGED <<free, stamp, src, snap, err>>
      BY <1>6, <2>5 DEF Finish, poolVars
    <3>2. /\ ppc' \in [Publishers -> {"idle", "publish", "borrow", "dispatch", "panicked"}]
          /\ src' \in [Publishers -> Events \union {Nothing}]
          /\ snap' \in [Publishers -> SUBSET Subs]
          /\ hand' \in [Publishers -> SUBSET Events]
          /\ \A q \in Publishers : ppc'[q] = (IF q = p THEN "panicked" ELSE ppc[q])
      BY <2>3, <3>1 DEF BusForm, BusTypeOK
    <3>3. src[p] # Nothing
      BY <2>1 DEF BusForm
    <3> QED
      BY <1>a, <2>1, <2>3, <3>1, <3>2, <3>3, FormPublishes
  <2> QED
    BY <2>4, <2>5
<1> QED
  BY <1>1, <1>2, <1>3, <1>4, <1>5, <1>6 DEF Publish

\* A delivery that ends gives its clone up; until then it keeps it.
LEMMA FormDelivers ==
    ASSUME BusForm, NEW p \in Publishers, NEW s \in Subs, dpc[p][s] # "none",
           NEW pc \in {"none", "select", "full", "retry", "panicked"}, To(p, s, pc),
           clone' = IF pc = "none" THEN [clone EXCEPT ![p][s] = Nothing] ELSE clone,
           free' \subseteq Events, stamp' \in [Events -> Stamps],
           err' \subseteq Publishers, ch' \in [Subs -> Seq(Events)],
           \A t \in Subs : Len(ch'[t]) <= BufferSize, StillThere
    PROVE  BusForm'
<1> USE DEF StillThere, To, subVars, closingVars, conVars
<1>1. \A q \in Publishers, t \in Subs :
        /\ dpc'[q][t] = IF q = p /\ t = s THEN pc ELSE dpc[q][t]
        /\ clone'[q][t] = IF q = p /\ t = s /\ pc = "none" THEN Nothing ELSE clone[q][t]
  BY DEF BusForm, BusTypeOK
<1>2. /\ dpc' \in [Publishers -> [Subs -> {"none", "ready", "select", "full", "retry", "panicked"}]]
      /\ clone' \in [Publishers -> [Subs -> Events \union {Nothing}]]
  BY DEF BusForm, BusTypeOK
<1>3. BusTypeOK'
  BY <1>2 DEF BusForm, BusTypeOK
<1> QED
  BY <1>1, <1>3 DEF BusForm

LEMMA FormUndelivered ==
    ASSUME BusForm, NEW p \in Publishers, NEW s \in Subs, dpc[p][s] # "none", Undelivered(p, s),
           err' \subseteq Publishers
    PROVE  BusForm'
<1>1. {clone[p][s]} \in SUBSET Events
  BY DEF BusForm, BusTypeOK
<1>2. free' \subseteq Events /\ stamp' \in [Events -> Stamps]
  BY <1>1, RecycleTyped DEF BusForm, Undelivered
<1>3. ch' \in [Subs -> Seq(Events)] /\ \A t \in Subs : Len(ch'[t]) <= BufferSize
  BY DEF BusForm, BusTypeOK, Undelivered
<1> QED
  BY <1>2, <1>3, FormDelivers DEF Undelivered

LEMMA FormSent ==
    ASSUME BusForm, BusAssumption, NEW p \in Publishers, NEW s \in Subs, dpc[p][s] # "none", Sent(p, s)
    PROVE  BusForm'
<1>1. clone[p][s] \in Events /\ ch[s] \in Seq(Events)
  BY DEF BusForm, BusTypeOK
<1>2. ch' = [ch EXCEPT ![s] = Append(ch[s], clone[p][s])]
  BY DEF Sent, Queued
<1>3. Len(ch[s]) < BufferSize /\ Len(ch[s]) \in Nat /\ BufferSize \in Nat
  BY <1>1, QueueFacts DEF Sent, HasRoom, BusAssumption
<1>4. /\ Append(ch[s], clone[p][s]) \in Seq(Events)
      /\ Len(Append(ch[s], clone[p][s])) <= BufferSize
  BY <1>1, <1>3, QueueFacts
<1>5. ch' \in [Subs -> Seq(Events)] /\ \A t \in Subs : Len(ch'[t]) <= BufferSize
  BY <1>2, <1>4 DEF BusForm, BusTypeOK
<1>6. free' \subseteq Events /\ stamp' \in [Events -> Stamps] /\ err' \subseteq Publishers
  BY DEF Sent, BusForm, BusTypeOK, poolVars
<1> QED
  BY <1>5, <1>6, FormDelivers DEF Sent

LEMMA FormMoves ==
    ASSUME BusForm, NEW p \in Publishers, NEW s \in Subs, dpc[p][s] # "none",
           NEW pc \in {"select", "full", "panicked"}, To(p, s, pc),
           UNCHANGED <<poolVars, clone, err, ch>>, StillThere
    PROVE  BusForm'
<1>1. /\ free' \subseteq Events /\ stamp' \in [Events -> Stamps] /\ err' \subseteq Publishers
      /\ ch' \in [Subs -> Seq(Events)] /\ \A t \in Subs : Len(ch'[t]) <= BufferSize
  BY DEF BusForm, BusTypeOK, poolVars
<1> QED
  BY <1>1, FormDelivers

LEMMA FormDelivery ==
    ASSUME BusForm, BusAssumption, NEW p \in Publishers, NEW s \in Subs, Delivery(p, s)
    PROVE  BusForm'
<1>1. dpc[p][s] # "none"
  BY DEF Delivery, StartDelivery, Select, DropOldest, Retry
<1>2. err \subseteq Publishers
  BY DEF BusForm, BusTypeOK
<1>3. CASE StartDelivery(p, s)
  BY <1>1, <1>2, <1>3, FormUndelivered, FormMoves DEF StartDelivery, FailDelivery
<1>4. CASE Select(p, s)
  BY <1>1, <1>2, <1>4, FormUndelivered, FormSent, FormMoves DEF Select, FailDelivery, SendPanics
<1>5. CASE DropOldest(p, s)
  <2>1. ch[s] \in Seq(Events) /\ Len(ch[s]) <= BufferSize /\ BufferSize \in Nat
    BY DEF BusForm, BusTypeOK, BusAssumption
  <2>2. CASE ch[s] = <<>>
    <3>1. /\ free' \subseteq Events /\ stamp' \in [Events -> Stamps]
          /\ ch' \in [Subs -> Seq(Events)] /\ \A t \in Subs : Len(ch'[t]) <= BufferSize
      BY <1>5, <2>2 DEF DropOldest, BusForm, BusTypeOK, poolVars
    <3> QED
      BY <1>1, <1>2, <1>5, <3>1, FormDelivers DEF DropOldest
  <2>3. CASE ch[s] # <<>>
    <3>1. Recycle(Discarded(s)) /\ ch' = [ch EXCEPT ![s] = Tail(ch[s])]
      BY <1>5, <2>3 DEF DropOldest
    <3>2. /\ Discarded(s) \in SUBSET Events /\ Tail(ch[s]) \in Seq(Events)
          /\ Len(Tail(ch[s])) <= BufferSize
      BY <2>1, <2>3, QueueFacts DEF Discarded
    <3>3. free' \subseteq Events /\ stamp' \in [Events -> Stamps]
      BY <3>1, <3>2, RecycleTyped DEF BusForm
    <3>4. ch' \in [Subs -> Seq(Events)] /\ \A t \in Subs : Len(ch'[t]) <= BufferSize
      BY <3>1, <3>2 DEF BusForm, BusTypeOK
    <3> QED
      BY <1>1, <1>2, <1>5, <3>3, <3>4, FormDelivers DEF DropOldest
  <2> QED
    BY <2>2, <2>3
<1>6. CASE Retry(p, s)
  BY <1>1, <1>2, <1>6, FormUndelivered, FormSent, FormMoves DEF Retry, FailDelivery, SendPanics
<1> QED
  BY <1>3, <1>4, <1>5, <1>6 DEF Delivery

LEMMA FormSubscribes ==
    ASSUME BusForm, BusAssumption, NEW s \in Subs,
           Subscribe(s) \/ CancelContext(s) \/ Closing(s) \/ CloseNext(s)
    PROVE  BusForm'
<1> USE DEF poolVars, pubVars, closingVars, conVars, subVars
<1>1. CASE Subscribe(s)
  BY <1>1 DEF Subscribe, BusForm, BusTypeOK
<1>2. CASE CancelContext(s)
  BY <1>2 DEF CancelContext, BusForm, BusTypeOK
<1>3. CASE Unregister(s)
  BY <1>3 DEF Unregister, BusForm, BusTypeOK
<1>4. CASE CloseCancel(s)
  BY <1>4 DEF CloseCancel, BusForm, BusTypeOK
<1>5. CASE CloseChannel(s)
  BY <1>5 DEF CloseChannel, BusForm, BusTypeOK
<1>6. CASE CloseNext(s)
  BY <1>6 DEF CloseNext, BusForm, BusTypeOK
<1> QED
  BY <1>1, <1>2, <1>3, <1>4, <1>5, <1>6 DEF Closing

LEMMA FormCloses ==
    ASSUME BusForm, BusCancel \/ BusLock \/ BusUnlock
    PROVE  BusForm'
<1> USE DEF poolVars, pubVars, closingVars, conVars, subVars
<1>1. CASE BusCancel
  BY <1>1 DEF BusCancel, BusForm, BusTypeOK
<1>2. CASE BusLock
  BY <1>2 DEF BusLock, BusForm, BusTypeOK
<1>3. CASE BusUnlock
  BY <1>3 DEF BusUnlock, BusForm, BusTypeOK
<1> QED
  BY <1>1, <1>2, <1>3

LEMMA FormGivesUp ==
    ASSUME BusForm, NEW p \in Publishers, EndPublisher(p)
    PROVE  BusForm'
BY DEF EndPublisher, BusForm, BusTypeOK, poolVars, closingVars, conVars, subVars

LEMMA FormConsumes ==
    ASSUME BusForm, BusAssumption, NEW s \in Subs, Consumer(s)
    PROVE  BusForm'
<1>1. ch[s] \in Seq(Events) /\ Len(ch[s]) <= BufferSize /\ BufferSize \in Nat
  BY DEF BusForm, BusTypeOK, BusAssumption
<1>2. ch[s] # <<>> => Head(ch[s]) \in Events /\ Tail(ch[s]) \in Seq(Events) /\ Len(Tail(ch[s])) <= BufferSize
  BY <1>1, QueueFacts
<1>3. CASE Consume(s)
  <2>1. CASE ch[s] # <<>>
    <3>1. /\ reading' = [reading EXCEPT ![s] = Head(ch[s])] /\ ch' = [ch EXCEPT ![s] = Tail(ch[s])]
          /\ UNCHANGED <<poolVars, pubVars, subVars, closingVars, consumer>>
      BY <1>3, <2>1 DEF Consume
    <3> QED
      BY <1>2, <2>1, <3>1 DEF BusForm, BusTypeOK, poolVars, pubVars, subVars, closingVars
  <2>2. CASE ch[s] = <<>>
    <3>1. /\ consumer' = [consumer EXCEPT ![s] = "gone"]
          /\ UNCHANGED <<poolVars, pubVars, subVars, closingVars, reading, ch>>
      BY <1>3, <2>2 DEF Consume
    <3> QED
      BY <3>1 DEF BusForm, BusTypeOK, poolVars, pubVars, subVars, closingVars
  <2> QED
    BY <2>1, <2>2
<1>4. CASE Handle(s)
  <2>1. {reading[s]} \in SUBSET Events
    BY <1>4 DEF Handle, BusForm, BusTypeOK
  <2>2. free' \subseteq Events /\ stamp' \in [Events -> Stamps]
    BY <1>4, <2>1, RecycleTyped DEF Handle, BusForm
  <2> QED
    BY <1>4, <2>2 DEF Handle, BusForm, BusTypeOK, pubVars, subVars, closingVars
<1>5. CASE StopConsuming(s)
  BY <1>5 DEF StopConsuming, BusForm, BusTypeOK, poolVars, pubVars, subVars, closingVars
<1>6. CASE Drain(s)
  <2>1. CASE ch[s] # <<>>
    <3>1. /\ Recycle({Head(ch[s])}) /\ ch' = [ch EXCEPT ![s] = Tail(ch[s])]
          /\ UNCHANGED <<pubVars, subVars, closingVars, reading, consumer>>
      BY <1>6, <2>1 DEF Drain
    <3>2. free' \subseteq Events /\ stamp' \in [Events -> Stamps]
      BY <1>2, <2>1, <3>1, RecycleTyped DEF BusForm
    <3> QED
      BY <1>2, <2>1, <3>1, <3>2 DEF BusForm, BusTypeOK, pubVars, subVars, closingVars
  <2>2. CASE ch[s] = <<>>
    <3>1. /\ consumer' = [consumer EXCEPT ![s] = "gone"]
          /\ UNCHANGED <<poolVars, pubVars, subVars, closingVars, reading, ch>>
      BY <1>6, <2>2 DEF Drain
    <3> QED
      BY <3>1 DEF BusForm, BusTypeOK, poolVars, pubVars, subVars, closingVars
  <2> QED
    BY <2>1, <2>2
<1> QED
  BY <1>3, <1>4, <1>5, <1>6 DEF Consumer

LEMMA FormStep ==
    ASSUME BusForm, BusAssumption, [BusNext]_busVars
    PROVE  BusForm'
<1>1. CASE UNCHANGED busVars
  BY <1>1 DEF BusForm, BusTypeOK, busVars, poolVars, pubVars, subVars, closingVars, conVars
<1>2. ASSUME NEW p \in Publishers, BeginPublish(p) \/ Publish(p) \/ EndPublisher(p)
      PROVE  BusForm'
  BY <1>2, FormBegin, FormPublish, FormGivesUp
<1> QED
  BY <1>1, <1>2, FormDelivery, FormSubscribes, FormCloses, FormConsumes DEF BusNext, BusClose

(* The places of events *)

\* The oldest leaves the channel.
LEMMA TailQueue ==
    ASSUME BusForm, NoneTwice, NEW s \in Subs, ch[s] # <<>>, ch' = [ch EXCEPT ![s] = Tail(ch[s])]
    PROVE  /\ NoneTwice'
           /\ Head(ch[s]) \in Events /\ InQueue(s, Head(ch[s]))
           /\ \A t \in Subs, e \in Events :
                 InQueue(t, e)' <=> InQueue(t, e) /\ ~(t = s /\ e = Head(ch[s]))
<1>1. ch \in [Subs -> Seq(Events)]
  BY DEF BusForm, BusTypeOK
<1> PICK q \in Seq(Events), r \in Seq(Events) : q = ch[s] /\ r = Tail(q)
  BY <1>1, QueueFacts
<1>2. /\ Len(q) \in Nat /\ Len(q) >= 1 /\ Len(r) = Len(q) - 1 /\ Head(q) = q[1] /\ q[1] \in Events
      /\ \A i \in 1..Len(r) : r[i] = q[i + 1]
  <2>1. q # <<>>
    OBVIOUS
  <2>2. Len(q) \in Nat /\ (q = <<>> <=> Len(q) = 0)
    BY QueueFacts
  <2>3. /\ Head(q) = q[1] /\ Head(q) \in Events /\ Len(Tail(q)) = Len(q) - 1
        /\ \A i \in 1..Len(Tail(q)) : Tail(q)[i] = q[i + 1]
    BY <2>1, QueueFacts
  <2> QED
    BY <2>1, <2>2, <2>3
<1>3. ch'[s] = r /\ \A t \in Subs : t # s => ch'[t] = ch[t]
  BY <1>1
<1>4. \A i, j \in 1..Len(q) : q[i] = q[j] => i = j
  BY DEF NoneTwice
<1>5. NoneTwice'
  <2> SUFFICES ASSUME NEW t \in Subs, NEW i \in 1..Len(ch'[t]), NEW j \in 1..Len(ch'[t]),
                      ch'[t][i] = ch'[t][j]
               PROVE  i = j
    BY DEF NoneTwice
  <2>1. CASE t = s
    <3>1. i \in 1..Len(r) /\ j \in 1..Len(r) /\ r[i] = r[j]
      BY <2>1, <1>3
    <3>2. i + 1 \in 1..Len(q) /\ j + 1 \in 1..Len(q) /\ q[i + 1] = q[j + 1]
      BY <1>2, <3>1
    <3> QED
      BY <1>4, <3>2, <3>1
  <2>2. CASE t # s
    BY <2>2, <1>3 DEF NoneTwice
  <2> QED
    BY <2>1, <2>2
<1>6. ASSUME NEW e \in Events
      PROVE  (\E i \in 1..Len(r) : r[i] = e) <=> (\E i \in 1..Len(q) : q[i] = e) /\ e # q[1]
  <2>1. ASSUME NEW i \in 1..Len(r), r[i] = e PROVE (\E k \in 1..Len(q) : q[k] = e) /\ e # q[1]
    <3>1. i + 1 \in 1..Len(q) /\ 1 \in 1..Len(q) /\ q[i + 1] = e /\ i + 1 # 1
      BY <1>2, <2>1
    <3> QED
      BY <3>1, <1>4
  <2>2. ASSUME NEW i \in 1..Len(q), q[i] = e, e # q[1] PROVE \E k \in 1..Len(r) : r[k] = e
    <3>1. i # 1
      BY <2>2
    <3>2. i - 1 \in 1..Len(r) /\ (i - 1) + 1 = i
      BY <3>1, <1>2
    <3>3. r[i - 1] = q[i]
      BY <3>2, <1>2
    <3> QED
      BY <3>2, <3>3, <2>2
  <2> QED
    BY <2>1, <2>2
<1>7. \A t \in Subs, e \in Events :
         InQueue(t, e)' <=> InQueue(t, e) /\ ~(t = s /\ e = Head(ch[s]))
  <2> SUFFICES ASSUME NEW t \in Subs, NEW e \in Events
               PROVE  InQueue(t, e)' <=> InQueue(t, e) /\ ~(t = s /\ e = Head(ch[s]))
    OBVIOUS
  <2>1. CASE t = s
    <3>1. InQueue(t, e) <=> \E i \in 1..Len(q) : q[i] = e
      BY <2>1 DEF InQueue
    <3>2. InQueue(t, e)' <=> \E i \in 1..Len(r) : r[i] = e
      BY <2>1, <1>3 DEF InQueue
    <3> QED
      BY <2>1, <3>1, <3>2, <1>2, <1>6
  <2>2. CASE t # s
    BY <2>2, <1>3 DEF InQueue
  <2> QED
    BY <2>1, <2>2
<1>8. InQueue(s, Head(ch[s]))
  BY <1>2 DEF InQueue
<1> QED
  BY <1>2, <1>5, <1>7, <1>8

\* An event that was elsewhere comes to the end of the channel.
LEMMA AppendQueue ==
    ASSUME BusForm, NoneTwice, NEW s \in Subs, NEW x \in Events, ~InQueue(s, x),
           ch' = [ch EXCEPT ![s] = Append(ch[s], x)]
    PROVE  /\ NoneTwice'
           /\ \A t \in Subs, e \in Events : InQueue(t, e)' <=> InQueue(t, e) \/ (t = s /\ e = x)
<1>1. ch \in [Subs -> Seq(Events)]
  BY DEF BusForm, BusTypeOK
<1> PICK q \in Seq(Events), r \in Seq(Events) : q = ch[s] /\ r = Append(q, x)
  BY <1>1, QueueFacts
<1>2. /\ Len(q) \in Nat /\ Len(r) = Len(q) + 1 /\ r[Len(q) + 1] = x
      /\ \A i \in 1..Len(q) : r[i] = q[i]
  BY QueueFacts
<1>3. ch'[s] = r /\ \A t \in Subs : t # s => ch'[t] = ch[t]
  BY <1>1
<1>4. (\A i, j \in 1..Len(q) : q[i] = q[j] => i = j) /\ (\A i \in 1..Len(q) : q[i] # x)
  BY DEF NoneTwice, InQueue
<1>5. \A i \in 1..Len(r) : (i \in 1..Len(q) /\ r[i] = q[i]) \/ (i = Len(q) + 1 /\ r[i] = x)
  BY <1>2
<1>6. NoneTwice'
  BY <1>3, <1>4, <1>5 DEF NoneTwice
<1>7. \A e \in Events : (\E i \in 1..Len(r) : r[i] = e) <=> (\E i \in 1..Len(q) : q[i] = e) \/ e = x
  <2>1. \A i \in 1..Len(q) : i \in 1..Len(r)
    BY <1>2
  <2>2. Len(q) + 1 \in 1..Len(r)
    BY <1>2
  <2> QED
    BY <1>2, <1>5, <2>1, <2>2
<1> QED
  BY <1>3, <1>6, <1>7 DEF InQueue

\* What an event in one place says of the other places.
NotWithSubs(e) == \A t \in Subs : ~InQueue(t, e) /\ reading[t] # e
NoClone(e) == \A q \in Publishers, t \in Subs : clone[q][t] # e
FreeApart(e) == (\A q \in Publishers : src[q] # e /\ e \notin hand[q]) /\ NoClone(e) /\ NotWithSubs(e)
SourceApart(p, e) == (\A q \in Publishers : (src[q] = e => q = p) /\ e \notin hand[q]) /\ NoClone(e) /\ NotWithSubs(e)
HandApart(p, e) == (\A q \in Publishers : src[q] # e /\ (e \in hand[q] => q = p)) /\ NoClone(e) /\ NotWithSubs(e)
CloneApart(p, s, e) ==
    /\ \A q \in Publishers : src[q] # e /\ e \notin hand[q]
    /\ \A q \in Publishers, t \in Subs : clone[q][t] = e => q = p /\ t = s
    /\ NotWithSubs(e)
QueueApart(s, e) ==
    /\ \A q \in Publishers : src[q] # e /\ e \notin hand[q]
    /\ NoClone(e)
    /\ \A t \in Subs : (InQueue(t, e) => t = s) /\ reading[t] # e
ReadingApart(s, e) ==
    /\ \A q \in Publishers : src[q] # e /\ e \notin hand[q]
    /\ NoClone(e)
    /\ \A t \in Subs : (reading[t] = e => t = s) /\ ~InQueue(t, e)
Apart(e) ==
    /\ e \in free => FreeApart(e)
    /\ \A p \in Publishers : src[p] = e => SourceApart(p, e) /\ e \notin free
    /\ \A p \in Publishers : e \in hand[p] => HandApart(p, e) /\ e \notin free
    /\ \A p \in Publishers, s \in Subs : clone[p][s] = e => CloneApart(p, s, e) /\ e \notin free
    /\ \A s \in Subs : InQueue(s, e) => QueueApart(s, e) /\ e \notin free
    /\ \A s \in Subs : reading[s] = e => ReadingApart(s, e) /\ e \notin free

LEMMA OnePlace ==
    ASSUME Located, NEW e \in Events
    PROVE  Apart(e)
<1> PICK kind \in [Events -> Kinds], at \in [Events -> Publishers \union {Nothing}],
         to \in [Events -> Subs \union {Nothing}] : Where(kind, at, to)
  BY DEF Located
<1>1. /\ e \in free <=> kind[e] = "free"
      /\ \A p \in Publishers : src[p] = e <=> kind[e] = "source" /\ at[e] = p
      /\ \A p \in Publishers : e \in hand[p] <=> kind[e] = "hand" /\ at[e] = p
      /\ \A p \in Publishers, s \in Subs :
            clone[p][s] = e <=> kind[e] = "clone" /\ at[e] = p /\ to[e] = s
      /\ \A s \in Subs : InQueue(s, e) <=> kind[e] = "queue" /\ to[e] = s
      /\ \A s \in Subs : reading[s] = e <=> kind[e] = "reading" /\ to[e] = s
  BY DEF Where
<1>2. e \in free => FreeApart(e)
  BY <1>1 DEF FreeApart, NoClone, NotWithSubs
<1>3. ASSUME NEW p \in Publishers, src[p] = e PROVE SourceApart(p, e) /\ e \notin free
  BY <1>1, <1>3 DEF SourceApart, NoClone, NotWithSubs
<1>4. ASSUME NEW p \in Publishers, e \in hand[p] PROVE HandApart(p, e) /\ e \notin free
  BY <1>1, <1>4 DEF HandApart, NoClone, NotWithSubs
<1>5. ASSUME NEW p \in Publishers, NEW s \in Subs, clone[p][s] = e PROVE CloneApart(p, s, e) /\ e \notin free
  BY <1>1, <1>5 DEF CloneApart, NotWithSubs
<1>6. ASSUME NEW s \in Subs, InQueue(s, e) PROVE QueueApart(s, e) /\ e \notin free
  BY <1>1, <1>6 DEF QueueApart, NoClone
<1>7. ASSUME NEW s \in Subs, reading[s] = e PROVE ReadingApart(s, e) /\ e \notin free
  BY <1>1, <1>7 DEF ReadingApart, NoClone
<1> QED
  BY <1>2, <1>3, <1>4, <1>5, <1>6, <1>7 DEF Apart

\* One event goes to another place, the others stay where they are.
Placed(e, x, k, a, b) ==
    /\ e \in free' <=> IF e = x THEN k = "free" ELSE e \in free
    /\ \A p \in Publishers : src'[p] = e <=> IF e = x THEN k = "source" /\ a = p ELSE src[p] = e
    /\ \A p \in Publishers : e \in hand'[p] <=> IF e = x THEN k = "hand" /\ a = p ELSE e \in hand[p]
    /\ \A p \in Publishers, s \in Subs :
          clone'[p][s] = e <=> IF e = x THEN k = "clone" /\ a = p /\ b = s ELSE clone[p][s] = e
    /\ \A s \in Subs : InQueue(s, e)' <=> IF e = x THEN k = "queue" /\ b = s ELSE InQueue(s, e)
    /\ \A s \in Subs : reading'[s] = e <=> IF e = x THEN k = "reading" /\ b = s ELSE reading[s] = e
Moved(x, k, a, b) == \A e \in Events : Placed(e, x, k, a, b)

LEMMA MovedLocated ==
    ASSUME Located, NEW x \in Events, NEW k \in Kinds,
           NEW a \in Publishers \union {Nothing}, NEW b \in Subs \union {Nothing},
           k \in {"source", "hand", "clone"} => a \in Publishers,
           k \in {"clone", "queue", "reading"} => b \in Subs,
           Moved(x, k, a, b)
    PROVE  Located'
<1> PICK kind \in [Events -> Kinds], at \in [Events -> Publishers \union {Nothing}],
         to \in [Events -> Subs \union {Nothing}] : Where(kind, at, to)
  BY DEF Located
<1> PICK kind2, at2, to2 : /\ kind2 = [kind EXCEPT ![x] = k]
                           /\ at2 = [at EXCEPT ![x] = a]
                           /\ to2 = [to EXCEPT ![x] = b]
  OBVIOUS
<1>1. /\ kind2 \in [Events -> Kinds] /\ at2 \in [Events -> Publishers \union {Nothing}]
      /\ to2 \in [Events -> Subs \union {Nothing}]
  OBVIOUS
<1>2. ASSUME NEW e \in Events
      PROVE  /\ e \in free' <=> kind2[e] = "free"
             /\ \A p \in Publishers : src'[p] = e <=> kind2[e] = "source" /\ at2[e] = p
             /\ \A p \in Publishers : e \in hand'[p] <=> kind2[e] = "hand" /\ at2[e] = p
             /\ \A p \in Publishers, s \in Subs :
                   clone'[p][s] = e <=> kind2[e] = "clone" /\ at2[e] = p /\ to2[e] = s
             /\ \A s \in Subs : InQueue(s, e)' <=> kind2[e] = "queue" /\ to2[e] = s
             /\ \A s \in Subs : reading'[s] = e <=> kind2[e] = "reading" /\ to2[e] = s
             /\ kind2[e] \in {"source", "hand", "clone"} => at2[e] \in Publishers
             /\ kind2[e] \in {"clone", "queue", "reading"} => to2[e] \in Subs
  <2>1. CASE e = x
    <3>1. kind2[e] = k /\ at2[e] = a /\ to2[e] = b
      BY <2>1
    <3> QED
      BY <2>1, <3>1 DEF Moved, Placed
  <2>2. CASE e # x
    <3>1. kind2[e] = kind[e] /\ at2[e] = at[e] /\ to2[e] = to[e]
      BY <2>2
    <3> QED
      BY <2>2, <3>1 DEF Where, Moved, Placed
  <2> QED
    BY <2>1, <2>2
<1>3. Where(kind2, at2, to2)'
  BY <1>2 DEF Where
<1> QED
  BY <1>1, <1>3 DEF Located

LEMMA OwnEndEarly ==
    ASSUME OwnInv, BusAssumption, NEW p \in Publishers, EndEarly(p), ppc[p] \in {"publish", "borrow"}
    PROVE  Located' /\ NoneTwice'
<1> DEFINE E == Reclaimed(p)
<1>1. src[p] \in Events /\ hand[p] \in SUBSET Events
  BY DEF OwnInv, BusForm, BusTypeOK
<1>2. E \in SUBSET Events /\ Nothing \notin Events
  BY <1>1, NothingApart DEF Reclaimed
<1>3. /\ free' = free \union E
      /\ \A q \in Publishers : src'[q] = IF q = p THEN Nothing ELSE src[q]
      /\ \A q \in Publishers : hand'[q] = IF q = p THEN {} ELSE hand[q]
      /\ UNCHANGED <<clone, ch, reading>>
  BY DEF EndEarly, Recycle, OwnInv, BusForm, BusTypeOK, conVars
<1>4. ASSUME NEW e \in E
      PROVE  /\ \A q \in Publishers \ {p} : src[q] # e /\ e \notin hand[q]
             /\ NoClone(e) /\ NotWithSubs(e)
  <2>1. Apart(e)
    BY <1>2, OnePlace DEF OwnInv
  <2>2. src[p] = e \/ e \in hand[p]
    BY DEF Reclaimed
  <2> QED
    BY <2>1, <2>2 DEF Apart, SourceApart, HandApart
<1>5. \A q \in Publishers : src'[q] = IF src[q] \in E THEN Nothing ELSE src[q]
  BY <1>1, <1>3, <1>4 DEF Reclaimed
<1>6. \A q \in Publishers : hand'[q] = hand[q] \ E
  BY <1>3, <1>4 DEF Reclaimed
<1>7. /\ \A q \in Publishers, s \in Subs : clone'[q][s] = IF clone[q][s] \in E THEN Nothing ELSE clone[q][s]
      /\ \A s \in Subs : reading'[s] = IF reading[s] \in E THEN Nothing ELSE reading[s]
  BY <1>3, <1>4 DEF NoClone, NotWithSubs
<1>8. \A s \in Subs, e \in Events : InQueue(s, e)' <=> InQueue(s, e) /\ e \notin E
  BY <1>3, <1>4 DEF InQueue, NotWithSubs
<1> HIDE DEF E
<1>9. Located'
  BY <1>2, <1>3, <1>5, <1>6, <1>7, <1>8, FreedLocated DEF OwnInv
<1> QED
  BY <1>3, <1>9 DEF OwnInv, NoneTwice

\* One event becomes free.
LEMMA OneFreed ==
    ASSUME OwnInv, BusAssumption, NEW x \in Events, Recycle({x}),
           \A p \in Publishers : src'[p] = IF src[p] = x THEN Nothing ELSE src[p],
           hand' = hand, \A p \in Publishers : x \notin hand[p],
           \A p \in Publishers, s \in Subs : clone'[p][s] = IF clone[p][s] = x THEN Nothing ELSE clone[p][s],
           \A s \in Subs, e \in Events : InQueue(s, e)' <=> InQueue(s, e) /\ e # x,
           \A s \in Subs : reading'[s] = IF reading[s] = x THEN Nothing ELSE reading[s]
    PROVE  Located'
<1> DEFINE E == {x}
<1>1. E \in SUBSET Events /\ Nothing \notin Events /\ free' = free \union E
  BY NothingApart DEF Recycle
<1>2. \A p \in Publishers : src'[p] = IF src[p] \in E THEN Nothing ELSE src[p]
  OBVIOUS
<1>3. \A p \in Publishers : hand'[p] = hand[p] \ E
  OBVIOUS
<1>4. \A p \in Publishers, s \in Subs : clone'[p][s] = IF clone[p][s] \in E THEN Nothing ELSE clone[p][s]
  OBVIOUS
<1>5. \A s \in Subs, e \in Events : InQueue(s, e)' <=> InQueue(s, e) /\ e \notin E
  OBVIOUS
<1>6. \A s \in Subs : reading'[s] = IF reading[s] \in E THEN Nothing ELSE reading[s]
  OBVIOUS
<1> HIDE DEF E
<1> QED
  BY <1>1, <1>2, <1>3, <1>4, <1>5, <1>6, FreedLocated DEF OwnInv

LEMMA OwnBegin ==
    ASSUME OwnInv, BusAssumption, NEW p \in Publishers, BeginPublish(p)
    PROVE  Located' /\ NoneTwice'
<1> PICK x \in free : /\ free' = free \ {x}
                      /\ src' = [src EXCEPT ![p] = x]
  BY DEF BeginPublish
<1>1. /\ x \in Events /\ src[p] = Nothing /\ Nothing \notin Events
      /\ UNCHANGED <<hand, clone, ch, reading>>
      /\ \A q \in Publishers : src'[q] = IF q = p THEN x ELSE src[q]
  BY NothingApart DEF BeginPublish, OwnInv, BusForm, BusTypeOK, conVars
<1>2. FreeApart(x)
  BY <1>1, OnePlace DEF OwnInv, Apart
<1>3. Located'
  <2>1. "source" \in Kinds
    BY DEF Kinds
  <2>2. Moved(x, "source", p, Nothing)
    BY <1>1, <1>2 DEF Moved, Placed, FreeApart, NoClone, NotWithSubs, InQueue
  <2> QED
    BY <1>1, <2>1, <2>2, MovedLocated DEF OwnInv
<1> QED
  BY <1>1, <1>3 DEF OwnInv, NoneTwice

LEMMA OwnBorrow ==
    ASSUME OwnInv, BusAssumption, NEW p \in Publishers, BorrowClone(p)
    PROVE  Located' /\ NoneTwice'
<1> PICK x \in free : free' = free \ {x} /\ hand' = [hand EXCEPT ![p] = hand[p] \union {x}]
  BY DEF BorrowClone
<1>1. /\ x \in Events /\ Nothing \notin Events
      /\ UNCHANGED <<src, clone, ch, reading>>
      /\ \A q \in Publishers : hand'[q] = IF q = p THEN hand[p] \union {x} ELSE hand[q]
  <2>1. UNCHANGED <<src, clone, ch, reading>>
    BY DEF BorrowClone, conVars
  <2>2. free \subseteq Events /\ hand \in [Publishers -> SUBSET Events]
    BY DEF OwnInv, BusForm, BusTypeOK
  <2> QED
    BY <2>1, <2>2, NothingApart
<1>2. FreeApart(x)
  BY <1>1, OnePlace DEF OwnInv, Apart
<1>3. Located'
  <2>1. "hand" \in Kinds
    BY DEF Kinds
  <2>2. Moved(x, "hand", p, Nothing)
    BY <1>1, <1>2 DEF Moved, Placed, FreeApart, NoClone, NotWithSubs, InQueue
  <2> QED
    BY <1>1, <2>1, <2>2, MovedLocated DEF OwnInv
<1> QED
  BY <1>1, <1>3 DEF OwnInv, NoneTwice

\* Each clone goes to the delivery it is assigned to.
LEMMA OwnDispatch ==
    ASSUME OwnInv, BusAssumption, NEW p \in Publishers, Dispatch(p)
    PROVE  Located' /\ NoneTwice'
<1>a. BusForm /\ Located
  BY DEF OwnInv
<1> PICK f \in [snap[p] -> hand[p]] :
        /\ \A s, t \in snap[p] : f[s] = f[t] => s = t
        /\ \A e \in hand[p] : \E s \in snap[p] : f[s] = e
        /\ clone' = [clone EXCEPT ![p] = [s \in Subs |-> IF s \in snap[p] THEN f[s] ELSE Nothing]]
  BY <1>a, DispatchTyped
<1>1. /\ snap[p] \in SUBSET Subs /\ hand[p] \in SUBSET Events /\ Nothing \notin Events
      /\ UNCHANGED <<free, src, ch, reading>>
      /\ \A q \in Publishers : hand'[q] = IF q = p THEN {} ELSE hand[q]
  BY <1>a, NothingApart DEF Dispatch, BusForm, BusTypeOK, conVars
<1>2. \A q \in Publishers, s \in Subs :
         clone'[q][s] = IF q # p THEN clone[q][s] ELSE IF s \in snap[p] THEN f[s] ELSE Nothing
  BY <1>a DEF BusForm, BusTypeOK
<1>3. \A s \in Subs : clone[p][s] = Nothing
  BY <1>a DEF Dispatch, BusForm
<1> PICK kind \in [Events -> Kinds], at \in [Events -> Publishers \union {Nothing}],
         to \in [Events -> Subs \union {Nothing}] : Where(kind, at, to)
  BY <1>a DEF Located
<1> DEFINE Goal(e) == CHOOSE s \in snap[p] : f[s] = e
<1>4. \A e \in hand[p] : Goal(e) \in snap[p] /\ f[Goal(e)] = e
  OBVIOUS
<1>5. \A e \in hand[p], s \in snap[p] : f[s] = e <=> Goal(e) = s
  BY <1>4
<1> HIDE DEF Goal
<1> PICK kind2, to2 : /\ kind2 = [e \in Events |-> IF e \in hand[p] THEN "clone" ELSE kind[e]]
                      /\ to2 = [e \in Events |-> IF e \in hand[p] THEN Goal(e) ELSE to[e]]
  OBVIOUS
<1>6. kind2 \in [Events -> Kinds] /\ to2 \in [Events -> Subs \union {Nothing}]
  BY <1>1, <1>4 DEF Kinds
<1>7. ASSUME NEW e \in Events
      PROVE  /\ e \in free' <=> kind2[e] = "free"
             /\ \A q \in Publishers : src'[q] = e <=> kind2[e] = "source" /\ at[e] = q
             /\ \A q \in Publishers : e \in hand'[q] <=> kind2[e] = "hand" /\ at[e] = q
             /\ \A q \in Publishers, s \in Subs :
                   clone'[q][s] = e <=> kind2[e] = "clone" /\ at[e] = q /\ to2[e] = s
             /\ \A s \in Subs : InQueue(s, e)' <=> kind2[e] = "queue" /\ to2[e] = s
             /\ \A s \in Subs : reading'[s] = e <=> kind2[e] = "reading" /\ to2[e] = s
             /\ kind2[e] \in {"source", "hand", "clone"} => at[e] \in Publishers
             /\ kind2[e] \in {"clone", "queue", "reading"} => to2[e] \in Subs
  <2>1. /\ e \in free <=> kind[e] = "free"
        /\ \A q \in Publishers : src[q] = e <=> kind[e] = "source" /\ at[e] = q
        /\ \A q \in Publishers : e \in hand[q] <=> kind[e] = "hand" /\ at[e] = q
        /\ \A q \in Publishers, s \in Subs :
              clone[q][s] = e <=> kind[e] = "clone" /\ at[e] = q /\ to[e] = s
        /\ \A s \in Subs : InQueue(s, e) <=> kind[e] = "queue" /\ to[e] = s
        /\ \A s \in Subs : reading[s] = e <=> kind[e] = "reading" /\ to[e] = s
        /\ kind[e] \in {"source", "hand", "clone"} => at[e] \in Publishers
        /\ kind[e] \in {"clone", "queue", "reading"} => to[e] \in Subs
    BY DEF Where
  <2>2. \A s \in Subs : InQueue(s, e)' <=> InQueue(s, e)
    BY <1>1 DEF InQueue
  <2>3. CASE e \in hand[p]
    <3>1. kind2[e] = "clone" /\ to2[e] = Goal(e) /\ kind[e] = "hand" /\ at[e] = p
      BY <2>1, <2>3
    <3>2. \A q \in Publishers, s \in Subs : clone'[q][s] = e <=> at[e] = q /\ Goal(e) = s
      <4>1. ASSUME NEW q \in Publishers, NEW s \in Subs, q # p PROVE clone'[q][s] # e
        BY <4>1, <1>2, <2>1, <3>1
      <4>2. ASSUME NEW s \in Subs PROVE clone'[p][s] = e <=> Goal(e) = s
        <5>1. CASE s \in snap[p]
          BY <5>1, <1>2, <1>5, <2>3
        <5>2. CASE s \notin snap[p]
          BY <5>2, <1>1, <1>2, <1>4, <2>3
        <5> QED
          BY <5>1, <5>2
      <4> QED
        BY <4>1, <4>2, <3>1
    <3> QED
      BY <1>1, <1>4, <2>1, <2>2, <2>3, <3>1, <3>2
  <2>4. CASE e \notin hand[p]
    <3>1. kind2[e] = kind[e] /\ to2[e] = to[e]
      BY <2>4
    <3>2. \A q \in Publishers : e \in hand'[q] <=> e \in hand[q]
      BY <1>1, <2>4
    <3>3. \A q \in Publishers, s \in Subs : clone'[q][s] = e <=> clone[q][s] = e
      <4>1. ASSUME NEW s \in Subs PROVE clone'[p][s] # e /\ clone[p][s] # e
        <5>1. CASE s \in snap[p]
          BY <5>1, <1>1, <1>2, <1>3, <2>4
        <5>2. CASE s \notin snap[p]
          BY <5>2, <1>1, <1>2, <1>3
        <5> QED
          BY <5>1, <5>2
      <4> QED
        BY <4>1, <1>2
    <3> QED
      BY <1>1, <2>1, <2>2, <3>1, <3>2, <3>3
  <2> QED
    BY <2>3, <2>4
<1>8. Where(kind2, at, to2)'
  BY <1>7 DEF Where
<1> QED
  BY <1>1, <1>6, <1>8 DEF OwnInv, Located, NoneTwice

LEMMA OwnFinish ==
    ASSUME OwnInv, BusAssumption, NEW p \in Publishers, Finish(p)
    PROVE  Located' /\ NoneTwice'
<1>a. BusForm /\ Located /\ NoneTwice
  BY DEF OwnInv
<1>1. CASE ~(\A s \in Subs : dpc[p][s] = "none")
  <2>1. UNCHANGED <<free, src, hand, clone, ch, reading>>
    BY <1>1 DEF Finish, poolVars, conVars
  <2> QED
    BY <1>a, <2>1, LocatedUntouched DEF NoneTwice
<1>2. CASE \A s \in Subs : dpc[p][s] = "none"
  <2>1. Recycle({src[p]}) /\ src' = [src EXCEPT ![p] = Nothing] /\ UNCHANGED <<hand, clone, ch, reading>>
    BY <1>2 DEF Finish, Spent, conVars
  <2>2. src[p] \in Events
    <3>1. ppc[p] # "idle"
      BY DEF Finish
    <3> QED
      BY <1>a, <3>1 DEF BusForm, BusTypeOK
  <2>3. SourceApart(p, src[p])
    BY <1>a, <2>2, OnePlace DEF Apart
  <2>4. \A q \in Publishers : src'[q] = IF src[q] = src[p] THEN Nothing ELSE src[q]
    BY <1>a, <2>1, <2>3 DEF SourceApart, BusForm, BusTypeOK
  <2>5. \A q \in Publishers : src[p] \notin hand[q]
    BY <2>3 DEF SourceApart
  <2>6. \A q \in Publishers, s \in Subs : clone'[q][s] = IF clone[q][s] = src[p] THEN Nothing ELSE clone[q][s]
    BY <2>1, <2>3 DEF SourceApart, NoClone
  <2>7. \A s \in Subs, e \in Events : InQueue(s, e)' <=> InQueue(s, e) /\ e # src[p]
    BY <2>1, <2>3 DEF SourceApart, NotWithSubs, InQueue
  <2>8. \A s \in Subs : reading'[s] = IF reading[s] = src[p] THEN Nothing ELSE reading[s]
    BY <2>1, <2>3 DEF SourceApart, NotWithSubs
  <2>9. Located'
    BY <2>1, <2>2, <2>4, <2>5, <2>6, <2>7, <2>8, OneFreed
  <2> QED
    BY <1>a, <2>1, <2>9 DEF NoneTwice
<1> QED
  BY <1>1, <1>2

LEMMA OwnPublish ==
    ASSUME OwnInv, BusAssumption, NEW p \in Publishers, Publish(p)
    PROVE  Located' /\ NoneTwice'
<1>1. CASE Snapshot(p)
  <2>1. CASE EndEarly(p)
    BY <1>1, <2>1, OwnEndEarly DEF Snapshot
  <2>2. CASE ~EndEarly(p)
    <3>1. UNCHANGED <<free, src, hand, clone, ch, reading>>
      BY <1>1, <2>2 DEF Snapshot, poolVars, conVars
    <3> QED
      BY <3>1, LocatedUntouched DEF OwnInv, NoneTwice
  <2> QED
    BY <2>1, <2>2
<1> QED
  BY <1>1, OwnEndEarly, OwnBorrow, OwnDispatch, OwnFinish DEF Publish, Reject, CloneFails

LEMMA OwnUndelivered ==
    ASSUME OwnInv, BusAssumption, NEW p \in Publishers, NEW s \in Subs, dpc[p][s] # "none", Undelivered(p, s)
    PROVE  Located' /\ NoneTwice'
<1>a. BusForm /\ Located /\ NoneTwice
  BY DEF OwnInv
<1> PICK x : x = clone[p][s]
  OBVIOUS
<1>1. x \in Events
  BY <1>a DEF BusForm, BusTypeOK
<1>2. CloneApart(p, s, x)
  BY <1>a, <1>1, OnePlace DEF Apart
<1>3. Recycle({x}) /\ UNCHANGED <<src, hand, ch, reading>>
  BY DEF Undelivered, StillThere, conVars
<1>4. \A q \in Publishers, t \in Subs : clone'[q][t] = IF clone[q][t] = x THEN Nothing ELSE clone[q][t]
  <2>1. \A q \in Publishers, t \in Subs : clone'[q][t] = IF q = p /\ t = s THEN Nothing ELSE clone[q][t]
    BY <1>a DEF Undelivered, BusForm, BusTypeOK
  <2> QED
    BY <2>1, <1>2 DEF CloneApart
<1>5. \A q \in Publishers : /\ src'[q] = IF src[q] = x THEN Nothing ELSE src[q]
                            /\ x \notin hand[q]
  BY <1>2, <1>3 DEF CloneApart
<1>6. \A t \in Subs, e \in Events : InQueue(t, e)' <=> InQueue(t, e) /\ e # x
  BY <1>2, <1>3 DEF CloneApart, NotWithSubs, InQueue
<1>7. \A t \in Subs : reading'[t] = IF reading[t] = x THEN Nothing ELSE reading[t]
  BY <1>2, <1>3 DEF CloneApart, NotWithSubs
<1>8. Located'
  BY <1>1, <1>3, <1>4, <1>5, <1>6, <1>7, OneFreed
<1> QED
  BY <1>a, <1>3, <1>8 DEF NoneTwice

LEMMA OwnSent ==
    ASSUME OwnInv, BusAssumption, NEW p \in Publishers, NEW s \in Subs, dpc[p][s] # "none", Sent(p, s)
    PROVE  Located' /\ NoneTwice'
<1>a. BusForm /\ Located /\ NoneTwice
  BY DEF OwnInv
<1> PICK x : x = clone[p][s]
  OBVIOUS
<1>1. x \in Events /\ Nothing \notin Events
  BY <1>a, NothingApart DEF BusForm, BusTypeOK
<1>2. CloneApart(p, s, x) /\ x \notin free
  BY <1>a, <1>1, OnePlace DEF Apart
<1>3. ch' = [ch EXCEPT ![s] = Append(ch[s], x)] /\ UNCHANGED <<free, src, hand, reading>>
  BY DEF Sent, Queued, StillThere, poolVars, conVars
<1>4. \A q \in Publishers, t \in Subs : clone'[q][t] = IF q = p /\ t = s THEN Nothing ELSE clone[q][t]
  BY <1>a DEF Sent, BusForm, BusTypeOK
<1>5. /\ NoneTwice'
      /\ \A t \in Subs, e \in Events : InQueue(t, e)' <=> InQueue(t, e) \/ (t = s /\ e = x)
  BY <1>a, <1>1, <1>2, <1>3, AppendQueue DEF CloneApart, NotWithSubs
<1>6. Located'
  <2>1. "queue" \in Kinds
    BY DEF Kinds
  <2>2. Moved(x, "queue", p, s)
    <3>1. ASSUME NEW e \in Events, e = x PROVE Placed(e, x, "queue", p, s)
      BY <3>1, <1>1, <1>2, <1>3, <1>4, <1>5 DEF Placed, CloneApart, NotWithSubs
    <3>2. ASSUME NEW e \in Events, e # x PROVE Placed(e, x, "queue", p, s)
      BY <3>2, <1>1, <1>3, <1>4, <1>5 DEF Placed
    <3> QED
      BY <3>1, <3>2 DEF Moved
  <2> QED
    BY <1>a, <1>1, <2>1, <2>2, MovedLocated
<1> QED
  BY <1>5, <1>6

\* The oldest event of a channel becomes free.
LEMMA OwnTail ==
    ASSUME OwnInv, BusAssumption, NEW s \in Subs, ch[s] # <<>>, Recycle({Head(ch[s])}),
           ch' = [ch EXCEPT ![s] = Tail(ch[s])], UNCHANGED <<src, hand, clone, reading>>
    PROVE  Located' /\ NoneTwice'
<1>a. BusForm /\ Located /\ NoneTwice
  BY DEF OwnInv
<1> PICK x : x = Head(ch[s])
  OBVIOUS
<1>1. /\ NoneTwice' /\ x \in Events /\ InQueue(s, x)
      /\ \A t \in Subs, e \in Events : InQueue(t, e)' <=> InQueue(t, e) /\ ~(t = s /\ e = x)
  BY <1>a, TailQueue
<1>2. QueueApart(s, x)
  BY <1>a, <1>1, OnePlace DEF Apart
<1>3. /\ \A p \in Publishers : src'[p] = IF src[p] = x THEN Nothing ELSE src[p]
      /\ hand' = hand /\ \A p \in Publishers : x \notin hand[p]
      /\ \A p \in Publishers, t \in Subs : clone'[p][t] = IF clone[p][t] = x THEN Nothing ELSE clone[p][t]
      /\ \A t \in Subs : reading'[t] = IF reading[t] = x THEN Nothing ELSE reading[t]
  BY <1>2 DEF QueueApart, NoClone
<1>4. \A t \in Subs, e \in Events : InQueue(t, e)' <=> InQueue(t, e) /\ e # x
  BY <1>1, <1>2 DEF QueueApart
<1>5. Located'
  BY <1>1, <1>3, <1>4, OneFreed
<1> QED
  BY <1>1, <1>5

LEMMA OwnMoves ==
    ASSUME OwnInv, NEW p \in Publishers, NEW s \in Subs, NEW pc, To(p, s, pc),
           UNCHANGED <<poolVars, clone, err, ch>>, StillThere
    PROVE  Located' /\ NoneTwice'
<1>1. UNCHANGED <<free, src, hand, clone, ch, reading>>
  BY DEF poolVars, StillThere, conVars
<1> QED
  BY <1>1, LocatedUntouched DEF OwnInv, NoneTwice

LEMMA OwnDelivery ==
    ASSUME OwnInv, BusAssumption, NEW p \in Publishers, NEW s \in Subs, Delivery(p, s)
    PROVE  Located' /\ NoneTwice'
<1>1. dpc[p][s] # "none"
  BY DEF Delivery, StartDelivery, Select, DropOldest, Retry
<1>2. CASE StartDelivery(p, s)
  BY <1>1, <1>2, OwnUndelivered, OwnMoves DEF StartDelivery
<1>3. CASE Select(p, s)
  BY <1>1, <1>3, OwnUndelivered, OwnSent, OwnMoves DEF Select, SendPanics
<1>4. CASE DropOldest(p, s)
  <2>1. CASE ch[s] = <<>>
    <3>1. UNCHANGED <<free, src, hand, clone, ch, reading>>
      BY <1>4, <2>1 DEF DropOldest, poolVars, StillThere, conVars
    <3> QED
      BY <3>1, LocatedUntouched DEF OwnInv, NoneTwice
  <2>2. CASE ch[s] # <<>>
    <3>1. /\ Recycle({Head(ch[s])}) /\ ch' = [ch EXCEPT ![s] = Tail(ch[s])]
          /\ UNCHANGED <<src, hand, clone, reading>>
      BY <1>4, <2>2 DEF DropOldest, Discarded, StillThere, conVars
    <3> QED
      BY <2>2, <3>1, OwnTail
  <2> QED
    BY <2>1, <2>2
<1>5. CASE Retry(p, s)
  BY <1>1, <1>5, OwnUndelivered, OwnSent, OwnMoves DEF Retry, SendPanics
<1> QED
  BY <1>2, <1>3, <1>4, <1>5 DEF Delivery

LEMMA OwnConsume ==
    ASSUME OwnInv, BusAssumption, NEW s \in Subs, ch[s] # <<>>, Consume(s)
    PROVE  Located' /\ NoneTwice'
<1>a. BusForm /\ Located /\ NoneTwice
  BY DEF OwnInv
<1> PICK x : x = Head(ch[s])
  OBVIOUS
<1>b. /\ reading[s] = Nothing /\ reading' = [reading EXCEPT ![s] = x]
      /\ ch' = [ch EXCEPT ![s] = Tail(ch[s])] /\ UNCHANGED <<free, src, hand, clone>>
  BY DEF Consume, poolVars, pubVars
<1>1. /\ NoneTwice' /\ x \in Events /\ InQueue(s, x) /\ Nothing \notin Events
      /\ \A t \in Subs, e \in Events : InQueue(t, e)' <=> InQueue(t, e) /\ ~(t = s /\ e = x)
  BY <1>a, <1>b, TailQueue, NothingApart
<1>2. QueueApart(s, x) /\ x \notin free
  BY <1>a, <1>1, OnePlace DEF Apart
<1>3. \A t \in Subs : reading'[t] = IF t = s THEN x ELSE reading[t]
  BY <1>a, <1>b DEF BusForm, BusTypeOK
<1>4. Located'
  <2>1. "reading" \in Kinds
    BY DEF Kinds
  <2>2. Moved(x, "reading", Nothing, s)
    <3>1. ASSUME NEW e \in Events, e = x PROVE Placed(e, x, "reading", Nothing, s)
      BY <3>1, <1>b, <1>1, <1>2, <1>3 DEF Placed, QueueApart, NoClone
    <3>2. ASSUME NEW e \in Events, e # x PROVE Placed(e, x, "reading", Nothing, s)
      BY <3>2, <1>b, <1>1, <1>3 DEF Placed
    <3> QED
      BY <3>1, <3>2 DEF Moved
  <2> QED
    BY <1>a, <1>1, <2>1, <2>2, MovedLocated
<1> QED
  BY <1>1, <1>4

LEMMA OwnHandle ==
    ASSUME OwnInv, BusAssumption, NEW s \in Subs, Handle(s)
    PROVE  Located' /\ NoneTwice'
<1>a. BusForm /\ Located /\ NoneTwice
  BY DEF OwnInv
<1> PICK x : x = reading[s]
  OBVIOUS
<1>1. x \in Events
  BY <1>a DEF Handle, BusForm, BusTypeOK
<1>2. ReadingApart(s, x)
  BY <1>a, <1>1, OnePlace DEF Apart
<1>3. Recycle({x}) /\ UNCHANGED <<src, hand, clone, ch>>
  BY DEF Handle, pubVars
<1>4. \A t \in Subs : reading'[t] = IF reading[t] = x THEN Nothing ELSE reading[t]
  <2>1. \A t \in Subs : reading'[t] = IF t = s THEN Nothing ELSE reading[t]
    BY <1>a DEF Handle, BusForm, BusTypeOK
  <2> QED
    BY <2>1, <1>2 DEF ReadingApart
<1>5. /\ \A p \in Publishers : src'[p] = IF src[p] = x THEN Nothing ELSE src[p]
      /\ hand' = hand /\ \A p \in Publishers : x \notin hand[p]
      /\ \A p \in Publishers, t \in Subs : clone'[p][t] = IF clone[p][t] = x THEN Nothing ELSE clone[p][t]
  BY <1>2, <1>3 DEF ReadingApart, NoClone
<1>6. \A t \in Subs, e \in Events : InQueue(t, e)' <=> InQueue(t, e) /\ e # x
  BY <1>2, <1>3 DEF ReadingApart, InQueue
<1>7. Located'
  BY <1>1, <1>3, <1>4, <1>5, <1>6, OneFreed
<1> QED
  BY <1>a, <1>3, <1>7 DEF NoneTwice

LEMMA OwnConsumer ==
    ASSUME OwnInv, BusAssumption, NEW s \in Subs, Consumer(s)
    PROVE  Located' /\ NoneTwice'
<1>1. CASE Consume(s)
  <2>1. CASE ch[s] # <<>>
    BY <1>1, <2>1, OwnConsume
  <2>2. CASE ch[s] = <<>>
    <3>1. UNCHANGED <<free, src, hand, clone, ch, reading>>
      BY <1>1, <2>2 DEF Consume, poolVars, pubVars
    <3> QED
      BY <3>1, LocatedUntouched DEF OwnInv, NoneTwice
  <2> QED
    BY <2>1, <2>2
<1>2. CASE StopConsuming(s)
  <2>1. UNCHANGED <<free, src, hand, clone, ch, reading>>
    BY <1>2 DEF StopConsuming, poolVars, pubVars
  <2> QED
    BY <2>1, LocatedUntouched DEF OwnInv, NoneTwice
<1>3. CASE Drain(s)
  <2>1. CASE ch[s] # <<>>
    BY <1>3, <2>1, OwnTail DEF Drain, pubVars
  <2>2. CASE ch[s] = <<>>
    <3>1. UNCHANGED <<free, src, hand, clone, ch, reading>>
      BY <1>3, <2>2 DEF Drain, poolVars, pubVars
    <3> QED
      BY <3>1, LocatedUntouched DEF OwnInv, NoneTwice
  <2> QED
    BY <2>1, <2>2
<1> QED
  BY <1>1, <1>2, <1>3, OwnHandle DEF Consumer

LEMMA OwnOthers ==
    ASSUME OwnInv,
           \/ UNCHANGED busVars \/ BusClose
           \/ \E p \in Publishers : EndPublisher(p)
           \/ \E s \in Subs : Subscribe(s) \/ CancelContext(s) \/ Closing(s)
    PROVE  Located' /\ NoneTwice'
<1>1. UNCHANGED <<free, src, hand, clone, ch, reading>>
  BY DEF busVars, poolVars, pubVars, subVars, conVars, BusClose, BusCancel, BusLock, BusUnlock, CloseNext,
         EndPublisher, Subscribe, CancelContext, Closing, Unregister, CloseCancel, CloseChannel
<1> QED
  BY <1>1, LocatedUntouched DEF OwnInv, NoneTwice

LEMMA OwnStep ==
    ASSUME OwnInv, BusAssumption, [BusNext]_busVars
    PROVE  OwnInv'
<1>1. BusForm'
  BY FormStep DEF OwnInv
<1>2. Located' /\ NoneTwice'
  <2>1. ASSUME NEW p \in Publishers, BeginPublish(p) \/ Publish(p) \/ \E s \in Subs : Delivery(p, s)
        PROVE  Located' /\ NoneTwice'
    BY <2>1, OwnBegin, OwnPublish, OwnDelivery
  <2>2. ASSUME NEW s \in Subs, Consumer(s)
        PROVE  Located' /\ NoneTwice'
    BY <2>2, OwnConsumer
  <2> QED
    BY <2>1, <2>2, OwnOthers DEF BusNext
<1> QED
  BY <1>1, <1>2 DEF OwnInv

\* Whatever way a publication takes, an event is in one place.
LEMMA OwnGivesOneOwner ==
    ASSUME OwnInv, BusAssumption, NEW e \in Events
    PROVE  Places(e) = 1
<1> PICK kind \in [Events -> Kinds], at \in [Events -> Publishers \union {Nothing}],
         to \in [Events -> Subs \union {Nothing}] : Where(kind, at, to)
  BY DEF OwnInv, Located
<1>1. /\ e \in free <=> kind[e] = "free"
      /\ \A p \in Publishers : src[p] = e <=> kind[e] = "source" /\ at[e] = p
      /\ \A p \in Publishers : e \in hand[p] <=> kind[e] = "hand" /\ at[e] = p
      /\ \A p \in Publishers, s \in Subs :
            clone[p][s] = e <=> kind[e] = "clone" /\ at[e] = p /\ to[e] = s
      /\ \A s \in Subs : InQueue(s, e) <=> kind[e] = "queue" /\ to[e] = s
      /\ \A s \in Subs : reading[s] = e <=> kind[e] = "reading" /\ to[e] = s
      /\ kind[e] \in {"source", "hand", "clone"} => at[e] \in Publishers
      /\ kind[e] \in {"clone", "queue", "reading"} => to[e] \in Subs
  BY DEF Where
<1> DEFINE Sources == {p \in Publishers : src[p] = e}
           Hands == {p \in Publishers : e \in hand[p]}
           Clones == {d \in Publishers \X Subs : clone[d[1]][d[2]] = e}
           Slots == {d \in Subs \X (1..BufferSize) : d[2] <= Len(ch[d[1]]) /\ ch[d[1]][d[2]] = e}
           Readers == {s \in Subs : reading[s] = e}
<1>2. Places(e) = (IF e \in free THEN 1 ELSE 0) + Cardinality(Sources) + Cardinality(Hands)
                  + Cardinality(Clones) + Cardinality(Slots) + Cardinality(Readers)
  BY DEF Places
<1>3. Cardinality({}) = 0 /\ \A x : Cardinality({x}) = 1
  BY FS_EmptySet, FS_Singleton
<1>4. \A s \in Subs : /\ Len(ch[s]) \in Nat /\ Len(ch[s]) <= BufferSize /\ BufferSize \in Nat
                      /\ \A i, j \in 1..Len(ch[s]) : ch[s][i] = ch[s][j] => i = j
  BY QueueFacts DEF OwnInv, BusForm, BusTypeOK, NoneTwice, BusAssumption
<1>5. Slots = {d \in Subs \X (1..BufferSize) : d[2] \in 1..Len(ch[d[1]]) /\ ch[d[1]][d[2]] = e}
  BY <1>4
<1>6. kind[e] # "queue" => Slots = {}
  BY <1>1, <1>5 DEF InQueue
<1>7. kind[e] = "queue" => Cardinality(Slots) = 1
  <2> SUFFICES ASSUME kind[e] = "queue" PROVE Cardinality(Slots) = 1
    OBVIOUS
  <2> PICK s \in Subs : s = to[e]
    BY <1>1
  <2> PICK i \in 1..Len(ch[s]) : ch[s][i] = e
    BY <1>1 DEF InQueue
  <2>1. <<s, i>> \in Slots
    BY <1>4
  <2>2. ASSUME NEW t \in Subs, NEW j \in 1..BufferSize, <<t, j>> \in Slots
        PROVE  t = s /\ j = i
    <3>1. j \in 1..Len(ch[t]) /\ ch[t][j] = e
      BY <1>5, <2>2
    <3>2. t = s
      BY <3>1, <1>1 DEF InQueue
    <3> QED
      BY <3>1, <3>2, <1>4
  <2>3. Slots = {<<s, i>>}
    BY <2>1, <2>2
  <2> QED
    BY <1>3, <2>3
<1>8. /\ kind[e] = "source" => Sources = {at[e]}
      /\ kind[e] # "source" => Sources = {}
      /\ kind[e] = "hand" => Hands = {at[e]}
      /\ kind[e] # "hand" => Hands = {}
      /\ kind[e] = "reading" => Readers = {to[e]}
      /\ kind[e] # "reading" => Readers = {}
      /\ kind[e] # "clone" => Clones = {}
  BY <1>1
<1>9. kind[e] = "clone" => Clones = {<<at[e], to[e]>>}
  BY <1>1
<1> HIDE DEF Sources, Hands, Clones, Slots, Readers
<1>10. /\ Cardinality(Sources) = IF kind[e] = "source" THEN 1 ELSE 0
       /\ Cardinality(Hands) = IF kind[e] = "hand" THEN 1 ELSE 0
       /\ Cardinality(Clones) = IF kind[e] = "clone" THEN 1 ELSE 0
       /\ Cardinality(Slots) = IF kind[e] = "queue" THEN 1 ELSE 0
       /\ Cardinality(Readers) = IF kind[e] = "reading" THEN 1 ELSE 0
  BY <1>3, <1>6, <1>7, <1>8, <1>9
<1>11. kind[e] \in Kinds
  OBVIOUS
<1> QED
  BY <1>1, <1>2, <1>10, <1>11 DEF Kinds

\* Whatever way a publication takes, every event has exactly one owner (Publish,
\* deliverWithRecycle, the drain of the consumer).
THEOREM EventsHaveOneOwner ==
    ASSUME BusAssumption
    PROVE  BusSpec => []OneOwner
<1>1. BusInit => OwnInv
  BY OwnInit
<1>2. OwnInv /\ [BusNext]_busVars => OwnInv'
  BY OwnStep
<1>3. OwnInv => OneOwner
  BY OwnGivesOneOwner DEF OneOwner
<1> QED
  BY <1>1, <1>2, <1>3, PTL DEF BusSpec

(* The order of one publisher's events *)

\* An event a subscription has, queued or handled, and a publication that it has
\* not got yet and may still get.
Waits(s, e) == InQueue(s, e) \/ reading[s] = e
Unsent(p, s) == ppc[p] \in {"publish", "borrow"} \/ clone[p][s] # Nothing

\* It comes from a publication that has begun, and from an earlier one than
\* the one that is due.
Numbered(s, e) ==
    /\ stamp[e][1] \in Publishers /\ stamp[e][2] \in 1..MaxPublish
    /\ stamp[e][2] <= count[stamp[e][1]]
    /\ Unsent(stamp[e][1], s) => stamp[e][2] < count[stamp[e][1]]

Before(e, d) == stamp[e][1] = stamp[d][1] => stamp[e][2] < stamp[d][2]
InOrder(s) ==
    /\ \A i, j \in 1..Len(ch[s]) : i < j => Before(ch[s][i], ch[s][j])
    /\ reading[s] # Nothing => \A i \in 1..Len(ch[s]) : Before(reading[s], ch[s][i])

SourceStamped(p) == src[p] # Nothing => stamp[src[p]] = <<p, count[p]>> /\ count[p] # 0
CloneStamped(p, s) == clone[p][s] # Nothing => stamp[clone[p][s]] = <<p, count[p]>>

Stamped ==
    /\ \A p \in Publishers : SourceStamped(p)
    /\ \A p \in Publishers, s \in Subs : CloneStamped(p, s)
    /\ \A s \in Subs, e \in Events : Waits(s, e) => Numbered(s, e)
OrderInv == Stamped /\ \A s \in Subs : InOrder(s)

LEMMA OrderInit == ASSUME BusAssumption, BusInit PROVE OrderInv
<1>1. \A s \in Subs : ch[s] = <<>> /\ reading[s] = Nothing
  BY DEF BusInit
<1>2. \A s \in Subs, e \in Events : ~Waits(s, e)
  BY <1>1, NothingApart DEF Waits, InQueue
<1>3. \A s \in Subs : InOrder(s)
  BY <1>1 DEF InOrder
<1>4. /\ \A p \in Publishers : SourceStamped(p)
      /\ \A p \in Publishers, s \in Subs : CloneStamped(p, s)
  BY DEF BusInit, SourceStamped, CloneStamped
<1> QED
  BY <1>2, <1>3, <1>4 DEF OrderInv, Stamped

\* The events in use keep their stamps.
KeepStamps ==
    /\ \A p \in Publishers : src'[p] # Nothing => stamp'[src'[p]] = stamp[src'[p]]
    /\ \A p \in Publishers, s \in Subs : clone'[p][s] # Nothing => stamp'[clone'[p][s]] = stamp[clone'[p][s]]
    /\ \A s \in Subs, e \in Events : Waits(s, e)' => stamp'[e] = stamp[e]

AllApart == \A e \in Events : Apart(e)
LEMMA OwnApart == OwnInv => AllApart /\ BusForm
BY OnePlace DEF OwnInv, AllApart

\* Only the stamps of free events are reset.
LEMMA RecycledApart ==
    ASSUME OwnInv', NEW E \in SUBSET Events, Recycle(E)
    PROVE  KeepStamps
<1>1. AllApart' /\ BusForm'
  BY OwnApart, PTL
<1>2. \A e \in Events : stamp'[e] = stamp[e] \/ e \in free'
  BY DEF Recycle
<1>3. ASSUME NEW e \in Events, e \in free'
      PROVE  FreeApart(e)'
  BY <1>1, <1>3 DEF AllApart, Apart
<1>4. ASSUME NEW p \in Publishers, src'[p] # Nothing PROVE stamp'[src'[p]] = stamp[src'[p]]
  BY <1>1, <1>2, <1>3, <1>4 DEF FreeApart, BusForm, BusTypeOK
<1>5. ASSUME NEW p \in Publishers, NEW s \in Subs, clone'[p][s] # Nothing
      PROVE  stamp'[clone'[p][s]] = stamp[clone'[p][s]]
  BY <1>1, <1>2, <1>3, <1>5 DEF FreeApart, NoClone, BusForm, BusTypeOK
<1>6. ASSUME NEW s \in Subs, NEW e \in Events, Waits(s, e)' PROVE stamp'[e] = stamp[e]
  <2>1. e \notin free'
    BY <1>3, <1>6 DEF Waits, FreeApart, NotWithSubs
  <2> QED
    BY <1>2, <2>1
<1> QED
  BY <1>4, <1>5, <1>6 DEF KeepStamps

\* No publication begins and no event is delivered.
Quiet ==
    /\ KeepStamps /\ count' = count
    /\ \A p \in Publishers : src'[p] \in {src[p], Nothing}
    /\ \A p \in Publishers, s \in Subs : clone'[p][s] \in {clone[p][s], Nothing}
    /\ \A p \in Publishers : ppc'[p] \in {"publish", "borrow"} => ppc[p] \in {"publish", "borrow"}

LEMMA QuietStamped ==
    ASSUME Stamped, Quiet, \A s \in Subs, e \in Events : Waits(s, e)' => Waits(s, e)
    PROVE  Stamped'
<1>1. ASSUME NEW p \in Publishers PROVE SourceStamped(p)'
  BY DEF Stamped, Quiet, KeepStamps, SourceStamped
<1>2. ASSUME NEW p \in Publishers, NEW s \in Subs PROVE CloneStamped(p, s)'
  BY DEF Stamped, Quiet, KeepStamps, CloneStamped
<1>3. ASSUME NEW s \in Subs, NEW e \in Events, Waits(s, e)' PROVE Numbered(s, e)'
  <2>1. Numbered(s, e) /\ stamp'[e] = stamp[e] /\ count' = count
    BY <1>3 DEF Stamped, Quiet, KeepStamps
  <2>2. \A p \in Publishers : Unsent(p, s)' => Unsent(p, s)
    BY DEF Quiet, Unsent
  <2> QED
    BY <2>1, <2>2 DEF Numbered
<1> QED
  BY <1>1, <1>2, <1>3 DEF Stamped

\* The same events wait, in the same order.
LEMMA StillInOrder ==
    ASSUME BusForm, NEW s \in Subs, InOrder(s), ch'[s] = ch[s], reading'[s] \in {reading[s], Nothing},
           \A e \in Events : Waits(s, e)' => stamp'[e] = stamp[e]
    PROVE  InOrder(s)'
<1> PICK q \in Seq(Events) : q = ch[s]
  BY DEF BusForm, BusTypeOK
<1>1. \A i \in 1..Len(q) : q[i] \in Events /\ stamp'[q[i]] = stamp[q[i]]
  BY QueueFacts DEF Waits, InQueue
<1>2. reading'[s] # Nothing => /\ reading'[s] = reading[s] /\ reading[s] \in Events
                               /\ stamp'[reading[s]] = stamp[reading[s]]
  BY DEF Waits, BusForm, BusTypeOK
<1>3. \A i, j \in 1..Len(q) : i < j => Before(q[i], q[j])'
  <2> TAKE i, j \in 1..Len(q)
  <2>1. i < j => Before(q[i], q[j])
    BY DEF InOrder
  <2> QED
    BY <1>1, <2>1 DEF Before
<1>4. ASSUME NEW i \in 1..Len(q), reading'[s] # Nothing PROVE Before(reading[s], q[i])'
  <2>1. Before(reading[s], q[i])
    BY <1>2, <1>4 DEF InOrder
  <2> QED
    BY <1>1, <1>2, <1>4, <2>1 DEF Before
<1> QED
  BY <1>3, <1>4 DEF InOrder

LEMMA QuietKeeps ==
    ASSUME BusForm, OrderInv, Quiet, ch' = ch,
           \A s \in Subs : reading'[s] \in {reading[s], Nothing}, Nothing \notin Events
    PROVE  OrderInv'
<1>1. \A s \in Subs, e \in Events : Waits(s, e)' => Waits(s, e)
  BY DEF Waits, InQueue
<1>2. \A s \in Subs : InOrder(s)'
  BY StillInOrder DEF OrderInv, Quiet, KeepStamps
<1> QED
  BY <1>1, <1>2, QuietStamped DEF OrderInv

\* The oldest leaves the channel of s, and is handled or gone.
LEMMA TailKeeps ==
    ASSUME OwnInv, BusAssumption, OrderInv, Quiet, NEW s \in Subs, ch[s] # <<>>,
           ch' = [ch EXCEPT ![s] = Tail(ch[s])],
           \A t \in Subs \ {s} : reading'[t] = reading[t],
           reading'[s] = reading[s] \/ (reading[s] = Nothing /\ reading'[s] = Head(ch[s]))
    PROVE  OrderInv'
<1>a. BusForm /\ NoneTwice
  BY DEF OwnInv
<1> PICK q \in Seq(Events), r \in Seq(Events) : q = ch[s] /\ r = Tail(q)
  BY <1>a, QueueFacts DEF BusForm, BusTypeOK
<1>1. /\ Len(q) \in Nat /\ Len(q) >= 1 /\ Len(r) = Len(q) - 1 /\ Head(q) = q[1] /\ q[1] \in Events
      /\ \A i \in 1..Len(r) : r[i] = q[i + 1]
      /\ \A i \in 1..Len(q) : q[i] \in Events
  <2>1. q # <<>> /\ Len(q) \in Nat /\ (q = <<>> <=> Len(q) = 0)
    BY QueueFacts
  <2> QED
    BY <2>1, QueueFacts
<1>2. ch'[s] = r /\ \A t \in Subs : t # s => ch'[t] = ch[t]
  BY <1>a DEF BusForm, BusTypeOK
<1>3. \A t \in Subs, e \in Events : InQueue(t, e)' => InQueue(t, e)
  BY <1>a, TailQueue
<1>4. \A t \in Subs, e \in Events : Waits(t, e)' => Waits(t, e)
  <2>1. InQueue(s, Head(ch[s]))
    BY <1>a, TailQueue
  <2> QED
    BY <1>3, <2>1 DEF Waits
<1>5. InOrder(s)'
  <2>1. \A i \in 1..Len(r) : i + 1 \in 1..Len(q) /\ r[i] = q[i + 1] /\ stamp'[r[i]] = stamp[q[i + 1]]
    <3> TAKE i \in 1..Len(r)
    <3>1. i + 1 \in 1..Len(q) /\ r[i] = q[i + 1] /\ r[i] \in Events
      BY <1>1
    <3>2. Waits(s, r[i])'
      BY <1>2 DEF Waits, InQueue
    <3> QED
      BY <3>1, <3>2 DEF Quiet, KeepStamps
  <2>2. \A i, j \in 1..Len(q) : i < j => Before(q[i], q[j])
    BY DEF OrderInv, InOrder
  <2>3. \A i, j \in 1..Len(r) : i < j => Before(r[i], r[j])'
    <3> TAKE i, j \in 1..Len(r)
    <3>1. i < j => Before(q[i + 1], q[j + 1])
      BY <1>1, <2>1, <2>2
    <3> QED
      BY <2>1, <3>1 DEF Before
  <2>4. ASSUME NEW i \in 1..Len(r), reading'[s] # Nothing
        PROVE  Before(reading[s], r[i])'
    <3> PICK x : x = reading'[s]
      OBVIOUS
    <3>1. x \in Events /\ Waits(s, x)'
      BY <1>a, <1>1, <2>4 DEF Waits, BusForm, BusTypeOK
    <3>2. stamp'[x] = stamp[x]
      BY <3>1 DEF Quiet, KeepStamps
    <3>3. Before(x, q[i + 1])
      <4>1. CASE reading'[s] = reading[s]
        BY <4>1, <2>1, <2>4 DEF OrderInv, InOrder
      <4>2. CASE x = q[1]
        BY <4>2, <1>1, <2>1, <2>2
      <4> QED
        BY <4>1, <4>2, <1>1
    <3> QED
      BY <2>1, <3>2, <3>3 DEF Before
  <2> QED
    BY <1>2, <2>3, <2>4 DEF InOrder
<1>6. ASSUME NEW t \in Subs, t # s PROVE InOrder(t)'
  BY <1>6, <1>a, <1>2, StillInOrder DEF OrderInv, Quiet, KeepStamps
<1> QED
  BY <1>4, <1>5, <1>6, QuietStamped DEF OrderInv

LEMMA OrderEndEarly ==
    ASSUME OwnInv, OwnInv', OrderInv, BusAssumption, NEW p \in Publishers, EndEarly(p),
           ppc[p] \in {"publish", "borrow"}
    PROVE  OrderInv'
<1>1. Reclaimed(p) \in SUBSET Events
  BY DEF OwnInv, BusForm, BusTypeOK, Reclaimed
<1>2. KeepStamps
  BY <1>1, RecycledApart DEF EndEarly
<1>3. Quiet
  BY <1>2 DEF Quiet, EndEarly, OwnInv, BusForm, BusTypeOK
<1>4. ch' = ch /\ reading' = reading
  BY DEF EndEarly, conVars
<1> QED
  BY <1>3, <1>4, QuietKeeps, NothingApart DEF OwnInv

\* Nothing moves between the places where events have stamps.
LEMMA OrderUntouched ==
    ASSUME OwnInv, OrderInv, BusAssumption, UNCHANGED <<stamp, count, src, clone, ch, reading>>,
           \A p \in Publishers : ppc'[p] \in {"publish", "borrow"} => ppc[p] \in {"publish", "borrow"}
    PROVE  OrderInv'
<1>1. Quiet
  BY DEF Quiet, KeepStamps
<1> QED
  BY <1>1, QuietKeeps, NothingApart DEF OwnInv

LEMMA OrderBegin ==
    ASSUME OwnInv, OrderInv, BusAssumption, NEW p \in Publishers, BeginPublish(p)
    PROVE  OrderInv'
<1>a. BusForm /\ AllApart
  BY OwnApart
<1> PICK x \in free : /\ stamp' = [stamp EXCEPT ![x] = <<p, count[p] + 1>>]
                      /\ src' = [src EXCEPT ![p] = x]
  BY DEF BeginPublish
<1>1. /\ x \in Events /\ FreeApart(x) /\ count[p] \in Nat /\ count[p] + 1 \in Nat
      /\ count \in [Publishers -> 0..MaxPublish] /\ MaxPublish \in Nat
      /\ UNCHANGED <<clone, ch, reading>>
      /\ \A q \in Publishers : /\ src'[q] = IF q = p THEN x ELSE src[q]
                              /\ count'[q] = IF q = p THEN count[p] + 1 ELSE count[q]
      /\ \A e \in Events : stamp'[e] = IF e = x THEN <<p, count[p] + 1>> ELSE stamp[e]
      /\ \A q \in Publishers : q # p => ppc'[q] = ppc[q]
  <2>1. x \in Events /\ FreeApart(x)
    BY <1>a DEF BusForm, BusTypeOK, AllApart, Apart
  <2>2. count \in [Publishers -> 0..MaxPublish] /\ MaxPublish \in Nat
    BY <1>a DEF BusForm, BusTypeOK, BusAssumption
  <2>3. UNCHANGED <<clone, ch, reading>>
    BY DEF BeginPublish, conVars
  <2>4. \A q \in Publishers : /\ src'[q] = IF q = p THEN x ELSE src[q]
                              /\ q # p => ppc'[q] = ppc[q]
    <3>1. ppc' = [ppc EXCEPT ![p] = "publish"]
      BY DEF BeginPublish
    <3>2. /\ src \in [Publishers -> Events \union {Nothing}]
          /\ ppc \in [Publishers -> {"idle", "publish", "borrow", "dispatch", "panicked"}]
      BY <1>a DEF BusForm, BusTypeOK
    <3> QED
      BY <3>1, <3>2
  <2>5. \A q \in Publishers : count'[q] = IF q = p THEN count[p] + 1 ELSE count[q]
    BY <2>2 DEF BeginPublish
  <2>6. \A e \in Events : stamp'[e] = IF e = x THEN <<p, count[p] + 1>> ELSE stamp[e]
    BY <1>a DEF BusForm, BusTypeOK
  <2> QED
    BY <2>1, <2>2, <2>3, <2>4, <2>5, <2>6
<1>2. ASSUME NEW q \in Publishers PROVE SourceStamped(q)'
  <2>1. SourceStamped(q)
    BY DEF OrderInv, Stamped
  <2> QED
    BY <1>a, <1>1, <2>1 DEF SourceStamped, FreeApart, BusForm, BusTypeOK
<1>3. ASSUME NEW q \in Publishers, NEW s \in Subs PROVE CloneStamped(q, s)'
  <2>1. CloneStamped(q, s)
    BY DEF OrderInv, Stamped
  <2>2. q = p => clone[q][s] = Nothing
    BY <1>a DEF BeginPublish, BusForm
  <2> QED
    BY <1>a, <1>1, <2>1, <2>2 DEF CloneStamped, FreeApart, NoClone, BusForm, BusTypeOK
<1>4. \A s \in Subs, e \in Events : Waits(s, e)' => Waits(s, e) /\ stamp'[e] = stamp[e]
  BY <1>1 DEF Waits, InQueue, FreeApart, NotWithSubs
<1>5. ASSUME NEW s \in Subs, NEW e \in Events, Waits(s, e)' PROVE Numbered(s, e)'
  <2>1. Numbered(s, e) /\ stamp'[e] = stamp[e]
    BY <1>4, <1>5 DEF OrderInv, Stamped
  <2>2. \A q \in Publishers : q # p => (Unsent(q, s)' <=> Unsent(q, s)) /\ count'[q] = count[q]
    BY <1>1 DEF Unsent
  <2>3. count'[p] = count[p] + 1
    BY <1>1
  <2> QED
    BY <1>1, <2>1, <2>2, <2>3 DEF Numbered
<1>6. \A s \in Subs : InOrder(s)'
  BY <1>a, <1>1, <1>4, StillInOrder DEF OrderInv
<1> QED
  BY <1>2, <1>3, <1>5, <1>6 DEF OrderInv, Stamped

LEMMA OrderDispatch ==
    ASSUME OwnInv, OrderInv, BusAssumption, NEW p \in Publishers, Dispatch(p)
    PROVE  OrderInv'
<1>a. BusForm /\ AllApart
  BY OwnApart
<1> PICK f \in [snap[p] -> hand[p]] :
        clone' = [clone EXCEPT ![p] = [s \in Subs |-> IF s \in snap[p] THEN f[s] ELSE Nothing]]
  BY <1>a, DispatchTyped
<1>1. /\ snap[p] \in SUBSET Subs /\ hand[p] \in SUBSET Events
      /\ UNCHANGED <<count, src, ch, reading>> /\ ppc[p] = "borrow" /\ src[p] # Nothing
      /\ \A q \in Publishers : ppc'[q] = IF q = p THEN "dispatch" ELSE ppc[q]
      /\ \A e \in Events : stamp'[e] = IF e \in hand[p] THEN stamp[src[p]] ELSE stamp[e]
  BY <1>a DEF Dispatch, BusForm, BusTypeOK, conVars
<1>2. \A q \in Publishers, s \in Subs :
         clone'[q][s] = IF q # p THEN clone[q][s] ELSE IF s \in snap[p] THEN f[s] ELSE Nothing
  BY <1>a DEF BusForm, BusTypeOK
<1>3. \A e \in hand[p] : HandApart(p, e)
  BY <1>a, <1>1 DEF AllApart, Apart
<1>4. ASSUME NEW q \in Publishers PROVE SourceStamped(q)'
  <2>1. SourceStamped(q) /\ src[q] \in Events \union {Nothing}
    BY <1>a DEF OrderInv, Stamped, BusForm, BusTypeOK
  <2>2. src[q] # Nothing => stamp'[src[q]] = stamp[src[q]]
    BY <1>1, <1>3, <2>1 DEF HandApart
  <2> QED
    BY <1>1, <2>1, <2>2 DEF SourceStamped
<1>5. ASSUME NEW q \in Publishers, NEW s \in Subs PROVE CloneStamped(q, s)'
  <2>1. CASE q = p /\ s \in snap[p]
    <3>1. clone'[q][s] \in hand[p]
      BY <1>2, <2>1
    <3>2. stamp[src[p]] = <<p, count[p]>>
      BY <1>1 DEF OrderInv, Stamped, SourceStamped
    <3> QED
      BY <1>1, <2>1, <3>1, <3>2 DEF CloneStamped
  <2>2. CASE q = p /\ s \notin snap[p]
    BY <1>2, <2>2 DEF CloneStamped
  <2>3. CASE q # p
    <3>1. CloneStamped(q, s) /\ clone[q][s] \in Events \union {Nothing}
      BY <1>a DEF OrderInv, Stamped, BusForm, BusTypeOK
    <3>2. clone[q][s] # Nothing => stamp'[clone[q][s]] = stamp[clone[q][s]]
      BY <1>1, <1>3, <3>1 DEF HandApart, NoClone
    <3>3. clone'[q][s] = clone[q][s]
      BY <1>2, <2>3
    <3> QED
      BY <1>1, <3>1, <3>2, <3>3 DEF CloneStamped
  <2> QED
    BY <2>1, <2>2, <2>3
<1>6. \A s \in Subs, e \in Events : Waits(s, e)' => Waits(s, e) /\ stamp'[e] = stamp[e]
  BY <1>1, <1>3 DEF Waits, InQueue, HandApart, NotWithSubs
<1>7. ASSUME NEW s \in Subs, NEW e \in Events, Waits(s, e)' PROVE Numbered(s, e)'
  <2>1. Numbered(s, e) /\ stamp'[e] = stamp[e]
    BY <1>6, <1>7 DEF OrderInv, Stamped
  <2>2. \A q \in Publishers : Unsent(q, s)' => Unsent(q, s)
    BY <1>1, <1>2 DEF Unsent
  <2> QED
    BY <1>1, <2>1, <2>2 DEF Numbered
<1>8. \A s \in Subs : InOrder(s)'
  BY <1>a, <1>1, <1>6, StillInOrder DEF OrderInv
<1> QED
  BY <1>4, <1>5, <1>7, <1>8 DEF OrderInv, Stamped

LEMMA OrderFinish ==
    ASSUME OwnInv, OwnInv', OrderInv, BusAssumption, NEW p \in Publishers, Finish(p)
    PROVE  OrderInv'
<1>a. BusForm
  BY DEF OwnInv
<1>1. CASE ~(\A s \in Subs : dpc[p][s] = "none")
  <2>1. /\ UNCHANGED <<stamp, count, src, clone, ch, reading>>
        /\ ppc' = [ppc EXCEPT ![p] = "panicked"]
    BY <1>1 DEF Finish, poolVars, conVars
  <2>2. \A q \in Publishers : ppc'[q] \in {"publish", "borrow"} => ppc[q] \in {"publish", "borrow"}
    BY <1>a, <2>1 DEF BusForm, BusTypeOK
  <2> QED
    BY <2>1, <2>2, OrderUntouched
<1>2. CASE \A s \in Subs : dpc[p][s] = "none"
  <2>1. /\ Recycle(Spent(p)) /\ src' = [src EXCEPT ![p] = Nothing]
        /\ ppc' = [ppc EXCEPT ![p] = "idle"] /\ UNCHANGED <<count, clone, ch, reading>>
    BY <1>2 DEF Finish, conVars
  <2>2. Spent(p) \in SUBSET Events
    BY <1>a DEF Finish, Spent, BusForm, BusTypeOK
  <2>3. KeepStamps
    BY <2>1, <2>2, RecycledApart
  <2>4. Quiet
    BY <1>a, <2>1, <2>3 DEF Quiet, BusForm, BusTypeOK
  <2> QED
    BY <1>a, <2>1, <2>4, QuietKeeps, NothingApart
<1> QED
  BY <1>1, <1>2

LEMMA OrderPublish ==
    ASSUME OwnInv, OwnInv', OrderInv, BusAssumption, NEW p \in Publishers, Publish(p)
    PROVE  OrderInv'
<1>1. CASE Snapshot(p)
  <2>1. CASE EndEarly(p)
    BY <1>1, <2>1, OrderEndEarly DEF Snapshot
  <2>2. CASE ~EndEarly(p)
    <3>1. /\ UNCHANGED <<stamp, count, src, clone, ch, reading>> /\ ppc[p] = "publish"
          /\ ppc' = [ppc EXCEPT ![p] = "borrow"]
      BY <1>1, <2>2 DEF Snapshot, poolVars, conVars
    <3>2. \A q \in Publishers : ppc'[q] \in {"publish", "borrow"} => ppc[q] \in {"publish", "borrow"}
      BY <3>1 DEF OwnInv, BusForm, BusTypeOK
    <3> QED
      BY <3>1, <3>2, OrderUntouched
  <2> QED
    BY <2>1, <2>2
<1>2. CASE BorrowClone(p)
  <2>1. UNCHANGED <<stamp, ppc, count, src, clone, ch, reading>>
    BY <1>2 DEF BorrowClone, conVars
  <2> QED
    BY <2>1, OrderUntouched
<1> QED
  BY <1>1, <1>2, OrderEndEarly, OrderDispatch, OrderFinish DEF Publish, Reject, CloneFails

LEMMA OrderUndelivered ==
    ASSUME OwnInv, OwnInv', OrderInv, BusAssumption, NEW p \in Publishers, NEW s \in Subs,
           dpc[p][s] # "none", Undelivered(p, s)
    PROVE  OrderInv'
<1>a. BusForm
  BY DEF OwnInv
<1>1. {clone[p][s]} \in SUBSET Events
  BY <1>a DEF BusForm, BusTypeOK
<1>2. KeepStamps
  BY <1>1, RecycledApart DEF Undelivered
<1>3. UNCHANGED <<ppc, count, src, ch, reading>> /\ clone' = [clone EXCEPT ![p][s] = Nothing]
  BY DEF Undelivered, StillThere, conVars
<1>4. \A q \in Publishers, t \in Subs : clone'[q][t] \in {clone[q][t], Nothing}
  BY <1>a, <1>3 DEF BusForm, BusTypeOK
<1>5. Quiet
  BY <1>2, <1>3, <1>4 DEF Quiet
<1> QED
  BY <1>a, <1>3, <1>5, QuietKeeps, NothingApart

\* What is sent comes from the latest publication, which nothing that waits does.
LEMMA OrderSent ==
    ASSUME OwnInv, OrderInv, BusAssumption, NEW p \in Publishers, NEW s \in Subs,
           dpc[p][s] # "none", Sent(p, s)
    PROVE  OrderInv'
<1>a. BusForm /\ AllApart /\ NoneTwice /\ Stamped
  BY OwnApart DEF OwnInv, OrderInv
<1> PICK x : x = clone[p][s]
  OBVIOUS
<1>1. /\ x \in Events /\ x # Nothing /\ CloneApart(p, s, x)
      /\ stamp[x] = <<p, count[p]>> /\ count[p] \in 1..MaxPublish /\ Unsent(p, s)
  <2>1. x \in Events /\ x # Nothing /\ src[p] # Nothing
    <3>1. x # Nothing /\ ppc[p] \in {"dispatch", "panicked"}
      BY <1>a DEF BusForm
    <3>2. src[p] # Nothing
      BY <1>a, <3>1 DEF BusForm
    <3> QED
      BY <1>a, <3>1, <3>2 DEF BusForm, BusTypeOK
  <2>2. stamp[x] = <<p, count[p]>> /\ count[p] # 0
    BY <1>a, <2>1 DEF Stamped, SourceStamped, CloneStamped
  <2>3. count[p] \in 0..MaxPublish /\ MaxPublish \in Nat
    BY <1>a DEF BusForm, BusTypeOK, BusAssumption
  <2> QED
    BY <1>a, <2>1, <2>2, <2>3 DEF AllApart, Apart, Unsent
<1>2. /\ UNCHANGED <<stamp, ppc, count, src, reading>>
      /\ ch' = [ch EXCEPT ![s] = Append(ch[s], x)]
  BY DEF Sent, Queued, poolVars, StillThere, conVars
<1>3. \A q \in Publishers, t \in Subs : clone'[q][t] = IF q = p /\ t = s THEN Nothing ELSE clone[q][t]
  BY <1>a DEF Sent, BusForm, BusTypeOK
<1>4. \A t \in Subs, e \in Events : InQueue(t, e)' <=> InQueue(t, e) \/ (t = s /\ e = x)
  BY <1>a, <1>1, <1>2, AppendQueue DEF CloneApart, NotWithSubs
<1>5. /\ \A q \in Publishers : SourceStamped(q)'
      /\ \A q \in Publishers, t \in Subs : CloneStamped(q, t)'
  BY <1>a, <1>2, <1>3 DEF Stamped, SourceStamped, CloneStamped
<1>6. ASSUME NEW t \in Subs, NEW e \in Events, Waits(t, e)' PROVE Numbered(t, e)'
  <2>1. \A q \in Publishers : Unsent(q, t)' => Unsent(q, t) /\ ~(q = p /\ t = s)
    BY <1>2, <1>3, <1>a DEF Unsent, BusForm
  <2>2. CASE Waits(t, e)
    BY <1>a, <1>2, <2>1, <2>2 DEF Stamped, Numbered
  <2>3. CASE ~Waits(t, e)
    <3>1. t = s /\ e = x
      BY <1>2, <1>4, <1>6, <2>3 DEF Waits
    <3> QED
      BY <1>1, <1>2, <2>1, <3>1 DEF Numbered
  <2> QED
    BY <2>2, <2>3
<1>7. ASSUME NEW e \in Events, Waits(s, e) PROVE Before(e, x)
  BY <1>a, <1>1, <1>7 DEF Stamped, Numbered, Before
<1>8. InOrder(s)'
  <2> PICK q \in Seq(Events), r \in Seq(Events) : q = ch[s] /\ r = Append(q, x)
    BY <1>a, <1>1, QueueFacts DEF BusForm, BusTypeOK
  <2>1. /\ Len(q) \in Nat /\ Len(r) = Len(q) + 1 /\ r[Len(q) + 1] = x
        /\ \A i \in 1..Len(q) : r[i] = q[i] /\ q[i] \in Events
    BY <1>1, QueueFacts
  <2>2. ch'[s] = r
    BY <1>a, <1>2 DEF BusForm, BusTypeOK
  <2>3. \A i \in 1..Len(r) : (i \in 1..Len(q) /\ r[i] = q[i] /\ Waits(s, r[i])) \/ (i = Len(q) + 1 /\ r[i] = x)
    BY <2>1 DEF Waits, InQueue
  <2>4. ASSUME NEW i \in 1..Len(r), NEW j \in 1..Len(r), i < j PROVE Before(r[i], r[j])
    <3>1. i \in 1..Len(q) /\ r[i] = q[i] /\ Waits(s, r[i])
      BY <2>1, <2>3, <2>4
    <3>2. CASE j = Len(q) + 1
      BY <1>7, <2>1, <3>1, <3>2
    <3>3. CASE j \in 1..Len(q)
      BY <2>1, <2>4, <3>1, <3>3 DEF OrderInv, InOrder
    <3> QED
      BY <2>1, <3>2, <3>3
  <2>5. ASSUME NEW i \in 1..Len(r), reading[s] # Nothing PROVE Before(reading[s], r[i])
    <3>1. reading[s] \in Events /\ Waits(s, reading[s])
      BY <1>a, <2>5 DEF Waits, BusForm, BusTypeOK
    <3> QED
      BY <1>7, <2>3, <2>5, <3>1 DEF OrderInv, InOrder
  <2>6. \A i, j \in 1..Len(r) : i < j => Before(r[i], r[j])'
    <3> TAKE i, j \in 1..Len(r)
    <3>1. i < j => Before(r[i], r[j])
      BY <2>4
    <3> QED
      BY <1>2, <3>1 DEF Before
  <2>7. reading'[s] # Nothing => \A i \in 1..Len(r) : Before(reading[s], r[i])'
    BY <1>2, <2>5 DEF Before
  <2> QED
    BY <2>2, <2>6, <2>7 DEF InOrder
<1>9. ASSUME NEW t \in Subs, t # s PROVE InOrder(t)'
  <2>1. ch'[t] = ch[t] /\ reading'[t] = reading[t]
    BY <1>a, <1>2, <1>9 DEF BusForm, BusTypeOK
  <2> QED
    BY <1>a, <1>2, <2>1, StillInOrder DEF OrderInv
<1> QED
  BY <1>5, <1>6, <1>8, <1>9 DEF OrderInv, Stamped

LEMMA OrderMoves ==
    ASSUME OwnInv, OrderInv, BusAssumption, NEW p \in Publishers, NEW s \in Subs, NEW pc, To(p, s, pc),
           UNCHANGED <<poolVars, clone, err, ch>>, StillThere
    PROVE  OrderInv'
<1>1. UNCHANGED <<stamp, ppc, count, src, clone, ch, reading>>
  BY DEF poolVars, StillThere, conVars
<1> QED
  BY <1>1, OrderUntouched

LEMMA OrderTail ==
    ASSUME OwnInv, OwnInv', OrderInv, BusAssumption, NEW s \in Subs, ch[s] # <<>>,
           Recycle({Head(ch[s])}), ch' = [ch EXCEPT ![s] = Tail(ch[s])],
           UNCHANGED <<ppc, count, src, clone, reading>>
    PROVE  OrderInv'
<1>1. {Head(ch[s])} \in SUBSET Events
  BY TailQueue DEF OwnInv
<1>2. KeepStamps
  BY <1>1, RecycledApart
<1>3. Quiet
  BY <1>2 DEF Quiet
<1> QED
  BY <1>3, TailKeeps

LEMMA OrderDelivery ==
    ASSUME OwnInv, OwnInv', OrderInv, BusAssumption, NEW p \in Publishers, NEW s \in Subs, Delivery(p, s)
    PROVE  OrderInv'
<1>1. dpc[p][s] # "none"
  BY DEF Delivery, StartDelivery, Select, DropOldest, Retry
<1>2. CASE StartDelivery(p, s)
  BY <1>1, <1>2, OrderUndelivered, OrderMoves DEF StartDelivery
<1>3. CASE Select(p, s)
  BY <1>1, <1>3, OrderUndelivered, OrderSent, OrderMoves DEF Select, SendPanics
<1>4. CASE DropOldest(p, s)
  <2>1. CASE ch[s] = <<>>
    <3>1. UNCHANGED <<stamp, ppc, count, src, clone, ch, reading>>
      BY <1>4, <2>1 DEF DropOldest, poolVars, StillThere, conVars
    <3> QED
      BY <3>1, OrderUntouched
  <2>2. CASE ch[s] # <<>>
    <3>1. /\ Recycle({Head(ch[s])}) /\ ch' = [ch EXCEPT ![s] = Tail(ch[s])]
          /\ UNCHANGED <<ppc, count, src, clone, reading>>
      BY <1>4, <2>2 DEF DropOldest, Discarded, StillThere, conVars
    <3> QED
      BY <2>2, <3>1, OrderTail
  <2> QED
    BY <2>1, <2>2
<1>5. CASE Retry(p, s)
  BY <1>1, <1>5, OrderUndelivered, OrderSent, OrderMoves DEF Retry, SendPanics
<1> QED
  BY <1>2, <1>3, <1>4, <1>5 DEF Delivery

LEMMA OrderConsumer ==
    ASSUME OwnInv, OwnInv', OrderInv, BusAssumption, NEW s \in Subs, Consumer(s)
    PROVE  OrderInv'
<1>a. BusForm
  BY DEF OwnInv
<1>1. UNCHANGED <<ppc, count, src, clone>>
  BY DEF Consumer, Consume, Handle, StopConsuming, Drain, pubVars
<1>2. CASE Consume(s) /\ ch[s] # <<>>
  <2>1. /\ reading[s] = Nothing /\ reading' = [reading EXCEPT ![s] = Head(ch[s])]
        /\ ch' = [ch EXCEPT ![s] = Tail(ch[s])] /\ stamp' = stamp
    BY <1>2 DEF Consume, poolVars
  <2>2. Quiet
    BY <1>1, <2>1 DEF Quiet, KeepStamps
  <2>3. /\ \A t \in Subs \ {s} : reading'[t] = reading[t]
        /\ reading'[s] = Head(ch[s])
    BY <1>a, <2>1 DEF BusForm, BusTypeOK
  <2> QED
    BY <1>2, <2>1, <2>2, <2>3, TailKeeps
<1>3. CASE Handle(s)
  <2>1. /\ Recycle({reading[s]}) /\ reading' = [reading EXCEPT ![s] = Nothing] /\ ch' = ch
        /\ reading[s] # Nothing
    BY <1>3 DEF Handle
  <2>2. {reading[s]} \in SUBSET Events
    BY <1>a, <2>1 DEF BusForm, BusTypeOK
  <2>3. KeepStamps
    BY <2>1, <2>2, RecycledApart
  <2>4. Quiet
    BY <1>1, <2>3 DEF Quiet
  <2>5. \A t \in Subs : reading'[t] \in {reading[t], Nothing}
    BY <1>a, <2>1 DEF BusForm, BusTypeOK
  <2> QED
    BY <1>a, <2>1, <2>4, <2>5, QuietKeeps, NothingApart
<1>4. CASE Drain(s) /\ ch[s] # <<>>
  <2>1. Recycle({Head(ch[s])}) /\ ch' = [ch EXCEPT ![s] = Tail(ch[s])] /\ reading' = reading
    BY <1>4 DEF Drain
  <2> QED
    BY <1>1, <1>4, <2>1, OrderTail
<1>5. CASE StopConsuming(s) \/ ((Consume(s) \/ Drain(s)) /\ ch[s] = <<>>)
  <2>1. UNCHANGED <<stamp, ch, reading>>
    BY <1>5 DEF Consume, StopConsuming, Drain, poolVars
  <2> QED
    BY <1>1, <2>1, OrderUntouched
<1> QED
  BY <1>2, <1>3, <1>4, <1>5 DEF Consumer

LEMMA OrderOthers ==
    ASSUME OwnInv, OrderInv, BusAssumption,
           \/ UNCHANGED busVars \/ BusClose
           \/ \E p \in Publishers : EndPublisher(p)
           \/ \E s \in Subs : Subscribe(s) \/ CancelContext(s) \/ Closing(s)
    PROVE  OrderInv'
<1>1. UNCHANGED <<stamp, ppc, count, src, clone, ch, reading>>
  BY DEF busVars, poolVars, pubVars, subVars, conVars, BusClose, BusCancel, BusLock, BusUnlock, CloseNext,
         EndPublisher, Subscribe, CancelContext, Closing, Unregister, CloseCancel, CloseChannel
<1> QED
  BY <1>1, OrderUntouched

LEMMA OrderStep ==
    ASSUME OwnInv, OwnInv', OrderInv, BusAssumption, [BusNext]_busVars
    PROVE  OrderInv'
<1>1. ASSUME NEW p \in Publishers, BeginPublish(p) \/ Publish(p) \/ \E s \in Subs : Delivery(p, s)
      PROVE  OrderInv'
  BY <1>1, OrderBegin, OrderPublish, OrderDelivery
<1>2. ASSUME NEW s \in Subs, Consumer(s)
      PROVE  OrderInv'
  BY <1>2, OrderConsumer
<1> QED
  BY <1>1, <1>2, OrderOthers DEF BusNext

\* The events before a consumer are in order, the one it handles first.
LEMMA OrderGivesPublisherOrder ==
    ASSUME OwnInv, OrderInv
    PROVE  PublisherOrder
<1> SUFFICES ASSUME NEW s \in Subs, NEW i \in DOMAIN Coming(s), NEW j \in DOMAIN Coming(s), i < j
             PROVE  Before(Coming(s)[i], Coming(s)[j])
  BY DEF PublisherOrder, Before
<1> PICK q \in Seq(Events) : q = ch[s]
  BY DEF OwnInv, BusForm, BusTypeOK
<1>1. InOrder(s)
  BY DEF OrderInv
<1>2. CASE reading[s] = Nothing
  <2>1. Coming(s) = q /\ DOMAIN q = 1..Len(q)
    BY <1>2 DEF Coming
  <2> QED
    BY <1>1, <2>1 DEF InOrder
<1>3. CASE reading[s] # Nothing
  <2>1. reading[s] \in Events
    BY <1>3 DEF OwnInv, BusForm, BusTypeOK
  <2> DEFINE first == <<reading[s]>>
  <2>a. first \in Seq(Events) /\ Len(first) = 1 /\ first[1] = reading[s]
    BY <2>1
  <2> HIDE DEF first
  <2> DEFINE c == first \o q
  <2>2. /\ Len(c) = Len(q) + 1 /\ c[1] = reading[s] /\ Len(q) \in Nat
        /\ \A k \in 2..Len(c) : c[k] = q[k - 1]
        /\ DOMAIN c = 1..Len(c)
    <3>1. Len(q) \in Nat
      OBVIOUS
    <3>2. /\ Len(c) = 1 + Len(q) /\ DOMAIN c = 1..(1 + Len(q))
          /\ \A k \in 1..(1 + Len(q)) : c[k] = IF k <= 1 THEN first[k] ELSE q[k - 1]
      BY <2>a, ConcatFacts
    <3> HIDE DEF c
    <3> QED
      BY <2>a, <3>1, <3>2
  <2>3. Coming(s) = c
    BY <1>3 DEF Coming, first
  <2> HIDE DEF c
  <2>4. i \in 1..Len(c) /\ j \in 2..Len(c) /\ j - 1 \in 1..Len(q)
    BY <2>2, <2>3
  <2>5. CASE i = 1
    BY <1>1, <1>3, <2>2, <2>3, <2>4, <2>5 DEF InOrder
  <2>6. CASE i # 1
    <3>1. i \in 2..Len(c) /\ i - 1 \in 1..Len(q) /\ i - 1 < j - 1
      BY <2>2, <2>4, <2>6
    <3>2. c[i] = q[i - 1] /\ c[j] = q[j - 1]
      BY <2>2, <2>4, <3>1
    <3>3. Before(q[i - 1], q[j - 1])
      BY <1>1, <2>4, <3>1 DEF InOrder
    <3> QED
      BY <2>3, <3>2, <3>3
  <2> QED
    BY <2>5, <2>6
<1> QED
  BY <1>2, <1>3

\* A consumer sees the events of one publisher in the order they were published
\* (deliverWithRecycle, which drops the oldest, and consume).
THEOREM PublishersKeepOrder ==
    ASSUME BusAssumption
    PROVE  BusSpec => []PublisherOrder
<1>1. BusInit => OwnInv /\ OrderInv
  BY OwnInit, OrderInit
<1>2. OwnInv /\ [BusNext]_busVars => OwnInv'
  BY OwnStep
<1>3. OwnInv /\ OwnInv' /\ OrderInv /\ [BusNext]_busVars => OrderInv'
  BY OrderStep
<1>4. OwnInv /\ OrderInv => PublisherOrder
  BY OrderGivesPublisherOrder
<1> QED
  BY <1>1, <1>2, <1>3, <1>4, PTL DEF BusSpec

-------------------------------------------------------------------------------
(* The durable bus *)

USE OutboxAssumption
USE DEF tableVars, workerVars, vars

\* The parts of OutboxInv that every lemma below establishes one by one.
RowInv == \A r \in Rows :
    /\ pub[r] = "new" => status[r] = "none"
    /\ pub[r] \in {"stored", "accepted", "failed"} => status[r] # "none"
    /\ pub[r] = "accepted" => r \in accepted
    /\ status[r] = "delivered" => r \in accepted

HoldInv == \A g \in Gateways :
    /\ \A r \in batch[g] : status[r] # "none"
    /\ wpc[g] # "idle" => cur[g] \in Rows /\ status[cur[g]] # "none"
    /\ wpc[g] = "accepted" => cur[g] \in accepted

LEMMA Parts ==
    /\ OutboxInv => TypeOK /\ OkMeansDelivered /\ RowInv /\ HoldInv
    /\ TypeOK' /\ OkMeansDelivered' /\ RowInv' /\ HoldInv' => OutboxInv'
BY DEF OutboxInv, RowInv, HoldInv

LEMMA OutboxInit == Init => OutboxInv
<1> SUFFICES ASSUME Init PROVE OutboxInv
  OBVIOUS
<1>1. TypeOK
  BY FS_EmptySet DEF Init, TypeOK
<1> QED
  BY <1>1 DEF Init, OutboxInv, OkMeansDelivered

-------------------------------------------------------------------------------
(* Live publication *)

LEMMA FaultType ==
    ASSUME TypeOK, Fault \/ NoFault
    PROVE  faults' \in 0..MaxFaults
BY DEF TypeOK, Fault, NoFault

LEMMA EnqueueInv ==
    ASSUME OutboxInv, NEW r \in Rows, Refuse(r) \/ Enqueue(r)
    PROVE  OutboxInv'
<1>1. faults' \in 0..MaxFaults
  BY FaultType DEF OutboxInv, Refuse, Enqueue
<1>2. TypeOK'
  BY <1>1 DEF OutboxInv, TypeOK, Refuse, Enqueue, Insert
<1>3. OkMeansDelivered' /\ RowInv' /\ HoldInv'
  BY Parts DEF TypeOK, OkMeansDelivered, RowInv, HoldInv, Refuse, Enqueue, Insert
<1> QED
  BY <1>2, <1>3, Parts

LEMMA PublishLiveInv ==
    ASSUME OutboxInv, NEW r \in Rows, PublishLive(r)
    PROVE  OutboxInv'
<1>1. faults' \in 0..MaxFaults
  BY FaultType DEF OutboxInv, PublishLive
<1>2. TypeOK'
  BY <1>1 DEF OutboxInv, TypeOK, PublishLive, Accept, AfterFailure
<1>3. OkMeansDelivered' /\ RowInv' /\ HoldInv'
  BY Parts DEF TypeOK, OkMeansDelivered, RowInv, HoldInv, PublishLive, Accept, AfterFailure
<1> QED
  BY <1>2, <1>3, Parts

\* ResetEventForRetry and MarkEventDelivered keep what the parts say; only rows
\* that are accepted may be delivered, and a delivered row is left alone.
LEMMA ResetType ==
    ASSUME TypeOK, NEW r \in Rows, ResetForRetry(r)
    PROVE  /\ status' \in [Rows -> {"none", "pending", "processing", "delivered"}]
           /\ wait' \in [Rows -> 0..RetryDelay]
           /\ age' \in [Rows -> 0..(Lease + 1)]
           /\ \A x \in Rows : /\ (status'[x] = "none") = (status[x] = "none")
                               /\ (status'[x] = "delivered") = (status[x] = "delivered")
<1>1. CASE ~Retryable(r)
  BY <1>1 DEF TypeOK, ResetForRetry
<1>2. CASE Retryable(r)
  BY <1>2 DEF TypeOK, ResetForRetry, Retryable
<1> QED
  BY <1>1, <1>2

LEMMA DeliveredType ==
    ASSUME TypeOK, NEW r \in Rows, Delivered(r)
    PROVE  /\ status' \in [Rows -> {"none", "pending", "processing", "delivered"}]
           /\ wait' \in [Rows -> 0..RetryDelay]
           /\ age' \in [Rows -> 0..(Lease + 1)]
           /\ status'[r] = "delivered"
           /\ \A x \in Rows \ {r} : status'[x] = status[x]
BY DEF TypeOK, Delivered

LEMMA FailLiveInv ==
    ASSUME OutboxInv, NEW r \in Rows, FailLive(r)
    PROVE  OutboxInv'
<1>1. faults' \in 0..MaxFaults
  BY FaultType DEF OutboxInv, FailLive
<1>2. CASE ResetForRetry(r)
  <2>1. TypeOK'
    BY <1>1, <1>2, ResetType DEF OutboxInv, TypeOK, FailLive
  <2>2. OkMeansDelivered' /\ RowInv' /\ HoldInv'
    BY <1>2, ResetType, Parts DEF TypeOK, OkMeansDelivered, RowInv, HoldInv, FailLive
  <2> QED
    BY <2>1, <2>2, Parts
<1>3. CASE UNCHANGED tableVars
  <2>1. TypeOK'
    BY <1>1, <1>3 DEF OutboxInv, TypeOK, FailLive
  <2>2. OkMeansDelivered' /\ RowInv' /\ HoldInv'
    BY <1>3, Parts DEF TypeOK, OkMeansDelivered, RowInv, HoldInv, FailLive
  <2> QED
    BY <2>1, <2>2, Parts
<1> QED
  BY <1>2, <1>3 DEF FailLive

LEMMA SettleLiveInv ==
    ASSUME OutboxInv, NEW r \in Rows, SettleLive(r)
    PROVE  OutboxInv'
<1>1. faults' \in 0..MaxFaults
  BY FaultType DEF OutboxInv, SettleLive
<1>2. CASE Delivered(r)
  <2>1. TypeOK'
    BY <1>1, <1>2, DeliveredType DEF OutboxInv, TypeOK, SettleLive
  <2>2. OkMeansDelivered' /\ RowInv' /\ HoldInv'
    BY <1>2, DeliveredType, Parts DEF TypeOK, OkMeansDelivered, RowInv, HoldInv, SettleLive
  <2> QED
    BY <2>1, <2>2, Parts
<1>3. CASE UNCHANGED tableVars /\ pub' = [pub EXCEPT ![r] = "error"]
  <2>1. TypeOK'
    BY <1>1, <1>3 DEF OutboxInv, TypeOK, SettleLive
  <2>2. OkMeansDelivered' /\ RowInv' /\ HoldInv'
    BY <1>3, Parts DEF TypeOK, OkMeansDelivered, RowInv, HoldInv, SettleLive
  <2> QED
    BY <2>1, <2>2, Parts
<1> QED
  BY <1>2, <1>3 DEF SettleLive

-------------------------------------------------------------------------------
(* The replay worker *)

LEMMA ClaimInv ==
    ASSUME OutboxInv, NEW g \in Gateways, Claim(g)
    PROVE  OutboxInv'
<1>1. faults' \in 0..MaxFaults
  BY FaultType DEF OutboxInv, Claim
<1> PICK S \in (SUBSET Claimable) \ {{}} :
       /\ WithinLimit(S) /\ Claimed(S)
       /\ batch' = [batch EXCEPT ![g] = S] \/ UNCHANGED batch
  BY DEF Claim
<1>2. /\ S \subseteq Rows
      /\ \A r \in S : status[r] \in {"pending", "processing"}
      /\ Cardinality(S) <= Batch
  BY DEF Claimable, Lapsed, WithinLimit
<1>3. TypeOK'
  <2>1. \A h \in Gateways : Cardinality(batch'[h]) <= Batch
    BY <1>2 DEF OutboxInv, TypeOK
  <2>2. batch' \in [Gateways -> SUBSET Rows]
    BY <1>2 DEF OutboxInv, TypeOK
  <2>3. age' \in [Rows -> 0..(Lease + 1)]
    BY <1>2 DEF OutboxInv, TypeOK, Claimed
  <2>4. status' \in [Rows -> {"none", "pending", "processing", "delivered"}] /\ wait' = wait
    BY <1>2 DEF OutboxInv, TypeOK, Claimed
  <2>5. UNCHANGED <<cur, wpc, pub, gate, accepted>>
    BY DEF OutboxInv, TypeOK, Claim
  <2> QED
    BY <1>1, <2>1, <2>2, <2>3, <2>4, <2>5 DEF OutboxInv, TypeOK
<1>4. UNCHANGED <<cur, wpc, pub, accepted>>
  BY DEF Claim
<1>5. ASSUME NEW r \in Rows
      PROVE  /\ status[r] = "none" <=> status'[r] = "none"
             /\ status[r] = "delivered" <=> status'[r] = "delivered"
  <2>1. status'[r] = IF r \in S THEN "processing" ELSE status[r]
    BY DEF Claimed
  <2> QED
    BY <1>2, <2>1
<1>6. OkMeansDelivered' /\ RowInv'
  BY <1>4, <1>5, Parts DEF OkMeansDelivered, RowInv
<1>7. HoldInv'
  <2>1. ASSUME NEW h \in Gateways, NEW r \in batch'[h]
        PROVE  r \in Rows /\ status[r] # "none"
    <3>1. batch \in [Gateways -> SUBSET Rows] /\ \A x \in batch[h] : status[x] # "none"
      BY Parts DEF TypeOK, HoldInv
    <3>2. r \in S \/ r \in batch[h]
      BY <3>1, <2>1
    <3> QED
      BY <1>2, <3>1, <3>2
  <2> QED
    BY <1>4, <1>5, <2>1, Parts DEF HoldInv
<1> QED
  BY <1>3, <1>6, <1>7, Parts

LEMMA NextRecordInv ==
    ASSUME OutboxInv, NEW g \in Gateways, NextRecord(g)
    PROVE  OutboxInv'
<1> PICK r \in batch[g] :
       cur' = [cur EXCEPT ![g] = r] /\ batch' = [batch EXCEPT ![g] = @ \ {r}]
  BY DEF NextRecord
<1>1. r \in Rows /\ IsFiniteSet(batch[g])
  BY FS_Subset DEF OutboxInv, TypeOK
<1>2. Cardinality(batch[g] \ {r}) <= Batch
  <2>1. Cardinality(batch[g]) \in Nat /\ Cardinality(batch[g] \ {r}) = Cardinality(batch[g]) - 1
    BY <1>1, FS_RemoveElement, FS_CardinalityType
  <2>2. Cardinality(batch[g]) <= Batch
    BY DEF OutboxInv, TypeOK
  <2> QED
    BY <2>1, <2>2
<1>3. TypeOK'
  <2>1. batch' \in [Gateways -> SUBSET Rows] /\ \A h \in Gateways : Cardinality(batch'[h]) <= Batch
    BY <1>2 DEF OutboxInv, TypeOK
  <2>2. cur' \in [Gateways -> Rows \union {None}]
    BY <1>1 DEF OutboxInv, TypeOK
  <2> QED
    BY <2>1, <2>2 DEF OutboxInv, TypeOK, NextRecord
<1>4. OkMeansDelivered' /\ RowInv' /\ HoldInv'
  BY <1>1, Parts DEF TypeOK, OkMeansDelivered, RowInv, HoldInv, NextRecord
<1> QED
  BY <1>3, <1>4, Parts

LEMMA ReplayInv ==
    ASSUME OutboxInv, NEW g \in Gateways, Replay(g)
    PROVE  OutboxInv'
<1>1. faults' \in 0..MaxFaults
  BY FaultType DEF OutboxInv, Replay, WorkerFault
<1>2. cur[g] \in Rows /\ status[cur[g]] # "none"
  BY DEF OutboxInv, Replay
<1>3. TypeOK'
  BY <1>1, <1>2 DEF OutboxInv, TypeOK, Replay, Accept, AfterFailure
<1>4. OkMeansDelivered' /\ RowInv' /\ HoldInv'
  BY <1>2, Parts DEF TypeOK, OkMeansDelivered, RowInv, HoldInv, Replay, Accept, AfterFailure
<1> QED
  BY <1>3, <1>4, Parts

\* The worker marks the record in hand, or fails to, and lets go of it.
LEMMA FinishRecordInv ==
    ASSUME OutboxInv, NEW g \in Gateways, wpc[g] # "idle", FinishRecord(g),
           Fault \/ NoFault,
           \/ ResetForRetry(cur[g])
           \/ wpc[g] = "accepted" /\ Delivered(cur[g])
           \/ UNCHANGED tableVars
    PROVE  OutboxInv'
<1>1. faults' \in 0..MaxFaults
  BY FaultType DEF OutboxInv
<1>2. cur[g] \in Rows /\ (wpc[g] = "accepted" => cur[g] \in accepted)
  BY DEF OutboxInv
<1>3. TypeOK
  BY Parts
<1>4. CASE ResetForRetry(cur[g])
  <2>1. TypeOK'
    BY <1>1, <1>2, <1>3, <1>4, ResetType DEF TypeOK, FinishRecord
  <2>2. OkMeansDelivered' /\ RowInv' /\ HoldInv'
    BY <1>2, <1>3, <1>4, ResetType, Parts DEF TypeOK, OkMeansDelivered, RowInv, HoldInv, FinishRecord
  <2> QED
    BY <2>1, <2>2, Parts
<1>5. CASE wpc[g] = "accepted" /\ Delivered(cur[g])
  <2>1. TypeOK'
    BY <1>1, <1>2, <1>3, <1>5, DeliveredType DEF TypeOK, FinishRecord
  <2>2. OkMeansDelivered' /\ RowInv' /\ HoldInv'
    BY <1>2, <1>3, <1>5, DeliveredType, Parts DEF TypeOK, OkMeansDelivered, RowInv, HoldInv, FinishRecord
  <2> QED
    BY <2>1, <2>2, Parts
<1>6. CASE UNCHANGED tableVars
  <2>1. TypeOK'
    BY <1>1, <1>2, <1>3, <1>6 DEF TypeOK, FinishRecord
  <2>2. OkMeansDelivered' /\ RowInv' /\ HoldInv'
    BY <1>2, <1>6, Parts DEF TypeOK, OkMeansDelivered, RowInv, HoldInv, FinishRecord
  <2> QED
    BY <2>1, <2>2, Parts
<1> QED
  BY <1>4, <1>5, <1>6

-------------------------------------------------------------------------------
(* Gateways and time *)

LEMMA VanishInv ==
    ASSUME OutboxInv, NEW g \in Gateways, Exit(g) \/ Crash(g)
    PROVE  OutboxInv'
<1>1. faults' \in 0..MaxFaults
  BY FaultType DEF OutboxInv, Exit, Crash
<1>2. Vanish(g)
  BY DEF Exit, Crash
<1>3. TypeOK'
  <2>1. \A h \in Gateways : Cardinality(batch'[h]) <= Batch
    BY <1>2, FS_EmptySet DEF OutboxInv, TypeOK, Vanish
  <2>2. pub' \in [Rows -> {"new", "stored", "accepted", "failed", "ok", "error"}]
    BY <1>2 DEF OutboxInv, TypeOK, Vanish
  <2> QED
    BY <1>1, <1>2, <2>1, <2>2 DEF OutboxInv, TypeOK, Vanish
<1>4. OkMeansDelivered' /\ RowInv'
  BY <1>2, Parts DEF TypeOK, OkMeansDelivered, RowInv, Vanish
<1>5. HoldInv'
  BY <1>2, Parts DEF TypeOK, HoldInv, Vanish
<1> QED
  BY <1>3, <1>4, <1>5, Parts

LEMMA GateInv ==
    ASSUME OutboxInv, NEW g \in Gateways, Close(g) \/ Restart(g)
    PROVE  OutboxInv'
<1>1. faults' \in 0..MaxFaults
  BY FaultType DEF OutboxInv, TypeOK, Close, Restart
<1>2. TypeOK'
  BY <1>1 DEF OutboxInv, TypeOK, Close, Restart
<1>3. OkMeansDelivered' /\ RowInv' /\ HoldInv'
  BY Parts DEF OkMeansDelivered, RowInv, HoldInv, Close, Restart
<1> QED
  BY <1>2, <1>3, Parts

LEMMA TickInv ==
    ASSUME OutboxInv, Tick
    PROVE  OutboxInv'
<1>1. TypeOK'
  BY DEF OutboxInv, TypeOK, Tick, Older
<1>2. OkMeansDelivered' /\ RowInv' /\ HoldInv'
  BY Parts DEF OkMeansDelivered, RowInv, HoldInv, Tick
<1> QED
  BY <1>1, <1>2, Parts

LEMMA StutterInv ==
    ASSUME OutboxInv, UNCHANGED vars
    PROVE  OutboxInv'
BY DEF OutboxInv, TypeOK, OkMeansDelivered

LEMMA OutboxStep ==
    ASSUME OutboxInv, [Next]_vars
    PROVE  OutboxInv'
<1>1. ASSUME NEW r \in Rows, Refuse(r) \/ Enqueue(r) \/ Live(r) PROVE OutboxInv'
  BY <1>1, EnqueueInv, PublishLiveInv, FailLiveInv, SettleLiveInv DEF Live
<1>2. ASSUME NEW g \in Gateways, FailReplay(g) \/ SettleReplay(g) PROVE OutboxInv'
  <2>1. wpc[g] # "idle" /\ FinishRecord(g) /\ (Fault \/ NoFault)
    BY <1>2 DEF FailReplay, SettleReplay, WorkerFault
  <2>2. \/ ResetForRetry(cur[g])
        \/ wpc[g] = "accepted" /\ Delivered(cur[g])
        \/ UNCHANGED tableVars
    BY <1>2 DEF FailReplay, SettleReplay
  <2> QED
    BY <2>1, <2>2, FinishRecordInv
<1>3. ASSUME NEW g \in Gateways, Claim(g) \/ Worker(g) PROVE OutboxInv'
  BY <1>2, <1>3, ClaimInv, NextRecordInv, ReplayInv DEF Worker
<1>4. ASSUME NEW g \in Gateways, Close(g) \/ Exit(g) \/ Crash(g) \/ Restart(g) PROVE OutboxInv'
  BY <1>4, GateInv, VanishInv
<1> QED
  BY <1>1, <1>3, <1>4, TickInv, StutterInv DEF Next

-------------------------------------------------------------------------------
(* Theorems *)

\* The inductive invariant: Publish's nil means delivered, and nothing is settled
\* that the inner bus has not accepted.
THEOREM OutboxInvariant == Spec => []OutboxInv
<1>1. OutboxInv /\ [Next]_vars => OutboxInv'
  BY OutboxStep
<1> QED
  BY OutboxInit, <1>1, PTL DEF Spec

\* Type correctness: batches stay within replayBatchSize.
THEOREM OutboxTypeCorrect == Spec => []TypeOK
<1>1. OutboxInv => TypeOK
  BY DEF OutboxInv
<1> QED
  BY OutboxInvariant, <1>1, PTL

\* Publish returns nil only for an event whose row is delivered and stays so.
THEOREM NilIsDelivered == Spec => []OkMeansDelivered
<1>1. OutboxInv => OkMeansDelivered
  BY DEF OutboxInv
<1> QED
  BY OutboxInvariant, <1>1, PTL


\* The row set of the abstract specification, and one step of it.
Owed == {r \in Rows : status[r] \in {"pending", "processing"}}
Settled == {r \in Rows : status[r] = "delivered"}

\* An update of one row's status that goes to delivered settles it, or finds it
\* settled; a reset leaves both sets alone.
LEMMA DeliveredRefines ==
    ASSUME OutboxInv, NEW r \in Rows, r \in accepted, status[r] # "none",
           Delivered(r), UNCHANGED accepted
    PROVE  Promise!Settle(r) \/ UNCHANGED <<Owed, accepted, Settled>>
<1>1. CASE status[r] = "delivered"
  <2>1. status' = status
    BY <1>1 DEF OutboxInv, TypeOK, Delivered
  <2> QED
    BY <2>1 DEF Owed, Settled
<1>2. CASE status[r] # "delivered"
  <2>1. r \in Owed /\ Owed' = Owed \ {r} /\ Settled' = Settled \union {r}
    BY <1>2 DEF OutboxInv, TypeOK, Delivered, Owed, Settled
  <2> QED
    BY <2>1 DEF Promise!Settle, Owed, Settled
<1> QED
  BY <1>1, <1>2

LEMMA AcceptRefines ==
    ASSUME OutboxInv, NEW r \in Rows, status[r] # "none", Accept(r), UNCHANGED status
    PROVE  Promise!Accept(r)
<1>1. r \in Owed \union Settled
  BY DEF OutboxInv, TypeOK, Owed, Settled
<1>2. UNCHANGED <<Owed, Settled>>
  BY DEF Owed, Settled
<1> QED
  BY <1>1, <1>2 DEF Promise!Accept, Accept, Owed, Settled

\* A step that leaves the same rows without a row, and the same rows settled.
LEMMA SameRows ==
    ASSUME OutboxInv, OutboxInv', UNCHANGED accepted,
           \A r \in Rows : /\ (status'[r] = "none") = (status[r] = "none")
                           /\ (status'[r] = "delivered") = (status[r] = "delivered")
    PROVE  UNCHANGED <<Owed, accepted, Settled>>
<1>1. \A r \in Rows : /\ status[r] \in {"none", "pending", "processing", "delivered"}
                      /\ status'[r] \in {"none", "pending", "processing", "delivered"}
  BY DEF OutboxInv, TypeOK
<1>2. \A r \in Rows : (status'[r] \in {"pending", "processing"}) = (status[r] \in {"pending", "processing"})
  BY <1>1
<1> QED
  BY <1>2 DEF Owed, Settled

LEMMA StepRefines ==
    ASSUME OutboxInv, [Next]_vars
    PROVE  Promise!Next \/ UNCHANGED <<Owed, accepted, Settled>>
<1> USE DEF Promise!Next
<1>1. TypeOK /\ TypeOK' /\ OutboxInv'
  BY OutboxStep DEF OutboxInv
<1>2. ASSUME NEW r \in Rows, Enqueue(r) PROVE Promise!Store(r)
  <2>1. status[r] = "none" /\ status' = [status EXCEPT ![r] = "pending"] /\ UNCHANGED accepted
    BY <1>2 DEF OutboxInv, Enqueue, Insert
  <2>2. r \notin Owed \union Settled /\ Owed' = Owed \union {r} /\ Settled' = Settled
    BY <1>1, <2>1 DEF TypeOK, Owed, Settled
  <2> QED
    BY <2>1, <2>2 DEF Promise!Store, Owed, Settled
<1>3. ASSUME NEW r \in Rows, PublishLive(r)
      PROVE  Promise!Accept(r) \/ UNCHANGED <<Owed, accepted, Settled>>
  <2>1. status[r] # "none" /\ UNCHANGED status
    BY <1>3 DEF OutboxInv, PublishLive
  <2>2. CASE Accept(r)
    BY <2>1, <2>2, AcceptRefines
  <2>3. CASE UNCHANGED accepted
    BY <2>1, <2>3 DEF Owed, Settled
  <2> QED
    BY <1>3, <2>2, <2>3 DEF PublishLive
<1>4. ASSUME NEW r \in Rows, SettleLive(r)
      PROVE  Promise!Settle(r) \/ UNCHANGED <<Owed, accepted, Settled>>
  <2>1. r \in accepted /\ status[r] # "none" /\ UNCHANGED accepted
    BY <1>4 DEF OutboxInv, SettleLive
  <2>2. CASE Delivered(r)
    BY <2>1, <2>2, DeliveredRefines
  <2>3. CASE UNCHANGED tableVars
    BY <2>1, <2>3 DEF Owed, Settled
  <2> QED
    BY <1>4, <2>2, <2>3 DEF SettleLive
<1>5. ASSUME NEW r \in Rows, Refuse(r) \/ FailLive(r)
      PROVE  UNCHANGED <<Owed, accepted, Settled>>
  <2>1. UNCHANGED accepted
    BY <1>5 DEF Refuse, FailLive
  <2>2. CASE UNCHANGED tableVars
    BY <2>1, <2>2 DEF Owed, Settled
  <2>3. CASE ResetForRetry(r)
    BY <1>1, <2>1, <2>3, ResetType, SameRows
  <2> QED
    BY <1>5, <2>2, <2>3 DEF Refuse, FailLive
<1>6. ASSUME NEW g \in Gateways, NEW r \in Rows, r = cur[g], Replay(g)
      PROVE  Promise!Accept(r) \/ UNCHANGED <<Owed, accepted, Settled>>
  <2>1. status[r] # "none" /\ UNCHANGED status
    BY <1>6 DEF OutboxInv, Replay
  <2>2. CASE Accept(r)
    BY <2>1, <2>2, AcceptRefines
  <2>3. CASE UNCHANGED accepted
    BY <2>1, <2>3 DEF Owed, Settled
  <2> QED
    BY <1>6, <2>2, <2>3 DEF Replay
<1>7. ASSUME NEW g \in Gateways, NEW r \in Rows, r = cur[g], FailReplay(g) \/ SettleReplay(g)
      PROVE  Promise!Settle(r) \/ UNCHANGED <<Owed, accepted, Settled>>
  <2>1. status[r] # "none" /\ UNCHANGED accepted
    BY <1>7 DEF OutboxInv, FailReplay, SettleReplay, FinishRecord
  <2>2. CASE ResetForRetry(r)
    BY <1>1, <2>1, <2>2, ResetType, SameRows
  <2>3. CASE wpc[g] = "accepted" /\ Delivered(r)
    <3>1. r \in accepted
      BY <1>7, <2>3 DEF OutboxInv
    <3> QED
      BY <2>1, <2>3, <3>1, DeliveredRefines
  <2>4. CASE UNCHANGED tableVars
    BY <2>1, <2>4 DEF Owed, Settled
  <2> QED
    BY <1>7, <2>2, <2>3, <2>4 DEF FailReplay, SettleReplay
<1>8. ASSUME NEW g \in Gateways, Claim(g)
      PROVE  UNCHANGED <<Owed, accepted, Settled>>
  <2>1. PICK S \in (SUBSET Claimable) \ {{}} : Claimed(S)
    BY <1>8 DEF Claim
  <2>2. \A r \in S : r \in Rows /\ status[r] \in {"pending", "processing"}
    BY DEF Claimable, Lapsed
  <2>3. UNCHANGED accepted
    BY <1>8 DEF Claim
  <2> QED
    BY <1>1, <2>1, <2>2, <2>3, SameRows DEF TypeOK, Claimed
<1>9. ASSUME \/ Tick \/ UNCHANGED vars
             \/ \E g \in Gateways : NextRecord(g) \/ Close(g) \/ Exit(g) \/ Crash(g) \/ Restart(g)
      PROVE  UNCHANGED <<Owed, accepted, Settled>>
  <2>1. UNCHANGED <<status, accepted>>
    BY <1>9 DEF Tick, NextRecord, Close, Exit, Crash, Restart, Vanish
  <2> QED
    BY <2>1 DEF Owed, Settled
<1>10. ASSUME NEW r \in Rows, Refuse(r) \/ Enqueue(r) \/ Live(r)
       PROVE  Promise!Next \/ UNCHANGED <<Owed, accepted, Settled>>
  BY <1>2, <1>3, <1>4, <1>5, <1>10 DEF Live
<1>11. ASSUME NEW g \in Gateways, Claim(g) \/ Worker(g)
       PROVE  Promise!Next \/ UNCHANGED <<Owed, accepted, Settled>>
  <2>1. wpc[g] # "idle" => cur[g] \in Rows
    BY DEF OutboxInv
  <2>2. CASE Claim(g) \/ NextRecord(g)
    BY <1>8, <1>9, <2>2
  <2>3. CASE Replay(g) \/ FailReplay(g) \/ SettleReplay(g)
    <3>1. PICK r \in Rows : r = cur[g]
      BY <2>1, <2>3 DEF Replay, FailReplay, SettleReplay
    <3> QED
      BY <1>6, <1>7, <2>3, <3>1
  <2> QED
    BY <1>11, <2>2, <2>3 DEF Worker
<1> QED
  BY <1>9, <1>10, <1>11 DEF Next

\* The durable bus keeps the abstract promise: an event that is stored stays owed
\* until the inner bus has accepted it, and is then settled for good.
THEOREM OutboxRefines == Spec => HandoffSpec
<1>1. Init => Promise!Init
  BY DEF Init, Promise!Init
<1>2. OutboxInv /\ [Next]_vars =>
        [Promise!Next]_<<{r \in Rows : status[r] \in {"pending", "processing"}}, accepted,
                         {r \in Rows : status[r] = "delivered"}>>
  BY StepRefines DEF Owed, Settled
<1> QED
  BY OutboxInvariant, <1>1, <1>2, PTL DEF Spec, HandoffSpec, Promise!Spec

\* No step takes a delivered row back: neither a late failure nor a late claim.
THEOREM DeliveredIsFinal == Spec => DeliveredForGood
<1>1. OutboxInv /\ [Next]_vars =>
        [\A r \in Rows : status[r] = "delivered" => status'[r] = "delivered"]_vars
  <2> SUFFICES ASSUME OutboxInv, [Next]_vars, NEW r \in Rows, status[r] = "delivered"
               PROVE  status'[r] = "delivered"
    OBVIOUS
  <2>1. r \in Settled /\ (Promise!Next => Settled \subseteq Settled')
    BY DEF Settled, Owed, Promise!Next, Promise!Store, Promise!Accept, Promise!Settle
  <2>2. r \in Settled'
    BY <2>1, StepRefines
  <2> QED
    BY <2>2 DEF Settled
<1> QED
  BY OutboxInvariant, <1>1, PTL DEF Spec, DeliveredForGood
=============================================================================
