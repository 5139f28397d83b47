------------------------------- MODULE Lending -------------------------------
(***************************************************************************)
(* What a borrower of the pool may rely on: where each object is.  It is   *)
(* on the shelf, offered to one caller, lent to one caller, on its way     *)
(* back, or gone (delivered to a caller that had stopped waiting, or       *)
(* refused when it came back to a closed pool).                            *)
(***************************************************************************)
CONSTANTS Objects, Callers, None

VARIABLE place

Shelf == [at |-> "shelf", to |-> None]
Back  == [at |-> "back", to |-> None]
Gone  == [at |-> "gone", to |-> None]
OfferedTo(c) == [at |-> "offered", to |-> c]
LentTo(c)    == [at |-> "lent", to |-> c]

Init == place = [o \in Objects |-> Shelf]

Move(o, from, to) == place[o] = from /\ place' = [place EXCEPT ![o] = to]

\* A caller has one offer at a time.
Offer(o, c) ==
    /\ \A p \in Objects : place[p] # OfferedTo(c)
    /\ Move(o, Shelf, OfferedTo(c))

Accept(o, c) == Move(o, OfferedTo(c), LentTo(c))

\* The caller has gone, before or after the object was offered.
Waste(o)     == Move(o, Shelf, Gone)
Refuse(o, c) == Move(o, OfferedTo(c), Gone)

GiveBack(o, c) == Move(o, LentTo(c), Back)
Restock(o)     == Move(o, Back, Shelf)

\* The pool is closed and does not take the object.
TurnAway(o, c) == Move(o, LentTo(c), Gone)

Next ==
    \E o \in Objects :
        \/ Waste(o) \/ Restock(o)
        \/ \E c \in Callers : Offer(o, c) \/ Accept(o, c) \/ Refuse(o, c)
                             \/ GiveBack(o, c) \/ TurnAway(o, c)

Spec == Init /\ [][Next]_place
===============================================================================
