------------------------------- MODULE Handoff -------------------------------
(***************************************************************************)
(* What the durable bus promises: an event that has been stored is owed    *)
(* until the inner bus has accepted it, and is then settled for good.  It  *)
(* may be accepted more than once.                                         *)
(***************************************************************************)
CONSTANT Rows

VARIABLES owed, accepted, settled

Init == owed = {} /\ accepted = {} /\ settled = {}

Store(r) ==
    /\ r \notin owed \union settled
    /\ owed' = owed \union {r}
    /\ UNCHANGED <<accepted, settled>>

Accept(r) ==
    /\ r \in owed \union settled
    /\ accepted' = accepted \union {r}
    /\ UNCHANGED <<owed, settled>>

\* Only what the inner bus has accepted is settled.
Settle(r) ==
    /\ r \in owed \intersect accepted
    /\ owed' = owed \ {r}
    /\ settled' = settled \union {r}
    /\ UNCHANGED accepted

Next == \E r \in Rows : Store(r) \/ Accept(r) \/ Settle(r)

Spec == Init /\ [][Next]_<<owed, accepted, settled>>
===============================================================================
