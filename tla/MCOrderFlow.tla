------------------------------ MODULE MCOrderFlow ------------------------------
EXTENDS OrderFlow, TLC

CONSTANTS o1, o2, o3, s1, s2, grid, grid2

\* Two orders to buy two of s1, one to sell one of s2; the name of the lambda of
\* the first begins the name of the lambda of the others.
Two == [o \in Orders |-> IF o = o3 THEN s2 ELSE s1]
Long == [o \in Orders |-> IF o = o3 THEN -1 ELSE 2]
Owners == [o \in Orders |-> IF o = o1 THEN grid ELSE grid2]
Prefix == {<<grid, grid2>>}

Lim(pos, conc, kill, breaches, breaker, threshold, cools) ==
    [maxPosition |-> pos, maxConcurrent |-> conc, killSwitch |-> kill, maxBreaches |-> breaches,
     breaker |-> breaker, threshold |-> threshold, cools |-> cools]

\* One order at a time; with a kill switch and a breaker, and without.
Guarded == {Lim(2, 1, TRUE, 2, TRUE, 1, TRUE), Lim(2, 1, FALSE, 0, FALSE, 0, FALSE)}
===============================================================================
