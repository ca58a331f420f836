--------------------------- MODULE MCCustomerOps ---------------------------
EXTENDS CustomerOps, TLC
CONSTANTS c1, c2, o1, o2, o3, i1, i2
OneOwner == [o \in Openings |-> c1]
Symmetric == Permutations(Openings) \cup Permutations(Ids)
Held(c) == {op[c].fence, lease[c].owner} \cup {0}
             \cup {opening[o].fence : o \in {q \in Openings : Owner[q] = c}}
             \cup {p.fence : p \in {q \in posts : q.customer = c}}
Rank(c, f) == Cardinality({g \in Held(c) : g < f})
\* Nobody asks for the key of a customer without openings, nor for a dead user's.
Active == {Owner[o] : o \in Openings}
Known(u) ==
    IF ~u.live THEN <<>>
    ELSE <<IF u.key \in Customers \ Active THEN OtherKey ELSE u.key, u.email>>
\* Bound: the last edit comes early enough for an opening to meet it.
EditsEarly == rekeys = MaxRekeys => clock <= 1
View == <<clock, slot, reviews, [i \in Ids |-> Known(users[i])], rekeys,
          [c \in Customers |-> [op[c] EXCEPT !.fence = Rank(c, @)]],
          [c \in Customers |-> [lease[c] EXCEPT !.owner = Rank(c, @)]],
          [o \in Openings |-> [opening[o] EXCEPT
              !.pc = IF @ \in Ended THEN "stopped" ELSE @,
              !.fence = Rank(Owner[o], @),
              !.first = IF @ = -1 THEN 0 ELSE IF @ = op[Owner[o]].fence THEN 1 ELSE 2]],
          {[p EXCEPT !.fence = Rank(p.customer, @)] : p \in posts}>>
=============================================================================
