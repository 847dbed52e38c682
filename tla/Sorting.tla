------------------------------ MODULE Sorting -------------------------------
(***************************************************************************)
(* Sorting by a strict order that may leave elements tied: the ORDER BY of *)
(* the database, and std::sort and std::nth_element of the program, none   *)
(* of which says where tied elements end up.                               *)
(***************************************************************************)
EXTENDS Integers, FiniteSets, Functions

\* The elements of S without ORDER BY.
InSomeOrder(S) == CHOOSE s \in Injection(1..Cardinality(S), S) : TRUE

\* The sequences of the elements of S in which nothing follows what it precedes.
Orderings(S, Precedes(_, _)) ==
    {s \in Injection(1..Cardinality(S), S) :
        \A i, j \in DOMAIN s : i < j => ~Precedes(s[j], s[i])}

\* The elements of a sequence in such an order.
SortBy(s, Precedes(_, _)) ==
    LET order == CHOOSE p \in Orderings(DOMAIN s, LAMBDA i, j : Precedes(s[i], s[j])) : TRUE
    IN  [i \in DOMAIN s |-> s[order[i]]]

\* Numbers in ascending order.
Sorted(values) == SortBy(values, LAMBDA a, b : a < b)
=============================================================================
