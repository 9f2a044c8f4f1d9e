------------------------------- MODULE Ordered -------------------------------
(***************************************************************************)
(* What a loop picks from a list, in an order: a set of places, listed by  *)
(* a key.                                                                  *)
(***************************************************************************)
EXTENDS Naturals, Sequences, FiniteSets

\* The members of a set in ascending order of a key that no two share.
InOrder(S, key) ==
    [n \in 1..Cardinality(S) |->
        CHOOSE x \in S : Cardinality({y \in S : key[y] < key[x]}) = n - 1]

EntriesAt(es, path) == [k \in DOMAIN path |-> es[path[k]]]

\* Some of the entries, in the order of the transcript.
Those(es, S) == EntriesAt(es, InOrder(S, [i \in S |-> i]))
=============================================================================
