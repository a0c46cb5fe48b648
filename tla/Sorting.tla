-------------------------------- MODULE Sorting --------------------------------
(***************************************************************************)
(* What std::sort and std::stable_sort may make of the elements of s at    *)
(* the places in S, given the comparator: a sorted listing of the places,  *)
(* or any listing at all when the comparator is not a strict weak order on *)
(* the elements.                                                           *)
(***************************************************************************)
EXTENDS Integers, FiniteSets, Functions

StrictWeakOrder(s, S, LT(_, _)) ==
  LET Tie(i, j) == ~LT(s[i], s[j]) /\ ~LT(s[j], s[i])
  IN \A i, j, k \in S :
       /\ ~(LT(s[i], s[j]) /\ LT(s[j], s[i]))
       /\ (LT(s[i], s[j]) /\ LT(s[j], s[k]) => LT(s[i], s[k]))
       /\ (Tie(i, j) /\ Tie(j, k) => Tie(i, k))

\* Every place once.
Listings(S) == Bijection(1..Cardinality(S), S)

\* Elements that tie stay in the order of their places.
StableSorts(s, S, LT(_, _)) ==
  IF StrictWeakOrder(s, S, LT)
    THEN {f \in Listings(S) : \A p, q \in DOMAIN f : p < q =>
            LT(s[f[p]], s[f[q]]) \/ (~LT(s[f[q]], s[f[p]]) /\ f[p] < f[q])}
    ELSE Listings(S)

Sorts(s, S, LT(_, _)) ==
  IF StrictWeakOrder(s, S, LT)
    THEN {f \in Listings(S) : \A p, q \in DOMAIN f : p < q => ~LT(s[f[q]], s[f[p]])}
    ELSE Listings(S)
================================================================================
