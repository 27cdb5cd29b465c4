------------------------------ MODULE Columnar ------------------------------
(* What the notebooks of docs/gallery take from awkward, coffea.hist and the  *)
(* vector classes, as far as they use it.  An array of events is a sequence, *)
(* a jagged array a sequence of sequences.  A particle is a record of the    *)
(* numbers the cuts look at: pt in GeV, eta in thousandths, phi in tenths,   *)
(* btag in ten-thousandths, mass in hundredths of a GeV.                     *)
(*                                                                           *)
(* An accumulator (a dict of histograms and a cutflow) is a bag: one copy of *)
(* <<histogram, dataset, value>> for each entry filled, and n copies of      *)
(* <<counter>> for a cutflow counter that reached n.  Adding accumulators,   *)
(* as the executors do, is adding bags.                                      *)
EXTENDS Integers, SequencesExt

Abs(x) == IF x < 0 THEN -x ELSE x

\* ak: an operation applied to every element of an array
Each(s, F(_)) == [i \in DOMAIN s |-> F(s[i])]

Total(s) == SumFunction(s)

\* array[mask], for a mask of the array's length
Mask(s, keep) == FlattenSeq([i \in DOMAIN s |-> IF keep[i] THEN <<s[i]>> ELSE <<>>])
\* array[mask] where the mask is computed from the array, element by element
Where(s, Test(_)) == Mask(s, Each(s, Test))

\* ak.combinations(array, 2) and ak.combinations(array, 3), in order of indices
Pairs(s) ==
  FlattenSeq([i \in DOMAIN s |-> [j \in 1..Len(s) - i |-> <<s[i], s[i + j]>>]])
Triples(s) ==
  FlattenSeq([i \in DOMAIN s |->
                Each(Pairs(SubSeq(s, i + 1, Len(s))), LAMBDA p : <<s[i]>> \o p)])

\* ak.argmax, ak.argmin: the first index of the extreme value, 0 for None
ArgMax(s) ==
  IF s = <<>> THEN 0
  ELSE Min({i \in DOMAIN s : \A j \in DOMAIN s : s[j] <= s[i]})
ArgMin(s) == ArgMax(Each(s, LAMBDA v : -v))

\* a[ak.local_index(a) == ak.argmax(by)]: at most one element
Leading(s, By(_)) == LET m == ArgMax(Each(s, By)) IN IF m = 0 THEN <<>> ELSE <<s[m]>>

(* The mass and the pt of a sum of four-momenta.  The code compares them with *)
(* thresholds and with each other, so any number that depends on all the      *)
(* members will do: the sum of theirs.                                        *)
MassOf(ps) == Total(Each(ps, LAMBDA p : p.mass))
PtOf(ps) == Total(Each(ps, LAMBDA p : p.pt))

\* delta_r: a distance in the plane of eta and phi
DeltaR(a, b) == Abs(a.eta - b.eta) + 100 * Abs(a.phi - b.phi)

\* hist.fill(dataset=ds, h=values)
Fill(h, ds, values) ==
  [entry \in {<<h, ds, v>> : v \in ToSet(values)} |->
     Cardinality({i \in DOMAIN values : values[i] = entry[3]})]

\* output['cutflow'][key] += n
Count(key, n) == [entry \in IF n = 0 THEN {} ELSE {<<key>>} |-> n]
=============================================================================
