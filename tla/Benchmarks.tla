----------------------------- MODULE Benchmarks -----------------------------
(* The process methods of the benchmark notebooks of docs/gallery: each takes *)
(* the events of one chunk of a dataset and returns the chunk's accumulator.  *)
(* An event is a record with the MET (met, metphi) and the sequences jets,    *)
(* muons and electrons.                                                       *)
EXTENDS AgcSchema

\* ak.num(array, axis=1) summed over the events
NumOf(events, Field(_)) == Len(FlattenSeq(Each(events, Field)))

\* example1: the MET of every event, and the two counters of the book-keeping
Example1(ds, events) ==
  Count("all events", Len(events)) (+) Count("number of chunks", 1)
    (+) Fill("MET", ds, Each(events, LAMBDA e : e.met))

\* example2: the pt of every jet
Example2(ds, events) ==
  Count("all events", Len(events)) (+) Count("all jets", NumOf(events, LAMBDA e : e.jets))
    (+) Fill("Jet_pt", ds, FlattenSeq(Each(events, LAMBDA e : Each(e.jets, LAMBDA j : j.pt))))

\* example3: the pt of the jets with abs(eta) < 1; the counters count the mask
\* and then the masked array
Example3(ds, events) ==
  LET eta_max == Each(events, LAMBDA e : Each(e.jets, LAMBDA j : Abs(j.eta) < 1000))
      good_jets == [i \in DOMAIN events |-> Mask(events[i].jets, eta_max[i])]
  IN  Count("all events", Len(events))
        (+) Count("number of jets", NumOf(events, LAMBDA e : e.jets))
        (+) Count("abs(eta) < 1",
                  NumOf(eta_max, LAMBDA m : Mask(m, m)))
        (+) Count("final good jets", NumOf(good_jets, LAMBDA js : js))
        (+) Fill("Jet_pt", ds, Each(FlattenSeq(good_jets), LAMBDA j : j.pt))

\* mutant: ak.sum without axis=1, over the jets of all the events
Example4NoAxis(ds, events) ==
  LET hard == Total(Each(events, LAMBDA e : Len(SelectSeq(e.jets, LAMBDA j : j.pt > 40))))
      good_MET == IF hard >= 2 THEN events ELSE <<>>
  IN  Count("all events", Len(events)) (+) Count("final events", Len(good_MET))
        (+) Fill("MET_pt", ds, Each(good_MET, LAMBDA e : e.met))

\* mutant: the histogram is filled with the MET of every event
Example4Unmasked(ds, events) ==
  LET hard(e) == Len(SelectSeq(e.jets, LAMBDA j : j.pt > 40)) >= 2
  IN  Count("all events", Len(events))
        (+) Count("final events", Len(SelectSeq(events, hard)))
        (+) Fill("MET_pt", ds, Each(events, LAMBDA e : e.met))

\* example4: the MET of the events with two jets above 40
Example4(ds, events) ==
  LET good_MET ==
        Where(events, LAMBDA e : Len(Where(e.jets, LAMBDA j : j.pt > 40)) >= 2)
  IN  Count("all events", Len(events)) (+) Count("final events", Len(good_MET))
        (+) Fill("MET_pt", ds, Each(good_MET, LAMBDA e : e.met))

\* example5: the MET of the events with an opposite-sign pair of muons between
\* 60 and 120
Example5(ds, events) ==
  LET good_dimuons(e) ==
        Where(Pairs(e.muons), LAMBDA p : /\ p[1].charge # p[2].charge
                                         /\ MassOf(p) >= 6000
                                         /\ MassOf(p) < 12000)
      good_MET == Where(events, LAMBDA e : Len(good_dimuons(e)) >= 1)
  IN  Count("all events", Len(events)) (+) Count("all muons", NumOf(events, LAMBDA e : e.muons))
        (+) Count("final events", Len(good_MET))
        (+) Fill("MET", ds, Each(good_MET, LAMBDA e : e.met))

\* example6: pt and largest b-tag of the trijets whose mass is at the smallest
\* distance from 172.5: all of them, when several are
Example6(ds, events) ==
  LET trijets(e) == Triples(Where(e.jets, LAMBDA j : j.pt > 30))
      distance(t) == Abs(17250 - MassOf(t))
      closest(e) ==
        Where(trijets(e), LAMBDA t :
          \A other \in ToSet(trijets(e)) : distance(t) <= distance(other))
      all == FlattenSeq(Each(events, closest))
  IN  Fill("Jet_pt", ds, Each(all, PtOf))
        (+) Fill("b_tag", ds, Each(all, LAMBDA t : Max({t[1].btag, t[2].btag, t[3].btag})))

(* example7: the sum of the pt of the jets that no lepton is near.  The       *)
(* nearest lepton of a jet is None in an event without leptons of that kind;  *)
(* the comparison with 0.4, the conjunction of two masks and an array masked  *)
(* with None are None in their turn.  ak.num counts a None and ak.sum skips   *)
(* it.  A mask element is written "T", "F" or "None".                         *)
FarFrom(jet, leptons) ==
  IF leptons = <<>> THEN "None"
  ELSE IF Min({DeltaR(jet, l) : l \in ToSet(leptons)}) > 400 THEN "T" ELSE "F"
Both(a, b) == CASE "None" \in {a, b} -> "None" [] "F" \in {a, b} -> "F" [] OTHER -> "T"

Example7(ds, events) ==
  LET goodjets(e) == Where(e.jets, LAMBDA j : j.pt > 30)
      above10(ls) == Where(ls, LAMBDA l : l.pt > 10)
      jm(e) == Each(goodjets(e), LAMBDA j : FarFrom(j, above10(e.muons)))
      je(e) == Each(goodjets(e), LAMBDA j : FarFrom(j, above10(e.electrons)))
      jl(e) == [i \in DOMAIN goodjets(e) |-> Both(jm(e)[i], je(e)[i])]
      true(mask) == Where(mask, LAMBDA m : m = "T")
      sumjets(e) == PtOf(Mask(goodjets(e), Each(jl(e), LAMBDA m : m = "T")))
  IN  Count("all events", Len(events)) (+) Count("all jets", NumOf(events, LAMBDA e : e.jets))
        (+) Count("jets with pt > 30", NumOf(events, goodjets))
        (+) Count("muons with pt > 10", NumOf(events, LAMBDA e : above10(e.muons)))
        (+) Count("electrons with pt > 10", NumOf(events, LAMBDA e : above10(e.electrons)))
        (+) Count("jet-muon pairs", NumOf(events, LAMBDA e : true(jm(e))))
        (+) Count("jet-electron pairs", NumOf(events, LAMBDA e : true(je(e))))
        (+) Count("jet-lepton pairs", NumOf(events, LAMBDA e : true(jl(e))))
        (+) Count("final jets",
                  NumOf(events, LAMBDA e : Where(jl(e), LAMBDA m : m # "F")))
        (+) Fill("Jet_pt", ds, Each(events, sumjets))

(* example8: the transverse mass of the MET and a third lepton, written as the *)
(* MET and the pt it is computed from.  ak.count counts every field of a       *)
(* record.  closest_pairs loses the events without a pair before it serves as  *)
(* the mask of trileptons and of MET: an all-true mask of length n keeps the   *)
(* first n events of each.  The argmax over the leptons of an event is then an *)
(* index of the array of events.                                               *)
Fields == 2
Leptons8(e) ==
  SelectSeq(e.muons, LAMBDA l : l.pt > 10 /\ Abs(l.eta) < 2400)
    \o SelectSeq(e.electrons, LAMBDA l : l.pt > 10 /\ Abs(l.eta) < 2500)
Closest(ls) ==
  LET sfos == SelectSeq(Pairs([i \in DOMAIN ls |-> i]), LAMBDA p :
                          /\ ls[p[1]].flavor = ls[p[2]].flavor
                          /\ ls[p[1]].charge # ls[p[2]].charge)
      k == ArgMin(Each(sfos, LAMBDA p : Abs(MassOf(<<ls[p[1]], ls[p[2]]>>) - 9120)))
  IN  IF k = 0 THEN <<>> ELSE <<sfos[k]>>
Without(ls, pair) == Mask(ls, [i \in DOMAIN ls |-> i # pair[1] /\ i # pair[2]])
TriLeptons(events) == SelectSeq(Each(events, Leptons8), LAMBDA ls : Len(ls) >= 3)
NoPair(events) ==
  LET trileptons == TriLeptons(events)
      pairs == FlattenSeq(Each(trileptons, Closest))
  IN  [k \in DOMAIN pairs |-> Without(trileptons[k], pairs[k])]

LeadingRow(rest, k) == ArgMax(Each(rest[k], LAMBDA l : l.pt))
Example8(ds, events) ==
  LET rest == NoPair(events)
      mt_lep(k) == Each(rest[LeadingRow(rest, k)], LAMBDA l : <<events[k].met, l.pt>>)
  IN  Count("all events", Len(events))
        (+) Count("all muons", Fields * NumOf(events, LAMBDA e :
                    SelectSeq(e.muons, LAMBDA l : l.pt > 10 /\ Abs(l.eta) < 2400)))
        (+) Count("all electrons", Fields * NumOf(events, LAMBDA e :
                    SelectSeq(e.electrons, LAMBDA l : l.pt > 10 /\ Abs(l.eta) < 2500)))
        (+) Count("trileptons", NumOf(TriLeptons(events), LAMBDA ls : ls))
        (+) Count("number of final leading leptons", NumOf(rest, LAMBDA ls : ls))
        (+) Fill("massT", ds, FlattenSeq([k \in DOMAIN rest |-> mt_lep(k)]))

\* an index of the array of events that the array does not have
IndexError8(events) ==
  LET rest == NoPair(events)
  IN  \E k \in DOMAIN rest : LeadingRow(rest, k) > Len(rest)

\* a neutral pair of exactly two, and its mass
Neutral(ls) == Len(ls) = 2 /\ Total(Each(ls, LAMBDA l : l.charge)) = 0
Masses(arrays) == Each(Where(arrays, Neutral), MassOf)

\* zpeak_example: the mass of the neutral pair of muons
ZPeak(ds, events) == Fill("dimu_mass", ds, Masses(Each(events, LAMBDA e : e.muons)))

\* coffea_analysis: the same for leptons above 10, muons and electrons apart, which
\* the schema puts together from the branches of the file
DileptonMass(ds, events) ==
  LET read == BuildCollections(File(events))
      above10(ls) == SelectSeq(Each(ls, Vector), LAMBDA l : l.pt > 10)
  IN  Fill("mumu", ds, Masses(Each(read["muon"], above10)))
        (+) Fill("ee", ds, Masses(Each(read["electron"], above10)))

\* ttbar_HT: the sum of the pt of the jets above 25, zero for an event without
TtbarAnalysis(ds, events) ==
  Fill("ht", ds, Each(events, LAMBDA e : PtOf(Where(e.jets, LAMBDA j : j.pt > 25))))

\* coffea-casa-template: the MET of every event of each dataset
MinimalProcessor(ds, events) == Fill("MET", ds, Each(events, LAMBDA e : e.met))
=============================================================================
