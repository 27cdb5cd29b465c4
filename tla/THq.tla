-------------------------------- MODULE THq --------------------------------
(* The tHq analysis of docs/gallery: analysis-casa.ipynb, and the selection of *)
(* analysis_tutorial.ipynb, which teaches it step by step.  A lepton carries,  *)
(* besides its kinematics, the outcome of the quality cuts that no other part  *)
(* of the code looks at: good for those of the loose selection, best for those *)
(* the tight one adds.  Muons and electrons are in order of falling pt, as in  *)
(* the files.                                                                  *)
EXTENDS Columnar

LooseWp == 5425
MediumWp == 8484

\* the datasets, and how many files each has
Fileset ==
  [tHq |-> 6, tHW |-> 4, ttW |-> 11, ttWJets |-> 9, ttZ |-> 22, ttZJets |-> 12, ttH |-> 14,
   WZ |-> 22, ZZ |-> 10, ZZZ |-> 1, WWZ |-> 2, WZZ |-> 3, tttt |-> 2, WpWp |-> 1,
   WGToLNuG |-> 5, ZGTo2LG |-> 16, TGJets |-> 4, TTGJets |-> 22]

\* the histograms of the accumulator: ten for each channel
PerEvent == {"leptonpT", "fwdJet_closestLepton", "highpT_sslp", "jetMaxEta", "minDelR",
             "nJet25", "nJetEta1", "TotalCharge"}
Accumulator ==
  {"lll", "mumu", "emu", "ee"} \X (PerEvent \cup {"fwdJet_leadbJet", "fwdJet_subleadbJet"})

LooseMuon(m) == Abs(m.eta) < 2400 /\ m.good /\ m.pt > 5
TightMuon(m) == LooseMuon(m) /\ m.pt > 15 /\ m.best
\* the ranges of the identification leave out an abs(eta) of 1.479
LooseElectron(l) ==
  Abs(l.eta) < 2500 /\ l.good /\ l.pt > 7 /\ (Abs(l.eta) < 1479 \/ Abs(l.eta) > 1479)
TightElectron(l) == LooseElectron(l) /\ l.pt > 15 /\ l.best

\* ak.concatenate([muons, electrons], axis=1)
Loose(e) == Where(e.muons, LooseMuon) \o Where(e.electrons, LooseElectron)
Tight(e) == Where(e.muons, TightMuon) \o Where(e.electrons, TightElectron)
Jets25(e) == Where(e.jets, LAMBDA j : j.pt > 25)
Light(js) == Where(js, LAMBDA j : j.btag <= LooseWp)
BJets(js) == Where(js, LAMBDA j : j.btag > MediumWp)

JetMedium(js) == \E j \in ToSet(BJets(js)) : Abs(j.eta) < 2400
JetLoose(js) ==
  \E j \in ToSet(Light(js)) : Abs(j.eta) < 2400 \/ (j.pt > 40 /\ Abs(j.eta) > 2400)

\* at least one pair of loose leptons, and none below 12 GeV
LooseMask(e) ==
  LET masses == Each(Pairs(Loose(e)), MassOf)
  IN  (\A i \in DOMAIN masses : masses[i] >= 1200) /\ Len(masses) > 0

Flavors(ls) == Total(Each(ls, LAMBDA l : l.flavor))
Above25(ls) == \E l \in ToSet(ls) : l.pt > 25

\* exactly one pair, of one sign, one above 25, and no electrons at the Z
DileptonMask(ls) ==
  LET pairs == Pairs(ls)
  IN  /\ Len(pairs) = 1
      /\ \E p \in ToSet(pairs) : p[1].charge = p[2].charge
      /\ \E p \in ToSet(pairs) : Above25(p)
      /\ \E p \in ToSet(pairs) : Flavors(p) < 2 \/ Abs(MassOf(p) - 9118) > 1000

\* exactly one triple, one above 25, and no pair of one flavour and opposite
\* signs at the Z
OssfZ(ls) ==
  \E p \in ToSet(Pairs(ls)) :
    p[1].charge # p[2].charge /\ Abs(9118 - MassOf(p)) < 1500
TrileptonMask(e) ==
  /\ Len(Triples(Tight(e))) = 1
  /\ \E t \in ToSet(Triples(Tight(e))) : Above25(t)
  /\ ~OssfZ(Where(e.muons, TightMuon)) /\ ~OssfZ(Where(e.electrons, TightElectron))

\* mutant: without the b jet
PreselectedNoB(e) == LooseMask(e) /\ JetLoose(Jets25(e))
Preselected(e) == LooseMask(e) /\ JetMedium(Jets25(e)) /\ JetLoose(Jets25(e))
Dilepton(e) == Preselected(e) /\ DileptonMask(Tight(e))
Trilepton(e) == Preselected(e) /\ TrileptonMask(e)

(* The leptons and the jets of a channel are two arrays, each with a mask of  *)
(* its own: the leptons by the flavours of those that passed, the jets by how *)
(* many muons and electrons of the event are tight.                           *)
FlavorSum == [mumu |-> 0, emu |-> 1, ee |-> 2]
ChannelLeptons(c, events) ==
  IF c = "lll" THEN Each(Where(events, Trilepton), Tight)
  ELSE Where(Each(Where(events, Dilepton), Tight),
                 LAMBDA ls : Flavors(ls) = FlavorSum[c])
ChannelJets(c, events) ==
  LET mu(e) == Len(Where(e.muons, TightMuon))
      el(e) == Len(Where(e.electrons, TightElectron))
      in(e) == CASE c = "lll" -> Trilepton(e)
                 [] c = "mumu" -> Dilepton(e) /\ mu(e) = 2
                 [] c = "ee" -> Dilepton(e) /\ el(e) = 2
                 [] c = "emu" -> Dilepton(e) /\ mu(e) = 1 /\ el(e) = 1
  IN  Each(Where(events, in), Jets25)

\* of an event: the light jet of largest eta, the b jet of largest pt and the next
\* (one or none), and the pair of leptons with the highest pt together: of two, the two
Forward(js) == Leading(Light(js), LAMBDA j : j.eta)
LeadB(js) == Leading(BJets(js), LAMBDA j : j.pt)
NextB(js) ==
  LET m == ArgMax(Each(BJets(js), LAMBDA j : j.pt))
      others == [k \in DOMAIN BJets(js) |-> k # m]
  IN  Leading(Mask(BJets(js), others), LAMBDA j : j.pt)
EtaGap(as, bs) == IF as = <<>> \/ bs = <<>> THEN <<>> ELSE <<Abs(as[1].eta - bs[1].eta)>>
HighestPair(ls) == Leading(Pairs(ls), PtOf)[1]

\* what is filled of an event, with its leptons, its jets or both
LastPt(c, ls) == IF c = "lll" THEN Min({l.pt : l \in ToSet(ls)}) ELSE ls[2].pt
PhiGap(ls) == Abs(HighestPair(ls)[1].phi - HighestPair(ls)[2].phi)
MinDelR(ls) == Min({DeltaR(p[1], p[2]) : p \in ToSet(Pairs(ls))})
TotalCharge(ls) == Total(Each(ls, LAMBDA l : l.charge))
JetMaxEta(js) ==
  LET hard == {Abs(j.eta) : j \in {j \in ToSet(Light(js)) : j.pt > 40}}
  IN  IF hard = {} THEN 0 ELSE Max(hard)
NJet25(js) == Len(Where(js, LAMBDA j : j.pt > 25 /\ Abs(j.eta) < 2400))
NJetEta1(js) == Len(Where(Light(js), LAMBDA j : Abs(j.eta) > 1000))
ClosestLepton(jet, ls) == Min({jet.eta - l.eta : l \in ToSet(ls)})

(* The ten histograms of a channel, from the arrays of its leptons and of its *)
(* jets.  ak.flatten turns the forward jets into an array of their own, whose *)
(* i-th element is the one of the i-th event as long as every event has one.  *)
Outputs(c, ds, leps, jets) ==
  LET H(h, values) == Fill(<<c, h>>, ds, values)
      flat == FlattenSeq(Each(jets, Forward))
  IN  (H("leptonpT", Each(leps, LAMBDA ls : LastPt(c, ls)))
       (+) H("highpT_sslp", Each(leps, PhiGap))
       (+) H("minDelR", Each(leps, MinDelR))
       (+) H("TotalCharge", Each(leps, TotalCharge)))
      (+) (H("jetMaxEta", Each(jets, JetMaxEta))
           (+) H("nJet25", Each(jets, NJet25))
           (+) H("nJetEta1", Each(jets, NJetEta1)))
      (+) (H("fwdJet_leadbJet",
             FlattenSeq(Each(jets, LAMBDA js : EtaGap(Forward(js), LeadB(js)))))
           (+) H("fwdJet_subleadbJet",
                 FlattenSeq(Each(jets, LAMBDA js : EtaGap(Forward(js), NextB(js)))))
           (+) H("fwdJet_closestLepton",
                 [i \in DOMAIN leps |-> ClosestLepton(flat[i], leps[i])]))

NumIn(arrays) == Len(FlattenSeq(arrays))
Channel(c, ds, events) ==
  LET leps == ChannelLeptons(c, events)
  IN  IF leps = <<>> THEN EmptyBag ELSE Outputs(c, ds, leps, ChannelJets(c, events))

\* the counters and histograms of the dilepton and of the trilepton part
SignalDilepton(ds, events) ==
  LET passed == Where(events, Dilepton)
  IN  (Count("tight_ll", NumIn(Each(passed, Tight)))
      (+) Count("jets through dilepton mask", NumIn(Each(passed, Jets25))))
      (+) (Count("tights_2mu", NumIn(ChannelLeptons("mumu", events)))
      (+) Count("tights_emu", NumIn(ChannelLeptons("emu", events)))
      (+) Count("tights_2e", NumIn(ChannelLeptons("ee", events))))
      (+) (Channel("mumu", ds, events) (+) Channel("emu", ds, events)
      (+) Channel("ee", ds, events))
SignalTrilepton(ds, events) ==
  Count("tight_lll", NumIn(ChannelLeptons("lll", events)))
  (+) Count("jets through trilepton mask", NumIn(ChannelJets("lll", events)))
  (+) Channel("lll", ds, events)

\* and those of a chunk, which skips the dilepton (trilepton) part without a pair (a
\* triple) of tight leptons
SignalProcessor(ds, events) ==
  LET n(A(_)) == NumIn(Each(events, A))
      di_empty == n(LAMBDA e : Pairs(Tight(e))) = 0
      tri_empty == n(LAMBDA e : Triples(Tight(e))) = 0
  IN  Count("all events", Len(events))
      (+) (Count("loose muons", n(LAMBDA e : Where(e.muons, LooseMuon)))
           (+) Count("tight muons", n(LAMBDA e : Where(e.muons, TightMuon))))
      (+) (Count("loose electrons", n(LAMBDA e : Where(e.electrons, LooseElectron)))
           (+) Count("tight electrons", n(LAMBDA e : Where(e.electrons, TightElectron))))
      (+) Count("jets > 25", n(Jets25))
      (+) ((IF di_empty THEN EmptyBag ELSE SignalDilepton(ds, events))
           (+) (IF tri_empty THEN EmptyBag ELSE SignalTrilepton(ds, events)))

(* postprocess: a histogram is scaled by the weight of each dataset and its    *)
(* datasets are grouped.  An entry keeps the dataset it was weighted as.  What  *)
(* is in no group leaves the histogram, whatever its weight.  The cutflow stays *)
(* as it is.                                                                    *)
Groups ==
  [tHq |-> {"tHq"}, tHW |-> {"tHW"}, ttW |-> {"ttW", "ttWJets"}, ttZ |-> {"ttZ", "ttZJets"},
   ttH |-> {"ttH"}, WZ |-> {"WZ"}, ZZ |-> {"ZZ"}, VVV |-> {"ZZZ", "WWZ", "WZZ"},
   tttt |-> {"tttt"}, WpWp |-> {"WpWp"}]
Grouped(key) ==
  IF Len(key) = 1 THEN {key}
  ELSE {<<key[1], <<g, key[2]>>, key[3]>> : g \in {g \in DOMAIN Groups : key[2] \in Groups[g]}}
Origin(entry) ==
  IF Len(entry) = 1 THEN entry ELSE <<entry[1], entry[2][2], entry[3]>>
PostSignal(acc) ==
  [entry \in UNION {Grouped(key) : key \in DOMAIN acc} |-> acc[Origin(entry)]]

(* The tutorial asks for the same loose leptons without the parentheses:       *)
(* ak.all(...) & ak.num(...) > 0 is the bitwise conjunction of a truth value   *)
(* and a number, compared with zero.                                           *)
TutorialLooseMask(e) ==
  LET masses == Each(Pairs(Loose(e)), MassOf)
      all == IF \A i \in DOMAIN masses : masses[i] >= 1200 THEN 1 ELSE 0
  IN  all * (Len(masses) % 2) > 0
\* its jet masks are each one conjunction over all the jets
TutorialMedium(js) ==
  \E j \in ToSet(js) : Abs(j.eta) < 2400 /\ j.pt > 25 /\ j.btag > MediumWp
TutorialLoose(js) ==
  \E j \in ToSet(js) :
    /\ (Abs(j.eta) < 2400 /\ j.pt > 25) \/ (j.pt > 40 /\ Abs(j.eta) > 2400)
    /\ j.btag <= LooseWp
\* and its leptons are chosen as in the analysis
TutorialMuons(e) == Where(e.muons, TightMuon)
TutorialElectrons(e) == Where(e.electrons, TightElectron)
TutorialDileptonMask(e) == DileptonMask(TutorialMuons(e) \o TutorialElectrons(e))
TutorialDilepton(e) ==
  /\ TutorialLooseMask(e) /\ TutorialDileptonMask(e)
  /\ TutorialMedium(e.jets) /\ TutorialLoose(e.jets)

\* the second pt of a channel, and in the muon channel the gap in eta between
\* the b jet of largest pt and the light jet of largest eta
SecondPt(channel, ds, events) ==
  LET leptons(e) == IF channel = "mumu" THEN TutorialMuons(e) ELSE TutorialElectrons(e)
      in == Where(events, LAMBDA e : TutorialDilepton(e) /\ Len(leptons(e)) = 2)
  IN  Fill(channel, ds, Each(in, LAMBDA e : leptons(e)[2].pt))
JetGap(ds, events) ==
  LET in == Where(events, LAMBDA e : TutorialDilepton(e) /\ Len(TutorialMuons(e)) = 2)
      max_light(e) == Leading(Light(e.jets), LAMBDA j : j.eta)
      max_b(e) == Leading(BJets(e.jets), LAMBDA j : j.pt)
  IN  Fill("etadiff", ds, FlattenSeq(Each(in, LAMBDA e : EtaGap(max_b(e), max_light(e)))))
Tutorial(ds, events) ==
  SecondPt("mumu", ds, events) (+) SecondPt("ee", ds, events) (+) JetGap(ds, events)
=============================================================================
