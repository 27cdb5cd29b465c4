---------------------------- MODULE GalleryText ----------------------------
(* What the notebooks of docs/gallery say of their results, event by event and *)
(* without the columnar operators: the histogram entries an event ought to     *)
(* give.  The sentences are those of the comments, the headers and the axis    *)
(* labels.                                                                     *)
EXTENDS Benchmarks, THq

(* example4: MET "where at least 2 have pT > 40".  example5: "events which have *)
(* an opposite-sign muon pair that has mass in the range of 60-120".            *)
TwoAbove40(e) == \E i, j \in DOMAIN e.jets : i # j /\ e.jets[i].pt > 40 /\ e.jets[j].pt > 40
OppositePair(e) ==
  \E i, j \in DOMAIN e.muons :
    LET p == <<e.muons[i], e.muons[j]>>
    IN  /\ i < j /\ p[1].charge + p[2].charge = 0
        /\ MassOf(p) \in 6000..11999

(* example6: "the trijet system in each event with mass closest to 172.5", of  *)
(* jets above 30; every one of them when several are equally close.             *)
Trijet(e) ==
  LET hard == {i \in DOMAIN e.jets : e.jets[i].pt > 30}
      off(T) == Abs(MapThenSumSet(LAMBDA i : e.jets[i].mass, T) - 17250)
      threes == kSubset(3, hard)
  IN  {T \in threes : \A U \in threes : off(T) <= off(U)}

(* example7: jets "greater than 30 GeV and farther than a Euclidean distance of *)
(* 0.4 from any lepton with pT > 10 GeV".                                       *)
Isolated(e) ==
  {i \in DOMAIN e.jets :
     /\ e.jets[i].pt > 30
     /\ \A l \in ToSet(e.muons) \cup ToSet(e.electrons) :
          l.pt > 10 => DeltaR(e.jets[i], l) > 400}

(* example8: "the third lepton is associated with a lepton pair that has the    *)
(* same flavor, opposite charge, and closest mass to 91.2".                     *)
ThirdLeptons(e) ==
  LET ls == Leptons8(e)
      sfos == {p \in (DOMAIN ls) \X (DOMAIN ls) :
                 /\ p[1] < p[2] /\ ls[p[1]].flavor = ls[p[2]].flavor
                 /\ ls[p[1]].charge + ls[p[2]].charge = 0}
      off(p) == Abs(MassOf(<<ls[p[1]], ls[p[2]]>>) - 9120)
      best == {p \in sfos : \A q \in sfos : off(p) <= off(q)}
      rest == (DOMAIN ls) \ UNION {{p[1], p[2]} : p \in best}
  IN  IF Len(ls) < 3 \/ best = {} \/ rest = {} THEN {}
      ELSE {Max({ls[i].pt : i \in rest})}

(* The tutorial and the analysis: "no loose leptons with m_ll < 12 GeV", one    *)
(* loose pair at least.                                                         *)
NoLowMass(e) ==
  /\ Len(Loose(e)) >= 2
  /\ \A i, j \in DOMAIN Loose(e) : i < j => MassOf(<<Loose(e)[i], Loose(e)[j]>>) >= 1200

(* The channel of an event, by its tight leptons.                               *)
ChannelOf(e) ==
  LET mu == Cardinality({i \in DOMAIN Tight(e) : Tight(e)[i].flavor = 0})
      el == Len(Tight(e)) - mu
      jets == ToSet(e.jets)
      good == /\ NoLowMass(e) /\ \E l \in ToSet(Tight(e)) : l.pt > 25
              /\ \E j \in jets : j.pt > 25 /\ j.btag > MediumWp /\ Abs(j.eta) < 2400
              /\ \E j \in jets : /\ j.pt > 25 /\ j.btag <= LooseWp
                                 /\ Abs(j.eta) > 2400 => j.pt > 40
                                 /\ Abs(j.eta) # 2400
      sameSign == \A k, l \in ToSet(Tight(e)) : k.charge = l.charge
      atZ(width) == \E i, j \in DOMAIN Tight(e) :
                      /\ i < j /\ Tight(e)[i].flavor = Tight(e)[j].flavor
                      /\ Abs(MassOf(<<Tight(e)[i], Tight(e)[j]>>) - 9118) <= width
      ossfZ == \E i, j \in DOMAIN Tight(e) :
                 /\ i < j /\ Tight(e)[i].flavor = Tight(e)[j].flavor
                 /\ Tight(e)[i].charge # Tight(e)[j].charge
                 /\ Abs(MassOf(<<Tight(e)[i], Tight(e)[j]>>) - 9118) < 1500
  IN  CASE ~good -> "none"
        [] mu + el = 3 /\ ~ossfZ -> "lll"
        [] mu = 2 /\ el = 0 /\ sameSign -> "mumu"
        [] mu = 1 /\ el = 1 /\ sameSign -> "emu"
        [] mu = 0 /\ el = 2 /\ sameSign /\ ~atZ(1000) -> "ee"
        [] OTHER -> "none"

(* What an event ought to add to the histograms, as pairs of a histogram and a *)
(* value: for the analysis, the histograms whose values are what their axis    *)
(* says, in the channels that agree with it.                                   *)
Of(h, S, F(_)) == Each(SetToSeq(S), LAMBDA x : <<h, F(x)>>)
If(cond, entries) == IF cond THEN entries ELSE <<>>
Pt(e, S) == MapThenSumSet(LAMBDA i : e.jets[i].pt, S)
Second(e) == Min({l.pt : l \in ToSet(Tight(e))})

Says1(e) == <<<<"MET", e.met>>>>
Says2(e) == Of("Jet_pt", DOMAIN e.jets, LAMBDA i : e.jets[i].pt)
Says3(e) ==
  Of("Jet_pt", {i \in DOMAIN e.jets : e.jets[i].eta \in -999..999}, LAMBDA i : e.jets[i].pt)
Says4(e) == If(TwoAbove40(e), <<<<"MET_pt", e.met>>>>)
Says5(e) == If(OppositePair(e), <<<<"MET", e.met>>>>)
Says6(e) == Of("Jet_pt", Trijet(e), LAMBDA T : Pt(e, T))
Says7(e) == <<<<"Jet_pt", Pt(e, Isolated(e))>>>>
Says8(e) == Of("massT", ThirdLeptons(e), LAMBDA pt : <<e.met, pt>>)
SaysZPeak(e) ==
  If(Len(e.muons) = 2 /\ \E i, j \in 1..2 : e.muons[i].charge > e.muons[j].charge,
     <<<<"dimu_mass", MassOf(e.muons)>>>>)
SaysDilepton(e) ==
  LET pair(h, ls) ==
        LET hard == {i \in DOMAIN ls : ls[i].pt > 10}
        IN  If(Cardinality(hard) = 2 /\ \E i, j \in hard : ls[i].charge > ls[j].charge,
               <<<<h, MapThenSumSet(LAMBDA i : ls[i].mass, hard)>>>>)
  IN  pair("mumu", e.muons) \o pair("ee", e.electrons)
SaysTtbar(e) == <<<<"ht", Pt(e, {i \in DOMAIN e.jets : e.jets[i].pt > 25})>>>>
SaysTutorial(e) ==
  LET c == ChannelOf(e) IN If(c \in {"mumu", "ee"}, <<<<c, Second(e)>>>>)
SaysSignal(e) ==
  LET c == ChannelOf(e)
  IN  If(c \in {"lll", "mumu", "ee"},
         <<<<<<c, "leptonpT">>, Second(e)>>,
           <<<<c, "nJet25">>, Cardinality({i \in DOMAIN e.jets :
                e.jets[i].pt > 25 /\ Abs(e.jets[i].eta) < 2400})>>,
           <<<<c, "TotalCharge">>, Total(Each(Tight(e), LAMBDA l : l.charge))>>>>)
SaysNothing(e) == <<>>
=============================================================================
