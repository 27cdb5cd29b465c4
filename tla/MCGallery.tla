----------------------------- MODULE MCGallery -----------------------------
(* Jobs for TLC: short datasets of events on both sides of the cuts, in every *)
(* order, cut into chunks in every way.                                       *)
EXTENDS Gallery

Jet(pt, eta, btag, mass) ==
  [pt |-> pt, eta |-> eta, phi |-> 0, btag |-> btag, mass |-> mass]
Lep(f, pt, charge, mass) ==
  [flavor |-> f, pt |-> pt, eta |-> 1000 + f, phi |-> charge, charge |-> charge,
   mass |-> mass, good |-> TRUE, best |-> TRUE]
Ev(met, jets, muons, electrons) ==
  [met |-> met, jets |-> jets, muons |-> muons, electrons |-> electrons]

B == Jet(60, 500, 9000, 7000)
L == Jet(45, -2600, 1000, 5000)

Tilted == Jet(30, 1000, 1000, 0)
Edge == Jet(40, -900, 5000, 7000)
JetEvents == {Ev(10, <<>>, <<>>, <<>>), Ev(20, <<B, Edge, Tilted>>, <<>>, <<>>),
              Ev(30, <<B, L, Edge>>, <<>>, <<>>), Ev(40, <<L, B, L, Jet(31, 0, 0, 4750)>>, <<>>, <<>>)}

Mu(pt, charge, mass) == Lep(0, pt, charge, mass)
El(pt, charge, mass) == Lep(1, pt, charge, mass)
MuonEvents == {Ev(10, <<>>, <<Mu(30, 1, 4600), Mu(12, -1, 4500)>>, <<El(8, 1, 0)>>),
               Ev(20, <<>>, <<Mu(30, 1, 3000), Mu(20, 1, 4500), Mu(9, -1, 3000)>>, <<>>),
               Ev(30, <<>>, <<Mu(30, 1, 6000), Mu(20, -1, 6000)>>,
                            <<El(30, 1, 4500), El(20, -1, 4600)>>),
               Ev(40, <<>>, <<Mu(9, 1, 1)>>, <<>>)}

\* both kinds of lepton above 10 in every event
LeptonJetEvents ==
  {Ev(10, <<B, L, Jet(30, 0, 0, 0)>>, <<Mu(30, 1, 1)>>, <<El(20, 1, 1)>>),
   Ev(20, <<Jet(50, 1300, 0, 0), B>>, <<Mu(30, 1, 1), Mu(9, 1, 1)>>, <<El(20, 1, 1)>>),
   Ev(30, <<Jet(50, 1401, 0, 0), Jet(50, 600, 0, 0)>>, <<Mu(30, 1, 1)>>, <<El(20, 1, 1)>>)}

\* three leptons, with and without a pair, and two beside the pair
TrileptonEvents ==
  {Ev(10, <<>>, <<Mu(30, 1, 4600), Mu(20, -1, 4500), Mu(15, 1, 1)>>, <<>>),
   Ev(20, <<>>, <<Mu(31, 1, 1), Mu(21, 1, 1)>>, <<El(16, 1, 1)>>),
   Ev(30, <<>>, <<Mu(32, 1, 4600)>>, <<El(22, 1, 4500), El(17, -1, 4600)>>)}

Soft(f, charge) == [Lep(f, 10, charge, 900) EXCEPT !.best = FALSE]
SignalEvents ==
  {Ev(10, <<B, L>>, <<Mu(30, 1, 2000), Mu(20, 1, 2000)>>, <<>>),
   Ev(20, <<B, L, Jet(28, -100, 1000, 1)>>, <<Mu(30, 1, 1500)>>, <<El(40, 1, 1500)>>),
   Ev(30, <<B, Jet(26, 2400, 1000, 1), L>>, <<>>, <<El(40, -1, 4400), El(26, -1, 3000)>>),
   Ev(40, <<L, B, Jet(80, 0, 8500, 1)>>, <<Mu(30, 1, 2000), Mu(28, -1, 2000)>>,
                                        <<El(20, 1, 1500)>>),
   Ev(50, <<B, L>>, <<Mu(30, 1, 600), Mu(20, 1, 500)>>, <<>>),
   Ev(60, <<B, L>>, <<Mu(24, 1, 2000), Mu(20, 1, 2000)>>, <<>>),
   Ev(70, <<L, L>>, <<Mu(30, 1, 2000), Mu(20, 1, 2000)>>, <<>>)}
\* the same with more loose leptons: three, or four
MoreLoose ==
  {Ev(80, <<B, L>>, <<Mu(30, 1, 2000), Mu(20, 1, 2000), Soft(0, 1)>>, <<>>),
   Ev(90, <<B, L>>, <<Mu(30, 1, 2000), Mu(20, 1, 2000), Soft(0, 1)>>, <<Soft(1, 1)>>)}

\* particles have the numbers that the theorems about all events ask of them, and an event
\* with a jet above 30 has leptons of both kinds where they ask it
ASSUME ParticlesAssumption ==
  /\ \A e \in JetEvents \cup MuonEvents \cup LeptonJetEvents \cup TrileptonEvents \cup SignalEvents :
       /\ \A j \in ToSet(e.jets) : {j.pt, j.mass} \subseteq Nat /\ {j.eta, j.phi} \subseteq Int
       /\ \A l \in ToSet(e.muons) \cup ToSet(e.electrons) :
            l.charge \in {-1, 1} /\ {l.mass, l.eta, l.phi} \subseteq Int
  /\ \A e \in LeptonJetEvents : \A ls \in {e.muons, e.electrons} : \E l \in ToSet(ls) : l.pt > 10

CutAt(s, S) ==
  LET at == SetToSortSeq(S \cup {0, Len(s)}, <)
  IN  [k \in 1..Len(at) - 1 |-> SubSeq(s, at[k] + 1, at[k + 1])]
Cuts(ds, s) == {Each(CutAt(s, S), LAMBDA part : <<ds, part>>) : S \in SUBSET (1..Len(s) - 1)}

\* which are cuts of the fileset, as are those of two datasets
ASSUME CutsAssumption ==
  \A s \in [1..2 -> JetEvents] : \A t \in [1..3 -> JetEvents] :
    /\ \A c \in Cuts("SingleMu", s) : IsCut(c, [SingleMu |-> s])
    /\ \A c \in Cuts("SingleMu", s), d \in Cuts("ttW", t) :
         IsCut(d \o c, [ds \in {"SingleMu", "ttW"} |-> IF ds = "ttW" THEN t ELSE s])

JobsOver(query, Process(_, _), Says(_), events, n) ==
  UNION {{Job(query, Process, Never, Says, [SingleMu |-> s], c) : c \in Cuts("SingleMu", s)} :
           s \in [1..n -> events]}
Jobs8(events, n) ==
  UNION {{Job("example8", Example8, IndexError8, Says8, [SingleMu |-> s], c) :
           c \in Cuts("SingleMu", s)} : s \in [1..n -> events]}
\* two datasets, one in a group and one without
Ungrouped == CHOOSE ds \in DOMAIN Fileset : \A g \in DOMAIN Groups : ds \notin Groups[g]
SignalJobs(events) ==
  UNION {{Job("tHq", SignalProcessor, Never, SaysSignal,
              [ds \in {"ttW", Ungrouped} |-> IF ds = "ttW" THEN <<a, b>> ELSE <<c>>],
              cut \o <<<<Ungrouped, <<c>>>>>>) : cut \in Cuts("ttW", <<a, b>>)} :
           a, b \in events, c \in {CHOOSE e \in SignalEvents : e.met = 10}}

TwoBeside ==
  Ev(40, <<>>, <<Mu(32, 1, 4600), Mu(30, -1, 4500)>>, <<El(12, 1, 0), El(18, 1, 0)>>)

GalleryJobs ==
  UNION {JobsOver("example1", Example1, Says1, JetEvents, 2),
         JobsOver("example2", Example2, Says2, JetEvents, 2),
         JobsOver("example3", Example3, Says3, JetEvents \ {Ev(10, <<>>, <<>>, <<>>)}, 3),
         JobsOver("example4", Example4, Says4, JetEvents, 3),
         JobsOver("example5", Example5, Says5, MuonEvents, 2),
         JobsOver("example6", Example6, Says6, JetEvents, 2),
         JobsOver("example7", Example7, Says7, LeptonJetEvents, 2),
         Jobs8(TrileptonEvents \cup {TwoBeside}, 1),
         JobsOver("zpeak", ZPeak, SaysZPeak, MuonEvents, 2),
         JobsOver("dilepton", DileptonMass, SaysDilepton, MuonEvents, 2),
         JobsOver("ttbar", TtbarAnalysis, SaysTtbar, JetEvents, 2),
         JobsOver("template", MinimalProcessor, SaysNothing, JetEvents, 2),
         JobsOver("tutorial", Tutorial, SaysTutorial,
                  SignalEvents \cup {e \in MoreLoose : e.met = 80}, 2),
         SignalJobs(SignalEvents \cup MoreLoose)}

ThirdLeptonJobs == Jobs8(TrileptonEvents, 2)
ParityJobs == JobsOver("tutorial", Tutorial, SaysTutorial, SignalEvents \cup MoreLoose, 1)
=============================================================================
