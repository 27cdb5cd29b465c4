------------------------------ MODULE AgcSchema ------------------------------
(* The schema of docs/gallery/agc_schema.py, by which coffea_analysis reads    *)
(* its files.  A file is a tree of branches, which are flat: the first part of *)
(* a branch's name says the collection, the rest the field.  A branch is a     *)
(* pair of the two, and a counting branch (numbermuon, numGenPart, nPV_x) a    *)
(* pair of what it begins with and of what it counts.                          *)
EXTENDS Columnar

\* "Remove n(names) from consideration", and those that deviate from the pattern
Counting == {"number", "num", "n"}
Deviating == {"met", "GenPart", "PV"}
Names(branches) == {k[1] : k \in DOMAIN branches} \ (Counting \cup Deviating)

\* the branches of a name, less some
Content(branches, name, less) ==
  [f \in {k[2] : k \in {k \in DOMAIN branches : k[1] = name}} \ less |-> branches[<<name, f>>]]

(* transforms.counts2offsets_form and zip_forms: the objects of an event are    *)
(* those of the flat fields between two offsets; without counts, there is one.  *)
Offsets(counts) == [i \in 0..Len(counts) |-> Total(SubSeq(counts, 1, i))]
ZipForms(content, counts) ==
  LET offsets == Offsets(counts)
  IN  [i \in DOMAIN counts |->
         [k \in 1..counts[i] |-> [f \in DOMAIN content |-> content[f][offsets[i - 1] + k]]]]

BuildCollections(branches) ==
  LET energy(name) == "energy" :> branches[<<name, "e">>]
      met == Content(branches, "met", {})
  IN  [name \in Names(branches) |->
         ZipForms(Content(branches, name, {"e"}) @@ energy(name),
                  branches[<<"number", name>>])]
      @@ [met |-> [i \in DOMAIN met["pt"] |-> [f \in DOMAIN met |-> met[f][i]]],
          GenPart |-> ZipForms(Content(branches, "GenPart", {}),
                               branches[<<"num", "GenPart">>]),
          PV |-> ZipForms(Content(branches, "PV", {"npvs"}), branches[<<"n", "PV_x">>])]

(* What a file holds of some events: a vertex in each, and a generated particle *)
(* for each muon.                                                               *)
File(events) ==
  LET flat(A(_), F(_)) == Each(FlattenSeq(Each(events, A)), F)
      counts(A(_)) == Each(events, LAMBDA e : Len(A(e)))
      mu(e) == e.muons
      el(e) == e.electrons
      pt(l) == l.pt
      ch(l) == l.charge
      en(l) == l.mass
  IN  <<"number", "muon">> :> counts(mu) @@ <<"muon", "pt">> :> flat(mu, pt)
      @@ <<"muon", "ch">> :> flat(mu, ch) @@ <<"muon", "e">> :> flat(mu, en)
      @@ <<"number", "electron">> :> counts(el) @@ <<"electron", "pt">> :> flat(el, pt)
      @@ <<"electron", "ch">> :> flat(el, ch) @@ <<"electron", "e">> :> flat(el, en)
      @@ <<"met", "pt">> :> Each(events, LAMBDA e : e.met)
      @@ <<"num", "GenPart">> :> counts(mu) @@ <<"GenPart", "pt">> :> flat(mu, pt)
      @@ <<"n", "PV_x">> :> Each(events, LAMBDA e : 1)
      @@ <<"PV", "x">> :> Each(events, LAMBDA e : 0)
      @@ <<"PV", "npvs">> :> Each(events, LAMBDA e : 1)

\* a PtEtaPhiELorentzVector: its mass goes with its energy
Vector(p) == [pt |-> p.pt, charge |-> p.ch, mass |-> p.energy]
=============================================================================
