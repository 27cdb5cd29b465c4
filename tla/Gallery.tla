------------------------------ MODULE Gallery ------------------------------
(* The notebooks of docs/gallery on the workers: the chunked run, with the    *)
(* process methods of Benchmarks and THq, against what the notebooks say.     *)
(* A job names its notebook, the events of each of its datasets, and the      *)
(* chunks they were cut into, which are pairs of a dataset and its events.    *)
EXTENDS ChunkedRun, GalleryText

\* only example8 indexes an array with numbers that need not be its indices
Never(events) == FALSE

\* Only the analysis-casa notebook changes the sum.  coffea_analysis returns nothing from
\* postprocess, and then plots the sum that the framework was left with.
PostOf(query, acc) == IF query = "tHq" THEN PostSignal(acc) ELSE acc

\* the histograms the notebook speaks of, and what it says is in them
Tells == [example1 |-> {"MET"}, example2 |-> {"Jet_pt"}, example3 |-> {"Jet_pt"},
          example4 |-> {"MET_pt"}, example5 |-> {"MET"}, example6 |-> {"Jet_pt"},
          example7 |-> {"Jet_pt"}, example8 |-> {"massT"}, zpeak |-> {"dimu_mass"},
          ttbar |-> {"ht"}, tutorial |-> {"mumu", "ee"},
          tHq |-> {"lll", "mumu", "ee"} \X {"leptonpT", "nJet25", "TotalCharge"},
          dilepton |-> {"mumu", "ee"}, template |-> {}]
Entered(ds, said) ==
  [entry \in {<<x[1], ds, x[2]>> : x \in ToSet(said)} |->
     Cardinality({i \in DOMAIN said : said[i] = <<entry[1], entry[3]>>})]
Described(Says(_), data) ==
  SumOver([ds \in DOMAIN data |-> Entered(ds, FlattenSeq(Each(data[ds], Says)))], DOMAIN data)

\* the chunks of a fileset: those of a dataset, in some order, are one behind the other
\* from its first event to its last
IsCut(chunks, data) ==
  /\ \A c \in DOMAIN chunks : chunks[c][1] \in DOMAIN data
  /\ \A ds \in DOMAIN data : \E n \in 0..Len(chunks) :
       \E nth \in [1..n -> DOMAIN chunks], at \in [0..n -> 0..Len(data[ds])] :
         /\ {nth[k] : k \in 1..n} = {c \in DOMAIN chunks : chunks[c][1] = ds}
         /\ \A k, l \in 1..n : nth[k] = nth[l] => k = l
         /\ at[0] = 0 /\ at[n] = Len(data[ds])
         /\ \A k \in 1..n : /\ at[k - 1] <= at[k]
                            /\ chunks[nth[k]] = <<ds, SubSeq(data[ds], at[k - 1] + 1, at[k])>>

\* a job carries what process makes of each chunk, and the two results it is
\* measured against: process called once on each dataset, and what is said
Job(query, Process(_, _), Raises(_), Says(_), data, chunks) ==
  LET bad == {c \in DOMAIN chunks : Raises(chunks[c][2])}
      wholly == \E ds \in DOMAIN data : Raises(data[ds])
  IN  [query |-> query, chunks |-> chunks, raises |-> bad,
       acc |-> [c \in DOMAIN chunks |->
                  IF c \in bad THEN EmptyBag ELSE Process(chunks[c][1], chunks[c][2])],
       uncut |-> [ds \in IF wholly THEN {} ELSE DOMAIN data |-> Process(ds, data[ds])],
       told |-> Tells[query],
       described |-> PostOf(query, Described(Says, data))]

-----------------------------------------------------------------------------
\* how far a counter got, how many entries a histogram has, and some histograms' entries
Reached(acc, key) == IF BagIn(<<key>>, acc) THEN acc[<<key>>] ELSE 0
OfHistogram(acc, h) == {k \in DOMAIN acc : Len(k) = 3 /\ k[1] = h}
Filled(acc, h) == Cardinality(UNION {{k} \X (1..acc[k]) : k \in OfHistogram(acc, h)})
Only(acc, hists) == [k \in UNION {OfHistogram(acc, h) : h \in hists} |-> acc[k]]

(* The result of a run is that of calling process once on each whole dataset:  *)
(* where the chunks were cut, on which worker and how often each was processed *)
(* and in which order the accumulators met does not show.  It rests on every   *)
(* process method treating the events of a chunk one by one, which columnar    *)
(* code does not do by itself (a mask of another length, an index of another   *)
(* array, a branch on a property of the whole chunk).                          *)
NoChunks(acc) == [k \in (DOMAIN acc) \ {<<"number of chunks">>} |-> acc[k]]
Uncut(j) == Post(j.query, SumOver(j.uncut, DOMAIN j.uncut))
ChunkingIrrelevant == phase = "done" => NoChunks(output) = NoChunks(Uncut(job))

(* The histograms hold, for each event of each dataset, what the notebook says *)
(* of it (GalleryText): no object more, none less, none of another event.      *)
AsDescribed ==
  phase = "done" /\ job.told # {} => Only(output, job.told) = job.described

(* The counters of the cutflow agree with each other and with the histograms:  *)
(* a chunk for every chunk, as many jets in the mask as behind it, as many     *)
(* final events as entries, as many jets in the end as in the conjunction of   *)
(* the masks, no dilepton event outside the three channels, and in a channel as *)
(* many entries in every histogram of an event: its leptons and its jets are    *)
(* the same events.                                                             *)
Agrees(query, acc, chunks) ==
  LET reached(key) == Reached(acc, key)
      filled(h) == Filled(acc, h)
  IN  CASE query = "example1" -> reached("number of chunks") = chunks
        [] query = "example3" -> /\ reached("abs(eta) < 1") = reached("final good jets")
                                 /\ reached("final good jets") = filled("Jet_pt")
        [] query = "example4" -> reached("final events") = filled("MET_pt")
        [] query = "example5" -> reached("final events") = filled("MET")
        [] query = "example7" -> reached("final jets") = reached("jet-lepton pairs")
        [] query = "tHq" ->
             /\ reached("tight_ll")
                  = reached("tights_2mu") + reached("tights_emu") + reached("tights_2e")
             /\ \A h, other \in Accumulator :
                  h[1] = other[1] /\ other[2] \in PerEvent =>
                    /\ h[2] \in PerEvent => filled(h) = filled(other)
                    /\ filled(h) <= filled(other)
        [] OTHER -> TRUE
CutflowAgrees == phase = "done" => Agrees(job.query, output, Len(job.chunks))
=============================================================================
