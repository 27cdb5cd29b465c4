----------------------------- MODULE ChunkedRun -----------------------------
(* How a notebook of docs/gallery is run on the facility's Dask workers:      *)
(* processor.Runner cuts the files of the fileset into chunks, a worker calls *)
(* process on each, the accumulators are added up in pairs wherever they are, *)
(* and postprocess is called once on the sum.  What a lost worker had in hand *)
(* or in memory is computed again.  coffea and distributed do all this; the   *)
(* notebooks rely on it ("It also leaves looping and chunks to the framework  *)
(* instead of us", example1).                                                 *)
EXTENDS Integers, FiniteSets, Bags

CONSTANTS
    Jobs,             \* records: the notebook (query), its chunks (a sequence), the
                      \* accumulator process makes of each (acc) and those it raises
                      \* an exception on (raises): process is a function of the chunk
    Workers,          \* the Dask workers
    MaxLost,          \* bound: how often a worker is lost during a run
    Post(_, _)        \* what the notebook's postprocess makes of the sum

ASSUME MaxLostAssumption == MaxLost \in Nat
\* chunks are numbered from one on, and process makes an accumulator of each
ASSUME JobsAssumption ==
  \A j \in Jobs : /\ 0 \notin DOMAIN j.chunks
                  /\ \A c \in DOMAIN j.chunks : IsABag(j.acc[c])

VARIABLES
    job,        \* the run: a member of Jobs
    todo,       \* the chunks no worker has in hand or in memory
    running,    \* the chunk each worker is processing, 0 for none
    partials,   \* accumulators in memory: whose, of which chunks, and what
    lost,       \* workers lost so far
    phase,      \* "process", "done" or "failed"
    output      \* what the notebook gets

vars == <<job, todo, running, partials, lost, phase, output>>

Chunks == DOMAIN job.chunks

\* The copies of an entry in the accumulators of some chunks, each a chunk and a number,
\* and the sum of the accumulators.
Copies(entry, acc, S) ==
  UNION {{c} \X (1..acc[c][entry]) : c \in {d \in S : BagIn(entry, acc[d])}}
SumOver(acc, S) ==
  [entry \in UNION {BagToSet(acc[c]) : c \in S} |-> Cardinality(Copies(entry, acc, S))]

Init ==
  /\ job \in Jobs
  /\ todo = Chunks
  /\ running = [w \in Workers |-> 0]
  /\ partials = {}
  /\ lost = 0
  /\ phase = "process"
  /\ output = EmptyBag

\* a free worker is given a chunk
Start(w) ==
  /\ phase = "process" /\ running[w] = 0
  /\ \E c \in todo : /\ running' = [running EXCEPT ![w] = c]
                     /\ todo' = todo \ {c}
  /\ UNCHANGED <<job, partials, lost, phase, output>>

\* process returns an accumulator, which stays on the worker
Finish(w) ==
  /\ phase = "process" /\ running[w] # 0
  /\ running[w] \notin job.raises
  /\ partials' = partials \cup {[who |-> w, cover |-> {running[w]},
                                 acc |-> job.acc[running[w]]]}
  /\ running' = [running EXCEPT ![w] = 0]
  /\ UNCHANGED <<job, todo, lost, phase, output>>

\* mutant: an exception sends the chunk round again
FailRetry(w) ==
  /\ phase = "process" /\ running[w] # 0
  /\ running[w] \in job.raises
  /\ todo' = todo \cup {running[w]}
  /\ running' = [running EXCEPT ![w] = 0]
  /\ UNCHANGED <<job, partials, lost, phase, output>>
\* process raises, and would again: the run ends with the exception
Fail(w) ==
  /\ phase = "process" /\ running[w] # 0
  /\ running[w] \in job.raises
  /\ phase' = "failed"
  /\ UNCHANGED <<job, todo, running, partials, lost, output>>

\* mutant: of an entry that both have, the sum keeps that of the first
MergeOverwrites(w) ==
  /\ phase = "process"
  /\ \E p, q \in partials :
       /\ p # q
       /\ partials' = (partials \ {p, q})
            \cup {[who |-> w, cover |-> p.cover \cup q.cover,
                   acc |-> [e \in DOMAIN p.acc \cup DOMAIN q.acc |->
                              IF e \in DOMAIN p.acc THEN p.acc[e] ELSE q.acc[e]]]}
  /\ UNCHANGED <<job, todo, running, lost, phase, output>>
\* a worker adds up two accumulators
Merge(w) ==
  /\ phase = "process"
  /\ \E p, q \in partials :
       /\ p # q
       /\ partials' = (partials \ {p, q})
            \cup {[who |-> w, cover |-> p.cover \cup q.cover, acc |-> p.acc (+) q.acc]}
  /\ UNCHANGED <<job, todo, running, lost, phase, output>>

\* mutant: what the worker had in memory is given up for lost
LoseMemory(w) ==
  /\ phase = "process" /\ lost < MaxLost
  /\ lost' = lost + 1
  /\ todo' = todo \cup {c \in Chunks : c = running[w]}
  /\ partials' = {p \in partials : p.who # w}
  /\ running' = [running EXCEPT ![w] = 0]
  /\ UNCHANGED <<job, phase, output>>
\* a worker is lost (its HTCondor job ends), and another takes its place
Lose(w) ==
  /\ phase = "process" /\ lost < MaxLost
  /\ lost' = lost + 1
  /\ todo' = (todo \cup {c \in Chunks : c = running[w]})
                \cup UNION {p.cover : p \in {p \in partials : p.who = w}}
  /\ partials' = {p \in partials : p.who # w}
  /\ running' = [running EXCEPT ![w] = 0]
  /\ UNCHANGED <<job, phase, output>>

\* one accumulator of every chunk: postprocess, and back to the notebook
Return ==
  /\ phase = "process" /\ todo = {}
  /\ \A w \in Workers : running[w] = 0
  /\ \E p \in partials : /\ partials = {p}
                         /\ output' = Post(job.query, p.acc)
  /\ phase' = "done"
  /\ UNCHANGED <<job, todo, running, partials, lost>>

Work == Return \/ \E w \in Workers : Start(w) \/ Finish(w) \/ Fail(w) \/ Merge(w)
Next == Work \/ \E w \in Workers : Lose(w)

\* the scheduler keeps the workers busy; losing one is never due
Spec == Init /\ [][Next]_vars /\ WF_vars(Work)

-----------------------------------------------------------------------------
(* A chunk is in one place: to do, in the hands of one worker, or in one       *)
(* accumulator, whatever was merged, lost and processed again.  The cutflow    *)
(* counters and the histograms of every notebook are sums over the chunks, and *)
(* a chunk counted twice or not at all is nowhere visible in them.             *)
HeldBy(c) == {w \in Workers : running[w] = c}
CoveredBy(c) == {p \in partials : c \in p.cover}

OnePlace ==
  \A c \in Chunks :
    /\ c \in todo => HeldBy(c) = {} /\ CoveredBy(c) = {}
    /\ HeldBy(c) # {} => CoveredBy(c) = {}
    /\ \A v, w \in HeldBy(c) : v = w
    /\ \A p, q \in CoveredBy(c) : p = q
NoneLost ==
  \A c \in Chunks : c \in todo \/ HeldBy(c) # {} \/ CoveredBy(c) # {}
ExactlyOnce == OnePlace /\ NoneLost

(* What the notebook gets does not depend on who processed the chunks, how     *)
(* often, and in which order the accumulators met: it is postprocess of the    *)
(* sum over the chunks.                                                        *)
ResultIsSum == phase = "done" => output = Post(job.query, SumOver(job.acc, Chunks))

(* A run comes to an end, with a result or an exception, when workers are lost *)
(* only so often.                                                              *)
Ends == <>(phase \in {"done", "failed"})
=============================================================================
