------------------------- MODULE ChunkedRun_proofs -------------------------
(* ExactlyOnce for any number of workers, chunks and losses.  By itself it is *)
(* all but inductive: a step needs to know besides that what workers hold and *)
(* accumulators cover are chunks of the job, and that 0, which stands for a   *)
(* worker without a chunk, is none.  From it follows ResultIsSum: every       *)
(* accumulator is the sum over the chunks that it covers.  And from that      *)
(* ChunkingIrrelevant, for the notebooks that treat one event at a time:      *)
(* what their process methods make of two arrays adds up to what they make of *)
(* the arrays one behind the other, hence over any chunks of a fileset.  So   *)
(* what holds of the counters of one event holds of those of a result:        *)
(* CutflowAgrees.                                                             *)
EXTENDS Gallery, TLAPS, FiniteSetTheorems, WellFoundedInduction, SequenceTheorems

Shape ==
  /\ 0 \notin Chunks
  /\ todo \subseteq Chunks
  /\ running \in [Workers -> Chunks \cup {0}]
  /\ \A p \in partials : p.cover \subseteq Chunks

IInv == Shape /\ ExactlyOnce

\* at the start every chunk is to do
LEMMA InitIInv == Init => IInv
<1> SUFFICES ASSUME Init PROVE IInv
  OBVIOUS
<1>1. Shape
  BY JobsAssumption DEF Init, Shape, Chunks
<1>2. \A c \in Chunks : c \in todo /\ HeldBy(c) = {} /\ CoveredBy(c) = {}
  BY <1>1 DEF Init, Shape, HeldBy, CoveredBy
<1> QED
  BY <1>1, <1>2 DEF IInv, ExactlyOnce, OnePlace, NoneLost

(* What ExactlyOnce says of one chunk, after a step: the form every case of    *)
(* the induction proves.                                                       *)
Once(c) ==
  /\ c \in todo => HeldBy(c) = {} /\ CoveredBy(c) = {}
  /\ HeldBy(c) # {} => CoveredBy(c) = {}
  /\ \A v, w \in HeldBy(c) : v = w
  /\ \A p, q \in CoveredBy(c) : p = q
  /\ c \in todo \/ HeldBy(c) # {} \/ CoveredBy(c) # {}

\* Counting each chunk once is all that the exactly-once claim says.
LEMMA OnceIsExactlyOnce == ExactlyOnce <=> \A c \in Chunks : Once(c)
BY DEF ExactlyOnce, OnePlace, NoneLost, Once

\* a chunk leaves the list for a worker that had none
LEMMA StartStep == ASSUME NEW w \in Workers, IInv, Start(w) PROVE IInv'
<1> USE DEF HeldBy, CoveredBy
<1>1. PICK c \in todo : running' = [running EXCEPT ![w] = c] /\ todo' = todo \ {c}
  BY DEF Start
<1>2. /\ partials' = partials /\ Chunks' = Chunks /\ running[w] = 0
  BY DEF Start, Chunks
<1>3. Shape'
  BY <1>1, <1>2 DEF IInv, Shape
<1>4. ASSUME NEW d \in Chunks PROVE Once(d)'
  <2>1. Once(d)
    BY OnceIsExactlyOnce DEF IInv
  <2>2. CoveredBy(d)' = CoveredBy(d)
    BY <1>2
  <2>3. CASE d = c
    <3>1. HeldBy(d)' = {w}
      BY <1>1, <2>1, <2>3 DEF IInv, Shape, Once
    <3> QED
      BY <1>1, <2>1, <2>2, <2>3, <3>1 DEF Once
  <2>4. CASE d # c
    <3>1. HeldBy(d)' = HeldBy(d)
      BY <1>1, <1>2, <2>4 DEF IInv, Shape
    <3> QED
      BY <1>1, <2>1, <2>2, <2>4, <3>1 DEF Once
  <2> QED
    BY <2>3, <2>4
<1> QED
  BY <1>2, <1>3, <1>4 DEF IInv, ExactlyOnce, OnePlace, NoneLost, Once

\* it leaves the worker for an accumulator of its own
LEMMA FinishStep == ASSUME NEW w \in Workers, IInv, Finish(w) PROVE IInv'
<1> USE DEF HeldBy, CoveredBy
<1> DEFINE c == running[w]
           r == [who |-> w, cover |-> {c}, acc |-> job.acc[c]]
<1>1. /\ c # 0 /\ c \in Chunks /\ Chunks' = Chunks /\ todo' = todo
      /\ partials' = partials \cup {r} /\ running' = [running EXCEPT ![w] = 0]
  BY DEF Finish, Chunks, IInv, Shape
<1>2. r.cover = {c}
  OBVIOUS
<1> HIDE DEF r
<1>3. Shape'
  BY <1>1, <1>2 DEF IInv, Shape
<1>4. ASSUME NEW d \in Chunks PROVE Once(d)'
  <2>1. Once(d)
    BY OnceIsExactlyOnce DEF IInv
  <2>2. CASE d = c
    <3>1. HeldBy(d) = {w}
      BY <2>1, <2>2 DEF Once
    <3>2. HeldBy(d)' = {} /\ CoveredBy(d)' = {r} /\ d \notin todo
      BY <1>1, <1>2, <2>1, <2>2, <3>1 DEF IInv, Shape, Once
    <3> QED
      BY <1>1, <3>2 DEF Once
  <2>3. CASE d # c
    <3>1. HeldBy(d)' = HeldBy(d)
      BY <1>1, <2>3 DEF IInv, Shape
    <3>2. CoveredBy(d)' = CoveredBy(d)
      BY <1>1, <1>2, <2>3
    <3> QED
      BY <1>1, <2>1, <3>1, <3>2 DEF Once
  <2> QED
    BY <2>2, <2>3
<1> QED
  BY <1>1, <1>3, <1>4 DEF IInv, ExactlyOnce, OnePlace, NoneLost, Once

\* two accumulators become one, of the chunks of both
LEMMA MergeStep == ASSUME NEW w \in Workers, IInv, Merge(w) PROVE IInv'
<1> USE DEF HeldBy, CoveredBy
<1>1. PICK p \in partials, q \in partials :
        /\ p # q
        /\ partials' = (partials \ {p, q})
             \cup {[who |-> w, cover |-> p.cover \cup q.cover, acc |-> p.acc (+) q.acc]}
  BY DEF Merge
<1> DEFINE r == [who |-> w, cover |-> p.cover \cup q.cover, acc |-> p.acc (+) q.acc]
<1>2. r.cover = p.cover \cup q.cover /\ partials' = (partials \ {p, q}) \cup {r}
  BY <1>1
<1> HIDE DEF r
<1>3. Chunks' = Chunks /\ todo' = todo /\ running' = running
  BY DEF Merge, Chunks
<1>4. Shape'
  BY <1>2, <1>3 DEF IInv, Shape
<1>5. ASSUME NEW d \in Chunks PROVE Once(d)'
  <2>1. Once(d)
    BY OnceIsExactlyOnce DEF IInv
  <2>2. HeldBy(d)' = HeldBy(d)
    BY <1>3
  <2>3. CASE d \in r.cover
    <3>1. CoveredBy(d) \subseteq {p, q} /\ CoveredBy(d) # {}
      BY <1>2, <2>1, <2>3 DEF Once
    <3>2. CoveredBy(d)' = {r}
      BY <1>2, <2>3, <3>1
    <3> QED
      BY <1>3, <2>1, <2>2, <3>1, <3>2 DEF Once
  <2>4. CASE d \notin r.cover
    <3>1. CoveredBy(d)' = CoveredBy(d)
      BY <1>2, <2>4
    <3> QED
      BY <1>3, <2>1, <2>2, <3>1 DEF Once
  <2> QED
    BY <2>3, <2>4
<1> QED
  BY <1>3, <1>4, <1>5 DEF IInv, ExactlyOnce, OnePlace, NoneLost, Once

\* what a lost worker had goes back on the list
LEMMA LoseStep == ASSUME NEW w \in Workers, IInv, Lose(w) PROVE IInv'
<1> USE DEF HeldBy, CoveredBy
<1>1. /\ Chunks' = Chunks
      /\ todo' = (todo \cup {c \in Chunks : c = running[w]})
                    \cup UNION {p.cover : p \in {p \in partials : p.who = w}}
      /\ partials' = {p \in partials : p.who # w}
      /\ running' = [running EXCEPT ![w] = 0]
  BY DEF Lose, Chunks
<1>2. Shape'
  BY <1>1 DEF IInv, Shape
<1>3. ASSUME NEW d \in Chunks PROVE Once(d)'
  <2>1. Once(d)
    BY OnceIsExactlyOnce DEF IInv
  <2>2. CASE running[w] = d
    <3>1. HeldBy(d) = {w}
      BY <2>1, <2>2 DEF Once
    <3>2. HeldBy(d)' = {} /\ CoveredBy(d)' = {} /\ d \in todo'
      BY <1>1, <2>1, <2>2, <3>1 DEF IInv, Shape, Once
    <3> QED
      BY <3>2 DEF Once
  <2>3. CASE running[w] # d
    <3>1. HeldBy(d)' = HeldBy(d)
      BY <1>1, <2>3 DEF IInv, Shape
    <3>2. CASE \E p \in CoveredBy(d) : p.who = w
      <4>1. CoveredBy(d)' = {} /\ d \in todo'
        BY <1>1, <2>1, <3>2 DEF Once
      <4> QED
        BY <2>1, <3>1, <3>2, <4>1 DEF Once
    <3>3. CASE \A p \in CoveredBy(d) : p.who # w
      <4>1. CoveredBy(d)' = CoveredBy(d) /\ (d \in todo' <=> d \in todo)
        BY <1>1, <2>3, <3>3
      <4> QED
        BY <2>1, <3>1, <4>1 DEF Once
    <3> QED
      BY <3>2, <3>3
  <2> QED
    BY <2>2, <2>3
<1> QED
  BY <1>1, <1>2, <1>3 DEF IInv, ExactlyOnce, OnePlace, NoneLost, Once

\* the other steps leave the chunks where they are
LEMMA StillStep ==
  ASSUME IInv, UNCHANGED <<job, todo, running, partials>> PROVE IInv'
BY DEF IInv, Shape, ExactlyOnce, OnePlace, NoneLost, HeldBy, CoveredBy, Chunks

\* Every step of the loop and of its workers keeps the invariant.
LEMMA NextIInv == IInv /\ [Next]_vars => IInv'
<1> SUFFICES ASSUME IInv, [Next]_vars PROVE IInv'
  OBVIOUS
<1>1. ASSUME NEW w \in Workers, Start(w) PROVE IInv'
  BY <1>1, StartStep
<1>2. ASSUME NEW w \in Workers, Finish(w) PROVE IInv'
  BY <1>2, FinishStep
<1>3. ASSUME NEW w \in Workers, Fail(w) PROVE IInv'
  BY <1>3, StillStep DEF Fail
<1>4. ASSUME NEW w \in Workers, Merge(w) PROVE IInv'
  BY <1>4, MergeStep
<1>5. ASSUME NEW w \in Workers, Lose(w) PROVE IInv'
  BY <1>5, LoseStep
<1>6. CASE Return
  BY <1>6, StillStep DEF Return
<1>7. CASE UNCHANGED vars
  BY <1>7, StillStep DEF vars
<1> QED
  BY <1>1, <1>2, <1>3, <1>4, <1>5, <1>6, <1>7 DEF Next, Work

(* Whatever the number of workers, chunks, merges and losses, a chunk is in    *)
(* one place, and in the end in the one accumulator that becomes the result.   *)
THEOREM EveryChunkOnce == Spec => []ExactlyOnce
<1>1. IInv => ExactlyOnce
  BY DEF IInv
<1> QED
  BY InitIInv, NextIInv, <1>1, PTL DEF Spec

(* The accumulator that Return hands to postprocess covers every chunk.        *)
THEOREM ReturnIsComplete ==
  ASSUME IInv, Return
  PROVE  \E p \in partials : partials = {p} /\ p.cover = Chunks
<1>1. PICK p \in partials : partials = {p}
  BY DEF Return
<1>2. ASSUME NEW c \in Chunks PROVE c \in p.cover
  <2>1. c \notin todo /\ HeldBy(c) = {}
    BY DEF Return, IInv, Shape, HeldBy
  <2> QED
    BY <1>1, <2>1 DEF IInv, ExactlyOnce, NoneLost, CoveredBy
<1> QED
  BY <1>1, <1>2 DEF IInv, Shape

-----------------------------------------------------------------------------
(* Sums of accumulators *)

\* There are n pairs of a chunk and a number from one to n.
LEMMA Numbered ==
  ASSUME NEW c, NEW n \in Nat
  PROVE  IsFiniteSet({c} \X (1..n)) /\ Cardinality({c} \X (1..n)) = n
<1>1. IsFiniteSet({c}) /\ Cardinality({c}) = 1
  BY FS_Singleton
<1>2. IsFiniteSet(1..n) /\ Cardinality(1..n) = n
  <2>1. /\ IsFiniteSet(1..n)
        /\ Cardinality(1..n) = IF 1 > n THEN 0 ELSE n - 1 + 1
    BY FS_Interval
  <2> QED
    BY <2>1
<1>3. /\ IsFiniteSet({c} \X (1..n))
      /\ Cardinality({c} \X (1..n)) = Cardinality({c}) * Cardinality(1..n)
  BY <1>1, <1>2, FS_Product
<1> QED
  BY <1>1, <1>2, <1>3

\* As many copies of an entry are in one accumulator as it counts.
LEMMA CopiesInOne ==
  ASSUME NEW acc, NEW c, NEW entry, IsABag(acc[c])
  PROVE  /\ IsFiniteSet(Copies(entry, acc, {c}))
         /\ Cardinality(Copies(entry, acc, {c}))
              = IF BagIn(entry, acc[c]) THEN acc[c][entry] ELSE 0
<1>1. CASE BagIn(entry, acc[c])
  <2>1. acc[c][entry] \in Nat
    BY <1>1 DEF IsABag, BagIn, BagToSet
  <2>2. Copies(entry, acc, {c}) = {c} \X (1..acc[c][entry])
    BY <1>1 DEF Copies
  <2>3. /\ IsFiniteSet({c} \X (1..acc[c][entry]))
        /\ Cardinality({c} \X (1..acc[c][entry])) = acc[c][entry]
    BY <2>1, Numbered
  <2> QED
    BY <1>1, <2>2, <2>3
<1>2. CASE ~BagIn(entry, acc[c])
  <2>1. Copies(entry, acc, {c}) = {}
    BY <1>2 DEF Copies
  <2> QED
    BY <1>2, <2>1, FS_EmptySet
<1> QED
  BY <1>1, <1>2

\* The sum over one chunk is its accumulator.
LEMMA SumOverOne ==
  ASSUME NEW acc, NEW c, IsABag(acc[c]) PROVE SumOver(acc, {c}) = acc[c]
<1>1. UNION {BagToSet(acc[d]) : d \in {c}} = DOMAIN acc[c]
  BY DEF BagToSet
<1>2. \A entry \in DOMAIN acc[c] : Cardinality(Copies(entry, acc, {c})) = acc[c][entry]
  BY CopiesInOne DEF BagIn, BagToSet
<1>3. acc[c] = [entry \in DOMAIN acc[c] |-> acc[c][entry]]
  BY DEF IsABag
<1> QED
  BY <1>1, <1>2, <1>3 DEF SumOver

\* The copies in the accumulators of two sets of chunks are those of the one and of the
\* other, and of no chunk outside.
LEMMA CopiesInBoth ==
  ASSUME NEW acc, NEW S, NEW T, NEW entry
  PROVE  /\ Copies(entry, acc, S \cup T) = Copies(entry, acc, S) \cup Copies(entry, acc, T)
         /\ \A x \in Copies(entry, acc, S) : x[1] \in S
<1>1. /\ {c \in S \cup T : BagIn(entry, acc[c])}
           = {c \in S : BagIn(entry, acc[c])} \cup {c \in T : BagIn(entry, acc[c])}
  OBVIOUS
<1> QED
  BY <1>1 DEF Copies
\* The sum over two sets of chunks that share none is that of their sums.
LEMMA SumOverBoth ==
  ASSUME NEW acc, NEW S, NEW T, S \cap T = {},
         \A entry : IsFiniteSet(Copies(entry, acc, S)) /\ IsFiniteSet(Copies(entry, acc, T))
  PROVE  /\ SumOver(acc, S \cup T) = SumOver(acc, S) (+) SumOver(acc, T)
         /\ \A entry : IsFiniteSet(Copies(entry, acc, S \cup T))
<1> DEFINE card(entry, R) == Cardinality(Copies(entry, acc, R))
           in(R) == UNION {BagToSet(acc[c]) : c \in R}
<1>1. ASSUME NEW entry
      PROVE  /\ IsFiniteSet(Copies(entry, acc, S \cup T))
             /\ card(entry, S \cup T) = card(entry, S) + card(entry, T)
  <2>1. Copies(entry, acc, S) \cap Copies(entry, acc, T) = {}
    BY CopiesInBoth
  <2>2. /\ IsFiniteSet(Copies(entry, acc, S)) /\ IsFiniteSet(Copies(entry, acc, T))
        /\ card(entry, S) \in Nat /\ card(entry, T) \in Nat
    BY FS_CardinalityType
  <2>3. /\ IsFiniteSet(Copies(entry, acc, S \cup T))
        /\ card(entry, S \cup T) = card(entry, S) + card(entry, T) - Cardinality({})
    BY <2>1, <2>2, CopiesInBoth, FS_Union
  <2> QED
    BY <2>2, <2>3, FS_EmptySet
<1>2. ASSUME NEW R, NEW entry, entry \notin in(R) PROVE card(entry, R) = 0
  <2>1. Copies(entry, acc, R) = {}
    BY <1>2 DEF Copies, BagIn
  <2> QED
    BY <2>1, FS_EmptySet
<1>3. in(S \cup T) = in(S) \cup in(T)
  OBVIOUS
<1>4. /\ SumOver(acc, S) = [entry \in in(S) |-> card(entry, S)]
      /\ SumOver(acc, T) = [entry \in in(T) |-> card(entry, T)]
      /\ SumOver(acc, S \cup T) = [entry \in in(S \cup T) |-> card(entry, S \cup T)]
  BY DEF SumOver
<1>5. ASSUME NEW entry \in in(S) \cup in(T)
      PROVE  card(entry, S \cup T)
               = (IF entry \in in(S) THEN card(entry, S) ELSE 0)
                   + (IF entry \in in(T) THEN card(entry, T) ELSE 0)
  BY <1>1, <1>2
<1> HIDE DEF card, in
<1> QED
  BY <1>1, <1>3, <1>4, <1>5 DEF (+)
-----------------------------------------------------------------------------
(* The result of a run *)

\* The job is one of those that there are; an accumulator in memory is the sum over the
\* chunks that it covers, none of which has raised; and so is the result.
SummedInv ==
  /\ job \in Jobs
  /\ \A p \in partials :
       /\ p.cover # {} /\ p.cover \cap job.raises = {}
       /\ p.acc = SumOver(job.acc, p.cover)
       /\ \A entry : IsFiniteSet(Copies(entry, job.acc, p.cover))
  /\ phase = "done" => /\ output = Post(job.query, SumOver(job.acc, Chunks))
                       /\ Chunks \cap job.raises = {}

\* The accumulators of the chunks of a job are accumulators.
LEMMA ChunkBags == ASSUME job \in Jobs PROVE \A c \in Chunks : IsABag(job.acc[c])
BY JobsAssumption DEF Chunks

\* There is no accumulator before the first chunk.
LEMMA InitSummed == Init => SummedInv
BY DEF Init, SummedInv

\* A new accumulator is the sum over its one chunk.
LEMMA FinishSummed ==
  ASSUME IInv, SummedInv, NEW w \in Workers, Finish(w) PROVE SummedInv'
<1> DEFINE c == running[w]
           r == [who |-> w, cover |-> {c}, acc |-> job.acc[c]]
<1>1. /\ c \in Chunks /\ c \notin job.raises
      /\ partials' = partials \cup {r}
      /\ job' = job /\ phase' = phase /\ phase # "done"
  BY DEF Finish, Chunks, IInv, Shape
<1>2. IsABag(job.acc[c])
  BY <1>1, ChunkBags DEF SummedInv
<1>3. r.cover = {c} /\ r.acc = job.acc[c]
  OBVIOUS
<1> HIDE DEF r
<1>4. /\ r.cover # {} /\ r.cover \cap job.raises = {}
      /\ r.acc = SumOver(job.acc, r.cover)
      /\ \A entry : IsFiniteSet(Copies(entry, job.acc, r.cover))
  BY <1>1, <1>2, <1>3, SumOverOne, CopiesInOne
<1> QED
  BY <1>1, <1>4 DEF SummedInv

\* Two accumulators cover no chunk in common, and give the sum over both their chunks.
LEMMA MergeSummed ==
  ASSUME IInv, SummedInv, NEW w \in Workers, Merge(w) PROVE SummedInv'
<1>1. PICK p \in partials, q \in partials :
        /\ p # q
        /\ partials' = (partials \ {p, q})
             \cup {[who |-> w, cover |-> p.cover \cup q.cover, acc |-> p.acc (+) q.acc]}
  BY DEF Merge
<1> DEFINE r == [who |-> w, cover |-> p.cover \cup q.cover, acc |-> p.acc (+) q.acc]
<1>2. /\ r.cover = p.cover \cup q.cover /\ r.acc = p.acc (+) q.acc
      /\ partials' = (partials \ {p, q}) \cup {r}
  BY <1>1
<1> HIDE DEF r
<1>3. job' = job /\ phase' = phase /\ phase # "done"
  BY DEF Merge
<1>4. p.cover \cap q.cover = {}
  BY <1>1 DEF IInv, Shape, ExactlyOnce, OnePlace, CoveredBy
<1>5. /\ r.cover # {} /\ r.cover \cap job.raises = {}
      /\ r.acc = SumOver(job.acc, r.cover)
      /\ \A entry : IsFiniteSet(Copies(entry, job.acc, r.cover))
  <2>1. /\ p.acc = SumOver(job.acc, p.cover) /\ q.acc = SumOver(job.acc, q.cover)
        /\ \A entry : /\ IsFiniteSet(Copies(entry, job.acc, p.cover))
                      /\ IsFiniteSet(Copies(entry, job.acc, q.cover))
        /\ p.cover # {} /\ (p.cover \cup q.cover) \cap job.raises = {}
    BY DEF SummedInv
  <2> QED
    BY <1>2, <1>4, <2>1, SumOverBoth
<1> QED
  BY <1>2, <1>3, <1>5 DEF SummedInv

\* What is returned is made of the one accumulator, which covers every chunk.
LEMMA ReturnSummed == ASSUME IInv, SummedInv, Return PROVE SummedInv'
<1>1. PICK p \in partials : partials = {p} /\ p.cover = Chunks
  BY ReturnIsComplete
<1>2. output' = Post(job.query, p.acc)
  BY <1>1 DEF Return
<1>3. UNCHANGED <<job, partials>> /\ Chunks' = Chunks
  BY DEF Return, Chunks
<1>4. /\ output' = Post(job.query, SumOver(job.acc, Chunks))
      /\ Chunks \cap job.raises = {}
  BY <1>1, <1>2 DEF SummedInv
<1> QED
  BY <1>3, <1>4 DEF SummedInv

\* The other steps make no accumulator and no result.
LEMMA OtherSummed ==
  ASSUME SummedInv, job' = job, partials' \subseteq partials,
         phase' = "done" => phase = "done" /\ output' = output
  PROVE  SummedInv'
<1>1. Chunks' = Chunks
  BY DEF Chunks
<1> QED
  BY <1>1 DEF SummedInv

\* Every step keeps the sums.
LEMMA NextSummed == IInv /\ SummedInv /\ [Next]_vars => SummedInv'
<1> SUFFICES ASSUME IInv, SummedInv, [Next]_vars PROVE SummedInv'
  OBVIOUS
<1>1. ASSUME NEW w \in Workers, Finish(w) \/ Merge(w) PROVE SummedInv'
  BY <1>1, FinishSummed, MergeSummed
<1>2. ASSUME NEW w \in Workers, Start(w) PROVE SummedInv'
  BY <1>2, OtherSummed DEF Start
<1>3. ASSUME NEW w \in Workers, Fail(w) PROVE SummedInv'
  BY <1>3, OtherSummed DEF Fail
<1>4. ASSUME NEW w \in Workers, Lose(w) PROVE SummedInv'
  <2>1. partials' \subseteq partials /\ UNCHANGED <<job, phase, output>>
    BY <1>4 DEF Lose
  <2> QED
    BY <2>1, OtherSummed
<1>5. CASE Return
  BY <1>5, ReturnSummed
<1>6. CASE UNCHANGED vars
  BY <1>6, OtherSummed DEF vars
<1> QED
  BY <1>1, <1>2, <1>3, <1>4, <1>5, <1>6 DEF Next, Work

\* What holds throughout a run.
LEMMA Running == Spec => [](IInv /\ SummedInv)
<1>1. IInv /\ SummedInv /\ [Next]_vars => (IInv /\ SummedInv)'
  BY NextIInv, NextSummed
<1> QED
  BY InitIInv, InitSummed, <1>1, PTL DEF Spec

(* Whatever the number of workers, merges and losses, the notebook gets what   *)
(* postprocess makes of the sum over the chunks.                               *)
THEOREM ResultOfTheSum == Spec => []ResultIsSum
<1>1. SummedInv => ResultIsSum
  BY DEF SummedInv, ResultIsSum
<1> QED
  BY Running, <1>1, PTL

-----------------------------------------------------------------------------
(* Counting *)

\* A set of numbers that holds 0, and with a number the next, holds all of them.
LEMMA FromZero ==
  ASSUME NEW T, 0 \in T, \A n \in Nat : n \in T => n + 1 \in T
  PROVE  Nat \subseteq T
<1> SUFFICES ASSUME Nat \ T # {} PROVE FALSE
  OBVIOUS
<1>1. PICK n \in Nat \ T : \A m \in Nat \ T : ~(<<m, n>> \in OpToRel(<, Nat))
  <2> DEFINE R == OpToRel(<, Nat)
             U == Nat \ T
  <2>1. IsWellFoundedOn(R, Nat) /\ U \subseteq Nat /\ U # {}
    BY NatLessThanWellFounded
  <2> HIDE DEF R, U
  <2>2. \E x \in U : \A y \in U : ~(<<y, x>> \in R)
    BY <2>1, WFMin
  <2> QED
    BY <2>2 DEF R, U
<1>2. n # 0 /\ n - 1 \in Nat /\ n - 1 < n
  OBVIOUS
<1>3. <<n - 1, n>> \in OpToRel(<, Nat)
  BY <1>2 DEF OpToRel
<1>4. n - 1 \in T
  BY <1>1, <1>2, <1>3
<1> QED
  BY <1>2, <1>4

\* As many of a set as of its image, one to one.
LEMMA SameNumber ==
  ASSUME NEW S, NEW T, IsFiniteSet(S), NEW f \in [S -> T],
         \A x, y \in S : f[x] = f[y] => x = y, \A z \in T : \E x \in S : f[x] = z
  PROVE  IsFiniteSet(T) /\ Cardinality(T) = Cardinality(S)
<1>1. f \in Bijection(S, T)
  BY DEF Bijection, Injection, IsInjective, Surjection
<1> QED
  BY <1>1, FS_Bijection DEF ExistsBijection

-----------------------------------------------------------------------------
(* Accumulators *)

\* How much of an entry there is.
Amount(b, e) == IF e \in DOMAIN b THEN b[e] ELSE 0

\* An amount is a number, and is not zero of what is there.
LEMMA AmountType ==
  ASSUME NEW b, IsABag(b)
  PROVE  \A e : Amount(b, e) \in Nat /\ (e \in DOMAIN b <=> Amount(b, e) # 0)
BY DEF IsABag, Amount

\* Two accumulators are the same if they hold as much of everything.
LEMMA SameAmounts ==
  ASSUME NEW a, NEW b, IsABag(a), IsABag(b), \A e : Amount(a, e) = Amount(b, e)
  PROVE  a = b
<1>1. DOMAIN a = DOMAIN b
  <2>1. \A e : e \in DOMAIN a <=> e \in DOMAIN b
    BY AmountType
  <2> QED
    BY <2>1
<1>2. \A e \in DOMAIN a : a[e] = b[e]
  BY <1>1 DEF Amount
<1>3. a = [e \in DOMAIN a |-> a[e]] /\ b = [e \in DOMAIN b |-> b[e]]
  BY DEF IsABag
<1> QED
  BY <1>1, <1>2, <1>3

\* Adding accumulators adds amounts.
LEMMA AmountOfSum ==
  ASSUME NEW a, NEW b, IsABag(a), IsABag(b)
  PROVE  IsABag(a (+) b) /\ \A e : Amount(a (+) b, e) = Amount(a, e) + Amount(b, e)
<1>1. a (+) b = [e \in DOMAIN a \cup DOMAIN b |-> Amount(a, e) + Amount(b, e)]
  BY DEF (+), Amount
<1>2. \A e : Amount(a, e) \in Nat /\ Amount(b, e) \in Nat
  BY AmountType
<1>3. \A e \in DOMAIN a \cup DOMAIN b : Amount(a, e) + Amount(b, e) \in {n \in Nat : n > 0}
  <2>1. \A e \in DOMAIN a \cup DOMAIN b : Amount(a, e) # 0 \/ Amount(b, e) # 0
    BY AmountType
  <2> QED
    BY <1>2, <2>1
<1>4. IsABag(a (+) b)
  BY <1>1, <1>3 DEF IsABag
<1>5. ASSUME NEW e PROVE Amount(a (+) b, e) = Amount(a, e) + Amount(b, e)
  <2>1. CASE e \in DOMAIN a \cup DOMAIN b
    <3>1. Amount(a (+) b, e) = (a (+) b)[e] /\ (a (+) b)[e] = Amount(a, e) + Amount(b, e)
      <4> HIDE DEF Amount
      <4>1. (a (+) b)[e] = Amount(a, e) + Amount(b, e) /\ e \in DOMAIN (a (+) b)
        BY <1>1, <2>1
      <4> QED
        BY <4>1 DEF Amount
    <3> QED
      BY <3>1
  <2>2. CASE e \notin DOMAIN a \cup DOMAIN b
    <3>1. Amount(a, e) = 0 /\ Amount(b, e) = 0
      BY <2>2 DEF Amount
    <3>2. e \notin DOMAIN (a (+) b)
      BY <1>1, <2>2
    <3> QED
      BY <3>1, <3>2 DEF Amount
  <2> QED
    BY <2>1, <2>2
<1> QED
  BY <1>4, <1>5

\* The empty accumulator adds nothing.
LEMMA AddNothing ==
  /\ IsABag(EmptyBag) /\ \A e : Amount(EmptyBag, e) = 0
  /\ \A b : IsABag(b) => b (+) EmptyBag = b /\ EmptyBag (+) b = b
<1>1. EmptyBag = [e \in {} |-> 1] /\ DOMAIN EmptyBag = {}
  BY DEF EmptyBag, SetToBag
<1>2. IsABag(EmptyBag)
  BY <1>1 DEF IsABag
<1>3. \A e : Amount(EmptyBag, e) = 0
  BY <1>1 DEF Amount
<1>4. ASSUME NEW b, IsABag(b) PROVE b (+) EmptyBag = b /\ EmptyBag (+) b = b
  <2>1. \A e : Amount(b, e) \in Nat
    BY <1>4, AmountType
  <2>2. /\ IsABag(b (+) EmptyBag) /\ IsABag(EmptyBag (+) b)
        /\ \A e : /\ Amount(b (+) EmptyBag, e) = Amount(b, e)
                  /\ Amount(EmptyBag (+) b, e) = Amount(b, e)
    BY <1>2, <1>3, <1>4, <2>1, AmountOfSum
  <2> QED
    BY <1>4, <2>2, SameAmounts
<1> QED
  BY <1>2, <1>3, <1>4

\* Sums of four, by twos.
LEMMA AddByTwos ==
  ASSUME NEW a, NEW b, NEW c, NEW d, IsABag(a), IsABag(b), IsABag(c), IsABag(d)
  PROVE  (a (+) b) (+) (c (+) d) = (a (+) c) (+) (b (+) d)
<1> DEFINE l == (a (+) b) (+) (c (+) d)
           r == (a (+) c) (+) (b (+) d)
<1>1. /\ IsABag(a (+) b) /\ IsABag(c (+) d) /\ IsABag(a (+) c) /\ IsABag(b (+) d)
      /\ IsABag(l) /\ IsABag(r)
  BY AmountOfSum
<1>2. ASSUME NEW e PROVE Amount(l, e) = Amount(r, e)
  <2>1. /\ Amount(a, e) \in Nat /\ Amount(b, e) \in Nat
        /\ Amount(c, e) \in Nat /\ Amount(d, e) \in Nat
    BY AmountType
  <2>2. /\ Amount(l, e) = (Amount(a, e) + Amount(b, e)) + (Amount(c, e) + Amount(d, e))
        /\ Amount(r, e) = (Amount(a, e) + Amount(c, e)) + (Amount(b, e) + Amount(d, e))
    BY <1>1, AmountOfSum
  <2> QED
    BY <2>1, <2>2
<1> QED
  BY <1>1, <1>2, SameAmounts

\* How much of an entry hist.fill puts in.
FilledWith(h, ds, values, e) ==
  {i \in DOMAIN values : <<h, ds, values[i]>> = e}

\* So much is in what hist.fill returns, and it is an accumulator.
LEMMA FillAmount ==
  ASSUME NEW V, NEW values \in Seq(V), NEW h, NEW ds
  PROVE  /\ IsABag(Fill(h, ds, values))
         /\ \A e : /\ IsFiniteSet(FilledWith(h, ds, values, e))
                   /\ Amount(Fill(h, ds, values), e)
                        = Cardinality(FilledWith(h, ds, values, e))
<1> DEFINE D == {<<h, ds, v>> : v \in ToSet(values)}
           with(e) == FilledWith(h, ds, values, e)
<1>1. /\ DOMAIN values = 1..Len(values) /\ Len(values) \in Nat
      /\ IsFiniteSet(1..Len(values))
  BY FS_Interval
<1>2. \A e : with(e) \subseteq 1..Len(values)
  BY <1>1 DEF FilledWith
<1>3. \A e : IsFiniteSet(with(e)) /\ Cardinality(with(e)) \in Nat
  BY <1>1, <1>2, FS_Subset, FS_CardinalityType
<1>4. \A e \in D : with(e) = {i \in DOMAIN values : values[i] = e[3]}
  BY DEF FilledWith
<1>5. \A e : e \in D <=> with(e) # {}
  BY DEF FilledWith, ToSet
<1>6. \A e : e \in D <=> Cardinality(with(e)) # 0
  BY <1>3, <1>5, FS_EmptySet
<1>7. Fill(h, ds, values) = [e \in D |-> Cardinality(with(e))]
  BY <1>4 DEF Fill
<1>8. IsABag(Fill(h, ds, values))
  <2> HIDE DEF D, with
  <2>1. \A e \in D : Cardinality(with(e)) \in {n \in Nat : n > 0}
    BY <1>3, <1>6
  <2> QED
    BY <1>7, <2>1 DEF IsABag
<1>9. \A e : Amount(Fill(h, ds, values), e) = Cardinality(with(e))
  <2> HIDE DEF D, with
  <2> QED
    BY <1>6, <1>7 DEF Amount
<1> QED
  BY <1>3, <1>8, <1>9

\* Filled with values and then with others, a histogram is filled with both.
LEMMA FillBoth ==
  ASSUME NEW V, NEW s \in Seq(V), NEW t \in Seq(V), NEW h, NEW ds
  PROVE  Fill(h, ds, s \o t) = Fill(h, ds, s) (+) Fill(h, ds, t)
<1>1. s \o t \in Seq(V)
  OBVIOUS
<1>2. /\ IsABag(Fill(h, ds, s)) /\ IsABag(Fill(h, ds, t)) /\ IsABag(Fill(h, ds, s \o t))
      /\ IsABag(Fill(h, ds, s) (+) Fill(h, ds, t))
  BY <1>1, FillAmount, AmountOfSum
<1>3. ASSUME NEW e
      PROVE  Amount(Fill(h, ds, s \o t), e)
               = Amount(Fill(h, ds, s), e) + Amount(Fill(h, ds, t), e)
  <2> DEFINE A == FilledWith(h, ds, s, e)
             B == FilledWith(h, ds, t, e)
             C == FilledWith(h, ds, s \o t, e)
             n == Len(s)
             f == [i \in B |-> n + i]
             M == {n + i : i \in B}
  <2>1. /\ IsFiniteSet(A) /\ IsFiniteSet(B) /\ IsFiniteSet(C)
        /\ Amount(Fill(h, ds, s), e) = Cardinality(A)
        /\ Amount(Fill(h, ds, t), e) = Cardinality(B)
        /\ Amount(Fill(h, ds, s \o t), e) = Cardinality(C)
    BY <1>1, FillAmount
  <2>2. /\ n \in Nat /\ Len(t) \in Nat /\ DOMAIN s = 1..n /\ DOMAIN t = 1..Len(t)
        /\ DOMAIN (s \o t) = 1..(n + Len(t))
        /\ \A i \in 1..n : (s \o t)[i] = s[i]
        /\ \A i \in 1..Len(t) : (s \o t)[n + i] = t[i]
    OBVIOUS
  <2>3. A \subseteq 1..n /\ B \subseteq 1..Len(t)
    BY <2>2 DEF FilledWith
  <2>4. C = A \cup M
    <3>1. \A i \in A : i \in C
      BY <2>2 DEF FilledWith
    <3>2. \A i \in B : n + i \in C
      BY <2>2 DEF FilledWith
    <3>3. ASSUME NEW i \in C PROVE i \in A \cup M
      <4>1. CASE i \in 1..n
        BY <2>2, <4>1 DEF FilledWith
      <4>2. CASE i \notin 1..n
        <5>1. i - n \in 1..Len(t) /\ n + (i - n) = i /\ (s \o t)[i] = t[i - n]
          BY <2>2, <4>2 DEF FilledWith
        <5>2. i - n \in B
          BY <2>2, <5>1 DEF FilledWith
        <5> QED
          BY <5>1, <5>2
      <4> QED
        BY <4>1, <4>2
    <3> QED
      BY <3>1, <3>2, <3>3
  <2>5. A \cap M = {}
    BY <2>2, <2>3
  <2>6. IsFiniteSet(M) /\ Cardinality(M) = Cardinality(B)
    <3>1. f \in [B -> M] /\ \A x, y \in B : f[x] = f[y] => x = y
      BY <2>2, <2>3
    <3>2. \A z \in M : \E x \in B : f[x] = z
      OBVIOUS
    <3> HIDE DEF f, M, B
    <3> QED
      BY <2>1, <3>1, <3>2, SameNumber
  <2>7. Cardinality(A) \in Nat /\ Cardinality(B) \in Nat
    BY <2>1, FS_CardinalityType
  <2>8. Cardinality(A \cup M) = Cardinality(A) + Cardinality(M) - Cardinality({})
    BY <2>1, <2>5, <2>6, FS_Union
  <2> HIDE DEF A, B, C, M
  <2> QED
    BY <2>1, <2>4, <2>6, <2>7, <2>8, FS_EmptySet
<1>4. \A e : Amount(Fill(h, ds, s \o t), e) = Amount(Fill(h, ds, s) (+) Fill(h, ds, t), e)
  BY <1>2, <1>3, AmountOfSum
<1> QED
  BY <1>2, <1>4, SameAmounts

\* A counter that is increased twice.
LEMMA CountBoth ==
  ASSUME NEW key, NEW m \in Nat, NEW n \in Nat
  PROVE  /\ IsABag(Count(key, m))
         /\ Count(key, m + n) = Count(key, m) (+) Count(key, n)
<1>1. \A k \in Nat : /\ IsABag(Count(key, k))
                    /\ \A e : Amount(Count(key, k), e) = IF e = <<key>> THEN k ELSE 0
  <2> TAKE k \in Nat
  <2>1. CASE k = 0
    <3>1. DOMAIN Count(key, k) = {} /\ Count(key, k) = [e \in {} |-> k]
      BY <2>1 DEF Count
    <3> QED
      BY <2>1, <3>1 DEF IsABag, Amount
  <2>2. CASE k # 0
    <3>1. Count(key, k) = [e \in {<<key>>} |-> k]
      BY <2>2 DEF Count
    <3> HIDE DEF Count
    <3> QED
      BY <2>2, <3>1 DEF IsABag, Amount
  <2> QED
    BY <2>1, <2>2
<1>2. /\ m + n \in Nat /\ IsABag(Count(key, m)) /\ IsABag(Count(key, n))
      /\ IsABag(Count(key, m + n)) /\ IsABag(Count(key, m) (+) Count(key, n))
  BY <1>1, AmountOfSum
<1>3. \A e : Amount(Count(key, m + n), e) = Amount(Count(key, m) (+) Count(key, n), e)
  BY <1>1, <1>2, AmountOfSum
<1> QED
  BY <1>2, <1>3, SameAmounts

-----------------------------------------------------------------------------
(* Jagged arrays *)

\* What FlattenSeq is made with.
IsFlatten(f, seqs, n) ==
  f = [i \in 1..n |-> IF i = 1 THEN seqs[i] ELSE f[i - 1] \o seqs[i]]

\* There is one such function for each length, and one only.
LEMMA FlattenExists ==
  ASSUME NEW seqs PROVE \A n \in Nat : \E f : IsFlatten(f, seqs, n)
<1> DEFINE T == {n \in Nat : \E f : IsFlatten(f, seqs, n)}
<1>1. 0 \in T
  <2> DEFINE f == [i \in 1..0 |-> 0]
  <2>1. IsFlatten(f, seqs, 0)
    BY DEF IsFlatten
  <2> QED
    BY <2>1
<1>2. ASSUME NEW n \in Nat, n \in T PROVE n + 1 \in T
  <2>1. PICK f : IsFlatten(f, seqs, n)
    BY <1>2
  <2>2. /\ DOMAIN f = 1..n
        /\ \A i \in 1..n : f[i] = IF i = 1 THEN seqs[i] ELSE f[i - 1] \o seqs[i]
    BY <2>1 DEF IsFlatten
  <2> DEFINE g == [i \in 1..(n + 1) |->
                     IF i <= n THEN f[i] ELSE IF i = 1 THEN seqs[i] ELSE f[n] \o seqs[i]]
  <2>3. \A i \in 1..(n + 1) : g[i] = IF i = 1 THEN seqs[i] ELSE g[i - 1] \o seqs[i]
    <3> TAKE i \in 1..(n + 1)
    <3>1. CASE i <= n
      <4>1. g[i] = f[i] /\ (i # 1 => g[i - 1] = f[i - 1])
        BY <3>1
      <4> HIDE DEF g
      <4>2. i \in 1..n
        BY <3>1
      <4>3. f[i] = IF i = 1 THEN seqs[i] ELSE f[i - 1] \o seqs[i]
        BY <2>2, <4>2
      <4> QED
        BY <4>1, <4>3
    <3>2. CASE i = n + 1
      <4>1. i # 1 => i - 1 = n /\ g[i - 1] = f[n]
        BY <3>2
      <4>2. g[i] = IF i = 1 THEN seqs[i] ELSE f[n] \o seqs[i]
        BY <3>2
      <4> QED
        BY <4>1, <4>2
    <3> QED
      BY <3>1, <3>2
  <2>4. g = [i \in 1..(n + 1) |-> g[i]]
    OBVIOUS
  <2> HIDE DEF g
  <2>5. IsFlatten(g, seqs, n + 1)
    BY <2>3, <2>4 DEF IsFlatten
  <2> QED
    BY <2>5
<1> HIDE DEF T
<1>3. Nat \subseteq T
  BY <1>1, <1>2, FromZero
<1> QED
  BY <1>3 DEF T

\* What it is up to some place depends on the arrays up to there only.
LEMMA FlattenSame ==
  ASSUME NEW s, NEW t, NEW m \in Nat, NEW n \in Nat, m <= n, NEW f, NEW g,
         IsFlatten(f, s, m), IsFlatten(g, t, n), \A i \in 1..m : s[i] = t[i]
  PROVE  \A i \in 1..m : f[i] = g[i]
<1> DEFINE T == {k \in Nat : k \in 1..m => f[k] = g[k]}
<1>1. /\ \A i \in 1..m : f[i] = IF i = 1 THEN s[i] ELSE f[i - 1] \o s[i]
      /\ \A i \in 1..n : g[i] = IF i = 1 THEN t[i] ELSE g[i - 1] \o t[i]
  BY DEF IsFlatten
<1>2. 0 \in T
  OBVIOUS
<1>3. ASSUME NEW k \in Nat, k \in T PROVE k + 1 \in T
  <2> SUFFICES ASSUME k + 1 \in 1..m PROVE f[k + 1] = g[k + 1]
    OBVIOUS
  <2>1. /\ k + 1 \in 1..n /\ s[k + 1] = t[k + 1] /\ (k + 1) - 1 = k
        /\ k + 1 # 1 => k \in 1..m
    OBVIOUS
  <2>2. /\ f[k + 1] = IF k + 1 = 1 THEN s[k + 1] ELSE f[k] \o s[k + 1]
        /\ g[k + 1] = IF k + 1 = 1 THEN t[k + 1] ELSE g[k] \o t[k + 1]
    BY <1>1, <2>1
  <2>3. k + 1 # 1 => f[k] = g[k]
    BY <1>3, <2>1
  <2> QED
    BY <2>1, <2>2, <2>3
<1> HIDE DEF T
<1>4. Nat \subseteq T
  BY <1>2, <1>3, FromZero
<1> QED
  BY <1>4 DEF T

\* One more array changes nothing of what the others were made into.
LEMMA FlattenLast ==
  ASSUME NEW s, NEW t, NEW k \in Nat, k # 0, NEW f, NEW g,
         IsFlatten(f, s, k), IsFlatten(g, t, k + 1), \A i \in 1..k : s[i] = t[i]
  PROVE  f[k] = g[k]
<1>1. k + 1 \in Nat /\ k <= k + 1 /\ k \in 1..k
  OBVIOUS
<1>2. \A i \in 1..k : f[i] = g[i]
  BY <1>1, FlattenSame
<1> QED
  BY <1>1, <1>2

\* FlattenSeq is made with that function.
LEMMA FlattenMade ==
  ASSUME NEW seqs, Len(seqs) \in Nat, Len(seqs) # 0
  PROVE  \E f : IsFlatten(f, seqs, Len(seqs)) /\ FlattenSeq(seqs) = f[Len(seqs)]
<1> DEFINE f == CHOOSE f : f = [i \in 1..Len(seqs) |->
                                 IF i = 1 THEN seqs[i] ELSE f[i - 1] \o seqs[i]]
<1>1. \E g : g = [i \in 1..Len(seqs) |-> IF i = 1 THEN seqs[i] ELSE g[i - 1] \o seqs[i]]
  BY FlattenExists DEF IsFlatten
<1>2. IsFlatten(f, seqs, Len(seqs))
  BY <1>1 DEF IsFlatten
<1>3. FlattenSeq(seqs) = f[Len(seqs)]
  BY DEF FlattenSeq
<1> QED
  BY <1>2, <1>3

\* Nothing flattened is nothing, and one more array is put behind the others.
LEMMA FlattenAppend ==
  ASSUME NEW S, NEW seqs \in Seq(Seq(S)), NEW x \in Seq(S), FlattenSeq(seqs) \in Seq(S)
  PROVE  /\ FlattenSeq(Append(seqs, x)) = FlattenSeq(seqs) \o x
         /\ FlattenSeq(Append(seqs, x)) \in Seq(S)
<1> DEFINE more == Append(seqs, x)
           n == Len(seqs)
<1>1. /\ n \in Nat /\ Len(more) = n + 1 /\ more[n + 1] = x
      /\ \A i \in 1..n : seqs[i] = more[i]
  OBVIOUS
<1> HIDE DEF more
<1>2. PICK g : IsFlatten(g, more, n + 1) /\ FlattenSeq(more) = g[n + 1]
  BY <1>1, FlattenMade
<1>3. g[n + 1] = IF n + 1 = 1 THEN more[n + 1] ELSE g[(n + 1) - 1] \o more[n + 1]
  <2>1. \A i \in 1..(n + 1) : g[i] = IF i = 1 THEN more[i] ELSE g[i - 1] \o more[i]
    BY <1>2 DEF IsFlatten
  <2>2. n + 1 \in 1..(n + 1)
    BY <1>1
  <2> HIDE DEF n
  <2> QED
    BY <2>1, <2>2
<1>4. CASE n = 0
  <2>1. FlattenSeq(seqs) = seqs /\ seqs = <<>>
    BY <1>4 DEF FlattenSeq
  <2>2. <<>> \o x = x
    OBVIOUS
  <2> QED
    BY <1>1, <1>2, <1>3, <1>4, <2>1, <2>2 DEF more
<1>5. CASE n # 0
  <2>1. PICK f : IsFlatten(f, seqs, n) /\ FlattenSeq(seqs) = f[n]
    BY <1>1, <1>5, FlattenMade
  <2>2. f[n] = g[n]
    <3>1. n \in Nat /\ IsFlatten(g, more, n + 1) /\ \A i \in 1..n : seqs[i] = more[i]
      BY <1>1, <1>2
    <3> HIDE DEF n
    <3> QED
      BY <1>5, <2>1, <3>1, FlattenLast
  <2>3. (n + 1) - 1 = n /\ n + 1 # 1
    BY <1>1, <1>5
  <2> QED
    BY <1>1, <1>2, <1>3, <2>1, <2>2, <2>3 DEF more
<1> QED
  BY <1>4, <1>5

\* A sequence that is not empty is one with an element put behind.
LEMMA LastOff ==
  ASSUME NEW S, NEW s \in Seq(S), NEW n \in Nat, Len(s) = n + 1
  PROVE  \E t \in Seq(S), x \in S : s = Append(t, x) /\ Len(t) = n
<1> DEFINE t == [i \in 1..n |-> s[i]]
<1>1. t \in Seq(S) /\ Len(t) = n /\ s[n + 1] \in S
  OBVIOUS
<1>2. s = Append(t, s[n + 1])
  <2>1. Append(t, s[n + 1]) \in Seq(S) /\ Len(Append(t, s[n + 1])) = Len(s)
    BY <1>1
  <2>2. \A i \in 1..Len(s) : Append(t, s[n + 1])[i] = s[i]
    BY <1>1
  <2> QED
    BY <2>1, <2>2, SeqEqual
<1> QED
  BY <1>1, <1>2

\* Flattening gives a sequence.
LEMMA FlattenType ==
  ASSUME NEW S PROVE \A seqs \in Seq(Seq(S)) : FlattenSeq(seqs) \in Seq(S)
<1> DEFINE T == {n \in Nat : \A seqs \in Seq(Seq(S)) :
                                Len(seqs) = n => FlattenSeq(seqs) \in Seq(S)}
<1>1. 0 \in T
  <2>1. ASSUME NEW seqs \in Seq(Seq(S)), Len(seqs) = 0 PROVE FlattenSeq(seqs) \in Seq(S)
    <3>1. FlattenSeq(seqs) = seqs /\ seqs = <<>>
      BY <2>1 DEF FlattenSeq
    <3> QED
      BY <3>1
  <2> QED
    BY <2>1
<1>2. ASSUME NEW n \in Nat, n \in T PROVE n + 1 \in T
  <2> SUFFICES ASSUME NEW seqs \in Seq(Seq(S)), Len(seqs) = n + 1
               PROVE  FlattenSeq(seqs) \in Seq(S)
    OBVIOUS
  <2>1. PICK t \in Seq(Seq(S)), x \in Seq(S) : seqs = Append(t, x) /\ Len(t) = n
    BY LastOff
  <2>2. FlattenSeq(t) \in Seq(S)
    BY <1>2, <2>1
  <2> QED
    BY <2>1, <2>2, FlattenAppend
<1> HIDE DEF T
<1>3. Nat \subseteq T
  BY <1>1, <1>2, FromZero
<1>4. \A seqs \in Seq(Seq(S)) : Len(seqs) \in Nat
  OBVIOUS
<1> QED
  BY <1>3, <1>4 DEF T

\* Two jagged arrays one behind the other, flattened.
LEMMA FlattenBoth ==
  ASSUME NEW S, NEW s \in Seq(Seq(S))
  PROVE  \A t \in Seq(Seq(S)) : FlattenSeq(s \o t) = FlattenSeq(s) \o FlattenSeq(t)
<1> DEFINE T == {n \in Nat : \A t \in Seq(Seq(S)) :
                   Len(t) = n => FlattenSeq(s \o t) = FlattenSeq(s) \o FlattenSeq(t)}
<1>0. FlattenSeq(s) \in Seq(S)
  BY FlattenType
<1>1. 0 \in T
  <2>1. ASSUME NEW t \in Seq(Seq(S)), Len(t) = 0
        PROVE  FlattenSeq(s \o t) = FlattenSeq(s) \o FlattenSeq(t)
    <3>1. FlattenSeq(t) = <<>> /\ t = <<>>
      BY <2>1 DEF FlattenSeq
    <3>2. s \o <<>> = s /\ FlattenSeq(s) \o <<>> = FlattenSeq(s)
      BY <1>0, ConcatEmptySeq
    <3> QED
      BY <3>1, <3>2
  <2> QED
    BY <2>1
<1>2. ASSUME NEW n \in Nat, n \in T PROVE n + 1 \in T
  <2> SUFFICES ASSUME NEW t \in Seq(Seq(S)), Len(t) = n + 1
               PROVE  FlattenSeq(s \o t) = FlattenSeq(s) \o FlattenSeq(t)
    OBVIOUS
  <2>1. PICK u \in Seq(Seq(S)), x \in Seq(S) : t = Append(u, x) /\ Len(u) = n
    BY LastOff
  <2>2. FlattenSeq(s \o u) = FlattenSeq(s) \o FlattenSeq(u)
    BY <1>2, <2>1
  <2>3. s \o t = Append(s \o u, x) /\ s \o u \in Seq(Seq(S))
    <3>1. /\ s \o u \in Seq(Seq(S)) /\ s \o t \in Seq(Seq(S))
          /\ Append(s \o u, x) \in Seq(Seq(S))
      OBVIOUS
    <3>2. Len(s \o t) = Len(Append(s \o u, x))
      BY <2>1
    <3>3. \A i \in 1..Len(s \o t) : (s \o t)[i] = Append(s \o u, x)[i]
      BY <2>1
    <3> QED
      BY <3>1, <3>2, <3>3, SeqEqual
  <2>4. FlattenSeq(s \o u) \in Seq(S) /\ FlattenSeq(u) \in Seq(S)
    BY <2>3, FlattenType
  <2>5. /\ FlattenSeq(s \o t) = FlattenSeq(s \o u) \o x
        /\ FlattenSeq(t) = FlattenSeq(u) \o x
    BY <2>1, <2>3, <2>4, FlattenAppend
  <2> QED
    BY <1>0, <2>2, <2>4, <2>5, ConcatAssociative
<1> HIDE DEF T
<1>3. Nat \subseteq T
  BY <1>1, <1>2, FromZero
<1>4. \A t \in Seq(Seq(S)) : Len(t) \in Nat
  OBVIOUS
<1> QED
  BY <1>3, <1>4 DEF T

-----------------------------------------------------------------------------
(* Chunks of a dataset *)

\* P takes events to accumulators, and more events to the sum.
Adds(P, E) ==
  /\ \A u \in Seq(E) : IsABag(P[u])
  /\ \A u, v \in Seq(E) : P[u \o v] = P[u] (+) P[v]

\* Of no events it makes an empty accumulator.
LEMMA AddsNone == ASSUME NEW E, NEW P, Adds(P, E) PROVE P[<<>>] = EmptyBag
<1>1. <<>> \in Seq(E) /\ <<>> \o <<>> = <<>>
  <2>1. <<>> \in Seq(E)
    OBVIOUS
  <2> QED
    BY <2>1, ConcatEmptySeq
<1>2. IsABag(P[<<>>]) /\ P[<<>>] = P[<<>>] (+) P[<<>>]
  BY <1>1 DEF Adds
<1>3. \A e : Amount(P[<<>>], e) = Amount(EmptyBag, e)
  <2>1. \A e : /\ Amount(P[<<>>], e) \in Nat
               /\ Amount(P[<<>>], e) = Amount(P[<<>>], e) + Amount(P[<<>>], e)
    BY <1>2, AmountOfSum, AmountType
  <2> QED
    BY <2>1, AddNothing
<1> QED
  BY <1>2, <1>3, AddNothing, SameAmounts

\* The sum over no chunks is empty.
LEMMA SumOverNone ==
  ASSUME NEW acc
  PROVE  SumOver(acc, {}) = EmptyBag /\ \A entry : IsFiniteSet(Copies(entry, acc, {}))
<1>1. \A entry : Copies(entry, acc, {}) = {}
  BY DEF Copies
<1>2. UNION {BagToSet(acc[c]) : c \in {}} = {}
  OBVIOUS
<1>3. SumOver(acc, {}) = [entry \in {} |-> Cardinality(Copies(entry, acc, {}))]
  BY <1>2 DEF SumOver
<1>4. EmptyBag = [entry \in {} |-> 1]
  BY DEF EmptyBag, SetToBag
<1> QED
  BY <1>1, <1>3, <1>4, FS_EmptySet

\* One chunk more.
LEMMA SumOverMore ==
  ASSUME NEW acc, NEW S, NEW c, c \notin S, IsABag(acc[c]),
         \A entry : IsFiniteSet(Copies(entry, acc, S))
  PROVE  /\ SumOver(acc, S \cup {c}) = SumOver(acc, S) (+) acc[c]
         /\ \A entry : IsFiniteSet(Copies(entry, acc, S \cup {c}))
<1>1. SumOver(acc, {c}) = acc[c] /\ \A entry : IsFiniteSet(Copies(entry, acc, {c}))
  BY SumOverOne, CopiesInOne
<1>2. S \cap {c} = {}
  OBVIOUS
<1> QED
  BY <1>1, <1>2, SumOverBoth

\* The events up to some place, and those from there to the next.
LEMMA NextSlice ==
  ASSUME NEW E, NEW s \in Seq(E), NEW i \in 0..Len(s), NEW j \in i..Len(s)
  PROVE  /\ SubSeq(s, 1, i) \in Seq(E) /\ SubSeq(s, i + 1, j) \in Seq(E)
         /\ SubSeq(s, 1, i) \o SubSeq(s, i + 1, j) = SubSeq(s, 1, j)
<1>1. Len(s) \in Nat /\ \A k \in 1..Len(s) : s[k] \in E
  OBVIOUS
<1>2. i \in Int /\ j \in Int /\ i + 1 \in Int /\ 1 \in Int
  BY <1>1
<1>3. SubSeq(s, 1, i) \in Seq(E)
  <2>1. \A k \in 1..i : s[k] \in E
    BY <1>1
  <2> QED
    BY <1>2, <2>1, SubSeqProperties
<1>4. SubSeq(s, i + 1, j) \in Seq(E)
  <2>1. \A k \in (i + 1)..j : s[k] \in E
    BY <1>1
  <2> QED
    BY <1>2, <2>1, SubSeqProperties
<1>5. 1 \in 1..(Len(s) + 1) /\ i \in (1 - 1)..Len(s) /\ j \in i..Len(s)
  BY <1>1
<1> QED
  BY <1>3, <1>4, <1>5, ConcatAdjacentSubSeq

\* acc has for the n members of S, the k-th of which is nth[k], what P makes of a part of
\* s, from one of the places at to the next.
Sliced(acc, S, P, s, n, nth, at) ==
  /\ n \in Nat /\ at \in [0..n -> 0..Len(s)] /\ at[0] = 0 /\ at[n] = Len(s)
  /\ \A c : c \in S <=> \E k \in 1..n : nth[k] = c
  /\ \A k, l \in 1..n : nth[k] = nth[l] => k = l
  /\ \A k \in 1..n : /\ at[k - 1] <= at[k]
                     /\ acc[nth[k]] = P[SubSeq(s, at[k - 1] + 1, at[k])]

\* The sum over the chunks of a dataset is what P makes of all of it.
LEMMA OneDataset ==
  ASSUME NEW E, NEW s \in Seq(E), NEW P, Adds(P, E), NEW acc,
         NEW S, NEW n, NEW nth, NEW at, Sliced(acc, S, P, s, n, nth, at)
  PROVE  SumOver(acc, S) = P[s] /\ \A entry : IsFiniteSet(Copies(entry, acc, S))
<1> DEFINE first(m) == {nth[k] : k \in 1..m}
           ok(m) == /\ SumOver(acc, first(m)) = P[SubSeq(s, 1, at[m])]
                    /\ \A entry : IsFiniteSet(Copies(entry, acc, first(m)))
           T == {m \in Nat : m <= n => ok(m)}
<1> HIDE DEF first, ok
<1>0. n \in Nat /\ at[0] = 0 /\ at[n] = Len(s) /\ \A k \in 0..n : at[k] \in 0..Len(s)
  BY DEF Sliced
<1>1. 0 \in T
  <2>1. first(0) = {}
    BY DEF first
  <2>2. SubSeq(s, 1, at[0]) = <<>>
    BY <1>0, SubSeqEmpty
  <2> QED
    BY <2>1, <2>2, AddsNone, SumOverNone DEF ok
<1>2. ASSUME NEW m \in Nat, m \in T PROVE m + 1 \in T
  <2> SUFFICES ASSUME m + 1 <= n PROVE ok(m + 1)
    OBVIOUS
  <2> DEFINE c == nth[m + 1]
             part == SubSeq(s, at[m] + 1, at[m + 1])
             head == SubSeq(s, 1, at[m])
  <2>1. /\ m <= n /\ m \in 0..n /\ m + 1 \in 0..n /\ m + 1 \in 1..n /\ (m + 1) - 1 = m
    BY <1>0
  <2>2. at[m] <= at[m + 1] /\ acc[c] = P[part]
    BY <2>1 DEF Sliced
  <2>3. ok(m)
    BY <1>2, <2>1
  <2>4. first(m + 1) = first(m) \cup {c} /\ c \notin first(m)
    <3>1. \A k : k \in 1..(m + 1) <=> k \in 1..m \/ k = m + 1
      OBVIOUS
    <3>2. \A k \in 1..m : k \in 1..n /\ k # m + 1
      BY <2>1, <1>0
    <3>3. c \notin first(m)
      BY <2>1, <3>2 DEF first, Sliced
    <3>4. first(m + 1) = first(m) \cup {c}
      BY <3>1 DEF first
    <3> QED
      BY <3>3, <3>4
  <2>5. head \in Seq(E) /\ part \in Seq(E) /\ head \o part = SubSeq(s, 1, at[m + 1])
    <3>1. at[m] \in 0..Len(s) /\ at[m + 1] \in at[m]..Len(s)
      BY <1>0, <2>1, <2>2
    <3> QED
      BY <3>1, NextSlice
  <2>6. IsABag(P[part]) /\ P[SubSeq(s, 1, at[m + 1])] = P[head] (+) P[part]
    <3> HIDE DEF head, part
    <3>1. IsABag(P[part]) /\ P[head \o part] = P[head] (+) P[part]
      BY <2>5 DEF Adds
    <3> QED
      BY <2>5, <3>1
  <2>7. /\ SumOver(acc, first(m)) = P[head] /\ IsABag(acc[c])
        /\ \A entry : IsFiniteSet(Copies(entry, acc, first(m)))
    BY <2>2, <2>3, <2>6 DEF ok
  <2> HIDE DEF c, part, head
  <2>8. /\ SumOver(acc, first(m) \cup {c}) = SumOver(acc, first(m)) (+) acc[c]
        /\ \A entry : IsFiniteSet(Copies(entry, acc, first(m) \cup {c}))
    BY <2>4, <2>7, SumOverMore
  <2> QED
    BY <2>2, <2>4, <2>6, <2>7, <2>8 DEF ok
<1> HIDE DEF T
<1>3. Nat \subseteq T
  BY <1>1, <1>2, FromZero
<1>4. ok(n)
  <2>1. n \in T /\ n <= n
    BY <1>0, <1>3
  <2> QED
    BY <2>1 DEF T
<1>5. SubSeq(s, 1, at[n]) = s
  BY <1>0, SubSeqFull
<1>6. first(n) = S
  <2>1. \A c : c \in S <=> \E k \in 1..n : nth[k] = c
    BY DEF Sliced
  <2>2. \A c : c \in first(n) <=> \E k \in 1..n : nth[k] = c
    BY DEF first
  <2>3. \A c : c \in first(n) <=> c \in S
    BY <2>1, <2>2
  <2> QED
    BY <2>3
<1> QED
  BY <1>4, <1>5, <1>6 DEF ok

\* What is made of the chunks of a fileset, in any order, adds up to what is made of its
\* datasets.
LEMMA CutSum ==
  ASSUME NEW E, NEW data, IsFiniteSet(DOMAIN data),
         NEW chunks, Len(chunks) \in Nat, IsCut(chunks, data),
         NEW P, \A ds \in DOMAIN data : data[ds] \in Seq(E) /\ Adds(P[ds], E),
         NEW acc, \A c \in DOMAIN chunks : acc[c] = P[chunks[c][1]][chunks[c][2]],
         NEW uncut, \A ds \in DOMAIN data : uncut[ds] = P[ds][data[ds]]
  PROVE  SumOver(acc, DOMAIN chunks) = SumOver(uncut, DOMAIN data)
<1> DEFINE of(R) == {c \in DOMAIN chunks : chunks[c][1] \in R}
           ok(R) == /\ SumOver(acc, of(R)) = SumOver(uncut, R)
                    /\ \A entry : /\ IsFiniteSet(Copies(entry, acc, of(R)))
                                  /\ IsFiniteSet(Copies(entry, uncut, R))
           T == {m \in Nat : \A R \in SUBSET DOMAIN data : Cardinality(R) = m => ok(R)}
<1> HIDE DEF of, ok
<1>1. \A R \in SUBSET DOMAIN data : IsFiniteSet(R) /\ Cardinality(R) \in Nat
  BY FS_Subset, FS_CardinalityType
<1>2. ASSUME NEW ds \in DOMAIN data
      PROVE  /\ SumOver(acc, of({ds})) = uncut[ds] /\ IsABag(uncut[ds])
             /\ \A entry : IsFiniteSet(Copies(entry, acc, of({ds})))
  <2>1. PICK n \in 0..Len(chunks) :
          \E nth \in [1..n -> DOMAIN chunks], at \in [0..n -> 0..Len(data[ds])] :
            /\ {nth[k] : k \in 1..n} = {c \in DOMAIN chunks : chunks[c][1] = ds}
            /\ \A k, l \in 1..n : nth[k] = nth[l] => k = l
            /\ at[0] = 0 /\ at[n] = Len(data[ds])
            /\ \A k \in 1..n :
                 /\ at[k - 1] <= at[k]
                 /\ chunks[nth[k]] = <<ds, SubSeq(data[ds], at[k - 1] + 1, at[k])>>
    BY DEF IsCut
  <2>2. PICK nth \in [1..n -> DOMAIN chunks], at \in [0..n -> 0..Len(data[ds])] :
          /\ {nth[k] : k \in 1..n} = {c \in DOMAIN chunks : chunks[c][1] = ds}
          /\ \A k, l \in 1..n : nth[k] = nth[l] => k = l
          /\ at[0] = 0 /\ at[n] = Len(data[ds])
          /\ \A k \in 1..n :
               /\ at[k - 1] <= at[k]
               /\ chunks[nth[k]] = <<ds, SubSeq(data[ds], at[k - 1] + 1, at[k])>>
    BY <2>1
  <2>3. n \in Nat /\ data[ds] \in Seq(E) /\ Adds(P[ds], E) /\ uncut[ds] = P[ds][data[ds]]
    BY <2>1
  <2>4. \A k \in 1..n : /\ at[k - 1] <= at[k]
                        /\ acc[nth[k]] = P[ds][SubSeq(data[ds], at[k - 1] + 1, at[k])]
    <3> TAKE k \in 1..n
    <3> DEFINE part == SubSeq(data[ds], at[k - 1] + 1, at[k])
    <3>1. nth[k] \in DOMAIN chunks /\ chunks[nth[k]] = <<ds, part>> /\ at[k - 1] <= at[k]
      BY <2>2
    <3> HIDE DEF part
    <3>2. acc[nth[k]] = P[ds][part]
      BY <3>1
    <3> QED
      BY <3>1, <3>2 DEF part
  <2>5. \A c : c \in of({ds}) <=> \E k \in 1..n : nth[k] = c
    BY <2>2 DEF of
  <2>6. Sliced(acc, of({ds}), P[ds], data[ds], n, nth, at)
    BY <2>2, <2>3, <2>4, <2>5 DEF Sliced
  <2>7. /\ SumOver(acc, of({ds})) = P[ds][data[ds]]
        /\ \A entry : IsFiniteSet(Copies(entry, acc, of({ds})))
    BY <2>3, <2>6, OneDataset
  <2> QED
    BY <2>3, <2>7 DEF Adds
<1>3. 0 \in T
  <2>1. ASSUME NEW R \in SUBSET DOMAIN data, Cardinality(R) = 0 PROVE ok(R)
    <3>1. R = {} /\ of(R) = {}
      BY <1>1, <2>1, FS_EmptySet DEF of
    <3> QED
      BY <3>1, SumOverNone DEF ok
  <2> QED
    BY <2>1
<1>4. ASSUME NEW m \in Nat, m \in T PROVE m + 1 \in T
  <2> SUFFICES ASSUME NEW R \in SUBSET DOMAIN data, Cardinality(R) = m + 1 PROVE ok(R)
    OBVIOUS
  <2>1. R # {}
    BY FS_EmptySet
  <2>2. PICK ds \in R : TRUE
    BY <2>1
  <2> DEFINE Q == R \ {ds}
  <2>3. Cardinality(Q) = m /\ Q \in SUBSET DOMAIN data
    <3>1. IsFiniteSet(R) /\ ds \in R
      BY <1>1, <2>2
    <3>2. Cardinality(Q) = Cardinality(R) - 1
      BY <3>1, FS_RemoveElement
    <3> QED
      BY <3>2
  <2>4. ok(Q)
    BY <1>4, <2>3
  <2>5. /\ of(R) = of(Q) \cup of({ds}) /\ of(Q) \cap of({ds}) = {}
        /\ R = Q \cup {ds} /\ ds \notin Q /\ ds \in DOMAIN data
    BY <2>2 DEF of
  <2>6. /\ SumOver(acc, of({ds})) = uncut[ds] /\ IsABag(uncut[ds])
        /\ \A entry : IsFiniteSet(Copies(entry, acc, of({ds})))
    BY <1>2, <2>5
  <2> HIDE DEF Q
  <2>7. /\ SumOver(acc, of(Q)) = SumOver(uncut, Q)
        /\ \A entry : /\ IsFiniteSet(Copies(entry, acc, of(Q)))
                      /\ IsFiniteSet(Copies(entry, uncut, Q))
    BY <2>4 DEF ok
  <2>8. /\ SumOver(acc, of(Q) \cup of({ds})) = SumOver(acc, of(Q)) (+) SumOver(acc, of({ds}))
        /\ \A entry : IsFiniteSet(Copies(entry, acc, of(Q) \cup of({ds})))
    BY <2>5, <2>6, <2>7, SumOverBoth
  <2>9. /\ SumOver(uncut, Q \cup {ds}) = SumOver(uncut, Q) (+) uncut[ds]
        /\ \A entry : IsFiniteSet(Copies(entry, uncut, Q \cup {ds}))
    BY <2>5, <2>6, <2>7, SumOverMore
  <2> QED
    BY <2>5, <2>6, <2>7, <2>8, <2>9 DEF ok
<1> HIDE DEF T
<1>5. Nat \subseteq T
  BY <1>3, <1>4, FromZero
<1>6. ok(DOMAIN data)
  BY <1>1, <1>5 DEF T
<1>7. of(DOMAIN data) = DOMAIN chunks
  BY DEF IsCut, of
<1> QED
  BY <1>6, <1>7 DEF ok

-----------------------------------------------------------------------------
(* Without the number of chunks *)

\* How much of an entry is left.
LEMMA TrimmedAmount ==
  ASSUME NEW b, IsABag(b)
  PROVE  /\ IsABag(NoChunks(b))
         /\ \A e : Amount(NoChunks(b), e)
                     = IF e = <<"number of chunks">> THEN 0 ELSE Amount(b, e)
<1> DEFINE key == <<"number of chunks">>
<1> HIDE DEF key
<1>1. NoChunks(b) = [k \in (DOMAIN b) \ {key} |-> b[k]]
  BY DEF NoChunks, key
<1>2. IsABag(NoChunks(b))
  BY <1>1 DEF IsABag
<1>3. \A e : Amount(NoChunks(b), e) = IF e = key THEN 0 ELSE Amount(b, e)
  BY <1>1 DEF Amount
<1> QED
  BY <1>2, <1>3 DEF key

\* Of a sum, it is the sum of what is left.
LEMMA TrimmedSum ==
  ASSUME NEW a, NEW b, IsABag(a), IsABag(b)
  PROVE  NoChunks(a (+) b) = NoChunks(a) (+) NoChunks(b)
<1>1. /\ IsABag(a (+) b) /\ IsABag(NoChunks(a)) /\ IsABag(NoChunks(b))
      /\ IsABag(NoChunks(a (+) b)) /\ IsABag(NoChunks(a) (+) NoChunks(b))
  BY AmountOfSum, TrimmedAmount
<1>2. ASSUME NEW e
      PROVE  Amount(NoChunks(a (+) b), e) = Amount(NoChunks(a) (+) NoChunks(b), e)
  <2>1. Amount(a (+) b, e) = Amount(a, e) + Amount(b, e)
    BY AmountOfSum
  <2>2. Amount(NoChunks(a) (+) NoChunks(b), e)
          = Amount(NoChunks(a), e) + Amount(NoChunks(b), e)
    BY <1>1, AmountOfSum
  <2>3. /\ Amount(NoChunks(a), e) = IF e = <<"number of chunks">> THEN 0 ELSE Amount(a, e)
        /\ Amount(NoChunks(b), e) = IF e = <<"number of chunks">> THEN 0 ELSE Amount(b, e)
        /\ Amount(NoChunks(a (+) b), e)
             = IF e = <<"number of chunks">> THEN 0 ELSE Amount(a (+) b, e)
    BY <1>1, TrimmedAmount
  <2>4. CASE e = <<"number of chunks">>
    <3>1. /\ Amount(NoChunks(a), e) = 0 /\ Amount(NoChunks(b), e) = 0
          /\ Amount(NoChunks(a (+) b), e) = 0
      BY <2>3, <2>4
    <3> QED
      BY <2>2, <3>1
  <2>5. CASE e # <<"number of chunks">>
    BY <2>1, <2>2, <2>3, <2>5
  <2> QED
    BY <2>4, <2>5
<1> QED
  BY <1>1, <1>2, SameAmounts

\* And so of the sum over some chunks.
LEMMA TrimmedOver ==
  ASSUME NEW acc, NEW S
  PROVE  NoChunks(SumOver(acc, S)) = SumOver([c \in S |-> NoChunks(acc[c])], S)
<1> DEFINE key == <<"number of chunks">>
           trim == [c \in S |-> NoChunks(acc[c])]
           in == UNION {BagToSet(acc[c]) : c \in S}
<1> HIDE DEF key, trim
<1>1. ASSUME NEW c \in S
      PROVE  /\ BagToSet(trim[c]) = BagToSet(acc[c]) \ {key}
             /\ \A e \in BagToSet(trim[c]) : trim[c][e] = acc[c][e]
  <2>1. trim[c] = [k \in (DOMAIN acc[c]) \ {key} |-> acc[c][k]]
    BY DEF NoChunks, key, trim
  <2> QED
    BY <2>1 DEF BagToSet
<1>2. UNION {BagToSet(trim[c]) : c \in S} = in \ {key}
  BY <1>1
<1>3. \A e \in in \ {key} : Copies(e, trim, S) = Copies(e, acc, S)
  <2> TAKE e \in in \ {key}
  <2>1. {d \in S : BagIn(e, trim[d])} = {d \in S : BagIn(e, acc[d])}
    BY <1>1 DEF BagIn
  <2>2. \A d \in {d \in S : BagIn(e, acc[d])} : trim[d][e] = acc[d][e]
    BY <1>1 DEF BagIn
  <2> DEFINE D == {d \in S : BagIn(e, acc[d])}
  <2>3. /\ Copies(e, trim, S) = UNION {{c} \X (1..trim[c][e]) : c \in D}
        /\ Copies(e, acc, S) = UNION {{c} \X (1..acc[c][e]) : c \in D}
    BY <2>1 DEF Copies
  <2> HIDE DEF D
  <2> QED
    BY <2>2, <2>3 DEF D
<1> HIDE DEF in
<1>4. SumOver(trim, S) = [e \in in \ {key} |-> Cardinality(Copies(e, acc, S))]
  BY <1>2, <1>3 DEF SumOver
<1>5. SumOver(acc, S) = [e \in in |-> Cardinality(Copies(e, acc, S))]
  BY DEF SumOver, in
<1>6. NoChunks(SumOver(acc, S)) = [e \in in \ {key} |-> Cardinality(Copies(e, acc, S))]
  BY <1>5 DEF NoChunks, key
<1> QED
  BY <1>4, <1>6 DEF trim

-----------------------------------------------------------------------------
(* Jobs *)

\* What the run of a job leaves of where its chunks were cut: nothing.
DoesNotShow(j) ==
  (DOMAIN j.chunks) \cap j.raises = {} =>
    NoChunks(Post(j.query, SumOver(j.acc, DOMAIN j.chunks))) = NoChunks(Uncut(j))

\* A result does not show it if no job does.
LEMMA CuttingShows ==
  ASSUME \A j \in Jobs : DoesNotShow(j) PROVE Spec => []ChunkingIrrelevant
<1>1. SummedInv => ChunkingIrrelevant
  BY DEF SummedInv, ChunkingIrrelevant, DoesNotShow, Chunks
<1> QED
  BY Running, <1>1, PTL

\* The fileset of a run, of finitely many datasets of events in E, and its chunks.
FilesetOf(data, chunks, E) ==
  /\ IsFiniteSet(DOMAIN data) /\ \A ds \in DOMAIN data : data[ds] \in Seq(E)
  /\ Len(chunks) \in Nat /\ IsCut(chunks, data)

\* A chunk has events of its dataset.
LEMMA ChunkType ==
  ASSUME NEW data, NEW chunks, NEW E, FilesetOf(data, chunks, E)
  PROVE  \A c \in DOMAIN chunks : chunks[c][1] \in DOMAIN data /\ chunks[c][2] \in Seq(E)
<1> SUFFICES ASSUME NEW c \in DOMAIN chunks, NEW ds \in DOMAIN data, chunks[c][1] = ds
             PROVE  chunks[c][2] \in Seq(E)
  BY DEF FilesetOf, IsCut
<1>1. PICK n \in 0..Len(chunks) :
        \E nth \in [1..n -> DOMAIN chunks], at \in [0..n -> 0..Len(data[ds])] :
          /\ {nth[k] : k \in 1..n} = {d \in DOMAIN chunks : chunks[d][1] = ds}
          /\ \A k, l \in 1..n : nth[k] = nth[l] => k = l
          /\ at[0] = 0 /\ at[n] = Len(data[ds])
          /\ \A k \in 1..n :
               /\ at[k - 1] <= at[k]
               /\ chunks[nth[k]] = <<ds, SubSeq(data[ds], at[k - 1] + 1, at[k])>>
  BY DEF FilesetOf, IsCut
<1>2. PICK nth \in [1..n -> DOMAIN chunks], at \in [0..n -> 0..Len(data[ds])] :
        /\ {nth[k] : k \in 1..n} = {d \in DOMAIN chunks : chunks[d][1] = ds}
        /\ \A k \in 1..n :
             /\ at[k - 1] <= at[k]
             /\ chunks[nth[k]] = <<ds, SubSeq(data[ds], at[k - 1] + 1, at[k])>>
  BY <1>1
<1>3. PICK k \in 1..n : nth[k] = c
  BY <1>2
<1> DEFINE part == SubSeq(data[ds], at[k - 1] + 1, at[k])
<1>4. at[k - 1] <= at[k] /\ chunks[c] = <<ds, part>>
  BY <1>2, <1>3
<1>5. data[ds] \in Seq(E) /\ Len(data[ds]) \in Nat /\ k - 1 \in 0..n /\ k \in 0..n
  BY <1>1 DEF FilesetOf
<1>6. at[k - 1] \in 0..Len(data[ds]) /\ at[k] \in at[k - 1]..Len(data[ds])
  BY <1>4, <1>5
<1>7. part \in Seq(E)
  BY <1>5, <1>6, NextSlice
<1> HIDE DEF part
<1> QED
  BY <1>4, <1>7

-----------------------------------------------------------------------------
(* Arrays of two parts *)

\* z is the array that has the elements of x and then those of y.
Joined(x, y, z, V) == x \in Seq(V) /\ y \in Seq(V) /\ z = x \o y
\* c is the accumulator of what is in a and in b.
Summed(a, b, c) == IsABag(a) /\ IsABag(b) /\ c = a (+) b

\* An operation on every element, as a function of it.
Applied(s, G) == [i \in DOMAIN s |-> G[s[i]]]
\* The elements that are in a set.
Kept(s, K) == FlattenSeq([i \in DOMAIN s |-> IF s[i] \in K THEN <<s[i]>> ELSE <<>>])

\* The parts and the whole have their elements in the set.
LEMMA JoinedType ==
  ASSUME NEW V, NEW x, NEW y, NEW z, Joined(x, y, z, V)
  PROVE  /\ x \in Seq(V) /\ y \in Seq(V) /\ z \in Seq(V)
         /\ \A s \in {x, y, z} : \A i \in DOMAIN s : s[i] \in V
<1>1. x \in Seq(V) /\ y \in Seq(V) /\ z \in Seq(V)
  BY DEF Joined
<1> QED
  BY <1>1

\* An operation on every element keeps the parts apart.
LEMMA JoinedEach ==
  ASSUME NEW E, NEW V, NEW G, \A e \in E : G[e] \in V,
         NEW x, NEW y, NEW z, Joined(x, y, z, E)
  PROVE  Joined(Applied(x, G), Applied(y, G), Applied(z, G), V)
<1>1. x \in Seq(E) /\ y \in Seq(E) /\ z = x \o y /\ z \in Seq(E)
  BY DEF Joined
<1>2. \A s \in Seq(E) : /\ Applied(s, G) \in Seq(V) /\ Len(Applied(s, G)) = Len(s)
                        /\ \A i \in 1..Len(s) : Applied(s, G)[i] = G[s[i]]
  BY DEF Applied
<1> DEFINE a == Applied(x, G)
           b == Applied(y, G)
           c == Applied(z, G)
<1> HIDE DEF a, b, c
<1>3. /\ a \in Seq(V) /\ b \in Seq(V) /\ c \in Seq(V)
      /\ Len(a) = Len(x) /\ Len(b) = Len(y) /\ Len(c) = Len(z)
      /\ \A i \in 1..Len(x) : a[i] = G[x[i]]
      /\ \A i \in 1..Len(y) : b[i] = G[y[i]]
      /\ \A i \in 1..Len(z) : c[i] = G[z[i]]
  BY <1>1, <1>2 DEF a, b, c
<1>4. a \o b \in Seq(V) /\ Len(a \o b) = Len(c) /\ Len(z) = Len(x) + Len(y)
  BY <1>1, <1>3
<1>5. \A i \in 1..Len(c) : (a \o b)[i] = c[i]
  <2> TAKE i \in 1..Len(c)
  <2>1. CASE i <= Len(x)
    <3>1. i \in 1..Len(x) /\ z[i] = x[i] /\ (a \o b)[i] = a[i]
      BY <1>1, <1>3, <1>4, <2>1
    <3> QED
      BY <1>3, <3>1
  <2>2. CASE ~(i <= Len(x))
    <3>1. /\ i - Len(x) \in 1..Len(y) /\ z[i] = y[i - Len(x)]
          /\ (a \o b)[i] = b[i - Len(x)]
      BY <1>1, <1>3, <1>4, <2>2
    <3> QED
      BY <1>3, <3>1
  <2> QED
    BY <2>1, <2>2
<1>6. a \o b = c
  BY <1>3, <1>4, <1>5, SeqEqual
<1> QED
  BY <1>3, <1>6 DEF Joined, a, b, c

\* Flattening does.
LEMMA JoinedFlat ==
  ASSUME NEW V, NEW x, NEW y, NEW z, Joined(x, y, z, Seq(V))
  PROVE  Joined(FlattenSeq(x), FlattenSeq(y), FlattenSeq(z), V)
<1>1. x \in Seq(Seq(V)) /\ y \in Seq(Seq(V)) /\ z = x \o y
  BY DEF Joined
<1>2. FlattenSeq(x) \in Seq(V) /\ FlattenSeq(y) \in Seq(V)
  BY <1>1, FlattenType
<1>3. FlattenSeq(x \o y) = FlattenSeq(x) \o FlattenSeq(y)
  BY <1>1, FlattenBoth
<1> QED
  BY <1>1, <1>2, <1>3 DEF Joined

\* And so does a mask that looks at one element at a time.
LEMMA JoinedKept ==
  ASSUME NEW E, NEW K, NEW x, NEW y, NEW z, Joined(x, y, z, E)
  PROVE  Joined(Kept(x, K), Kept(y, K), Kept(z, K), E)
<1> DEFINE G == [e \in E |-> IF e \in K THEN <<e>> ELSE <<>>]
<1>1. \A e \in E : G[e] \in Seq(E)
  OBVIOUS
<1>2. \A s \in {x, y, z} : Kept(s, K) = FlattenSeq(Applied(s, G))
  <2> TAKE s \in {x, y, z}
  <2>1. \A i \in DOMAIN s : s[i] \in E
    BY JoinedType
  <2>2. Applied(s, G) = [i \in DOMAIN s |-> IF s[i] \in K THEN <<s[i]>> ELSE <<>>]
    BY <2>1 DEF Applied
  <2> QED
    BY <2>2 DEF Kept
<1> HIDE DEF G
<1>3. Joined(Applied(x, G), Applied(y, G), Applied(z, G), Seq(E))
  BY <1>1, JoinedEach
<1> QED
  BY <1>2, <1>3, JoinedFlat

\* A histogram filled with the whole.
LEMMA SummedFill ==
  ASSUME NEW V, NEW x, NEW y, NEW z, Joined(x, y, z, V), NEW h, NEW ds
  PROVE  Summed(Fill(h, ds, x), Fill(h, ds, y), Fill(h, ds, z))
<1>1. x \in Seq(V) /\ y \in Seq(V) /\ z = x \o y
  BY DEF Joined
<1>2. IsABag(Fill(h, ds, x)) /\ IsABag(Fill(h, ds, y))
  BY <1>1, FillAmount
<1>3. Fill(h, ds, x \o y) = Fill(h, ds, x) (+) Fill(h, ds, y)
  BY <1>1, FillBoth
<1> QED
  BY <1>1, <1>2, <1>3 DEF Summed

\* A counter of its elements.
LEMMA SummedLen ==
  ASSUME NEW V, NEW x, NEW y, NEW z, Joined(x, y, z, V), NEW key
  PROVE  Summed(Count(key, Len(x)), Count(key, Len(y)), Count(key, Len(z)))
<1>1. Len(x) \in Nat /\ Len(y) \in Nat /\ Len(z) = Len(x) + Len(y)
  BY DEF Joined
<1>2. /\ IsABag(Count(key, Len(x))) /\ IsABag(Count(key, Len(y)))
      /\ Count(key, Len(x) + Len(y)) = Count(key, Len(x)) (+) Count(key, Len(y))
  BY <1>1, CountBoth
<1> QED
  BY <1>1, <1>2 DEF Summed

\* Two accumulators at once.
LEMMA SummedBoth ==
  ASSUME NEW a, NEW b, NEW c, Summed(a, b, c), NEW p, NEW q, NEW r, Summed(p, q, r)
  PROVE  Summed(a (+) p, b (+) q, c (+) r)
<1>1. IsABag(a (+) p) /\ IsABag(b (+) q)
  BY AmountOfSum DEF Summed
<1>2. (a (+) b) (+) (p (+) q) = (a (+) p) (+) (b (+) q)
  BY AddByTwos DEF Summed
<1> QED
  BY <1>1, <1>2 DEF Summed

\* Without the number of chunks.
LEMMA SummedTrimmed ==
  ASSUME NEW a, NEW b, NEW c, Summed(a, b, c)
  PROVE  Summed(NoChunks(a), NoChunks(b), NoChunks(c))
BY TrimmedAmount, TrimmedSum DEF Summed

\* Events that one can read: their jets and their leptons are arrays.
Readable(E, J, L) ==
  \A e \in E : e.jets \in Seq(J) /\ e.muons \in Seq(L) /\ e.electrons \in Seq(L)

\* The whole array.
LEMMA AllEvents ==
  ASSUME NEW E, NEW u, NEW v, NEW w, Joined(u, v, w, E)
  PROVE  Summed(Count("all events", Len(u)), Count("all events", Len(v)),
                Count("all events", Len(w)))
BY SummedLen

\* A mask leaves a sequence of the elements.
LEMMA WhereType ==
  ASSUME NEW V, NEW s \in Seq(V), NEW keep PROVE Mask(s, keep) \in Seq(V)
<1> DEFINE rows == [i \in DOMAIN s |-> IF keep[i] THEN <<s[i]>> ELSE <<>>]
<1>1. rows \in Seq(Seq(V))
  <2>1. \A i \in DOMAIN s : s[i] \in V /\ <<s[i]>> \in Seq(V) /\ <<>> \in Seq(V)
    OBVIOUS
  <2>2. \A i \in DOMAIN s : (IF keep[i] THEN <<s[i]>> ELSE <<>>) \in Seq(V)
    BY <2>1
  <2>3. DOMAIN s = 1..Len(s) /\ Len(s) \in Nat
    OBVIOUS
  <2> QED
    BY <2>2, <2>3
<1> HIDE DEF rows
<1>2. FlattenSeq(rows) \in Seq(V)
  BY <1>1, FlattenType
<1> QED
  BY <1>2 DEF Mask, rows

\* A histogram of a property of the elements.
LEMMA SummedEach ==
  ASSUME NEW E, NEW x, NEW y, NEW z, Joined(x, y, z, E), NEW G, NEW h, NEW ds
  PROVE  Summed(Fill(h, ds, Applied(x, G)), Fill(h, ds, Applied(y, G)),
                Fill(h, ds, Applied(z, G)))
<1> DEFINE V == {G[e] : e \in E}
<1>1. \A e \in E : G[e] \in V
  OBVIOUS
<1> HIDE DEF V
<1>2. Joined(Applied(x, G), Applied(y, G), Applied(z, G), V)
  BY <1>1, JoinedEach
<1> QED
  BY <1>2, SummedFill

\* A jagged property, flattened, and the number of its elements.
LEMMA JoinedRows ==
  ASSUME NEW E, NEW x, NEW y, NEW z, Joined(x, y, z, E),
         NEW V, NEW G, \A e \in E : G[e] \in Seq(V)
  PROVE  Joined(FlattenSeq(Applied(x, G)), FlattenSeq(Applied(y, G)),
                FlattenSeq(Applied(z, G)), V)
<1>1. Joined(Applied(x, G), Applied(y, G), Applied(z, G), Seq(V))
  BY JoinedEach
<1> QED
  BY <1>1, JoinedFlat

\* And so do the numbers of elements in them.
LEMMA SummedNum ==
  ASSUME NEW E, NEW x, NEW y, NEW z, Joined(x, y, z, E),
         NEW V, NEW G, \A e \in E : G[e] \in Seq(V), NEW key
  PROVE  Summed(Count(key, Len(FlattenSeq(Applied(x, G)))),
                Count(key, Len(FlattenSeq(Applied(y, G)))),
                Count(key, Len(FlattenSeq(Applied(z, G)))))
<1>1. Joined(FlattenSeq(Applied(x, G)), FlattenSeq(Applied(y, G)),
             FlattenSeq(Applied(z, G)), V)
  BY JoinedRows
<1> QED
  BY <1>1, SummedLen

-----------------------------------------------------------------------------
(* The notebooks *)

\* the template
LEMMA TemplateSummed ==
  ASSUME NEW E, NEW u, NEW v, NEW w, Joined(u, v, w, E), NEW ds
  PROVE  Summed(MinimalProcessor(ds, u), MinimalProcessor(ds, v), MinimalProcessor(ds, w))
<1> DEFINE G == [e \in E |-> e.met]
           V == {G[e] : e \in E}
<1>1. \A s \in {u, v, w} : Each(s, LAMBDA e : e.met) = Applied(s, G)
  BY JoinedType DEF Each, Applied
<1>2. \A e \in E : G[e] \in V
  OBVIOUS
<1> HIDE DEF G, V
<1>3. Joined(Applied(u, G), Applied(v, G), Applied(w, G), V)
  BY <1>2, JoinedEach
<1>4. \A s \in {u, v, w} : MinimalProcessor(ds, s) = Fill("MET", ds, Applied(s, G))
  BY <1>1 DEF MinimalProcessor
<1> QED
  BY <1>3, <1>4, SummedFill

\* example1, of which the number of chunks is left out.
LEMMA Example1Summed ==
  ASSUME NEW E, NEW u, NEW v, NEW w, Joined(u, v, w, E), NEW ds
  PROVE  Summed(NoChunks(Example1(ds, u)), NoChunks(Example1(ds, v)),
                NoChunks(Example1(ds, w)))
<1> DEFINE G == [e \in E |-> e.met]
           all(s) == Count("all events", Len(s))
           one == Count("number of chunks", 1)
           met(s) == Fill("MET", ds, Applied(s, G))
<1>1. \A s \in {u, v, w} : Example1(ds, s) = all(s) (+) one (+) met(s)
  BY JoinedType DEF Example1, Each, Applied
<1>2. \A s \in {u, v, w} : Len(s) \in Nat /\ s \in Seq(E)
  BY JoinedType
<1>3. Summed(all(u), all(v), all(w)) /\ Summed(met(u), met(v), met(w))
  BY AllEvents, SummedEach
<1> HIDE DEF G
<1>4. IsABag(one) /\ NoChunks(one) = EmptyBag
  <2>1. 1 \in Nat /\ 1 # 0
    OBVIOUS
  <2>2. IsABag(one)
    BY <2>1, CountBoth
  <2>3. DOMAIN one = {<<"number of chunks">>}
    BY <2>1 DEF Count
  <2>4. NoChunks(one) = [k \in {} |-> one[k]]
    BY <2>3 DEF NoChunks
  <2>5. EmptyBag = [k \in {} |-> 1]
    BY DEF EmptyBag, SetToBag
  <2> QED
    BY <2>2, <2>4, <2>5
<1>5. \A s \in {u, v, w} : /\ IsABag(all(s)) /\ NoChunks(all(s)) = all(s)
                           /\ IsABag(met(s)) /\ NoChunks(met(s)) = met(s)
  <2> TAKE s \in {u, v, w}
  <2>1. Applied(s, G) \in Seq({G[e] : e \in E})
    BY <1>2 DEF Applied
  <2>2. IsABag(all(s)) /\ IsABag(met(s))
    BY <1>2, <2>1, CountBoth, FillAmount
  <2>3. /\ <<"number of chunks">> \notin DOMAIN all(s)
        /\ <<"number of chunks">> \notin DOMAIN met(s)
    BY DEF Count, Fill
  <2>4. /\ all(s) = [k \in DOMAIN all(s) |-> all(s)[k]]
        /\ met(s) = [k \in DOMAIN met(s) |-> met(s)[k]]
    BY DEF Count, Fill
  <2> HIDE DEF all, met
  <2> QED
    BY <2>2, <2>3, <2>4 DEF NoChunks
<1> HIDE DEF all, one, met
<1>6. \A s \in {u, v, w} : NoChunks(Example1(ds, s)) = all(s) (+) met(s)
  <2> TAKE s \in {u, v, w}
  <2>1. IsABag(all(s) (+) one) /\ NoChunks(all(s) (+) one) = all(s) (+) EmptyBag
    BY <1>4, <1>5, AmountOfSum, TrimmedSum
  <2>2. NoChunks(all(s) (+) one) = all(s)
    BY <1>5, <2>1, AddNothing
  <2>3. NoChunks(all(s) (+) one (+) met(s)) = all(s) (+) met(s)
    BY <1>5, <2>1, <2>2, TrimmedSum
  <2> QED
    BY <1>1, <2>3
<1> QED
  BY <1>3, <1>6, SummedBoth

\* example2
LEMMA Example2Summed ==
  ASSUME NEW E, NEW u, NEW v, NEW w, Joined(u, v, w, E), NEW ds,
         NEW J, NEW L, Readable(E, J, L)
  PROVE  Summed(Example2(ds, u), Example2(ds, v), Example2(ds, w))
<1> DEFINE A == [e \in E |-> e.jets]
           G == [e \in E |-> [i \in DOMAIN e.jets |-> e.jets[i].pt]]
           V == {j.pt : j \in J}
           pts(s) == FlattenSeq(Applied(s, G))
<1>1. (\A e \in E : A[e] \in Seq(J)) /\ \A e \in E : G[e] \in Seq(V)
  BY DEF Readable
<1>2. \A s \in {u, v, w} :
        Example2(ds, s) = Count("all events", Len(s))
                            (+) Count("all jets", Len(FlattenSeq(Applied(s, A))))
                            (+) Fill("Jet_pt", ds, FlattenSeq(Applied(s, G)))
  BY JoinedType DEF Example2, NumOf, Each, Applied
<1> HIDE DEF A, G, V
<1>3. Summed(Count("all jets", Len(FlattenSeq(Applied(u, A)))),
             Count("all jets", Len(FlattenSeq(Applied(v, A)))),
             Count("all jets", Len(FlattenSeq(Applied(w, A)))))
  BY <1>1, SummedNum
<1>4. Joined(pts(u), pts(v), pts(w), V)
  BY <1>1, JoinedRows
<1>5. Summed(Fill("Jet_pt", ds, pts(u)), Fill("Jet_pt", ds, pts(v)),
             Fill("Jet_pt", ds, pts(w)))
  BY <1>4, SummedFill
<1> QED
  BY <1>2, <1>3, <1>5, AllEvents, SummedBoth

\* example4
LEMMA Example4Summed ==
  ASSUME NEW E, NEW u, NEW v, NEW w, Joined(u, v, w, E), NEW ds
  PROVE  Summed(Example4(ds, u), Example4(ds, v), Example4(ds, w))
<1> DEFINE K == {e \in E : Len(Where(e.jets, LAMBDA j : j.pt > 40)) >= 2}
           G == [e \in E |-> e.met]
           V == {G[e] : e \in E}
           met(s) == Applied(Kept(s, K), G)
<1>1. \A s \in {u, v, w} : 
        Where(s, LAMBDA e : Len(Where(e.jets, LAMBDA j : j.pt > 40)) >= 2) = Kept(s, K)
  <2> TAKE s \in {u, v, w}
  <2>1. \A i \in DOMAIN s : s[i] \in E
    BY JoinedType
  <2> QED
    BY <2>1 DEF Where, Mask, Each, Kept
<1>2. \A e \in E : G[e] \in V
  OBVIOUS
<1>3. Joined(Kept(u, K), Kept(v, K), Kept(w, K), E)
  BY JoinedKept
<1>4. \A s \in {u, v, w} : Each(Kept(s, K), LAMBDA e : e.met) = met(s)
  <2> HIDE DEF K
  <2> QED
    BY <1>3, JoinedType DEF Each, Applied
<1>5. \A s \in {u, v, w} :
        Example4(ds, s) = Count("all events", Len(s))
                            (+) Count("final events", Len(Kept(s, K)))
                            (+) Fill("MET_pt", ds, met(s))
  <2> HIDE DEF K, met
  <2> QED
    BY <1>1, <1>4 DEF Example4
<1> HIDE DEF K, G, V
<1>6. Joined(met(u), met(v), met(w), V)
  BY <1>2, <1>3, JoinedEach
<1> HIDE DEF met
<1>7. Summed(Fill("MET_pt", ds, met(u)), Fill("MET_pt", ds, met(v)),
             Fill("MET_pt", ds, met(w)))
  BY <1>6, SummedFill
<1>8. Summed(Count("final events", Len(Kept(u, K))), Count("final events", Len(Kept(v, K))),
             Count("final events", Len(Kept(w, K))))
  BY <1>3, SummedLen
<1> QED
  BY <1>5, <1>7, <1>8, AllEvents, SummedBoth

\* example3
LEMMA Example3Summed ==
  ASSUME NEW E, NEW u, NEW v, NEW w, Joined(u, v, w, E), NEW ds,
         NEW J, NEW L, Readable(E, J, L)
  PROVE  Summed(Example3(ds, u), Example3(ds, v), Example3(ds, w))
<1> DEFINE central(e) == [i \in DOMAIN e.jets |-> Abs(e.jets[i].eta) < 1000]
           V == {Abs(j.eta) < 1000 : j \in J}
           A == [e \in E |-> e.jets]
           M == [e \in E |-> Mask(central(e), central(e))]
           G == [e \in E |-> Mask(e.jets, central(e))]
           P == [j \in J |-> j.pt]
           good(s) == FlattenSeq(Applied(s, G))
           num(key, s, F) == Count(key, Len(FlattenSeq(Applied(s, F))))
<1>1. /\ \A e \in E : A[e] \in Seq(J)
      /\ \A e \in E : M[e] \in Seq(V)
      /\ \A e \in E : G[e] \in Seq(J)
  <2>1. \A e \in E : e.jets \in Seq(J) /\ central(e) \in Seq(V)
    <3> SUFFICES ASSUME NEW e \in E PROVE e.jets \in Seq(J) /\ central(e) \in Seq(V)
      OBVIOUS
    <3>1. e.jets \in Seq(J)
      BY DEF Readable
    <3>2. \A i \in DOMAIN e.jets : e.jets[i] \in J
      BY <3>1
    <3>3. \A i \in DOMAIN e.jets : (Abs(e.jets[i].eta) < 1000) \in V
      BY <3>2, Zenon
    <3>4. DOMAIN e.jets = 1..Len(e.jets) /\ Len(e.jets) \in Nat
      BY <3>1
    <3> HIDE DEF V
    <3> QED
      BY <3>1, <3>3, <3>4
  <2> HIDE DEF central
  <2> QED
    BY <2>1, WhereType
<1>2. ASSUME NEW s \in {u, v, w}
      PROVE  Example3(ds, s) = Count("all events", Len(s)) (+) num("number of jets", s, A)
                                 (+) num("abs(eta) < 1", s, M) (+) num("final good jets", s, G)
                                 (+) Fill("Jet_pt", ds, Applied(good(s), P))
  <2>0. \A i \in DOMAIN s : s[i] \in E
    BY JoinedType
  <2>1. NumOf(s, LAMBDA e : e.jets) = Len(FlattenSeq(Applied(s, A)))
    BY <2>0 DEF NumOf, Each, Applied
  <2> DEFINE masks == Each(s, LAMBDA e : Each(e.jets, LAMBDA j : Abs(j.eta) < 1000))
             jets == [i \in DOMAIN s |-> Mask(s[i].jets, masks[i])]
  <2>2. masks = [i \in DOMAIN s |-> central(s[i])]
    BY DEF Each
  <2>3. NumOf(masks, LAMBDA m : Mask(m, m)) = Len(FlattenSeq(Applied(s, M)))
    BY <2>0, <2>2 DEF NumOf, Each, Applied
  <2>4. jets = Applied(s, G)
    BY <2>0, <2>2 DEF Applied
  <2>5. NumOf(jets, LAMBDA js : js) = Len(FlattenSeq(jets))
    <3>1. Each(jets, LAMBDA js : js) = jets
      BY DEF Each
    <3> QED
      BY <3>1 DEF NumOf
  <2>6. Each(FlattenSeq(jets), LAMBDA j : j.pt) = Applied(good(s), P)
    <3>1. Joined(good(u), good(v), good(w), J)
      <4> HIDE DEF G
      <4> QED
        BY <1>1, JoinedRows
    <3>2. \A i \in DOMAIN good(s) : good(s)[i] \in J
      <4> HIDE DEF good
      <4> QED
        BY <3>1, JoinedType
    <3> QED
      BY <2>4, <3>2 DEF Each, Applied
  <2>7. Example3(ds, s)
          = Count("all events", Len(s))
              (+) Count("number of jets", NumOf(s, LAMBDA e : e.jets))
              (+) Count("abs(eta) < 1", NumOf(masks, LAMBDA m : Mask(m, m)))
              (+) Count("final good jets", NumOf(jets, LAMBDA js : js))
              (+) Fill("Jet_pt", ds, Each(FlattenSeq(jets), LAMBDA j : j.pt))
    BY DEF Example3
  <2> QED
    BY <2>1, <2>3, <2>4, <2>5, <2>6, <2>7
<1> HIDE DEF A, M, G, P, V
<1>3. /\ Summed(num("number of jets", u, A), num("number of jets", v, A),
                num("number of jets", w, A))
      /\ Summed(num("abs(eta) < 1", u, M), num("abs(eta) < 1", v, M),
                num("abs(eta) < 1", w, M))
      /\ Summed(num("final good jets", u, G), num("final good jets", v, G),
                num("final good jets", w, G))
  BY <1>1, SummedNum
<1>4. Joined(good(u), good(v), good(w), J)
  BY <1>1, JoinedRows
<1>5. Summed(Fill("Jet_pt", ds, Applied(good(u), P)), Fill("Jet_pt", ds, Applied(good(v), P)),
             Fill("Jet_pt", ds, Applied(good(w), P)))
  BY <1>4, SummedEach
<1> HIDE DEF num, good
<1> QED
  BY <1>2, <1>3, <1>5, AllEvents, SummedBoth

\* example5
LEMMA Example5Summed ==
  ASSUME NEW E, NEW u, NEW v, NEW w, Joined(u, v, w, E), NEW ds,
         NEW J, NEW L, Readable(E, J, L)
  PROVE  Summed(Example5(ds, u), Example5(ds, v), Example5(ds, w))
<1> DEFINE good(e) == Where(Pairs(e.muons), LAMBDA p : /\ p[1].charge # p[2].charge
                                                      /\ MassOf(p) >= 6000
                                                      /\ MassOf(p) < 12000)
           K == {e \in E : Len(good(e)) >= 1}
           A == [e \in E |-> e.muons]
           G == [e \in E |-> e.met]
           num(s) == Count("all muons", Len(FlattenSeq(Applied(s, A))))
<1>1. \A e \in E : A[e] \in Seq(L)
  BY DEF Readable
<1>2. Joined(Kept(u, K), Kept(v, K), Kept(w, K), E)
  BY JoinedKept
<1>3. ASSUME NEW s \in {u, v, w}
      PROVE  Example5(ds, s) = Count("all events", Len(s)) (+) num(s)
                                 (+) Count("final events", Len(Kept(s, K)))
                                 (+) Fill("MET", ds, Applied(Kept(s, K), G))
  <2>0. \A i \in DOMAIN s : s[i] \in E
    BY JoinedType
  <2>1. Where(s, LAMBDA e : Len(good(e)) >= 1) = Kept(s, K)
    <3> HIDE DEF good
    <3> QED
      BY <2>0 DEF Where, Mask, Each, Kept
  <2>2. Each(Kept(s, K), LAMBDA e : e.met) = Applied(Kept(s, K), G)
    <3> HIDE DEF K
    <3> QED
      BY <1>2, JoinedType DEF Each, Applied
  <2>3. NumOf(s, LAMBDA e : e.muons) = Len(FlattenSeq(Applied(s, A)))
    BY <2>0 DEF NumOf, Each, Applied
  <2>4. Example5(ds, s)
          = Count("all events", Len(s)) (+) Count("all muons", NumOf(s, LAMBDA e : e.muons))
              (+) Count("final events", Len(Where(s, LAMBDA e : Len(good(e)) >= 1)))
              (+) Fill("MET", ds, Each(Where(s, LAMBDA e : Len(good(e)) >= 1),
                                     LAMBDA e : e.met))
    BY DEF Example5
  <2> HIDE DEF good, K, G
  <2> QED
    BY <2>1, <2>2, <2>3, <2>4
<1> HIDE DEF K, A, G
<1>4. Summed(num(u), num(v), num(w))
  BY <1>1, SummedNum
<1>5. Summed(Count("final events", Len(Kept(u, K))), Count("final events", Len(Kept(v, K))),
             Count("final events", Len(Kept(w, K))))
  BY <1>2, SummedLen
<1>6. Summed(Fill("MET", ds, Applied(Kept(u, K), G)), Fill("MET", ds, Applied(Kept(v, K), G)),
             Fill("MET", ds, Applied(Kept(w, K), G)))
  BY <1>2, SummedEach
<1> HIDE DEF num
<1> QED
  BY <1>3, <1>4, <1>5, <1>6, AllEvents, SummedBoth

\* zpeak_example
LEMMA ZPeakSummed ==
  ASSUME NEW E, NEW u, NEW v, NEW w, Joined(u, v, w, E), NEW ds,
         NEW J, NEW L, Readable(E, J, L)
  PROVE  Summed(ZPeak(ds, u), ZPeak(ds, v), ZPeak(ds, w))
<1> DEFINE A == [e \in E |-> e.muons]
           K == {ls \in Seq(L) : Neutral(ls)}
           G == [ls \in Seq(L) |-> MassOf(ls)]
           two(s) == Kept(Applied(s, A), K)
<1>1. \A e \in E : A[e] \in Seq(L)
  BY DEF Readable
<1>2. Joined(Applied(u, A), Applied(v, A), Applied(w, A), Seq(L))
  <2> HIDE DEF A
  <2> QED
    BY <1>1, JoinedEach
<1>3. Joined(two(u), two(v), two(w), Seq(L))
  <2> HIDE DEF A, K
  <2> QED
    BY <1>2, JoinedKept
<1>4. ASSUME NEW s \in {u, v, w} PROVE ZPeak(ds, s) = Fill("dimu_mass", ds, Applied(two(s), G))
  <2>1. Each(s, LAMBDA e : e.muons) = Applied(s, A)
    BY JoinedType DEF Each, Applied
  <2> HIDE DEF A
  <2>2. \A i \in DOMAIN Applied(s, A) : Applied(s, A)[i] \in Seq(L)
    BY <1>2, JoinedType
  <2>3. Where(Applied(s, A), Neutral) = two(s)
    BY <2>2 DEF Where, Mask, Each, Kept
  <2>4. Each(two(s), MassOf) = Applied(two(s), G)
    <3> HIDE DEF K, two
    <3> QED
      BY <1>3, JoinedType DEF Each, Applied
  <2> HIDE DEF two
  <2> QED
    BY <2>1, <2>3, <2>4 DEF ZPeak, Masses
<1> HIDE DEF two, G
<1> QED
  BY <1>3, <1>4, SummedEach

\* ttbar_HT
LEMMA TtbarSummed ==
  ASSUME NEW E, NEW u, NEW v, NEW w, Joined(u, v, w, E), NEW ds
  PROVE  Summed(TtbarAnalysis(ds, u), TtbarAnalysis(ds, v), TtbarAnalysis(ds, w))
<1> DEFINE ht(e) == PtOf(Where(e.jets, LAMBDA j : j.pt > 25))
           G == [e \in E |-> ht(e)]
<1>1. \A s \in {u, v, w} : TtbarAnalysis(ds, s) = Fill("ht", ds, Applied(s, G))
  <2>1. \A s : TtbarAnalysis(ds, s) = Fill("ht", ds, Each(s, LAMBDA e : ht(e)))
    BY DEF TtbarAnalysis
  <2> HIDE DEF ht
  <2> QED
    BY <2>1, JoinedType DEF Each, Applied
<1> HIDE DEF G
<1> QED
  BY <1>1, SummedEach

\* analysis_tutorial
LEMMA TutorialSummed ==
  ASSUME NEW E, NEW u, NEW v, NEW w, Joined(u, v, w, E), NEW ds
  PROVE  Summed(Tutorial(ds, u), Tutorial(ds, v), Tutorial(ds, w))
<1>1. ASSUME NEW c
      PROVE  Summed(SecondPt(c, ds, u), SecondPt(c, ds, v), SecondPt(c, ds, w))
  <2> DEFINE leptons(e) == IF c = "mumu" THEN TutorialMuons(e) ELSE TutorialElectrons(e)
             K == {e \in E : TutorialDilepton(e) /\ Len(leptons(e)) = 2}
             G == [e \in E |-> leptons(e)[2].pt]
  <2>1. Joined(Kept(u, K), Kept(v, K), Kept(w, K), E)
    BY JoinedKept
  <2>2. ASSUME NEW s \in {u, v, w}
        PROVE  SecondPt(c, ds, s) = Fill(c, ds, Applied(Kept(s, K), G))
    <3>1. \A i \in DOMAIN s : s[i] \in E
      BY JoinedType
    <3>2. Where(s, LAMBDA e : TutorialDilepton(e) /\ Len(leptons(e)) = 2) = Kept(s, K)
      <4> HIDE DEF leptons
      <4> QED
        BY <3>1 DEF Where, Mask, Each, Kept
    <3>3. Each(Kept(s, K), LAMBDA e : leptons(e)[2].pt) = Applied(Kept(s, K), G)
      <4> HIDE DEF K, leptons
      <4> QED
        BY <2>1, JoinedType DEF Each, Applied
    <3>4. SecondPt(c, ds, s)
            = Fill(c, ds, Each(Where(s, LAMBDA e : TutorialDilepton(e) /\ Len(leptons(e)) = 2),
                               LAMBDA e : leptons(e)[2].pt))
      BY DEF SecondPt
    <3> QED
      BY <3>2, <3>3, <3>4
  <2> HIDE DEF K, G
  <2> QED
    BY <2>1, <2>2, SummedEach
<1>2. Summed(JetGap(ds, u), JetGap(ds, v), JetGap(ds, w))
  <2> DEFINE light(e) == Leading(Light(e.jets), LAMBDA j : j.eta)
             heavy(e) == Leading(BJets(e.jets), LAMBDA j : j.pt)
             K == {e \in E : TutorialDilepton(e) /\ Len(TutorialMuons(e)) = 2}
             G == [e \in E |-> EtaGap(heavy(e), light(e))]
             V == {Abs(heavy(e)[1].eta - light(e)[1].eta) : e \in E}
             gaps(s) == FlattenSeq(Applied(Kept(s, K), G))
  <2>1. Joined(Kept(u, K), Kept(v, K), Kept(w, K), E)
    BY JoinedKept
  <2>2. \A e \in E : G[e] \in Seq(V)
    <3> HIDE DEF light, heavy
    <3>1. \A e \in E : Abs(heavy(e)[1].eta - light(e)[1].eta) \in V
      OBVIOUS
    <3> HIDE DEF V
    <3> QED
      BY <3>1 DEF EtaGap
  <2>3. ASSUME NEW s \in {u, v, w} PROVE JetGap(ds, s) = Fill("etadiff", ds, gaps(s))
    <3>1. \A i \in DOMAIN s : s[i] \in E
      BY JoinedType
    <3>2. Where(s, LAMBDA e : TutorialDilepton(e) /\ Len(TutorialMuons(e)) = 2) = Kept(s, K)
      BY <3>1 DEF Where, Mask, Each, Kept
    <3>3. Each(Kept(s, K), LAMBDA e : EtaGap(heavy(e), light(e))) = Applied(Kept(s, K), G)
      <4> HIDE DEF K, light, heavy
      <4> QED
        BY <2>1, JoinedType DEF Each, Applied
    <3>4. JetGap(ds, s)
            = Fill("etadiff", ds, FlattenSeq(Each(
                Where(s, LAMBDA e : TutorialDilepton(e) /\ Len(TutorialMuons(e)) = 2),
                LAMBDA e : EtaGap(heavy(e), light(e)))))
      BY DEF JetGap
    <3> QED
      BY <3>2, <3>3, <3>4
  <2> HIDE DEF K, G, V
  <2>4. Joined(gaps(u), gaps(v), gaps(w), V)
    BY <2>1, <2>2, JoinedRows
  <2> HIDE DEF gaps
  <2> QED
    BY <2>3, <2>4, SummedFill
<1> QED
  BY <1>1, <1>2, SummedBoth DEF Tutorial

\* What has elements from the first to the n-th is an array.
LEMMA MadeOf ==
  ASSUME NEW V, NEW n \in Nat, NEW f, f = [i \in 1..n |-> f[i]], \A i \in 1..n : f[i] \in V
  PROVE  f \in Seq(V)
OBVIOUS

\* The combinations of two elements and of three are arrays.
LEMMA PairsType ==
  ASSUME NEW J, NEW s \in Seq(J) PROVE Pairs(s) \in Seq(J \X J)
<1> DEFINE rows == [i \in DOMAIN s |-> [j \in 1..Len(s) - i |-> <<s[i], s[i + j]>>]]
<1>1. DOMAIN s = 1..Len(s) /\ Len(s) \in Nat
  OBVIOUS
<1>2. ASSUME NEW i \in DOMAIN s
      PROVE  [j \in 1..Len(s) - i |-> <<s[i], s[i + j]>>] \in Seq(J \X J)
  <2> DEFINE f == [j \in 1..Len(s) - i |-> <<s[i], s[i + j]>>]
  <2>1. Len(s) - i \in Nat /\ \A j \in 1..Len(s) - i : s[i] \in J /\ s[i + j] \in J
    BY <1>1
  <2>2. \A j \in 1..Len(s) - i : f[j] \in J \X J
    BY <2>1
  <2>3. f = [j \in 1..Len(s) - i |-> f[j]]
    OBVIOUS
  <2> HIDE DEF f
  <2>4. f \in Seq(J \X J)
    BY <2>1, <2>2, <2>3, MadeOf
  <2> QED
    BY <2>4 DEF f
<1>3. rows \in Seq(Seq(J \X J))
  BY <1>1, <1>2
<1> HIDE DEF rows
<1>4. FlattenSeq(rows) \in Seq(J \X J)
  BY <1>3, FlattenType
<1> QED
  BY <1>4 DEF Pairs, rows

\* combinations(3) gives sequences of three of them.
LEMMA TriplesType ==
  ASSUME NEW J, NEW s \in Seq(J), NEW T, \A x \in J : \A p \in J \X J : <<x>> \o p \in T
  PROVE  Triples(s) \in Seq(T)
<1> DEFINE row(i) == Each(Pairs(SubSeq(s, i + 1, Len(s))), LAMBDA p : <<s[i]>> \o p)
           rows == [i \in DOMAIN s |-> row(i)]
<1>1. DOMAIN s = 1..Len(s) /\ Len(s) \in Nat
  OBVIOUS
<1>2. ASSUME NEW i \in DOMAIN s PROVE row(i) \in Seq(T)
  <2> DEFINE ps == Pairs(SubSeq(s, i + 1, Len(s)))
  <2>1. i \in 0..Len(s) /\ Len(s) \in i..Len(s) /\ s[i] \in J
    BY <1>1
  <2>2. SubSeq(s, i + 1, Len(s)) \in Seq(J)
    BY <2>1, NextSlice
  <2>3. ps \in Seq(J \X J)
    BY <2>2, PairsType
  <2> HIDE DEF ps
  <2>4. \A k \in DOMAIN ps : <<s[i]>> \o ps[k] \in T
    BY <2>1, <2>3
  <2>5. row(i) = [k \in DOMAIN ps |-> <<s[i]>> \o ps[k]]
    BY DEF Each, ps
  <2>6. DOMAIN ps = 1..Len(ps) /\ Len(ps) \in Nat
    BY <2>3
  <2> HIDE DEF row
  <2>7. row(i) = [k \in 1..Len(ps) |-> row(i)[k]] /\ \A k \in 1..Len(ps) : row(i)[k] \in T
    BY <2>4, <2>5, <2>6
  <2> QED
    BY <2>6, <2>7, MadeOf
<1> HIDE DEF row
<1>3. rows \in Seq(Seq(T))
  BY <1>1, <1>2
<1> HIDE DEF rows
<1>4. FlattenSeq(rows) \in Seq(T)
  BY <1>3, FlattenType
<1> QED
  BY <1>4 DEF Triples, rows, row

\* example6
LEMMA Example6Summed ==
  ASSUME NEW E, NEW u, NEW v, NEW w, Joined(u, v, w, E), NEW ds,
         NEW J, NEW L, Readable(E, J, L)
  PROVE  Summed(Example6(ds, u), Example6(ds, v), Example6(ds, w))
<1> DEFINE trijets(e) == Triples(Where(e.jets, LAMBDA j : j.pt > 30))
           distance(t) == Abs(17250 - MassOf(t))
           closest(e) == Where(trijets(e), LAMBDA t :
                           \A other \in ToSet(trijets(e)) : distance(t) <= distance(other))
           T == {<<x>> \o p : x \in J, p \in J \X J}
           G == [e \in E |-> closest(e)]
           P == [t \in T |-> PtOf(t)]
           B == [t \in T |-> Max({t[1].btag, t[2].btag, t[3].btag})]
           all(s) == FlattenSeq(Applied(s, G))
<1>0. ASSUME NEW e \in E PROVE closest(e) \in Seq(T)
  <2>1. e.jets \in Seq(J)
    BY DEF Readable
  <2>2. Where(e.jets, LAMBDA j : j.pt > 30) \in Seq(J)
    BY <2>1, WhereType DEF Where
  <2>3. \A x \in J : \A p \in J \X J : <<x>> \o p \in T
    OBVIOUS
  <2> HIDE DEF T
  <2>4. trijets(e) \in Seq(T)
    BY <2>2, <2>3, TriplesType
  <2> HIDE DEF trijets, distance
  <2> QED
    BY <2>4, WhereType DEF Where
<1> HIDE DEF trijets, distance, closest, T
<1>1. \A e \in E : G[e] \in Seq(T)
  BY <1>0
<1>2. Joined(all(u), all(v), all(w), T)
  <2> HIDE DEF G
  <2> QED
    BY <1>1, JoinedRows
<1>3. ASSUME NEW s \in {u, v, w}
      PROVE  Example6(ds, s) = Fill("Jet_pt", ds, Applied(all(s), P))
                                 (+) Fill("b_tag", ds, Applied(all(s), B))
  <2>1. FlattenSeq(Each(s, closest)) = all(s)
    <3>1. Each(s, closest) = Applied(s, G)
      BY JoinedType DEF Each, Applied
    <3> HIDE DEF G
    <3> QED
      BY <3>1
  <2> HIDE DEF all
  <2>2. /\ Each(all(s), PtOf) = Applied(all(s), P)
        /\ Each(all(s), LAMBDA t : Max({t[1].btag, t[2].btag, t[3].btag})) = Applied(all(s), B)
    BY <1>2, JoinedType DEF Each, Applied
  <2>3. Example6(ds, s)
          = Fill("Jet_pt", ds, Each(FlattenSeq(Each(s, closest)), PtOf))
              (+) Fill("b_tag", ds, Each(FlattenSeq(Each(s, closest)),
                         LAMBDA t : Max({t[1].btag, t[2].btag, t[3].btag})))
    BY DEF Example6, closest, trijets, distance
  <2> HIDE DEF P, B
  <2> QED
    BY <2>1, <2>2, <2>3
<1> HIDE DEF all, P, B
<1>4. /\ Summed(Fill("Jet_pt", ds, Applied(all(u), P)), Fill("Jet_pt", ds, Applied(all(v), P)),
                Fill("Jet_pt", ds, Applied(all(w), P)))
      /\ Summed(Fill("b_tag", ds, Applied(all(u), B)), Fill("b_tag", ds, Applied(all(v), B)),
                Fill("b_tag", ds, Applied(all(w), B)))
  BY <1>2, SummedEach
<1> QED
  BY <1>3, <1>4, SummedBoth

\* example7
LEMMA Example7Summed ==
  ASSUME NEW E, NEW u, NEW v, NEW w, Joined(u, v, w, E), NEW ds,
         NEW J, NEW L, Readable(E, J, L)
  PROVE  Summed(Example7(ds, u), Example7(ds, v), Example7(ds, w))
<1> DEFINE good(e) == Where(e.jets, LAMBDA j : j.pt > 30)
           above10(ls) == Where(ls, LAMBDA l : l.pt > 10)
           jm(e) == Each(good(e), LAMBDA j : FarFrom(j, above10(e.muons)))
           je(e) == Each(good(e), LAMBDA j : FarFrom(j, above10(e.electrons)))
           jl(e) == [i \in DOMAIN good(e) |-> Both(jm(e)[i], je(e)[i])]
           true(mask) == Where(mask, LAMBDA m : m = "T")
           sumjets(e) == PtOf(Mask(good(e), Each(jl(e), LAMBDA m : m = "T")))
           Truth == {"T", "F", "None"}
           num(key, s, F) == Count(key, Len(FlattenSeq(Applied(s, F))))
           F1 == [e \in E |-> e.jets]
           F2 == [e \in E |-> good(e)]
           F3 == [e \in E |-> above10(e.muons)]
           F4 == [e \in E |-> above10(e.electrons)]
           F5 == [e \in E |-> true(jm(e))]
           F6 == [e \in E |-> true(je(e))]
           F7 == [e \in E |-> true(jl(e))]
           F8 == [e \in E |-> Where(jl(e), LAMBDA m : m # "F")]
           G == [e \in E |-> sumjets(e)]
<1>1. ASSUME NEW e \in E
      PROVE  /\ F1[e] \in Seq(J) /\ F2[e] \in Seq(J)
             /\ F3[e] \in Seq(L) /\ F4[e] \in Seq(L)
             /\ F5[e] \in Seq(Truth) /\ F6[e] \in Seq(Truth)
             /\ F7[e] \in Seq(Truth) /\ F8[e] \in Seq(Truth)
  <2>1. e.jets \in Seq(J) /\ e.muons \in Seq(L) /\ e.electrons \in Seq(L)
    BY DEF Readable
  <2>2. good(e) \in Seq(J) /\ above10(e.muons) \in Seq(L) /\ above10(e.electrons) \in Seq(L)
    BY <2>1, WhereType DEF Where
  <2> HIDE DEF good, above10
  <2>3. jm(e) \in Seq(Truth) /\ je(e) \in Seq(Truth)
    <3>1. \A j, ls : FarFrom(j, ls) \in Truth
      BY DEF FarFrom
    <3>2. DOMAIN good(e) = 1..Len(good(e)) /\ Len(good(e)) \in Nat
      BY <2>2
    <3>3. /\ jm(e) = [i \in 1..Len(good(e)) |-> jm(e)[i]]
          /\ je(e) = [i \in 1..Len(good(e)) |-> je(e)[i]]
      BY <3>2 DEF Each
    <3>4. \A i \in 1..Len(good(e)) : jm(e)[i] \in Truth /\ je(e)[i] \in Truth
      BY <3>1, <3>2 DEF Each
    <3> HIDE DEF jm, je
    <3> QED
      BY <3>2, <3>3, <3>4, MadeOf
  <2>4. jl(e) \in Seq(Truth)
    <3>1. \A a, b : Both(a, b) \in Truth
      BY DEF Both
    <3>2. DOMAIN good(e) = 1..Len(good(e)) /\ Len(good(e)) \in Nat
      BY <2>2
    <3>3. jl(e) = [i \in 1..Len(good(e)) |-> jl(e)[i]]
      BY <3>2
    <3>4. \A i \in 1..Len(good(e)) : jl(e)[i] \in Truth
      BY <3>1, <3>2
    <3> HIDE DEF jl
    <3> QED
      BY <3>2, <3>3, <3>4, MadeOf
  <2> HIDE DEF jm, je, jl
  <2>5. true(jm(e)) \in Seq(Truth) /\ true(je(e)) \in Seq(Truth) /\ true(jl(e)) \in Seq(Truth)
    BY <2>3, <2>4, WhereType DEF Where
  <2>6. Where(jl(e), LAMBDA m : m # "F") \in Seq(Truth)
    BY <2>4, WhereType DEF Where
  <2> QED
    BY <2>1, <2>2, <2>5, <2>6
<1> HIDE DEF good, above10, jm, je, jl, true, sumjets, Truth
<1>2. ASSUME NEW s \in {u, v, w}
      PROVE  Example7(ds, s)
               = Count("all events", Len(s)) (+) num("all jets", s, F1)
                   (+) num("jets with pt > 30", s, F2)
                   (+) num("muons with pt > 10", s, F3)
                   (+) num("electrons with pt > 10", s, F4)
                   (+) num("jet-muon pairs", s, F5)
                   (+) num("jet-electron pairs", s, F6)
                   (+) num("jet-lepton pairs", s, F7)
                   (+) num("final jets", s, F8)
                   (+) Fill("Jet_pt", ds, Applied(s, G))
  <2>0. \A i \in DOMAIN s : s[i] \in E
    BY JoinedType
  <2>1. /\ NumOf(s, LAMBDA e : e.jets) = Len(FlattenSeq(Applied(s, F1)))
        /\ NumOf(s, good) = Len(FlattenSeq(Applied(s, F2)))
        /\ NumOf(s, LAMBDA e : above10(e.muons)) = Len(FlattenSeq(Applied(s, F3)))
        /\ NumOf(s, LAMBDA e : above10(e.electrons)) = Len(FlattenSeq(Applied(s, F4)))
        /\ NumOf(s, LAMBDA e : true(jm(e))) = Len(FlattenSeq(Applied(s, F5)))
        /\ NumOf(s, LAMBDA e : true(je(e))) = Len(FlattenSeq(Applied(s, F6)))
        /\ NumOf(s, LAMBDA e : true(jl(e))) = Len(FlattenSeq(Applied(s, F7)))
        /\ NumOf(s, LAMBDA e : Where(jl(e), LAMBDA m : m # "F"))
             = Len(FlattenSeq(Applied(s, F8)))
        /\ Each(s, sumjets) = Applied(s, G)
    BY <2>0 DEF NumOf, Each, Applied
  <2>2. Example7(ds, s)
          = Count("all events", Len(s)) (+) Count("all jets", NumOf(s, LAMBDA e : e.jets))
              (+) Count("jets with pt > 30", NumOf(s, good))
              (+) Count("muons with pt > 10", NumOf(s, LAMBDA e : above10(e.muons)))
              (+) Count("electrons with pt > 10", NumOf(s, LAMBDA e : above10(e.electrons)))
              (+) Count("jet-muon pairs", NumOf(s, LAMBDA e : true(jm(e))))
              (+) Count("jet-electron pairs", NumOf(s, LAMBDA e : true(je(e))))
              (+) Count("jet-lepton pairs", NumOf(s, LAMBDA e : true(jl(e))))
              (+) Count("final jets", NumOf(s, LAMBDA e : Where(jl(e), LAMBDA m : m # "F")))
              (+) Fill("Jet_pt", ds, Each(s, sumjets))
    BY DEF Example7, good, above10, jm, je, jl, true, sumjets
  <2> HIDE DEF F1, F2, F3, F4, F5, F6, F7, F8, G
  <2> QED
    BY <2>1, <2>2
<1> HIDE DEF F1, F2, F3, F4, F5, F6, F7, F8, G
<1>3. /\ Summed(num("all jets", u, F1), num("all jets", v, F1), num("all jets", w, F1))
      /\ Summed(num("jets with pt > 30", u, F2), num("jets with pt > 30", v, F2),
                num("jets with pt > 30", w, F2))
  BY <1>1, SummedNum
<1>4. /\ Summed(num("muons with pt > 10", u, F3), num("muons with pt > 10", v, F3),
                num("muons with pt > 10", w, F3))
      /\ Summed(num("electrons with pt > 10", u, F4), num("electrons with pt > 10", v, F4),
                num("electrons with pt > 10", w, F4))
  BY <1>1, SummedNum
<1>5. /\ Summed(num("jet-muon pairs", u, F5), num("jet-muon pairs", v, F5),
                num("jet-muon pairs", w, F5))
      /\ Summed(num("jet-electron pairs", u, F6), num("jet-electron pairs", v, F6),
                num("jet-electron pairs", w, F6))
  BY <1>1, SummedNum
<1>6. /\ Summed(num("jet-lepton pairs", u, F7), num("jet-lepton pairs", v, F7),
                num("jet-lepton pairs", w, F7))
      /\ Summed(num("final jets", u, F8), num("final jets", v, F8), num("final jets", w, F8))
  BY <1>1, SummedNum
<1>7. Summed(Fill("Jet_pt", ds, Applied(u, G)), Fill("Jet_pt", ds, Applied(v, G)),
             Fill("Jet_pt", ds, Applied(w, G)))
  BY SummedEach
<1> HIDE DEF num
<1> DEFINE four(s) == Count("all events", Len(s)) (+) num("all jets", s, F1)
                        (+) num("jets with pt > 30", s, F2)
                        (+) num("muons with pt > 10", s, F3)
           eight(s) == four(s) (+) num("electrons with pt > 10", s, F4)
                         (+) num("jet-muon pairs", s, F5)
                         (+) num("jet-electron pairs", s, F6)
                         (+) num("jet-lepton pairs", s, F7)
<1>8. Summed(four(u), four(v), four(w))
  BY <1>3, <1>4, AllEvents, SummedBoth
<1>9. Summed(eight(u), eight(v), eight(w))
  <2> HIDE DEF four
  <2> QED
    BY <1>4, <1>5, <1>6, <1>8, SummedBoth
<1> QED
  <2> DEFINE ten(s) == eight(s) (+) num("final jets", s, F8)
                         (+) Fill("Jet_pt", ds, Applied(s, G))
  <2>1. Summed(ten(u), ten(v), ten(w))
    <3> HIDE DEF eight
    <3> QED
      BY <1>6, <1>7, <1>9, SummedBoth
  <2> QED
    BY <1>2, <2>1

-----------------------------------------------------------------------------
(* Runs of the notebooks *)

\* The notebooks whose process methods treat one event at a time, and what they make of
\* events.
ByEvent == {"example1", "example2", "example3", "example4", "example5", "example6",
            "example7", "zpeak", "ttbar", "tutorial", "template"}
Processed(query, ds, events) ==
  CASE query = "example1" -> Example1(ds, events)
    [] query = "example2" -> Example2(ds, events)
    [] query = "example3" -> Example3(ds, events)
    [] query = "example4" -> Example4(ds, events)
    [] query = "example5" -> Example5(ds, events)
    [] query = "example6" -> Example6(ds, events)
    [] query = "example7" -> Example7(ds, events)
    [] query = "zpeak" -> ZPeak(ds, events)
    [] query = "ttbar" -> TtbarAnalysis(ds, events)
    [] query = "tutorial" -> Tutorial(ds, events)
    [] OTHER -> MinimalProcessor(ds, events)

\* The jobs of these notebooks.
JobsOn(data, chunks) ==
  {Job("example1", Example1, Never, Says1, data, chunks),
   Job("example2", Example2, Never, Says2, data, chunks),
   Job("example3", Example3, Never, Says3, data, chunks),
   Job("example4", Example4, Never, Says4, data, chunks),
   Job("example5", Example5, Never, Says5, data, chunks),
   Job("example6", Example6, Never, Says6, data, chunks),
   Job("example7", Example7, Never, Says7, data, chunks),
   Job("zpeak", ZPeak, Never, SaysZPeak, data, chunks),
   Job("ttbar", TtbarAnalysis, Never, SaysTtbar, data, chunks),
   Job("tutorial", Tutorial, Never, SaysTutorial, data, chunks),
   Job("template", MinimalProcessor, Never, SaysNothing, data, chunks)}

\* What such a job is made of.
MadeBy(j, data, chunks) ==
  /\ j.query \in ByEvent /\ j.chunks = chunks /\ DOMAIN j.uncut = DOMAIN data
  /\ \A c \in DOMAIN chunks : j.acc[c] = Processed(j.query, chunks[c][1], chunks[c][2])
  /\ \A ds \in DOMAIN data : j.uncut[ds] = Processed(j.query, ds, data[ds])

\* A job of these notebooks is made of it.
LEMMA JobsMade ==
  ASSUME NEW data, NEW chunks, NEW j \in JobsOn(data, chunks) PROVE MadeBy(j, data, chunks)
<1> USE DEF MadeBy, Job, Never, Processed, ByEvent
<1>1. CASE j = Job("example1", Example1, Never, Says1, data, chunks)
  BY <1>1
<1>2. CASE j = Job("example2", Example2, Never, Says2, data, chunks)
  BY <1>2
<1>3. CASE j = Job("example3", Example3, Never, Says3, data, chunks)
  BY <1>3
<1>4. CASE j = Job("example4", Example4, Never, Says4, data, chunks)
  BY <1>4
<1>5. CASE j = Job("example5", Example5, Never, Says5, data, chunks)
  BY <1>5
<1>6. CASE j = Job("example6", Example6, Never, Says6, data, chunks)
  BY <1>6
<1>7. CASE j = Job("example7", Example7, Never, Says7, data, chunks)
  BY <1>7
<1>8. CASE j = Job("zpeak", ZPeak, Never, SaysZPeak, data, chunks)
  BY <1>8
<1>9. CASE j = Job("ttbar", TtbarAnalysis, Never, SaysTtbar, data, chunks)
  BY <1>9
<1>10. CASE j = Job("tutorial", Tutorial, Never, SaysTutorial, data, chunks)
  BY <1>10
<1>11. CASE j = Job("template", MinimalProcessor, Never, SaysNothing, data, chunks)
  BY <1>11
<1> HIDE DEF MadeBy, Job, Never, Processed, ByEvent
<1> QED
  BY <1>1, <1>2, <1>3, <1>4, <1>5, <1>6, <1>7, <1>8, <1>9, <1>10, <1>11 DEF JobsOn

\* What they make of two parts is what they make of the whole, but for the number of
\* chunks.
LEMMA ProcessedSummed ==
  ASSUME NEW E, NEW u, NEW v, NEW w, Joined(u, v, w, E), NEW ds,
         NEW J, NEW L, Readable(E, J, L), NEW query \in ByEvent
  PROVE  Summed(NoChunks(Processed(query, ds, u)), NoChunks(Processed(query, ds, v)),
                NoChunks(Processed(query, ds, w)))
<1>1. CASE query = "example1"
  BY <1>1, Example1Summed DEF Processed
<1>2. CASE query = "example2"
  BY <1>2, Example2Summed, SummedTrimmed DEF Processed
<1>3. CASE query = "example3"
  BY <1>3, Example3Summed, SummedTrimmed DEF Processed
<1>4. CASE query = "example4"
  BY <1>4, Example4Summed, SummedTrimmed DEF Processed
<1>5. CASE query = "example5"
  BY <1>5, Example5Summed, SummedTrimmed DEF Processed
<1>6. CASE query = "example6"
  BY <1>6, Example6Summed, SummedTrimmed DEF Processed
<1>7. CASE query = "example7"
  BY <1>7, Example7Summed, SummedTrimmed DEF Processed
<1>8. CASE query = "zpeak"
  BY <1>8, ZPeakSummed, SummedTrimmed DEF Processed
<1>9. CASE query = "ttbar"
  BY <1>9, TtbarSummed, SummedTrimmed DEF Processed
<1>10. CASE query = "tutorial"
  BY <1>10, TutorialSummed, SummedTrimmed DEF Processed
<1>11. CASE query = "template"
  BY <1>11, TemplateSummed, SummedTrimmed DEF Processed
<1> QED
  BY <1>1, <1>2, <1>3, <1>4, <1>5, <1>6, <1>7, <1>8, <1>9, <1>10, <1>11 DEF ByEvent

\* So the accumulators of the chunks add up to those of the datasets, but for it.
LEMMA JobSums ==
  ASSUME NEW data, NEW chunks, NEW E, FilesetOf(data, chunks, E),
         NEW J, NEW L, Readable(E, J, L), NEW j \in JobsOn(data, chunks)
  PROVE  NoChunks(SumOver(j.acc, DOMAIN j.chunks)) = NoChunks(SumOver(j.uncut, DOMAIN j.uncut))
<1> DEFINE q == j.query
           P == [ds \in DOMAIN data |-> [s \in Seq(E) |-> NoChunks(Processed(q, ds, s))]]
           acc == [c \in DOMAIN chunks |-> NoChunks(j.acc[c])]
           uncut == [ds \in DOMAIN data |-> NoChunks(j.uncut[ds])]
<1>1. /\ q \in ByEvent /\ j.chunks = chunks /\ DOMAIN j.uncut = DOMAIN data
      /\ \A c \in DOMAIN chunks : j.acc[c] = Processed(q, chunks[c][1], chunks[c][2])
      /\ \A ds \in DOMAIN data : j.uncut[ds] = Processed(q, ds, data[ds])
  BY JobsMade DEF MadeBy
<1> HIDE DEF q
<1>2. /\ IsFiniteSet(DOMAIN data) /\ Len(chunks) \in Nat /\ IsCut(chunks, data)
      /\ \A ds \in DOMAIN data : data[ds] \in Seq(E)
  BY DEF FilesetOf
<1>3. /\ \A c \in DOMAIN chunks : acc[c] = P[chunks[c][1]][chunks[c][2]]
      /\ \A ds \in DOMAIN data : uncut[ds] = P[ds][data[ds]]
  BY <1>1, <1>2, ChunkType
<1>4. \A ds \in DOMAIN data : Adds(P[ds], E)
  <2> SUFFICES ASSUME NEW ds \in DOMAIN data PROVE Adds(P[ds], E)
    OBVIOUS
  <2>1. ASSUME NEW u \in Seq(E), NEW v \in Seq(E)
        PROVE  IsABag(P[ds][u]) /\ P[ds][u \o v] = P[ds][u] (+) P[ds][v]
    <3>1. Joined(u, v, u \o v, E) /\ u \o v \in Seq(E)
      BY DEF Joined
    <3>2. Summed(NoChunks(Processed(q, ds, u)), NoChunks(Processed(q, ds, v)),
                 NoChunks(Processed(q, ds, u \o v)))
      BY <1>1, <3>1, ProcessedSummed
    <3> QED
      BY <3>1, <3>2 DEF Summed
  <2> HIDE DEF P
  <2> QED
    BY <2>1 DEF Adds
<1>5. /\ NoChunks(SumOver(j.acc, DOMAIN chunks)) = SumOver(acc, DOMAIN chunks)
      /\ NoChunks(SumOver(j.uncut, DOMAIN data)) = SumOver(uncut, DOMAIN data)
  BY TrimmedOver
<1> HIDE DEF P, acc, uncut
<1>6. \A ds \in DOMAIN data : data[ds] \in Seq(E) /\ Adds(P[ds], E)
  BY <1>2, <1>4
<1>7. SumOver(acc, DOMAIN chunks) = SumOver(uncut, DOMAIN data)
  BY <1>2, <1>3, <1>6, CutSum
<1> QED
  BY <1>1, <1>5, <1>7

\* The postprocess methods of a run are those of the notebooks.
PostIsOurs == \A query, acc : Post(query, acc) = PostOf(query, acc)

\* Such a job does not show where its chunks were cut.
LEMMA JobDoesNotShow ==
  ASSUME NEW data, NEW chunks, NEW E, FilesetOf(data, chunks, E),
         NEW J, NEW L, Readable(E, J, L), NEW j \in JobsOn(data, chunks), PostIsOurs
  PROVE  DoesNotShow(j)
<1>1. NoChunks(SumOver(j.acc, DOMAIN j.chunks)) = NoChunks(SumOver(j.uncut, DOMAIN j.uncut))
  BY JobSums
<1>2. j.query \in ByEvent
  BY JobsMade DEF MadeBy
<1>3. \A b : Post(j.query, b) = b
  BY <1>2 DEF ByEvent, PostOf, PostIsOurs
<1> QED
  BY <1>1, <1>3 DEF DoesNotShow, Uncut

-----------------------------------------------------------------------------
(* Masks of masks *)

\* A mask leaves nothing of nothing,
LEMMA KeptNone == ASSUME NEW K PROVE Kept(<<>>, K) = <<>>
BY DEF Kept, FlattenSeq

\* and goes on element by element.
LEMMA KeptMore ==
  ASSUME NEW E, NEW K, NEW s \in Seq(E), NEW e \in E
  PROVE  Kept(Append(s, e), K) = IF e \in K THEN Append(Kept(s, K), e) ELSE Kept(s, K)
<1> DEFINE x == IF e \in K THEN <<e>> ELSE <<>>
           rows == [i \in DOMAIN s |-> IF s[i] \in K THEN <<s[i]>> ELSE <<>>]
           more == [i \in DOMAIN Append(s, e) |->
                      IF Append(s, e)[i] \in K THEN <<Append(s, e)[i]>> ELSE <<>>]
<1>1. x \in Seq(E) /\ Len(s) \in Nat /\ DOMAIN s = 1..Len(s)
  OBVIOUS
<1>2. /\ rows \in Seq(Seq(E)) /\ Len(rows) = Len(s)
      /\ \A i \in 1..Len(s) : rows[i] = IF s[i] \in K THEN <<s[i]>> ELSE <<>>
  <2>1. \A i \in 1..Len(s) : (IF s[i] \in K THEN <<s[i]>> ELSE <<>>) \in Seq(E)
    OBVIOUS
  <2> QED
    BY <1>1, <2>1
<1>3. /\ more \in Seq(Seq(E)) /\ Len(more) = Len(s) + 1 /\ more[Len(s) + 1] = x
      /\ \A i \in 1..Len(s) : more[i] = IF s[i] \in K THEN <<s[i]>> ELSE <<>>
  <2>1. /\ Append(s, e) \in Seq(E) /\ Len(Append(s, e)) = Len(s) + 1
        /\ DOMAIN Append(s, e) = 1..(Len(s) + 1) /\ Append(s, e)[Len(s) + 1] = e
        /\ \A i \in 1..Len(s) : Append(s, e)[i] = s[i]
    OBVIOUS
  <2>2. \A i \in 1..(Len(s) + 1) : Append(s, e)[i] \in E
    BY <2>1
  <2>3. \A i \in 1..(Len(s) + 1) :
          (IF Append(s, e)[i] \in K THEN <<Append(s, e)[i]>> ELSE <<>>) \in Seq(E)
    BY <2>2
  <2> QED
    BY <1>1, <2>1, <2>3
<1> HIDE DEF x, rows, more
<1>4. more = Append(rows, x)
  <2>1. rows \in Seq(Seq(E)) /\ x \in Seq(E) /\ Len(more) = Len(rows) + 1
    BY <1>1, <1>2, <1>3
  <2>2. /\ Append(rows, x) \in Seq(Seq(E)) /\ Len(Append(rows, x)) = Len(more)
        /\ Append(rows, x)[Len(rows) + 1] = x
        /\ \A i \in 1..Len(rows) : Append(rows, x)[i] = rows[i]
    BY <2>1
  <2>3. \A i \in 1..Len(rows) : more[i] = rows[i]
    BY <1>2, <1>3
  <2>4. more[Len(rows) + 1] = x /\ Len(rows) \in Nat
    BY <1>1, <1>2, <1>3
  <2>5. \A i \in 1..Len(more) : more[i] = Append(rows, x)[i]
    BY <2>1, <2>2, <2>3, <2>4
  <2> QED
    BY <1>3, <2>2, <2>5, SeqEqual
<1>5. FlattenSeq(rows) \in Seq(E)
  BY <1>2, FlattenType
<1>6. FlattenSeq(more) = FlattenSeq(rows) \o x
  BY <1>1, <1>2, <1>4, <1>5, FlattenAppend
<1>7. Kept(s, K) = FlattenSeq(rows) /\ Kept(Append(s, e), K) = FlattenSeq(more)
  BY DEF Kept, rows, more
<1>8. CASE e \in K
  <2>1. x = <<e>>
    BY <1>8 DEF x
  <2>2. FlattenSeq(rows) \o <<e>> = Append(FlattenSeq(rows), e)
    BY <1>5
  <2> QED
    BY <1>6, <1>7, <1>8, <2>1, <2>2
<1>9. CASE e \notin K
  <2>1. x = <<>>
    BY <1>9 DEF x
  <2>2. FlattenSeq(rows) \o <<>> = FlattenSeq(rows)
    BY <1>5, ConcatEmptySeq
  <2> QED
    BY <1>6, <1>7, <1>9, <2>1, <2>2
<1> QED
  BY <1>8, <1>9

\* What it leaves is a sequence of such elements.
LEMMA KeptType ==
  ASSUME NEW E, NEW K, NEW s \in Seq(E) PROVE Kept(s, K) \in Seq(E)
<1> DEFINE T == {n \in Nat : \A t \in Seq(E) : Len(t) = n => Kept(t, K) \in Seq(E)}
<1>1. 0 \in T
  <2>1. \A t \in Seq(E) : Len(t) = 0 => t = <<>>
    OBVIOUS
  <2> QED
    BY <2>1, KeptNone
<1>2. ASSUME NEW n \in Nat, n \in T PROVE n + 1 \in T
  <2> SUFFICES ASSUME NEW t \in Seq(E), Len(t) = n + 1 PROVE Kept(t, K) \in Seq(E)
    OBVIOUS
  <2>1. PICK x \in Seq(E), e \in E : t = Append(x, e) /\ Len(x) = n
    BY LastOff
  <2>2. Kept(x, K) \in Seq(E)
    BY <1>2, <2>1
  <2>3. Kept(t, K) = IF e \in K THEN Append(Kept(x, K), e) ELSE Kept(x, K)
    BY <2>1, KeptMore
  <2> QED
    BY <2>2, <2>3
<1> HIDE DEF T
<1>3. Nat \subseteq T
  BY <1>1, <1>2, FromZero
<1> QED
  BY <1>3 DEF T

\* G takes elements of E to elements of V.
Takes(G, E, V) == \A x \in E : G[x] \in V

\* An operation on every element goes on element by element.
LEMMA AppliedMore ==
  ASSUME NEW E, NEW V, NEW G, Takes(G, E, V), NEW s \in Seq(E), NEW e \in E
  PROVE  /\ Applied(s, G) \in Seq(V) /\ G[e] \in V
         /\ Applied(Append(s, e), G) = Append(Applied(s, G), G[e])
<1>0. G[e] \in V /\ \A x \in E : G[x] \in V
  BY DEF Takes
<1>1. /\ Applied(s, G) \in Seq(V) /\ Len(Applied(s, G)) = Len(s)
      /\ \A i \in 1..Len(s) : Applied(s, G)[i] = G[s[i]]
  BY <1>0 DEF Applied
<1>2. /\ Append(s, e) \in Seq(E) /\ Len(Append(s, e)) = Len(s) + 1
      /\ Append(s, e)[Len(s) + 1] = e /\ \A i \in 1..Len(s) : Append(s, e)[i] = s[i]
  OBVIOUS
<1>3. /\ Applied(Append(s, e), G) \in Seq(V) /\ Len(Applied(Append(s, e), G)) = Len(s) + 1
      /\ \A i \in 1..(Len(s) + 1) : Applied(Append(s, e), G)[i] = G[Append(s, e)[i]]
  BY <1>0, <1>2 DEF Applied
<1>4. Append(Applied(s, G), G[e]) \in Seq(V)
  BY <1>0, <1>1
<1>5. \A i \in 1..(Len(s) + 1) : Applied(Append(s, e), G)[i] = Append(Applied(s, G), G[e])[i]
  BY <1>0, <1>1, <1>2, <1>3
<1> QED
  BY <1>0, <1>1, <1>3, <1>4, <1>5, SeqEqual

\* A mask over what an operation makes of the elements is one over the elements: with
\* one more element,
LEMMA KeptAppliedMore ==
  ASSUME NEW E, NEW V, NEW G, Takes(G, E, V), NEW K, NEW K1, NEW K2,
         NEW x \in Seq(E), NEW e \in E, e \in K <=> e \in K1 /\ G[e] \in K2,
         Kept(Applied(Kept(x, K1), G), K2) = Applied(Kept(x, K), G)
  PROVE  Kept(Applied(Kept(Append(x, e), K1), G), K2) = Applied(Kept(Append(x, e), K), G)
<1>1. /\ Kept(Append(x, e), K1) = IF e \in K1 THEN Append(Kept(x, K1), e) ELSE Kept(x, K1)
      /\ Kept(Append(x, e), K) = IF e \in K THEN Append(Kept(x, K), e) ELSE Kept(x, K)
  BY KeptMore
<1>2. Kept(x, K1) \in Seq(E) /\ Kept(x, K) \in Seq(E)
  BY KeptType
<1>3. /\ Applied(Kept(x, K1), G) \in Seq(V) /\ G[e] \in V
      /\ Applied(Append(Kept(x, K1), e), G) = Append(Applied(Kept(x, K1), G), G[e])
  BY <1>2, AppliedMore
<1>4. Applied(Append(Kept(x, K), e), G) = Append(Applied(Kept(x, K), G), G[e])
  BY <1>2, AppliedMore
<1>5. Kept(Append(Applied(Kept(x, K1), G), G[e]), K2)
        = IF G[e] \in K2 THEN Append(Kept(Applied(Kept(x, K1), G), K2), G[e])
                         ELSE Kept(Applied(Kept(x, K1), G), K2)
  BY <1>3, KeptMore
<1>6. CASE e \in K1
  BY <1>1, <1>3, <1>4, <1>5, <1>6
<1>7. CASE e \notin K1
  BY <1>1, <1>7
<1> QED
  BY <1>6, <1>7

\* K has the elements of K1 that G takes to K2.
Composed(E, G, K, K1, K2) == \A y \in E : y \in K <=> y \in K1 /\ G[y] \in K2

\* and so over an array.
LEMMA KeptApplied ==
  ASSUME NEW E, NEW V, NEW G, Takes(G, E, V), NEW K, NEW K1, NEW K2,
         Composed(E, G, K, K1, K2), NEW s \in Seq(E)
  PROVE  Kept(Applied(Kept(s, K1), G), K2) = Applied(Kept(s, K), G)
<1> DEFINE T == {n \in Nat : \A t \in Seq(E) :
                   Len(t) = n => Kept(Applied(Kept(t, K1), G), K2) = Applied(Kept(t, K), G)}
<1>1. 0 \in T
  <2>1. Applied(<<>>, G) = <<>>
    BY DEF Applied
  <2>2. Kept(<<>>, K1) = <<>> /\ Kept(<<>>, K2) = <<>> /\ Kept(<<>>, K) = <<>>
    BY KeptNone
  <2>3. \A t \in Seq(E) : Len(t) = 0 => t = <<>>
    OBVIOUS
  <2> QED
    BY <2>1, <2>2, <2>3
<1>2. ASSUME NEW n \in Nat, n \in T PROVE n + 1 \in T
  <2> SUFFICES ASSUME NEW t \in Seq(E), Len(t) = n + 1
               PROVE  Kept(Applied(Kept(t, K1), G), K2) = Applied(Kept(t, K), G)
    OBVIOUS
  <2>1. PICK x \in Seq(E), e \in E : t = Append(x, e) /\ Len(x) = n
    BY LastOff
  <2>2. Kept(Applied(Kept(x, K1), G), K2) = Applied(Kept(x, K), G)
    BY <1>2, <2>1
  <2>3. e \in K <=> e \in K1 /\ G[e] \in K2
    BY DEF Composed
  <2> QED
    BY <2>1, <2>2, <2>3, KeptAppliedMore
<1> HIDE DEF T
<1>3. Nat \subseteq T
  BY <1>1, <1>2, FromZero
<1> QED
  BY <1>3 DEF T

\* Rows of one element, flattened.
LEMMA Singles ==
  ASSUME NEW E, NEW V, NEW G, Takes(G, E, V), NEW R, \A e \in E : R[e] = <<G[e]>>,
         NEW s \in Seq(E)
  PROVE  FlattenSeq(Applied(s, R)) = Applied(s, G)
<1> DEFINE T == {n \in Nat : \A t \in Seq(E) :
                   Len(t) = n => FlattenSeq(Applied(t, R)) = Applied(t, G)}
<1>0. Takes(R, E, Seq(V))
  <2>1. ASSUME NEW e \in E PROVE R[e] \in Seq(V)
    <3>1. R[e] = <<G[e]>> /\ G[e] \in V
      BY DEF Takes
    <3> QED
      BY <3>1
  <2> QED
    BY <2>1 DEF Takes
<1>1. 0 \in T
  <2>1. Applied(<<>>, R) = <<>> /\ Applied(<<>>, G) = <<>> /\ FlattenSeq(<<>>) = <<>>
    BY DEF Applied, FlattenSeq
  <2>2. \A t \in Seq(E) : Len(t) = 0 => t = <<>>
    OBVIOUS
  <2> QED
    BY <2>1, <2>2
<1>2. ASSUME NEW n \in Nat, n \in T PROVE n + 1 \in T
  <2> SUFFICES ASSUME NEW t \in Seq(E), Len(t) = n + 1
               PROVE  FlattenSeq(Applied(t, R)) = Applied(t, G)
    OBVIOUS
  <2>1. PICK x \in Seq(E), e \in E : t = Append(x, e) /\ Len(x) = n
    BY LastOff
  <2>2. FlattenSeq(Applied(x, R)) = Applied(x, G)
    BY <1>2, <2>1
  <2>3. /\ Applied(x, R) \in Seq(Seq(V)) /\ R[e] \in Seq(V)
        /\ Applied(t, R) = Append(Applied(x, R), R[e])
    BY <1>0, <2>1, AppliedMore
  <2>4. /\ Applied(x, G) \in Seq(V) /\ G[e] \in V
        /\ Applied(t, G) = Append(Applied(x, G), G[e])
    BY <2>1, AppliedMore
  <2>5. FlattenSeq(Applied(t, R)) = Applied(x, G) \o R[e]
    BY <2>2, <2>3, <2>4, FlattenAppend
  <2>6. Applied(x, G) \o <<G[e]>> = Append(Applied(x, G), G[e])
    BY <2>4
  <2>7. R[e] = <<G[e]>>
    OBVIOUS
  <2> QED
    BY <2>4, <2>5, <2>6, <2>7
<1> HIDE DEF T
<1>3. Nat \subseteq T
  BY <1>1, <1>2, FromZero
<1> QED
  BY <1>3 DEF T

\* Flattened rows are as long as each of them, at least.
LEMMA RowWithin ==
  ASSUME NEW V
  PROVE  \A rows \in Seq(Seq(V)) : \A i \in 1..Len(rows) : Len(rows[i]) <= Len(FlattenSeq(rows))
<1> DEFINE T == {n \in Nat : \A rows \in Seq(Seq(V)) : Len(rows) = n =>
                   \A i \in 1..n : Len(rows[i]) <= Len(FlattenSeq(rows))}
<1>1. 0 \in T
  OBVIOUS
<1>2. ASSUME NEW n \in Nat, n \in T PROVE n + 1 \in T
  <2> SUFFICES ASSUME NEW rows \in Seq(Seq(V)), Len(rows) = n + 1, NEW i \in 1..(n + 1)
               PROVE  Len(rows[i]) <= Len(FlattenSeq(rows))
    OBVIOUS
  <2>1. PICK t \in Seq(Seq(V)), x \in Seq(V) : rows = Append(t, x) /\ Len(t) = n
    BY LastOff
  <2>2. FlattenSeq(t) \in Seq(V)
    BY FlattenType
  <2>3. FlattenSeq(rows) = FlattenSeq(t) \o x
    BY <2>1, <2>2, FlattenAppend
  <2>4. /\ Len(FlattenSeq(rows)) = Len(FlattenSeq(t)) + Len(x)
        /\ Len(FlattenSeq(t)) \in Nat /\ Len(x) \in Nat
    BY <2>2, <2>3
  <2>5. CASE i <= n
    <3>1. i \in 1..n /\ rows[i] = t[i] /\ t[i] \in Seq(V)
      BY <2>1, <2>5
    <3>2. Len(t[i]) <= Len(FlattenSeq(t))
      BY <1>2, <2>1, <3>1
    <3>3. Len(t[i]) \in Nat
      BY <3>1
    <3> QED
      BY <2>4, <3>1, <3>2, <3>3
  <2>6. CASE i = n + 1
    BY <2>1, <2>4, <2>6
  <2> QED
    BY <2>5, <2>6
<1> HIDE DEF T
<1>3. Nat \subseteq T
  BY <1>1, <1>2, FromZero
<1>4. \A rows \in Seq(Seq(V)) : Len(rows) \in Nat
  OBVIOUS
<1> QED
  BY <1>3, <1>4 DEF T

\* One pair is a pair of two.
LEMMA PairsTwo ==
  ASSUME NEW J, NEW s \in Seq(J), Len(Pairs(s)) = 1 PROVE Len(s) = 2
<1> DEFINE rows == [i \in DOMAIN s |-> [j \in 1..Len(s) - i |-> <<s[i], s[i + j]>>]]
<1>1. Len(s) \in Nat /\ DOMAIN s = 1..Len(s)
  OBVIOUS
<1>2. /\ rows \in Seq(Seq(J \X J)) /\ Len(rows) = Len(s)
      /\ \A i \in 1..Len(s) : Len(rows[i]) = Len(s) - i
  <2>1. ASSUME NEW i \in DOMAIN s
        PROVE  /\ [j \in 1..Len(s) - i |-> <<s[i], s[i + j]>>] \in Seq(J \X J)
               /\ Len([j \in 1..Len(s) - i |-> <<s[i], s[i + j]>>]) = Len(s) - i
    <3> DEFINE f == [j \in 1..Len(s) - i |-> <<s[i], s[i + j]>>]
    <3>1. Len(s) - i \in Nat /\ \A j \in 1..Len(s) - i : s[i] \in J /\ s[i + j] \in J
      BY <1>1
    <3>2. \A j \in 1..Len(s) - i : f[j] \in J \X J
      BY <3>1
    <3>3. f = [j \in 1..Len(s) - i |-> f[j]] /\ DOMAIN f = 1..Len(s) - i
      OBVIOUS
    <3> HIDE DEF f
    <3>4. f \in Seq(J \X J)
      BY <3>1, <3>2, <3>3, MadeOf
    <3>5. Len(f) = Len(s) - i
      BY <3>1, <3>3, <3>4
    <3> QED
      BY <3>4, <3>5 DEF f
  <2> QED
    BY <1>1, <2>1
<1>3. FlattenSeq(rows) = Pairs(s)
  BY DEF Pairs
<1> HIDE DEF rows
<1>4. CASE Len(s) = 0
  <2>1. rows = <<>>
    BY <1>2, <1>4
  <2>2. FlattenSeq(rows) = <<>>
    BY <2>1 DEF FlattenSeq
  <2>3. Pairs(s) = <<>> /\ Len(<<>>) = 0
    BY <1>3, <2>2
  <2> QED
    BY <2>3
<1>5. CASE Len(s) = 1
  <2>1. rows = Append(<<>>, rows[1]) /\ rows[1] \in Seq(J \X J) /\ Len(rows[1]) = 0
    BY <1>2, <1>5
  <2>2. rows[1] = <<>> /\ <<>> \in Seq(Seq(J \X J)) /\ FlattenSeq(<<>>) \in Seq(J \X J)
    BY <2>1 DEF FlattenSeq
  <2>3. FlattenSeq(rows) = FlattenSeq(<<>>) \o <<>>
    BY <2>1, <2>2, FlattenAppend
  <2>4. FlattenSeq(<<>>) = <<>>
    BY DEF FlattenSeq
  <2>5. Pairs(s) = <<>> /\ Len(<<>>) = 0
    BY <1>3, <2>3, <2>4, <2>2, ConcatEmptySeq
  <2> QED
    BY <2>5
<1>6. CASE Len(s) >= 3
  <2> DEFINE m == Len(rows[1])
             n == Len(Pairs(s))
  <2>1. 1 \in 1..Len(s)
    BY <1>1, <1>6
  <2>2. m = Len(s) - 1
    BY <1>2, <2>1
  <2>3. 1 \in 1..Len(rows)
    BY <1>2, <2>1
  <2>4. m <= n
    BY <1>2, <1>3, <2>3, RowWithin
  <2>5. n = 1
    OBVIOUS
  <2> HIDE DEF m, n
  <2> QED
    BY <1>1, <1>6, <2>2, <2>4, <2>5
<1> QED
  BY <1>1, <1>4, <1>5, <1>6

\* The sum of two numbers.
LEMMA TotalOfTwo ==
  ASSUME NEW s \in Seq(Int), Len(s) = 2 PROVE Total(s) = s[1] + s[2]
<1> DEFINE Sums(f) ==
      f = [S \in SUBSET {1, 2} |->
             IF S = {} THEN 0 ELSE s[CHOOSE i \in S : TRUE] + f[S \ {CHOOSE i \in S : TRUE}]]
<1>1. DOMAIN s = {1, 2} /\ s[1] \in Int /\ s[2] \in Int
  OBVIOUS
<1>2. \E f : Sums(f)
  <2> DEFINE g == [S \in SUBSET {1, 2} |->
                     IF S = {} THEN 0 ELSE IF S = {1} THEN s[1]
                     ELSE IF S = {2} THEN s[2] ELSE s[1] + s[2]]
  <2>1. ASSUME NEW S \in SUBSET {1, 2}
        PROVE  g[S] = IF S = {} THEN 0
                      ELSE s[CHOOSE i \in S : TRUE] + g[S \ {CHOOSE i \in S : TRUE}]
    <3> DEFINE x == CHOOSE i \in S : TRUE
    <3>1. S = {} \/ S = {1} \/ S = {2} \/ S = {1, 2}
      OBVIOUS
    <3>2. S # {} => x \in S
      OBVIOUS
    <3> HIDE DEF x
    <3>3. CASE S = {}
      BY <3>3
    <3>4. CASE S = {1}
      <4>1. x = 1 /\ S \ {x} = {} /\ g[S] = s[1] /\ g[{}] = 0
        BY <3>2, <3>4
      <4> HIDE DEF g
      <4>2. g[S \ {x}] = 0 /\ S # {}
        BY <3>4, <4>1
      <4>3. g[S] = s[x] + g[S \ {x}]
        BY <1>1, <4>1, <4>2
      <4> QED
        BY <4>2, <4>3 DEF x
    <3>5. CASE S = {2}
      <4>1. x = 2 /\ S \ {x} = {} /\ g[S] = s[2] /\ g[{}] = 0
        BY <3>2, <3>5
      <4> HIDE DEF g
      <4>2. g[S \ {x}] = 0 /\ S # {}
        BY <3>5, <4>1
      <4>3. g[S] = s[x] + g[S \ {x}]
        BY <1>1, <4>1, <4>2
      <4> QED
        BY <4>2, <4>3 DEF x
    <3>6. CASE S = {1, 2}
      <4>1. g[S] = s[1] + s[2] /\ g[{1}] = s[1] /\ g[{2}] = s[2]
        BY <3>6
      <4>2. (x = 1 /\ S \ {x} = {2}) \/ (x = 2 /\ S \ {x} = {1})
        BY <3>2, <3>6
      <4> HIDE DEF g
      <4> QED
        BY <1>1, <3>6, <4>1, <4>2 DEF x
    <3> QED
      BY <3>1, <3>3, <3>4, <3>5, <3>6
  <2>2. g = [S \in SUBSET {1, 2} |-> g[S]]
    OBVIOUS
  <2> HIDE DEF g
  <2>3. Sums(g)
    BY <2>1, <2>2
  <2> QED
    BY <2>3
<1> DEFINE f == CHOOSE f : Sums(f)
<1>3. Sums(f)
  BY <1>2
<1>4. Total(s) = f[{1, 2}]
  BY <1>1 DEF Total, SumFunction, SumFunctionOnSet, FoldFunctionOnSet, MapThenFoldSet
<1> HIDE DEF f
<1>5. /\ f[{}] = 0 /\ f[{1}] = s[1] /\ f[{2}] = s[2]
      /\ f[{1, 2}] = s[1] + s[2]
  <2>1. \A S \in SUBSET {1, 2} :
          f[S] = IF S = {} THEN 0
                 ELSE s[CHOOSE i \in S : TRUE] + f[S \ {CHOOSE i \in S : TRUE}]
    BY <1>3
  <2>2. f[{}] = 0
    BY <2>1
  <2>3. f[{1}] = s[1] /\ f[{2}] = s[2]
    <3>1. (CHOOSE i \in {1} : TRUE) = 1 /\ (CHOOSE i \in {2} : TRUE) = 2
      OBVIOUS
    <3>2. f[{1}] = s[1] + f[{1} \ {1}] /\ f[{2}] = s[2] + f[{2} \ {2}]
      BY <2>1, <3>1
    <3>3. {1} \ {1} = {} /\ {2} \ {2} = {}
      OBVIOUS
    <3>4. f[{1} \ {1}] = 0 /\ f[{2} \ {2}] = 0
      BY <2>2, <3>3, Zenon
    <3> QED
      BY <1>1, <3>2, <3>4
  <2>4. f[{1, 2}] = s[1] + s[2]
    <3> DEFINE x == CHOOSE i \in {1, 2} : TRUE
    <3>1. x = 1 \/ x = 2
      OBVIOUS
    <3>2. f[{1, 2}] = s[x] + f[{1, 2} \ {x}]
      BY <2>1
    <3>3. {1, 2} \ {1} = {2} /\ {1, 2} \ {2} = {1}
      OBVIOUS
    <3>4. f[{1, 2} \ {1}] = s[2] /\ f[{1, 2} \ {2}] = s[1]
      BY <2>3, <3>3, Zenon
    <3> HIDE DEF x
    <3>5. CASE x = 1
      BY <1>1, <3>2, <3>4, <3>5
    <3>6. CASE x = 2
      BY <1>1, <3>2, <3>4, <3>6
    <3> QED
      BY <3>1, <3>5, <3>6
  <2> QED
    BY <2>2, <2>3, <2>4
<1> QED
  BY <1>4, <1>5

\* A histogram filled with nothing is empty.
LEMMA FillNone ==
  ASSUME NEW h, NEW ds PROVE Fill(h, ds, <<>>) = EmptyBag
<1>1. ToSet(<<>>) = {}
  BY DEF ToSet
<1>2. DOMAIN Fill(h, ds, <<>>) = {} /\ Fill(h, ds, <<>>) = [e \in {} |-> Fill(h, ds, <<>>)[e]]
  BY <1>1 DEF Fill
<1>3. EmptyBag = [e \in {} |-> 1]
  BY DEF EmptyBag, SetToBag
<1> HIDE DEF Fill
<1> QED
  BY <1>2, <1>3

\* The same of a counter.
LEMMA CountNone == ASSUME NEW key PROVE Count(key, 0) = EmptyBag
<1>1. DOMAIN Count(key, 0) = {} /\ Count(key, 0) = [e \in {} |-> Count(key, 0)[e]]
  BY DEF Count
<1>2. EmptyBag = [e \in {} |-> 1]
  BY DEF EmptyBag, SetToBag
<1> QED
  BY <1>1, <1>2

\* Numbers have a largest one.
LEMMA Largest ==
  \A s \in Seq(Int) : Len(s) # 0 => \E i \in 1..Len(s) : \A j \in 1..Len(s) : s[j] <= s[i]
<1> DEFINE ok(s) == \E i \in 1..Len(s) : \A j \in 1..Len(s) : s[j] <= s[i]
           T == {n \in Nat : \A s \in Seq(Int) : Len(s) = n + 1 => ok(s)}
<1>1. 0 \in T
  <2>1. ASSUME NEW s \in Seq(Int), Len(s) = 1 PROVE ok(s)
    <3>1. 1 \in 1..Len(s) /\ s[1] \in Int /\ \A j \in 1..Len(s) : j = 1
      BY <2>1
    <3>2. \A j \in 1..Len(s) : s[j] <= s[1]
      BY <3>1
    <3> QED
      BY <3>1, <3>2
  <2> QED
    BY <2>1
<1>2. ASSUME NEW n \in Nat, n \in T PROVE n + 1 \in T
  <2> SUFFICES ASSUME NEW s \in Seq(Int), Len(s) = (n + 1) + 1 PROVE ok(s)
    OBVIOUS
  <2>1. PICK t \in Seq(Int), x \in Int : s = Append(t, x) /\ Len(t) = n + 1
    BY LastOff
  <2>2. PICK i \in 1..Len(t) : \A j \in 1..Len(t) : t[j] <= t[i]
    BY <1>2, <2>1
  <2>3. /\ Len(s) = Len(t) + 1 /\ s[Len(s)] = x /\ Len(s) \in 1..Len(s)
        /\ \A j \in 1..Len(t) : s[j] = t[j] /\ t[j] \in Int
        /\ i \in 1..Len(s) /\ \A j \in 1..Len(s) : j \in 1..Len(t) \/ j = Len(s)
    BY <2>1
  <2>4. CASE x <= t[i]
    <3>1. \A j \in 1..Len(s) : s[j] <= s[i]
      BY <2>2, <2>3, <2>4
    <3> QED
      BY <2>3, <3>1
  <2>5. CASE ~(x <= t[i])
    <3>1. \A j \in 1..Len(s) : s[j] <= s[Len(s)]
      BY <2>2, <2>3, <2>5
    <3> QED
      BY <2>3, <3>1
  <2> QED
    BY <2>4, <2>5
<1> HIDE DEF T, ok
<1>3. Nat \subseteq T
  BY <1>1, <1>2, FromZero
<1>4. ASSUME NEW s \in Seq(Int), Len(s) # 0 PROVE ok(s)
  <2>1. Len(s) - 1 \in Nat /\ Len(s) = (Len(s) - 1) + 1
    BY <1>4
  <2>2. Len(s) - 1 \in T
    BY <1>3, <2>1
  <2> QED
    BY <2>1, <2>2 DEF T
<1> QED
  BY <1>4 DEF ok

\* The smallest of some numbers is one of them.
LEMMA MinIn == ASSUME NEW S \in SUBSET Nat, S # {} PROVE Min(S) \in S
<1>1. \E n \in S : \A m \in S : n <= m
  <2> DEFINE R == OpToRel(<, Nat)
  <2>1. IsWellFoundedOn(R, Nat)
    BY NatLessThanWellFounded
  <2> HIDE DEF R
  <2>2. PICK n \in S : \A m \in S : ~(<<m, n>> \in R)
    BY <2>1, WFMin
  <2>3. \A m \in S : ~(m < n) /\ m \in Nat /\ n \in Nat
    BY <2>2 DEF R, OpToRel
  <2>4. \A m \in S : n <= m
    BY <2>3
  <2> QED
    BY <2>4
<1> QED
  BY <1>1 DEF Min

\* ak.argmax finds an index, of an array of numbers that is not empty.
LEMMA ArgMaxIn ==
  ASSUME NEW s \in Seq(Int), s # <<>> PROVE ArgMax(s) \in DOMAIN s /\ ArgMax(s) # 0
<1> DEFINE S == {i \in DOMAIN s : \A j \in DOMAIN s : s[j] <= s[i]}
<1>1. DOMAIN s = 1..Len(s) /\ Len(s) \in Nat /\ Len(s) # 0
  OBVIOUS
<1>2. S # {} /\ S \subseteq 1..Len(s)
  BY <1>1, Largest
<1>3. ArgMax(s) = Min(S)
  BY DEF ArgMax
<1>4. S \in SUBSET Nat
  BY <1>1, <1>2
<1> HIDE DEF S
<1>5. Min(S) \in S
  BY <1>2, <1>4, MinIn
<1>6. ArgMax(s) \in 1..Len(s)
  BY <1>2, <1>3, <1>5
<1> QED
  BY <1>1, <1>6

\* An array of jets with a light one has one light jet that is the most forward.
LEMMA ForwardOne ==
  ASSUME NEW J, \A j \in J : j.eta \in Int, NEW js \in Seq(J), JetLoose(js)
  PROVE  Forward(js) = <<Forward(js)[1]>> /\ Forward(js)[1] \in J
<1> DEFINE ls == Light(js)
           etas == Each(ls, LAMBDA j : j.eta)
           m == ArgMax(etas)
<1>1. ls \in Seq(J)
  <2>1. ls = Mask(js, Each(js, LAMBDA j : j.btag <= LooseWp))
    BY DEF Light, Where
  <2> QED
    BY <2>1, WhereType
<1>2. ls # <<>>
  <2>1. PICK j \in ToSet(ls) : TRUE
    BY DEF JetLoose
  <2> HIDE DEF ls
  <2> QED
    BY <2>1 DEF ToSet
<1>3. Forward(js) = IF m = 0 THEN <<>> ELSE <<ls[m]>>
  BY DEF Forward, Leading
<1> HIDE DEF ls
<1>4. etas \in Seq(Int) /\ DOMAIN etas = DOMAIN ls /\ Len(etas) = Len(ls)
  <2>1. \A i \in 1..Len(ls) : ls[i] \in J
    BY <1>1
  <2>2. \A i \in 1..Len(ls) : ls[i].eta \in Int
    BY <2>1
  <2>3. etas = [i \in 1..Len(ls) |-> ls[i].eta] /\ DOMAIN ls = 1..Len(ls) /\ Len(ls) \in Nat
    BY <1>1 DEF Each
  <2> HIDE DEF etas
  <2> QED
    BY <2>2, <2>3
<1>5. etas # <<>>
  <2>1. Len(ls) # 0
    BY <1>1, <1>2
  <2> HIDE DEF etas
  <2> QED
    BY <1>4, <2>1
<1> HIDE DEF etas
<1>6. m \in DOMAIN ls /\ m # 0
  BY <1>4, <1>5, ArgMaxIn
<1> HIDE DEF m
<1> QED
  BY <1>1, <1>3, <1>6

-----------------------------------------------------------------------------
(* The analysis *)

\* Events of the analysis: jets have an eta, muons have the flavour 0 and electrons 1.
Measured(E, J, M, N) ==
  /\ \A e \in E : e.jets \in Seq(J) /\ e.muons \in Seq(M) /\ e.electrons \in Seq(N)
  /\ \A j \in J : j.eta \in Int
  /\ \A l \in M : l.flavor = 0
  /\ \A l \in N : l.flavor = 1

\* Their tight leptons and their jets above 25 are arrays.
LEMMA TightType ==
  ASSUME NEW E, NEW J, NEW M, NEW N, Measured(E, J, M, N), NEW e \in E
  PROVE  /\ Where(e.muons, TightMuon) \in Seq(M)
         /\ Where(e.electrons, TightElectron) \in Seq(N)
         /\ Tight(e) \in Seq(M \cup N) /\ Jets25(e) \in Seq(J)
<1>1. e.jets \in Seq(J) /\ e.muons \in Seq(M) /\ e.electrons \in Seq(N)
  BY DEF Measured
<1> DEFINE mu == Where(e.muons, TightMuon)
           el == Where(e.electrons, TightElectron)
<1>2. mu \in Seq(M)
  BY <1>1, WhereType DEF Where
<1>3. el \in Seq(N)
  BY <1>1, WhereType DEF Where
<1>4. Jets25(e) \in Seq(J)
  BY <1>1, WhereType DEF Where, Jets25
<1>5. Tight(e) = mu \o el
  BY DEF Tight
<1> HIDE DEF mu, el
<1>6. mu \in Seq(M \cup N) /\ el \in Seq(M \cup N)
  BY <1>2, <1>3
<1>7. Tight(e) \in Seq(M \cup N)
  BY <1>5, <1>6
<1> QED
  BY <1>2, <1>3, <1>4, <1>7 DEF mu, el

\* Of two tight leptons, the sum of the flavours says how many are muons and electrons.
LEMMA FlavorsOfTwo ==
  ASSUME NEW E, NEW J, NEW M, NEW N, Measured(E, J, M, N), NEW e \in E, Dilepton(e)
  PROVE  LET mu == Len(Where(e.muons, TightMuon))
             el == Len(Where(e.electrons, TightElectron))
         IN  /\ Flavors(Tight(e)) = 0 <=> mu = 2
             /\ Flavors(Tight(e)) = 1 <=> mu = 1 /\ el = 1
             /\ Flavors(Tight(e)) = 2 <=> el = 2
<1> DEFINE m == Where(e.muons, TightMuon)
           n == Where(e.electrons, TightElectron)
           ls == Tight(e)
           fs == Each(ls, LAMBDA l : l.flavor)
<1>1. m \in Seq(M) /\ n \in Seq(N) /\ ls \in Seq(M \cup N) /\ ls = m \o n
  BY TightType DEF Tight
<1>2. Len(ls) = 2
  <2>1. Len(Pairs(ls)) = 1
    BY DEF Dilepton, DileptonMask
  <2> HIDE DEF ls
  <2> QED
    BY <1>1, <2>1, PairsTwo
<1>3. Flavors(ls) = Total(fs)
  BY DEF Flavors
<1> HIDE DEF m, n, ls
<1>4. /\ DOMAIN ls = 1..2
      /\ \A i \in 1..Len(m) : ls[i] = m[i] /\ m[i] \in M
      /\ \A i \in 1..Len(n) : ls[Len(m) + i] = n[i] /\ n[i] \in N
  BY <1>1, <1>2
<1> DEFINE mu == Len(m)
           el == Len(n)
<1>13. mu \in Nat /\ el \in Nat /\ mu + el = 2
  BY <1>1, <1>2
<1>5. fs = [i \in 1..2 |-> ls[i].flavor]
  BY <1>4 DEF Each
<1>6. /\ \A l \in M : l.flavor = 0
      /\ \A l \in N : l.flavor = 1
  BY DEF Measured
<1> HIDE DEF fs
<1>7. fs[1] = ls[1].flavor /\ fs[2] = ls[2].flavor /\ 1 \in 1..2 /\ 2 \in 1..2
  BY <1>5
<1> HIDE DEF mu, el
<1>8. (mu = 0 /\ el = 2) \/ (mu = 1 /\ el = 1) \/ (mu = 2 /\ el = 0)
  BY <1>13
<1>9. /\ mu = 0 => fs[1] = 1 /\ fs[2] = 1
      /\ mu = 1 => fs[1] = 0 /\ fs[2] = 1
      /\ mu = 2 => fs[1] = 0 /\ fs[2] = 0
  <2>1. ASSUME mu = 0 PROVE fs[1] = 1 /\ fs[2] = 1
    <3>1. ls[0 + 1] = n[1] /\ ls[0 + 2] = n[2] /\ n[1] \in N /\ n[2] \in N
      BY <1>4, <1>8, <2>1 DEF mu, el
    <3> QED
      BY <1>6, <1>7, <3>1
  <2>2. ASSUME mu = 1 PROVE fs[1] = 0 /\ fs[2] = 1
    <3>1. ls[1] = m[1] /\ ls[1 + 1] = n[1] /\ m[1] \in M /\ n[1] \in N
      BY <1>4, <1>8, <2>2 DEF mu, el
    <3> QED
      BY <1>6, <1>7, <3>1
  <2>3. ASSUME mu = 2 PROVE fs[1] = 0 /\ fs[2] = 0
    <3>1. ls[1] = m[1] /\ ls[2] = m[2] /\ m[1] \in M /\ m[2] \in M
      BY <1>4, <2>3 DEF mu
    <3> QED
      BY <1>6, <1>7, <3>1
  <2> QED
    BY <2>1, <2>2, <2>3
<1>10. fs \in Seq(Int) /\ Len(fs) = 2
  <2>1. \A i \in 1..2 : fs[i] \in Int
    BY <1>8, <1>9
  <2>2. fs = [i \in 1..2 |-> fs[i]] /\ DOMAIN fs = 1..2 /\ 2 \in Nat
    BY <1>5
  <2>3. fs \in Seq(Int)
    BY <2>1, <2>2, MadeOf
  <2> QED
    BY <2>2, <2>3
<1>11. Total(fs) = fs[1] + fs[2]
  BY <1>10, TotalOfTwo
<1>12. /\ Flavors(ls) = 0 <=> mu = 2
       /\ Flavors(ls) = 1 <=> mu = 1 /\ el = 1
       /\ Flavors(ls) = 2 <=> el = 2
  BY <1>3, <1>8, <1>9, <1>11
<1> QED
  BY <1>12 DEF m, n, ls, mu, el

Channels == {"lll", "mumu", "emu", "ee"}
\* The events of a channel.
InChannel(c, e) ==
  IF c = "lll" THEN Trilepton(e) ELSE Dilepton(e) /\ Flavors(Tight(e)) = FlavorSum[c]

\* What a mask leaves is in it.
LEMMA KeptIn ==
  ASSUME NEW E, NEW K, K \subseteq E, NEW s \in Seq(E) PROVE Kept(s, K) \in Seq(K)
<1> DEFINE row == [i \in DOMAIN s |-> IF s[i] \in K THEN <<s[i]>> ELSE <<>>]
<1>1. DOMAIN s = 1..Len(s) /\ Len(s) \in Nat
  OBVIOUS
<1>2. \A i \in 1..Len(s) : (IF s[i] \in K THEN <<s[i]>> ELSE <<>>) \in Seq(K)
  OBVIOUS
<1>3. row \in Seq(Seq(K))
  BY <1>1, <1>2
<1>4. Kept(s, K) = FlattenSeq(row)
  BY DEF Kept
<1> HIDE DEF row
<1> QED
  BY <1>3, <1>4, FlattenType

\* The mask of the leptons and that of the jets choose the same events.
LEMMA ChannelRows ==
  ASSUME NEW E, NEW J, NEW M, NEW N, Measured(E, J, M, N), NEW s \in Seq(E),
         NEW c \in Channels, NEW K, K = {e \in E : InChannel(c, e)},
         NEW T, T = [e \in E |-> Tight(e)], NEW G, G = [e \in E |-> Jets25(e)]
  PROVE  /\ ChannelLeptons(c, s) = Applied(Kept(s, K), T)
         /\ ChannelJets(c, s) = Applied(Kept(s, K), G)
<1> DEFINE mu(e) == Len(Where(e.muons, TightMuon))
           el(e) == Len(Where(e.electrons, TightElectron))
           in(e) == CASE c = "lll" -> Trilepton(e)
                      [] c = "mumu" -> Dilepton(e) /\ mu(e) = 2
                      [] c = "ee" -> Dilepton(e) /\ el(e) = 2
                      [] c = "emu" -> Dilepton(e) /\ mu(e) = 1 /\ el(e) = 1
<1>1. \A i \in DOMAIN s : s[i] \in E
  OBVIOUS
<1>2. Kept(s, K) \in Seq(E) /\ \A i \in DOMAIN Kept(s, K) : Kept(s, K)[i] \in E
  BY KeptType
<1>3. \A e \in E : in(e) <=> e \in K
  <2> SUFFICES ASSUME NEW e \in E PROVE in(e) <=> InChannel(c, e)
    OBVIOUS
  <2>1. Dilepton(e) => /\ Flavors(Tight(e)) = 0 <=> mu(e) = 2
                       /\ Flavors(Tight(e)) = 1 <=> mu(e) = 1 /\ el(e) = 1
                       /\ Flavors(Tight(e)) = 2 <=> el(e) = 2
    BY FlavorsOfTwo
  <2> HIDE DEF mu, el
  <2>2. CASE c = "lll"
    BY <2>2 DEF InChannel
  <2>3. CASE c = "mumu"
    BY <2>1, <2>3 DEF InChannel, FlavorSum
  <2>4. CASE c = "emu"
    BY <2>1, <2>4 DEF InChannel, FlavorSum
  <2>5. CASE c = "ee"
    BY <2>1, <2>5 DEF InChannel, FlavorSum
  <2> QED
    BY <2>2, <2>3, <2>4, <2>5 DEF Channels
<1>4. ChannelJets(c, s) = Applied(Kept(s, K), G)
  <2>1. ChannelJets(c, s) = Each(Where(s, in), Jets25)
    BY DEF ChannelJets
  <2> HIDE DEF in
  <2>2. Where(s, in) = Kept(s, K)
    BY <1>1, <1>3 DEF Where, Mask, Each, Kept
  <2>3. Each(Kept(s, K), Jets25) = Applied(Kept(s, K), G)
    BY <1>2 DEF Each, Applied
  <2> QED
    BY <2>1, <2>2, <2>3
<1>5. ChannelLeptons(c, s) = Applied(Kept(s, K), T)
  <2>1. CASE c = "lll"
    <3>1. ChannelLeptons(c, s) = Each(Where(s, Trilepton), Tight)
      BY <2>1 DEF ChannelLeptons
    <3>2. \A e \in E : Trilepton(e) <=> e \in K
      BY <2>1 DEF InChannel
    <3>3. Where(s, Trilepton) = Kept(s, K)
      BY <1>1, <3>2 DEF Where, Mask, Each, Kept
    <3>4. Each(Kept(s, K), Tight) = Applied(Kept(s, K), T)
      BY <1>2 DEF Each, Applied
    <3> QED
      BY <3>1, <3>3, <3>4
  <2>2. CASE c # "lll"
    <3> DEFINE V == Seq(M \cup N)
               K1 == {e \in E : Dilepton(e)}
               K2 == {ls \in V : Flavors(ls) = FlavorSum[c]}
               passed == Kept(s, K1)
               leps == Applied(passed, T)
    <3>1. ChannelLeptons(c, s)
            = Where(Each(Where(s, Dilepton), Tight), LAMBDA ls : Flavors(ls) = FlavorSum[c])
      BY <2>2 DEF ChannelLeptons
    <3>2. Where(s, Dilepton) = passed
      BY <1>1 DEF Where, Mask, Each, Kept
    <3>3. passed \in Seq(E) /\ \A i \in DOMAIN passed : passed[i] \in E
      BY KeptType
    <3>4. Takes(T, E, V)
      BY TightType DEF Takes
    <3>5. Composed(E, T, K, K1, K2)
      BY <2>2, <3>4 DEF Composed, InChannel, Takes
    <3> HIDE DEF V, K1
    <3>6. Kept(leps, K2) = Applied(Kept(s, K), T)
      <4> HIDE DEF K2
      <4> QED
        BY <3>4, <3>5, KeptApplied
    <3> HIDE DEF passed
    <3>7. Each(passed, Tight) = leps
      BY <3>3 DEF Each, Applied
    <3>8. \A i \in DOMAIN leps : leps[i] \in V
      BY <3>3, <3>4 DEF Applied, Takes
    <3> HIDE DEF leps
    <3>9. Where(leps, LAMBDA ls : Flavors(ls) = FlavorSum[c]) = Kept(leps, K2)
      BY <3>8 DEF Where, Mask, Each, Kept
    <3> QED
      BY <3>1, <3>2, <3>6, <3>7, <3>9
  <2> QED
    BY <2>1, <2>2
<1> QED
  BY <1>4, <1>5

\* What a channel fills of its events, column by column.
Column(c, h, ds, s, G) == Fill(<<c, h>>, ds, Applied(s, G))
Gaps(c, h, ds, s, G) == Fill(<<c, h>>, ds, FlattenSeq(Applied(s, G)))
Histograms(c, ds, s, F) ==
  (Column(c, "leptonpT", ds, s, F.last) (+) Column(c, "highpT_sslp", ds, s, F.phi)
   (+) Column(c, "minDelR", ds, s, F.delr) (+) Column(c, "TotalCharge", ds, s, F.charge))
  (+) (Column(c, "jetMaxEta", ds, s, F.maxeta) (+) Column(c, "nJet25", ds, s, F.njet25)
       (+) Column(c, "nJetEta1", ds, s, F.njeteta1))
  (+) (Gaps(c, "fwdJet_leadbJet", ds, s, F.lead) (+) Gaps(c, "fwdJet_subleadbJet", ds, s, F.next)
       (+) Column(c, "fwdJet_closestLepton", ds, s, F.closest))

\* What each of them says of an event.
Columns(c, K) ==
  [last |-> [e \in K |-> LastPt(c, Tight(e))],
   phi |-> [e \in K |-> PhiGap(Tight(e))],
   delr |-> [e \in K |-> MinDelR(Tight(e))],
   charge |-> [e \in K |-> TotalCharge(Tight(e))],
   maxeta |-> [e \in K |-> JetMaxEta(Jets25(e))],
   njet25 |-> [e \in K |-> NJet25(Jets25(e))],
   njeteta1 |-> [e \in K |-> NJetEta1(Jets25(e))],
   lead |-> [e \in K |-> EtaGap(Forward(Jets25(e)), LeadB(Jets25(e)))],
   next |-> [e \in K |-> EtaGap(Forward(Jets25(e)), NextB(Jets25(e)))],
   closest |-> [e \in K |-> ClosestLepton(Forward(Jets25(e))[1], Tight(e))]]

\* The histograms of a channel's events are those columns: the i-th of all the forward
\* jets is the i-th event's.
LEMMA OutputsRows ==
  ASSUME NEW E, NEW J, NEW M, NEW N, Measured(E, J, M, N), NEW c, NEW ds,
         NEW K \in SUBSET E, \A e \in K : JetLoose(Jets25(e)), NEW s \in Seq(K),
         NEW T, T = [e \in E |-> Tight(e)], NEW G, G = [e \in E |-> Jets25(e)]
  PROVE  Outputs(c, ds, Applied(s, T), Applied(s, G)) = Histograms(c, ds, s, Columns(c, K))
<1> DEFINE leps == Applied(s, T)
           jets == Applied(s, G)
           flat == FlattenSeq(Each(jets, Forward))
           Lead(js) == EtaGap(Forward(js), LeadB(js))
           Next2(js) == EtaGap(Forward(js), NextB(js))
           closest == [i \in DOMAIN leps |-> ClosestLepton(flat[i], leps[i])]
           F == Columns(c, K)
<1>1. \A i \in DOMAIN s : s[i] \in K /\ s[i] \in E
  OBVIOUS
<1>2. /\ DOMAIN leps = DOMAIN s /\ \A i \in DOMAIN s : leps[i] = Tight(s[i])
      /\ DOMAIN jets = DOMAIN s /\ \A i \in DOMAIN s : jets[i] = Jets25(s[i])
  BY <1>1 DEF Applied
<1>3. Outputs(c, ds, leps, jets) =
        (Fill(<<c, "leptonpT">>, ds, Each(leps, LAMBDA ls : LastPt(c, ls)))
         (+) Fill(<<c, "highpT_sslp">>, ds, Each(leps, PhiGap))
         (+) Fill(<<c, "minDelR">>, ds, Each(leps, MinDelR))
         (+) Fill(<<c, "TotalCharge">>, ds, Each(leps, TotalCharge)))
        (+) (Fill(<<c, "jetMaxEta">>, ds, Each(jets, JetMaxEta))
             (+) Fill(<<c, "nJet25">>, ds, Each(jets, NJet25))
             (+) Fill(<<c, "nJetEta1">>, ds, Each(jets, NJetEta1)))
        (+) (Fill(<<c, "fwdJet_leadbJet">>, ds, FlattenSeq(Each(jets, Lead)))
             (+) Fill(<<c, "fwdJet_subleadbJet">>, ds, FlattenSeq(Each(jets, Next2)))
             (+) Fill(<<c, "fwdJet_closestLepton">>, ds, closest))
  BY DEF Outputs
<1> HIDE DEF leps, jets, Lead, Next2
<1>4. flat = Applied(s, [e \in K |-> Forward(Jets25(e))[1]])
  <2> DEFINE R == [e \in K |-> Forward(Jets25(e))]
             H == [e \in K |-> Forward(Jets25(e))[1]]
  <2>1. \A e \in K : Forward(Jets25(e)) = <<Forward(Jets25(e))[1]>> /\ Forward(Jets25(e))[1] \in J
    <3> TAKE e \in K
    <3>1. e \in E /\ JetLoose(Jets25(e)) /\ \A j \in J : j.eta \in Int
      BY DEF Measured
    <3>2. Jets25(e) \in Seq(J)
      BY <3>1, TightType
    <3> QED
      BY <3>1, <3>2, ForwardOne
  <2>2. Takes(H, K, J) /\ \A e \in K : R[e] = <<H[e]>>
    BY <2>1 DEF Takes
  <2>3. Each(jets, Forward) = Applied(s, R)
    BY <1>1, <1>2 DEF Each, Applied
  <2> HIDE DEF R, H
  <2>4. FlattenSeq(Applied(s, R)) = Applied(s, H)
    BY <2>2, Singles
  <2> QED
    BY <2>3, <2>4 DEF H
<1> HIDE DEF flat
<1>5. closest = Applied(s, F.closest)
  <2>1. \A i \in DOMAIN s : flat[i] = Forward(Jets25(s[i]))[1]
    BY <1>1, <1>4 DEF Applied
  <2>2. F.closest = [e \in K |-> ClosestLepton(Forward(Jets25(e))[1], Tight(e))]
    BY DEF Columns
  <2>3. closest = [i \in DOMAIN s |-> ClosestLepton(Forward(Jets25(s[i]))[1], Tight(s[i]))]
    BY <1>2, <2>1
  <2> HIDE DEF closest, F
  <2> QED
    BY <1>1, <2>2, <2>3 DEF Applied
<1> HIDE DEF closest
<1>6. /\ Each(leps, LAMBDA ls : LastPt(c, ls)) = Applied(s, F.last)
      /\ Each(leps, PhiGap) = Applied(s, F.phi)
      /\ Each(leps, MinDelR) = Applied(s, F.delr)
      /\ Each(leps, TotalCharge) = Applied(s, F.charge)
  BY <1>1, <1>2 DEF Each, Applied, Columns
<1>7. /\ Each(jets, JetMaxEta) = Applied(s, F.maxeta)
      /\ Each(jets, NJet25) = Applied(s, F.njet25)
      /\ Each(jets, NJetEta1) = Applied(s, F.njeteta1)
  BY <1>1, <1>2 DEF Each, Applied, Columns
<1>8. /\ Each(jets, Lead) = Applied(s, F.lead)
      /\ Each(jets, Next2) = Applied(s, F.next)
  BY <1>1, <1>2 DEF Each, Applied, Columns, Lead, Next2
<1> HIDE DEF F
<1> QED
  BY <1>3, <1>5, <1>6, <1>7, <1>8 DEF Histograms, Column, Gaps, leps, jets, F

\* A histogram of gaps, of which an event has one or none.
LEMMA SummedGaps ==
  ASSUME NEW E, NEW x, NEW y, NEW z, Joined(x, y, z, E), NEW V, NEW G, Takes(G, E, Seq(V)),
         NEW c, NEW h, NEW ds
  PROVE  Summed(Gaps(c, h, ds, x, G), Gaps(c, h, ds, y, G), Gaps(c, h, ds, z, G))
<1>1. Joined(FlattenSeq(Applied(x, G)), FlattenSeq(Applied(y, G)), FlattenSeq(Applied(z, G)), V)
  BY JoinedRows DEF Takes
<1> QED
  BY <1>1, SummedFill DEF Gaps

\* The columns of two parts.
LEMMA HistogramsSummed ==
  ASSUME NEW K, NEW x, NEW y, NEW z, Joined(x, y, z, K), NEW c, NEW ds
  PROVE  Summed(Histograms(c, ds, x, Columns(c, K)), Histograms(c, ds, y, Columns(c, K)),
                Histograms(c, ds, z, Columns(c, K)))
<1> DEFINE F == Columns(c, K)
<1>1. \A h, G : Summed(Column(c, h, ds, x, G), Column(c, h, ds, y, G), Column(c, h, ds, z, G))
  BY SummedEach DEF Column
<1>2. \E V : Takes(F.lead, K, Seq(V))
  <2> DEFINE gap(e) == Abs(Forward(Jets25(e))[1].eta - LeadB(Jets25(e))[1].eta)
             V == {gap(e) : e \in K}
  <2>1. \A e \in K : F.lead[e] = <<>> \/ F.lead[e] = <<gap(e)>>
    BY DEF Columns, EtaGap
  <2>2. \A e \in K : gap(e) \in V
    OBVIOUS
  <2> HIDE DEF gap, F, V
  <2>3. ASSUME NEW e \in K PROVE F.lead[e] \in Seq(V)
    <3>1. gap(e) \in V
      BY <2>2
    <3>2. <<>> \in Seq(V) /\ <<gap(e)>> \in Seq(V)
      BY <3>1
    <3> QED
      BY <2>1, <3>2
  <2>4. Takes(F.lead, K, Seq(V))
    BY <2>3 DEF Takes
  <2> QED
    BY <2>4
<1>3. \E V : Takes(F.next, K, Seq(V))
  <2> DEFINE gap(e) == Abs(Forward(Jets25(e))[1].eta - NextB(Jets25(e))[1].eta)
             V == {gap(e) : e \in K}
  <2>1. \A e \in K : F.next[e] = <<>> \/ F.next[e] = <<gap(e)>>
    BY DEF Columns, EtaGap
  <2>2. \A e \in K : gap(e) \in V
    OBVIOUS
  <2> HIDE DEF gap, F, V
  <2>3. ASSUME NEW e \in K PROVE F.next[e] \in Seq(V)
    <3>1. gap(e) \in V
      BY <2>2
    <3>2. <<>> \in Seq(V) /\ <<gap(e)>> \in Seq(V)
      BY <3>1
    <3> QED
      BY <2>1, <3>2
  <2>4. Takes(F.next, K, Seq(V))
    BY <2>3 DEF Takes
  <2> QED
    BY <2>4
<1> HIDE DEF F
<1>4. \A h : Summed(Gaps(c, h, ds, x, F.lead), Gaps(c, h, ds, y, F.lead), Gaps(c, h, ds, z, F.lead))
  BY <1>2, SummedGaps
<1>5. \A h : Summed(Gaps(c, h, ds, x, F.next), Gaps(c, h, ds, y, F.next), Gaps(c, h, ds, z, F.next))
  BY <1>3, SummedGaps
<1> DEFINE A(s) == Column(c, "leptonpT", ds, s, F.last) (+) Column(c, "highpT_sslp", ds, s, F.phi)
                   (+) Column(c, "minDelR", ds, s, F.delr)
                   (+) Column(c, "TotalCharge", ds, s, F.charge)
           B(s) == Column(c, "jetMaxEta", ds, s, F.maxeta) (+) Column(c, "nJet25", ds, s, F.njet25)
                   (+) Column(c, "nJetEta1", ds, s, F.njeteta1)
           C(s) == Gaps(c, "fwdJet_leadbJet", ds, s, F.lead)
                   (+) Gaps(c, "fwdJet_subleadbJet", ds, s, F.next)
                   (+) Column(c, "fwdJet_closestLepton", ds, s, F.closest)
<1>6. Summed(A(x), A(y), A(z))
  BY <1>1, SummedBoth
<1>7. Summed(B(x), B(y), B(z))
  BY <1>1, SummedBoth
<1>8. Summed(C(x), C(y), C(z))
  BY <1>1, <1>4, <1>5, SummedBoth
<1>9. \A s : Histograms(c, ds, s, F) = A(s) (+) B(s) (+) C(s)
  BY DEF Histograms
<1> HIDE DEF A, B, C
<1> QED
  BY <1>6, <1>7, <1>8, <1>9, SummedBoth DEF F

\* No events fill nothing.
LEMMA HistogramsNone == ASSUME NEW c, NEW ds, NEW F PROVE Histograms(c, ds, <<>>, F) = EmptyBag
<1>1. \A G : Applied(<<>>, G) = <<>> /\ FlattenSeq(<<>>) = <<>>
  BY DEF Applied, FlattenSeq
<1>2. \A h, G : Column(c, h, ds, <<>>, G) = EmptyBag /\ Gaps(c, h, ds, <<>>, G) = EmptyBag
  BY <1>1, FillNone DEF Column, Gaps
<1>3. EmptyBag (+) EmptyBag = EmptyBag
  BY AddNothing
<1> QED
  BY <1>2, <1>3 DEF Histograms

\* A channel fills the columns of its events.
LEMMA ChannelHistograms ==
  ASSUME NEW E, NEW J, NEW M, NEW N, Measured(E, J, M, N), NEW s \in Seq(E), NEW ds,
         NEW c \in Channels, NEW K, K = {e \in E : InChannel(c, e)}
  PROVE  Channel(c, ds, s) = Histograms(c, ds, Kept(s, K), Columns(c, K))
<1> DEFINE rows == Kept(s, K)
           T == [e \in E |-> Tight(e)]
           G == [e \in E |-> Jets25(e)]
<1>1. ChannelLeptons(c, s) = Applied(rows, T) /\ ChannelJets(c, s) = Applied(rows, G)
  <2> HIDE DEF rows
  <2> QED
    BY ChannelRows DEF rows
<1>2. K \in SUBSET E /\ \A e \in K : JetLoose(Jets25(e))
  BY DEF InChannel, Dilepton, Trilepton, Preselected
<1>3. rows \in Seq(K)
  BY <1>2, KeptIn
<1> HIDE DEF rows
<1>4. Outputs(c, ds, Applied(rows, T), Applied(rows, G)) = Histograms(c, ds, rows, Columns(c, K))
  BY <1>2, <1>3, OutputsRows
<1>5. Channel(c, ds, s)
        = IF ChannelLeptons(c, s) = <<>> THEN EmptyBag
          ELSE Outputs(c, ds, ChannelLeptons(c, s), ChannelJets(c, s))
  BY DEF Channel
<1>6. ASSUME Applied(rows, T) = <<>> PROVE rows = <<>>
  <2>1. DOMAIN Applied(rows, T) = DOMAIN rows /\ DOMAIN <<>> = {}
    BY DEF Applied
  <2> HIDE DEF T
  <2> QED
    BY <1>3, <1>6, <2>1
<1>7. CASE Applied(rows, T) = <<>>
  BY <1>1, <1>5, <1>6, <1>7, HistogramsNone DEF rows
<1>8. CASE Applied(rows, T) # <<>>
  BY <1>1, <1>4, <1>5, <1>8 DEF rows
<1> QED
  BY <1>7, <1>8

\* So the histograms of two parts are those of the whole.
LEMMA ChannelSummed ==
  ASSUME NEW E, NEW u, NEW v, NEW w, Joined(u, v, w, E), NEW ds,
         NEW J, NEW M, NEW N, Measured(E, J, M, N), NEW c \in Channels
  PROVE  Summed(Channel(c, ds, u), Channel(c, ds, v), Channel(c, ds, w))
<1> DEFINE K == {e \in E : InChannel(c, e)}
<1>1. \A s \in {u, v, w} : s \in Seq(E)
  BY JoinedType
<1>2. \A s \in {u, v, w} : Channel(c, ds, s) = Histograms(c, ds, Kept(s, K), Columns(c, K))
  BY <1>1, ChannelHistograms
<1>3. K \subseteq E
  OBVIOUS
<1> HIDE DEF K
<1>4. \A s \in {u, v, w} : Kept(s, K) \in Seq(K)
  BY <1>1, <1>3, KeptIn
<1>5. Joined(Kept(u, K), Kept(v, K), Kept(w, K), E)
  BY JoinedKept
<1>6. Joined(Kept(u, K), Kept(v, K), Kept(w, K), K)
  <2>1. Kept(w, K) = Kept(u, K) \o Kept(v, K)
    BY <1>5 DEF Joined
  <2> QED
    BY <1>4, <2>1 DEF Joined
<1> QED
  BY <1>2, <1>6, HistogramsSummed

\* The counters of a channel's leptons, or jets, are those of its events.
LEMMA NumSummed ==
  ASSUME NEW E, NEW u, NEW v, NEW w, Joined(u, v, w, E), NEW K,
         NEW V, NEW G, Takes(G, E, Seq(V)), NEW key
  PROVE  Summed(Count(key, NumIn(Applied(Kept(u, K), G))),
                Count(key, NumIn(Applied(Kept(v, K), G))),
                Count(key, NumIn(Applied(Kept(w, K), G))))
<1>1. Joined(Kept(u, K), Kept(v, K), Kept(w, K), E)
  BY JoinedKept
<1>2. \A e \in E : G[e] \in Seq(V)
  BY DEF Takes
<1> QED
  BY <1>1, <1>2, SummedNum DEF NumIn

\* A mask that none of the elements is in leaves nothing,
LEMMA KeptNothing ==
  ASSUME NEW E, NEW s \in Seq(E), NEW K, \A i \in DOMAIN s : s[i] \notin K
  PROVE  Kept(s, K) = <<>>
<1>1. Kept(s, K) = Kept(s, {})
  BY DEF Kept
<1>2. Kept(s, {}) \in Seq({})
  BY KeptIn
<1>3. \A t \in Seq({}) : t = <<>>
  OBVIOUS
<1> QED
  BY <1>1, <1>2, <1>3

\* and nothing counts nothing.
LEMMA NumNothing ==
  ASSUME NEW G, NEW key PROVE Count(key, NumIn(Applied(<<>>, G))) = EmptyBag
<1>1. FlattenSeq(Applied(<<>>, G)) = <<>>
  BY DEF Applied, FlattenSeq
<1>2. NumIn(Applied(<<>>, G)) = 0
  BY <1>1 DEF NumIn
<1> QED
  BY <1>2, CountNone

\* The events of a channel, and of each event its leptons and its jets.
Events(E, c) == {e \in E : InChannel(c, e)}
TightOf(E) == [e \in E |-> Tight(e)]
JetsOf(E) == [e \in E |-> Jets25(e)]

\* The counters and histograms of the dilepton part, and of the trilepton part, are those
\* of its events,
LEMMA PartsFilled ==
  ASSUME NEW E, NEW J, NEW M, NEW N, Measured(E, J, M, N), NEW s \in Seq(E), NEW ds
  PROVE  LET num(key, K, G) == Count(key, NumIn(Applied(Kept(s, K), G)))
             D == {e \in E : Dilepton(e)}
         IN  /\ SignalDilepton(ds, s) =
                  (num("tight_ll", D, TightOf(E))
                   (+) num("jets through dilepton mask", D, JetsOf(E)))
                  (+) (num("tights_2mu", Events(E, "mumu"), TightOf(E))
                       (+) num("tights_emu", Events(E, "emu"), TightOf(E))
                       (+) num("tights_2e", Events(E, "ee"), TightOf(E)))
                  (+) (Channel("mumu", ds, s) (+) Channel("emu", ds, s) (+) Channel("ee", ds, s))
             /\ SignalTrilepton(ds, s) =
                  num("tight_lll", Events(E, "lll"), TightOf(E))
                  (+) num("jets through trilepton mask", Events(E, "lll"), JetsOf(E))
                  (+) Channel("lll", ds, s)
<1> DEFINE D == {e \in E : Dilepton(e)}
           passed == Where(s, Dilepton)
<1>1. \A c \in Channels : /\ ChannelLeptons(c, s) = Applied(Kept(s, Events(E, c)), TightOf(E))
                          /\ ChannelJets(c, s) = Applied(Kept(s, Events(E, c)), JetsOf(E))
  <2> TAKE c \in Channels
  <2> DEFINE K == Events(E, c)
  <2>1. K = {e \in E : InChannel(c, e)}
    BY DEF Events
  <2> HIDE DEF K
  <2> QED
    BY <2>1, ChannelRows DEF TightOf, JetsOf, K
<1>2. "lll" \in Channels /\ "mumu" \in Channels /\ "emu" \in Channels /\ "ee" \in Channels
  BY DEF Channels
<1>3. passed = Kept(s, D)
  <2>1. \A i \in DOMAIN s : s[i] \in E
    OBVIOUS
  <2> QED
    BY <2>1 DEF Where, Mask, Each, Kept
<1>4. Kept(s, D) \in Seq(E)
  BY KeptType
<1> HIDE DEF D
<1>5. Each(Kept(s, D), Tight) = Applied(Kept(s, D), TightOf(E))
  BY <1>4 DEF Each, Applied, TightOf
<1>6. Each(Kept(s, D), Jets25) = Applied(Kept(s, D), JetsOf(E))
  BY <1>4 DEF Each, Applied, JetsOf
<1>7. SignalDilepton(ds, s) =
        (Count("tight_ll", NumIn(Each(passed, Tight)))
         (+) Count("jets through dilepton mask", NumIn(Each(passed, Jets25))))
        (+) (Count("tights_2mu", NumIn(ChannelLeptons("mumu", s)))
             (+) Count("tights_emu", NumIn(ChannelLeptons("emu", s)))
             (+) Count("tights_2e", NumIn(ChannelLeptons("ee", s))))
        (+) (Channel("mumu", ds, s) (+) Channel("emu", ds, s) (+) Channel("ee", ds, s))
  BY DEF SignalDilepton
<1>8. SignalTrilepton(ds, s) =
        Count("tight_lll", NumIn(ChannelLeptons("lll", s)))
        (+) Count("jets through trilepton mask", NumIn(ChannelJets("lll", s)))
        (+) Channel("lll", ds, s)
  BY DEF SignalTrilepton
<1> HIDE DEF passed
<1> QED
  BY <1>1, <1>2, <1>3, <1>5, <1>6, <1>7, <1>8 DEF D

\* so that those of two parts are those of the whole,
LEMMA PartsSummed ==
  ASSUME NEW E, NEW u, NEW v, NEW w, Joined(u, v, w, E), NEW ds,
         NEW J, NEW M, NEW N, Measured(E, J, M, N)
  PROVE  /\ Summed(SignalDilepton(ds, u), SignalDilepton(ds, v), SignalDilepton(ds, w))
         /\ Summed(SignalTrilepton(ds, u), SignalTrilepton(ds, v), SignalTrilepton(ds, w))
<1> DEFINE num(key, K, G, s) == Count(key, NumIn(Applied(Kept(s, K), G)))
           D == {e \in E : Dilepton(e)}
           T == TightOf(E)
           G == JetsOf(E)
           a(s) == num("tight_ll", D, T, s) (+) num("jets through dilepton mask", D, G, s)
           b(s) == num("tights_2mu", Events(E, "mumu"), T, s)
                   (+) num("tights_emu", Events(E, "emu"), T, s)
                   (+) num("tights_2e", Events(E, "ee"), T, s)
           c(s) == Channel("mumu", ds, s) (+) Channel("emu", ds, s) (+) Channel("ee", ds, s)
           d(s) == num("tight_lll", Events(E, "lll"), T, s)
                   (+) num("jets through trilepton mask", Events(E, "lll"), G, s)
<1>1. \A s \in {u, v, w} : s \in Seq(E)
  BY JoinedType
<1>2. ASSUME NEW s \in {u, v, w}
      PROVE  /\ SignalDilepton(ds, s) = a(s) (+) b(s) (+) c(s)
             /\ SignalTrilepton(ds, s) = d(s) (+) Channel("lll", ds, s)
  BY <1>1, PartsFilled
<1>3. Takes(T, E, Seq(M \cup N)) /\ Takes(G, E, Seq(J))
  BY TightType DEF Takes, TightOf, JetsOf
<1> HIDE DEF T, G, D
<1>4. /\ \A key, K : Summed(num(key, K, T, u), num(key, K, T, v), num(key, K, T, w))
      /\ \A key, K : Summed(num(key, K, G, u), num(key, K, G, v), num(key, K, G, w))
  BY <1>3, NumSummed
<1>5. \A k \in Channels : Summed(Channel(k, ds, u), Channel(k, ds, v), Channel(k, ds, w))
  BY ChannelSummed
<1> HIDE DEF num
<1>6. Summed(a(u), a(v), a(w)) /\ Summed(d(u), d(v), d(w))
  BY <1>4, SummedBoth
<1>7. Summed(b(u), b(v), b(w))
  BY <1>4, SummedBoth
<1>8. /\ Summed(Channel("mumu", ds, u), Channel("mumu", ds, v), Channel("mumu", ds, w))
      /\ Summed(Channel("emu", ds, u), Channel("emu", ds, v), Channel("emu", ds, w))
      /\ Summed(Channel("ee", ds, u), Channel("ee", ds, v), Channel("ee", ds, w))
      /\ Summed(Channel("lll", ds, u), Channel("lll", ds, v), Channel("lll", ds, w))
  BY <1>5 DEF Channels
<1>9. Summed(c(u), c(v), c(w))
  BY <1>8, SummedBoth
<1> HIDE DEF a, b, c, d
<1>10. Summed(a(u) (+) b(u), a(v) (+) b(v), a(w) (+) b(w))
  BY <1>6, <1>7, SummedBoth
<1>11. Summed(a(u) (+) b(u) (+) c(u), a(v) (+) b(v) (+) c(v), a(w) (+) b(w) (+) c(w))
  BY <1>9, <1>10, SummedBoth
<1>12. Summed(d(u) (+) Channel("lll", ds, u), d(v) (+) Channel("lll", ds, v),
              d(w) (+) Channel("lll", ds, w))
  BY <1>6, <1>8, SummedBoth
<1> QED
  BY <1>2, <1>11, <1>12

\* and empty without them.
LEMMA PartsNothing ==
  ASSUME NEW E, NEW J, NEW M, NEW N, Measured(E, J, M, N), NEW s \in Seq(E), NEW ds
  PROVE  /\ (\A i \in DOMAIN s : ~Dilepton(s[i])) => SignalDilepton(ds, s) = EmptyBag
         /\ (\A i \in DOMAIN s : ~Trilepton(s[i])) => SignalTrilepton(ds, s) = EmptyBag
<1>1. EmptyBag (+) EmptyBag = EmptyBag
  BY AddNothing
<1>2. ASSUME NEW c \in Channels, \A i \in DOMAIN s : ~InChannel(c, s[i])
      PROVE  Kept(s, Events(E, c)) = <<>> /\ Channel(c, ds, s) = EmptyBag
  <2> DEFINE K == Events(E, c)
  <2>1. K = {e \in E : InChannel(c, e)}
    BY DEF Events
  <2>2. \A i \in DOMAIN s : s[i] \notin K
    BY <1>2, <2>1
  <2> HIDE DEF K
  <2>3. Kept(s, K) = <<>>
    BY <2>2, KeptNothing
  <2>4. Channel(c, ds, s) = Histograms(c, ds, Kept(s, K), Columns(c, K))
    BY <2>1, ChannelHistograms
  <2> QED
    BY <2>3, <2>4, HistogramsNone DEF K
<1> DEFINE num(key, K, G) == Count(key, NumIn(Applied(Kept(s, K), G)))
           D == {e \in E : Dilepton(e)}
           T == TightOf(E)
           G == JetsOf(E)
<1>3. /\ SignalDilepton(ds, s) =
           (num("tight_ll", D, T) (+) num("jets through dilepton mask", D, G))
           (+) (num("tights_2mu", Events(E, "mumu"), T) (+) num("tights_emu", Events(E, "emu"), T)
                (+) num("tights_2e", Events(E, "ee"), T))
           (+) (Channel("mumu", ds, s) (+) Channel("emu", ds, s) (+) Channel("ee", ds, s))
      /\ SignalTrilepton(ds, s) =
           num("tight_lll", Events(E, "lll"), T)
           (+) num("jets through trilepton mask", Events(E, "lll"), G)
           (+) Channel("lll", ds, s)
  BY PartsFilled
<1>4. \A K : Kept(s, K) = <<>> => \A key, H : num(key, K, H) = EmptyBag
  BY NumNothing
<1> HIDE DEF num, T, G
<1>5. ASSUME \A i \in DOMAIN s : ~Dilepton(s[i]) PROVE SignalDilepton(ds, s) = EmptyBag
  <2>1. \A i \in DOMAIN s : s[i] \notin D
    BY <1>5
  <2> HIDE DEF D
  <2>2. Kept(s, D) = <<>>
    BY <2>1, KeptNothing
  <2>3. \A c \in {"mumu", "emu", "ee"} : c \in Channels /\ \A i \in DOMAIN s : ~InChannel(c, s[i])
    BY <1>5 DEF Channels, InChannel
  <2>4. /\ Kept(s, Events(E, "mumu")) = <<>> /\ Channel("mumu", ds, s) = EmptyBag
        /\ Kept(s, Events(E, "emu")) = <<>> /\ Channel("emu", ds, s) = EmptyBag
        /\ Kept(s, Events(E, "ee")) = <<>> /\ Channel("ee", ds, s) = EmptyBag
    BY <1>2, <2>3
  <2>5. /\ \A key, H : num(key, D, H) = EmptyBag
        /\ \A key, H : num(key, Events(E, "mumu"), H) = EmptyBag
        /\ \A key, H : num(key, Events(E, "emu"), H) = EmptyBag
        /\ \A key, H : num(key, Events(E, "ee"), H) = EmptyBag
    BY <1>4, <2>2, <2>4
  <2> QED
    BY <1>1, <1>3, <2>4, <2>5
<1>6. ASSUME \A i \in DOMAIN s : ~Trilepton(s[i]) PROVE SignalTrilepton(ds, s) = EmptyBag
  <2>1. "lll" \in Channels /\ \A i \in DOMAIN s : ~InChannel("lll", s[i])
    BY <1>6 DEF Channels, InChannel
  <2>2. Kept(s, Events(E, "lll")) = <<>> /\ Channel("lll", ds, s) = EmptyBag
    BY <1>2, <2>1
  <2>3. \A key, H : num(key, Events(E, "lll"), H) = EmptyBag
    BY <1>4, <2>2
  <2> QED
    BY <1>1, <1>3, <2>2, <2>3
<1> QED
  BY <1>5, <1>6

\* A chunk that skips a part has no events for it.
LEMMA SkippedEmpty ==
  ASSUME NEW E, NEW J, NEW M, NEW N, Measured(E, J, M, N), NEW s \in Seq(E)
  PROVE  /\ NumIn(Each(s, LAMBDA e : Pairs(Tight(e)))) = 0
              => \A i \in DOMAIN s : ~Dilepton(s[i])
         /\ NumIn(Each(s, LAMBDA e : Triples(Tight(e)))) = 0
              => \A i \in DOMAIN s : ~Trilepton(s[i])
<1> DEFINE L == M \cup N
           two == Each(s, LAMBDA e : Pairs(Tight(e)))
           three == Each(s, LAMBDA e : Triples(Tight(e)))
           V == {<<x>> \o p : x \in L, p \in L \X L}
<1>1. DOMAIN s = 1..Len(s) /\ Len(s) \in Nat /\ \A i \in 1..Len(s) : s[i] \in E
  OBVIOUS
<1>2. \A i \in 1..Len(s) : Tight(s[i]) \in Seq(L)
  BY <1>1, TightType
<1>3. \A x \in L : \A p \in L \X L : <<x>> \o p \in V
  OBVIOUS
<1> HIDE DEF L, V
<1>4. /\ \A i \in 1..Len(s) : Pairs(Tight(s[i])) \in Seq(L \X L)
      /\ \A i \in 1..Len(s) : Triples(Tight(s[i])) \in Seq(V)
  BY <1>2, <1>3, PairsType, TriplesType
<1>5. /\ two = [i \in 1..Len(s) |-> Pairs(Tight(s[i]))]
      /\ three = [i \in 1..Len(s) |-> Triples(Tight(s[i]))]
  BY <1>1 DEF Each
<1> HIDE DEF two, three
<1>6. /\ two \in Seq(Seq(L \X L)) /\ Len(two) = Len(s)
      /\ three \in Seq(Seq(V)) /\ Len(three) = Len(s)
  BY <1>1, <1>4, <1>5
<1>7. ASSUME NumIn(two) = 0, NEW i \in 1..Len(s) PROVE ~Dilepton(s[i])
  <2>1. Len(two[i]) <= Len(FlattenSeq(two)) /\ two[i] = Pairs(Tight(s[i]))
    BY <1>5, <1>6, RowWithin
  <2>2. Len(FlattenSeq(two)) = 0
    BY <1>7 DEF NumIn
  <2>3. Len(Pairs(Tight(s[i]))) <= 0
    BY <2>1, <2>2
  <2>4. Len(Pairs(Tight(s[i]))) = 1 => 1 <= 0
    BY <2>3
  <2> QED
    BY <2>4 DEF Dilepton, DileptonMask
<1>8. ASSUME NumIn(three) = 0, NEW i \in 1..Len(s) PROVE ~Trilepton(s[i])
  <2>1. Len(three[i]) <= Len(FlattenSeq(three)) /\ three[i] = Triples(Tight(s[i]))
    BY <1>5, <1>6, RowWithin
  <2>2. Len(FlattenSeq(three)) = 0
    BY <1>8 DEF NumIn
  <2>3. Len(Triples(Tight(s[i]))) <= 0
    BY <2>1, <2>2
  <2>4. Len(Triples(Tight(s[i]))) = 1 => 1 <= 0
    BY <2>3
  <2> QED
    BY <2>4 DEF Trilepton, TrileptonMask
<1> QED
  BY <1>1, <1>7, <1>8 DEF two, three

\* What the processor makes of two parts is what it makes of the whole: a part of the
\* analysis that a chunk skips, for want of pairs or of triples, is empty there.
LEMMA SignalSummed ==
  ASSUME NEW E, NEW u, NEW v, NEW w, Joined(u, v, w, E), NEW ds,
         NEW J, NEW M, NEW N, Measured(E, J, M, N)
  PROVE  Summed(SignalProcessor(ds, u), SignalProcessor(ds, v), SignalProcessor(ds, w))
<1> DEFINE num(key, G, s) == Count(key, Len(FlattenSeq(Applied(s, G))))
           lm == [e \in E |-> Where(e.muons, LooseMuon)]
           tm == [e \in E |-> Where(e.muons, TightMuon)]
           le == [e \in E |-> Where(e.electrons, LooseElectron)]
           te == [e \in E |-> Where(e.electrons, TightElectron)]
           js == JetsOf(E)
           all(s) == Count("all events", Len(s))
           mu(s) == num("loose muons", lm, s) (+) num("tight muons", tm, s)
           el(s) == num("loose electrons", le, s) (+) num("tight electrons", te, s)
           jet(s) == num("jets > 25", js, s)
           di(s) == SignalDilepton(ds, s)
           tri(s) == SignalTrilepton(ds, s)
<1>1. \A s \in {u, v, w} : s \in Seq(E) /\ \A i \in DOMAIN s : s[i] \in E
  BY JoinedType
<1>2. ASSUME NEW s \in {u, v, w}
      PROVE  SignalProcessor(ds, s)
               = all(s) (+) mu(s) (+) el(s) (+) jet(s) (+) (di(s) (+) tri(s))
  <2> DEFINE none(A(_)) == NumIn(Each(s, A)) = 0
             NoPairs == none(LAMBDA e : Pairs(Tight(e)))
             NoTriples == none(LAMBDA e : Triples(Tight(e)))
  <2>1. SignalProcessor(ds, s) =
          all(s)
          (+) (Count("loose muons", NumIn(Each(s, LAMBDA e : Where(e.muons, LooseMuon))))
               (+) Count("tight muons", NumIn(Each(s, LAMBDA e : Where(e.muons, TightMuon)))))
          (+) (Count("loose electrons",
                     NumIn(Each(s, LAMBDA e : Where(e.electrons, LooseElectron))))
               (+) Count("tight electrons",
                         NumIn(Each(s, LAMBDA e : Where(e.electrons, TightElectron)))))
          (+) Count("jets > 25", NumIn(Each(s, Jets25)))
          (+) ((IF NoPairs THEN EmptyBag ELSE di(s)) (+) (IF NoTriples THEN EmptyBag ELSE tri(s)))
    BY DEF SignalProcessor
  <2>2. /\ Each(s, LAMBDA e : Where(e.muons, LooseMuon)) = Applied(s, lm)
        /\ Each(s, LAMBDA e : Where(e.muons, TightMuon)) = Applied(s, tm)
        /\ Each(s, LAMBDA e : Where(e.electrons, LooseElectron)) = Applied(s, le)
        /\ Each(s, LAMBDA e : Where(e.electrons, TightElectron)) = Applied(s, te)
        /\ Each(s, Jets25) = Applied(s, js)
    BY <1>1 DEF Each, Applied, JetsOf
  <2>3. NoPairs => di(s) = EmptyBag
    BY <1>1, SkippedEmpty, PartsNothing
  <2>4. NoTriples => tri(s) = EmptyBag
    BY <1>1, SkippedEmpty, PartsNothing
  <2> HIDE DEF all, di, tri, NoPairs, NoTriples, lm, tm, le, te, js
  <2> QED
    BY <2>1, <2>2, <2>3, <2>4 DEF NumIn
<1>3. /\ \A e \in E : lm[e] \in Seq(M) /\ tm[e] \in Seq(M)
      /\ \A e \in E : le[e] \in Seq(N) /\ te[e] \in Seq(N)
      /\ \A e \in E : js[e] \in Seq(J)
  <2> SUFFICES ASSUME NEW e \in E
               PROVE  /\ lm[e] \in Seq(M) /\ tm[e] \in Seq(M)
                      /\ le[e] \in Seq(N) /\ te[e] \in Seq(N) /\ js[e] \in Seq(J)
    OBVIOUS
  <2>1. e.muons \in Seq(M) /\ e.electrons \in Seq(N)
    BY DEF Measured
  <2>2. Where(e.muons, LooseMuon) \in Seq(M) /\ Where(e.electrons, LooseElectron) \in Seq(N)
    BY <2>1, WhereType DEF Where
  <2> QED
    BY <2>2, TightType DEF JetsOf
<1> HIDE DEF lm, tm, le, te, js
<1>4. /\ \A key : Summed(num(key, lm, u), num(key, lm, v), num(key, lm, w))
      /\ \A key : Summed(num(key, tm, u), num(key, tm, v), num(key, tm, w))
      /\ \A key : Summed(num(key, le, u), num(key, le, v), num(key, le, w))
      /\ \A key : Summed(num(key, te, u), num(key, te, v), num(key, te, w))
      /\ \A key : Summed(num(key, js, u), num(key, js, v), num(key, js, w))
  BY <1>3, SummedNum
<1> HIDE DEF num
<1>5. Summed(mu(u), mu(v), mu(w)) /\ Summed(el(u), el(v), el(w)) /\ Summed(jet(u), jet(v), jet(w))
  BY <1>4, SummedBoth
<1>6. Summed(all(u), all(v), all(w))
  BY AllEvents
<1>7. Summed(di(u), di(v), di(w)) /\ Summed(tri(u), tri(v), tri(w))
  BY PartsSummed
<1> DEFINE head(s) == all(s) (+) mu(s) (+) el(s)
<1> HIDE DEF all, mu, el, jet, di, tri
<1>8. Summed(head(u), head(v), head(w))
  BY <1>5, <1>6, SummedBoth
<1>9. Summed(di(u) (+) tri(u), di(v) (+) tri(v), di(w) (+) tri(w))
  BY <1>7, SummedBoth
<1>10. \A s \in {u, v, w} : SignalProcessor(ds, s) = head(s) (+) jet(s) (+) (di(s) (+) tri(s))
  BY <1>2
<1> HIDE DEF head
<1>11. Summed(head(u) (+) jet(u), head(v) (+) jet(v), head(w) (+) jet(w))
  BY <1>5, <1>8, SummedBoth
<1> QED
  BY <1>9, <1>10, <1>11, SummedBoth

\* The job of the analysis.
SignalJob(data, chunks) == Job("tHq", SignalProcessor, Never, SaysSignal, data, chunks)

\* It does not show where its chunks were cut: their accumulators are the datasets' in sum,
\* before postprocess.
LEMMA SignalDoesNotShow ==
  ASSUME NEW data, NEW chunks, NEW E, FilesetOf(data, chunks, E),
         NEW J, NEW M, NEW N, Measured(E, J, M, N), NEW j, j = SignalJob(data, chunks)
  PROVE  DoesNotShow(j)
<1> DEFINE P == [ds \in DOMAIN data |-> [s \in Seq(E) |-> SignalProcessor(ds, s)]]
<1>1. /\ j.chunks = chunks /\ DOMAIN j.uncut = DOMAIN data
      /\ \A c \in DOMAIN chunks : j.acc[c] = SignalProcessor(chunks[c][1], chunks[c][2])
      /\ \A ds \in DOMAIN data : j.uncut[ds] = SignalProcessor(ds, data[ds])
  BY DEF SignalJob, Job, Never
<1>2. /\ IsFiniteSet(DOMAIN data) /\ Len(chunks) \in Nat /\ IsCut(chunks, data)
      /\ \A ds \in DOMAIN data : data[ds] \in Seq(E)
  BY DEF FilesetOf
<1>3. /\ \A c \in DOMAIN chunks : j.acc[c] = P[chunks[c][1]][chunks[c][2]]
      /\ \A ds \in DOMAIN data : j.uncut[ds] = P[ds][data[ds]]
  BY <1>1, <1>2, ChunkType
<1>4. \A ds \in DOMAIN data : data[ds] \in Seq(E) /\ Adds(P[ds], E)
  <2> SUFFICES ASSUME NEW ds \in DOMAIN data PROVE Adds(P[ds], E)
    BY <1>2
  <2>1. ASSUME NEW u \in Seq(E), NEW v \in Seq(E)
        PROVE  IsABag(P[ds][u]) /\ P[ds][u \o v] = P[ds][u] (+) P[ds][v]
    <3>1. Joined(u, v, u \o v, E) /\ u \o v \in Seq(E)
      BY DEF Joined
    <3>2. Summed(SignalProcessor(ds, u), SignalProcessor(ds, v), SignalProcessor(ds, u \o v))
      BY <3>1, SignalSummed
    <3> QED
      BY <3>1, <3>2 DEF Summed
  <2> HIDE DEF P
  <2> QED
    BY <2>1 DEF Adds
<1> HIDE DEF P
<1>5. SumOver(j.acc, DOMAIN chunks) = SumOver(j.uncut, DOMAIN data)
  BY <1>2, <1>3, <1>4, CutSum
<1> QED
  BY <1>1, <1>5 DEF DoesNotShow, Uncut

(* The result of a notebook that treats one event at a time, and that of the   *)
(* analysis, is that of calling process once on each dataset, for any events,  *)
(* cut in any way.                                                             *)
THEOREM CuttingDoesNotShow ==
  ASSUME PostIsOurs,
         \A j \in Jobs : \E data, chunks, E :
           /\ FilesetOf(data, chunks, E)
           /\ \/ \E J, L : Readable(E, J, L) /\ j \in JobsOn(data, chunks)
              \/ \E J, M, N : Measured(E, J, M, N) /\ j = SignalJob(data, chunks)
  PROVE  Spec => []ChunkingIrrelevant
<1>1. \A j \in Jobs : DoesNotShow(j)
  <2> SUFFICES ASSUME NEW j \in Jobs PROVE DoesNotShow(j)
    OBVIOUS
  <2>1. PICK data, chunks, E :
          /\ FilesetOf(data, chunks, E)
          /\ \/ \E J, L : Readable(E, J, L) /\ j \in JobsOn(data, chunks)
             \/ \E J, M, N : Measured(E, J, M, N) /\ j = SignalJob(data, chunks)
    OBVIOUS
  <2> QED
    BY <2>1, JobDoesNotShow, SignalDoesNotShow
<1> QED
  BY <1>1, CuttingShows

-----------------------------------------------------------------------------
(* Counters and entries *)

\* The entries of a histogram, one by one.
EntriesOf(b, h) == UNION {{k} \X (1..b[k]) : k \in OfHistogram(b, h)}
Finite(b) == IsABag(b) /\ IsFiniteSet(DOMAIN b)

\* An entry has its place among those of its kind.
LEMMA EntryIn ==
  ASSUME NEW b, NEW h, NEW x
  PROVE  x \in EntriesOf(b, h) <=>
           /\ x = <<x[1], x[2]>> /\ Len(x[1]) = 3 /\ x[1][1] = h
           /\ x[2] \in 1..Amount(b, x[1])
<1>1. ASSUME x \in EntriesOf(b, h)
      PROVE  /\ x = <<x[1], x[2]>> /\ Len(x[1]) = 3 /\ x[1][1] = h
             /\ x[2] \in 1..Amount(b, x[1])
  <2>1. PICK k \in OfHistogram(b, h) : x \in {k} \X (1..b[k])
    BY <1>1 DEF EntriesOf
  <2>2. x = <<x[1], x[2]>> /\ x[1] = k /\ x[2] \in 1..b[k]
    BY <2>1
  <2>3. k \in DOMAIN b /\ Len(k) = 3 /\ k[1] = h
    BY DEF OfHistogram
  <2> QED
    BY <2>2, <2>3 DEF Amount
<1>2. ASSUME x = <<x[1], x[2]>>, Len(x[1]) = 3, x[1][1] = h, x[2] \in 1..Amount(b, x[1])
      PROVE  x \in EntriesOf(b, h)
  <2> DEFINE k == x[1]
             n == x[2]
  <2>1. k \in DOMAIN b /\ n \in 1..b[k]
    BY <1>2 DEF Amount
  <2>2. k \in OfHistogram(b, h)
    BY <1>2, <2>1 DEF OfHistogram
  <2>3. <<k, n>> \in {k} \X (1..b[k])
    BY <2>1
  <2>4. x = <<k, n>>
    BY <1>2
  <2> HIDE DEF k, n
  <2> QED
    BY <2>2, <2>3, <2>4 DEF EntriesOf
<1> QED
  BY <1>1, <1>2

\* A finite accumulator has finitely many.
LEMMA FilledType ==
  ASSUME NEW b, NEW h, Finite(b)
  PROVE  IsFiniteSet(EntriesOf(b, h)) /\ Filled(b, h) = Cardinality(EntriesOf(b, h))
         /\ Filled(b, h) \in Nat
<1>1. IsFiniteSet(OfHistogram(b, h))
  <2>1. OfHistogram(b, h) \subseteq DOMAIN b /\ IsFiniteSet(DOMAIN b)
    BY DEF OfHistogram, Finite
  <2> QED
    BY <2>1, FS_Subset
<1> DEFINE f == [k \in OfHistogram(b, h) |-> {k} \X (1..b[k])]
           S == {{k} \X (1..b[k]) : k \in OfHistogram(b, h)}
<1>2. \A k \in OfHistogram(b, h) : IsFiniteSet({k} \X (1..b[k]))
  <2> TAKE k \in OfHistogram(b, h)
  <2>1. b[k] \in Nat
    BY DEF OfHistogram, Finite, IsABag
  <2> QED
    BY <2>1, Numbered
<1>3. f \in Surjection(OfHistogram(b, h), S)
  BY DEF Surjection
<1>4. IsFiniteSet(S) /\ \A T \in S : IsFiniteSet(T)
  <2>1. IsFiniteSet(S)
    <3> HIDE DEF f, S
    <3> QED
      BY <1>1, <1>3, FS_Surjection
  <2> QED
    BY <1>2, <2>1
<1>5. IsFiniteSet(UNION S)
  <2> HIDE DEF S
  <2> QED
    BY <1>4, FS_UNION
<1> QED
  BY <1>5, FS_CardinalityType DEF EntriesOf, Filled

\* A sum is finite, and has the entries of both.
LEMMA FilledSum ==
  ASSUME NEW a, NEW b, Finite(a), Finite(b)
  PROVE  Finite(a (+) b) /\ \A h : Filled(a (+) b, h) = Filled(a, h) + Filled(b, h)
<1>1. IsABag(a) /\ IsABag(b) /\ IsABag(a (+) b)
  BY AmountOfSum DEF Finite
<1>2. Finite(a (+) b)
  <2>1. DOMAIN (a (+) b) = DOMAIN a \cup DOMAIN b
    BY DEF (+)
  <2> QED
    BY <1>1, <2>1, FS_Union DEF Finite
<1>3. ASSUME NEW h PROVE Filled(a (+) b, h) = Filled(a, h) + Filled(b, h)
  <2> DEFINE A == EntriesOf(a, h)
             B == EntriesOf(b, h)
             C == EntriesOf(a (+) b, h)
             f == [x \in B |-> <<x[1], x[2] + Amount(a, x[1])>>]
             M == {f[x] : x \in B}
  <2>1. /\ IsFiniteSet(A) /\ Filled(a, h) = Cardinality(A) /\ Filled(a, h) \in Nat
        /\ IsFiniteSet(B) /\ Filled(b, h) = Cardinality(B) /\ Filled(b, h) \in Nat
        /\ Filled(a (+) b, h) = Cardinality(C)
    BY <1>2, FilledType
  <2>2. \A k : /\ Amount(a, k) \in Nat /\ Amount(b, k) \in Nat
               /\ Amount(a (+) b, k) = Amount(a, k) + Amount(b, k)
    BY <1>1, AmountOfSum, AmountType
  <2>3. /\ \A x \in A : x = <<x[1], x[2]>> /\ Len(x[1]) = 3 /\ x[1][1] = h
                        /\ x[2] \in 1..Amount(a, x[1])
        /\ \A x \in B : x = <<x[1], x[2]>> /\ Len(x[1]) = 3 /\ x[1][1] = h
                        /\ x[2] \in 1..Amount(b, x[1])
        /\ \A x \in C : x = <<x[1], x[2]>> /\ Len(x[1]) = 3 /\ x[1][1] = h
                        /\ x[2] \in 1..Amount(a (+) b, x[1])
    BY EntryIn
  <2>4. \A k, n : Len(k) = 3 /\ k[1] = h =>
          /\ n \in 1..Amount(a, k) => <<k, n>> \in A
          /\ n \in 1..Amount(b, k) => <<k, n>> \in B
          /\ n \in 1..Amount(a (+) b, k) => <<k, n>> \in C
    <3> TAKE k, n
    <3> DEFINE x == <<k, n>>
    <3>1. x[1] = k /\ x[2] = n /\ x = <<x[1], x[2]>>
      OBVIOUS
    <3> HIDE DEF x
    <3> QED
      BY <3>1, EntryIn DEF x
  <2> HIDE DEF A, B, C
  <2>5. \A x \in A : x \in C
    <3> TAKE x \in A
    <3>1. x[2] \in 1..Amount(a (+) b, x[1])
      BY <2>2, <2>3
    <3> QED
      BY <2>3, <2>4, <3>1
  <2>6. \A x \in B : f[x] \in C /\ f[x] \notin A
    <3> TAKE x \in B
    <3> DEFINE k == x[1]
               n == x[2] + Amount(a, k)
    <3>1. /\ f[x] = <<k, n>> /\ n \in 1..Amount(a (+) b, k) /\ ~(n \in 1..Amount(a, k))
          /\ Len(k) = 3 /\ k[1] = h
      BY <2>2, <2>3
    <3> HIDE DEF k, n, f
    <3>2. <<k, n>> \in C
      BY <2>4, <3>1
    <3>3. <<k, n>> \in A => n \in 1..Amount(a, k)
      BY <2>3
    <3> QED
      BY <3>1, <3>2, <3>3
  <2>7. \A x \in C : x \in A \/ \E y \in B : f[y] = x
    <3> TAKE x \in C
    <3> DEFINE k == x[1]
               n == x[2]
               y == <<k, n - Amount(a, k)>>
    <3>1. x = <<k, n>> /\ Len(k) = 3 /\ k[1] = h /\ n \in 1..Amount(a (+) b, k)
      BY <2>3
    <3>2. CASE n \in 1..Amount(a, k)
      BY <2>4, <3>1, <3>2
    <3>3. CASE n \notin 1..Amount(a, k)
      <4>1. n - Amount(a, k) \in 1..Amount(b, k) /\ n - Amount(a, k) + Amount(a, k) = n
        BY <2>2, <3>1, <3>3
      <4>2. y \in B
        BY <2>4, <3>1, <4>1
      <4>3. f[y] = <<k, n - Amount(a, k) + Amount(a, k)>>
        BY <4>2
      <4> HIDE DEF f, y, k, n
      <4> QED
        BY <3>1, <4>1, <4>2, <4>3
    <3> QED
      BY <3>2, <3>3
  <2>8. C = A \cup M /\ A \cap M = {}
    <3> HIDE DEF f
    <3> QED
      BY <2>5, <2>6, <2>7
  <2>9. IsFiniteSet(M) /\ Cardinality(M) = Cardinality(B)
    <3>1. \A x, y \in B : f[x] = f[y] => x = y
      <4> TAKE x \in B, y \in B
      <4>1. SUFFICES ASSUME f[x] = f[y] PROVE x = y
        OBVIOUS
      <4>2. /\ <<x[1], x[2] + Amount(a, x[1])>> = <<y[1], y[2] + Amount(a, y[1])>>
        BY <4>1
      <4>3. x[1] = y[1] /\ x[2] + Amount(a, x[1]) = y[2] + Amount(a, y[1])
        BY <4>2
      <4>4. x[2] \in Int /\ y[2] \in Int /\ Amount(a, x[1]) \in Nat
        BY <2>2, <2>3
      <4>5. x[2] = y[2]
        BY <4>3, <4>4
      <4> QED
        BY <2>3, <4>3, <4>5
    <3>2. f \in [B -> M] /\ \A z \in M : \E x \in B : f[x] = z
      OBVIOUS
    <3> HIDE DEF f, M
    <3> QED
      BY <2>1, <3>1, <3>2, SameNumber
  <2>10. Cardinality(A \cup M) = Cardinality(A) + Cardinality(M) - Cardinality({})
    BY <2>1, <2>8, <2>9, FS_Union
  <2> HIDE DEF M
  <2> QED
    BY <2>1, <2>8, <2>9, <2>10, FS_EmptySet
<1> QED
  BY <1>2, <1>3

\* A counter is what there is of it.
LEMMA ReachedAmount == ASSUME NEW b, NEW key PROVE Reached(b, key) = Amount(b, <<key>>)
BY DEF Reached, Amount, BagIn, BagToSet

\* Of a sum, what was counted in both.
LEMMA ReachedSum ==
  ASSUME NEW a, NEW b, IsABag(a), IsABag(b)
  PROVE  \A key : /\ Reached(a (+) b, key) = Reached(a, key) + Reached(b, key)
                  /\ Reached(a, key) \in Nat
BY ReachedAmount, AmountOfSum, AmountType

\* Every array is made from none, an element at a time.
LEMMA FromNone ==
  ASSUME NEW E, NEW T, <<>> \in T, \A s \in Seq(E), e \in E : s \in T => Append(s, e) \in T
  PROVE  Seq(E) \subseteq T
<1> DEFINE N == {n \in Nat : \A s \in Seq(E) : Len(s) = n => s \in T}
<1>1. 0 \in N
  <2>1. \A s \in Seq(E) : Len(s) = 0 => s = <<>>
    OBVIOUS
  <2> QED
    BY <2>1
<1>2. ASSUME NEW n \in Nat, n \in N PROVE n + 1 \in N
  <2> SUFFICES ASSUME NEW s \in Seq(E), Len(s) = n + 1 PROVE s \in T
    OBVIOUS
  <2>1. PICK t \in Seq(E), e \in E : s = Append(t, e) /\ Len(t) = n
    BY LastOff
  <2> QED
    BY <1>2, <2>1
<1> HIDE DEF N
<1>3. Nat \subseteq N
  BY <1>1, <1>2, FromZero
<1>4. \A s \in Seq(E) : Len(s) \in Nat
  OBVIOUS
<1> QED
  BY <1>3, <1>4 DEF N

\* One more is one beside.
LEMMA OneMore ==
  ASSUME NEW E, NEW s \in Seq(E), NEW e \in E
  PROVE  /\ <<e>> \in Seq(E) /\ Append(s, e) \in Seq(E)
         /\ Append(s, e) = s \o <<e>> /\ Joined(s, <<e>>, Append(s, e), E)
<1>1. <<e>> \in Seq(E) /\ Append(s, e) \in Seq(E) /\ Append(s, e) = s \o <<e>>
  OBVIOUS
<1> QED
  BY <1>1 DEF Joined

\* Nothing is what it is twice.
LEMMA SummedNothing == ASSUME NEW b, Summed(b, b, b) PROVE b = EmptyBag
<1>1. IsABag(b) /\ b = b (+) b
  BY DEF Summed
<1>2. \A k : Amount(b, k) = Amount(EmptyBag, k)
  <2>1. \A k : Amount(b, k) \in Nat /\ Amount(b, k) = Amount(b, k) + Amount(b, k)
    BY <1>1, AmountOfSum, AmountType
  <2> QED
    BY <2>1, AddNothing
<1> QED
  BY <1>1, <1>2, AddNothing, SameAmounts

\* The array of nothing and nothing.
LEMMA JoinedNothing == ASSUME NEW E PROVE Joined(<<>>, <<>>, <<>>, E)
<1>1. <<>> \in Seq(E) /\ <<>> \o <<>> = <<>>
  <2>1. <<>> \in Seq(E)
    OBVIOUS
  <2> QED
    BY <2>1, ConcatEmptySeq
<1> QED
  BY <1>1 DEF Joined

\* The rows of one event are its row,
LEMMA FlattenOne == ASSUME NEW V, NEW x \in Seq(V) PROVE FlattenSeq(<<x>>) = x
<1>1. FlattenSeq(<<>>) = <<>>
  BY DEF FlattenSeq
<1>2. <<>> \in Seq(Seq(V)) /\ <<>> \in Seq(V) /\ Append(<<>>, x) = <<x>> /\ <<>> \o x = x
  BY ConcatEmptySeq
<1>3. FlattenSeq(Append(<<>>, x)) = FlattenSeq(<<>>) \o x
  BY <1>1, <1>2, FlattenAppend
<1> QED
  BY <1>1, <1>2, <1>3

\* and it passes a mask or not.
LEMMA KeptOne == ASSUME NEW e, NEW K PROVE Kept(<<e>>, K) = IF e \in K THEN <<e>> ELSE <<>>
<1> DEFINE x == IF e \in K THEN <<e>> ELSE <<>>
           rows == [i \in DOMAIN <<e>> |-> IF <<e>>[i] \in K THEN <<<<e>>[i]>> ELSE <<>>]
<1>1. x \in Seq({e})
  <2>1. <<e>> \in Seq({e}) /\ <<>> \in Seq({e})
    OBVIOUS
  <2> QED
    BY <2>1
<1>2. rows = <<x>>
  OBVIOUS
<1> HIDE DEF x
<1>3. FlattenSeq(<<x>>) = x
  BY <1>1, FlattenOne
<1> QED
  BY <1>2, <1>3 DEF x, Kept

\* An operation on one event, and on none.
LEMMA AppliedOne ==
  /\ \A e, G : Applied(<<e>>, G) = <<G[e]>>
  /\ \A G : Applied(<<>>, G) = <<>>
BY DEF Applied

\* What is in a counter,
LEMMA CountAmount ==
  ASSUME NEW key, NEW n \in Nat
  PROVE  /\ Finite(Count(key, n))
         /\ \A e : Amount(Count(key, n), e) = IF e = <<key>> THEN n ELSE 0
<1>1. CASE n = 0
  <2>1. DOMAIN Count(key, n) = {} /\ Count(key, n) = [e \in {} |-> n]
    BY <1>1 DEF Count
  <2> HIDE DEF Count
  <2> QED
    BY <1>1, <2>1, FS_EmptySet DEF IsABag, Amount, Finite
<1>2. CASE n # 0
  <2>1. Count(key, n) = [e \in {<<key>>} |-> n] /\ IsFiniteSet({<<key>>})
    BY <1>2, FS_Singleton DEF Count
  <2> HIDE DEF Count
  <2> QED
    BY <1>2, <2>1 DEF IsABag, Amount, Finite
<1> QED
  BY <1>1, <1>2

\* in none and in a histogram.
LEMMA FillFinite ==
  ASSUME NEW V, NEW values \in Seq(V), NEW h, NEW ds
  PROVE  /\ Finite(Fill(h, ds, values)) /\ Finite(EmptyBag)
         /\ \A e : e \in DOMAIN Fill(h, ds, values) <=> \E i \in DOMAIN values : e = <<h, ds, values[i]>>
         /\ \A key : Amount(Fill(h, ds, values), <<key>>) = 0
<1> DEFINE D == {<<h, ds, v>> : v \in ToSet(values)}
           f == [i \in DOMAIN values |-> <<h, ds, values[i]>>]
<1>1. DOMAIN Fill(h, ds, values) = D
  BY DEF Fill
<1>2. IsFiniteSet(DOMAIN values)
  <2>1. DOMAIN values = 1..Len(values) /\ Len(values) \in Nat
    OBVIOUS
  <2> QED
    BY <2>1, FS_Interval
<1>3. f \in Surjection(DOMAIN values, D)
  BY DEF Surjection, ToSet
<1>4. \A e : e \in D <=> \E i \in DOMAIN values : e = <<h, ds, values[i]>>
  BY DEF ToSet
<1>5. \A key : <<key>> \notin D
  OBVIOUS
<1>6. DOMAIN EmptyBag = {} /\ IsABag(EmptyBag)
  BY AddNothing DEF EmptyBag, SetToBag
<1> HIDE DEF D, f
<1>7. IsFiniteSet(D)
  BY <1>2, <1>3, FS_Surjection
<1> QED
  BY <1>1, <1>4, <1>5, <1>6, <1>7, FillAmount, FS_EmptySet DEF Finite, Amount

\* A counter has no entries, and a histogram those filled.
LEMMA FilledNone ==
  /\ \A h : Filled(EmptyBag, h) = 0
  /\ \A key, h : \A n \in Nat : Filled(Count(key, n), h) = 0
  /\ \A h, g, ds, v : Filled(Fill(h, ds, <<v>>), g) = IF g = h THEN 1 ELSE 0
<1> DEFINE ek(b, h) == EntriesOf(b, h)
<1>1. ASSUME NEW b, NEW h, \A k \in DOMAIN b : ~(Len(k) = 3 /\ k[1] = h)
      PROVE  Filled(b, h) = 0
  <2>1. EntriesOf(b, h) = {}
    BY <1>1 DEF EntriesOf, OfHistogram
  <2> QED
    BY <2>1, FS_EmptySet DEF Filled, EntriesOf
<1>2. \A h : Filled(EmptyBag, h) = 0
  <2>1. DOMAIN EmptyBag = {}
    BY DEF EmptyBag, SetToBag
  <2> QED
    BY <1>1, <2>1
<1>3. ASSUME NEW key, NEW h, NEW n \in Nat PROVE Filled(Count(key, n), h) = 0
  <2>1. \A k \in DOMAIN Count(key, n) : k = <<key>>
    BY DEF Count
  <2>2. Len(<<key>>) = 1
    OBVIOUS
  <2> QED
    BY <1>1, <2>1, <2>2
<1>4. ASSUME NEW h, NEW g, NEW ds, NEW v
      PROVE  Filled(Fill(h, ds, <<v>>), g) = IF g = h THEN 1 ELSE 0
  <2> DEFINE b == Fill(h, ds, <<v>>)
             k == <<h, ds, v>>
  <2>1. Len(k) = 3 /\ k[1] = h
    OBVIOUS
  <2>2. DOMAIN b = {k} /\ b[k] = 1
    <3>1. ToSet(<<v>>) = {v}
      BY DEF ToSet
    <3>2. DOMAIN b = {k}
      BY <3>1 DEF Fill
    <3>3. b[k] = Cardinality({i \in DOMAIN <<v>> : <<v>>[i] = k[3]})
      BY <3>1 DEF Fill
    <3>4. {i \in DOMAIN <<v>> : <<v>>[i] = k[3]} = {1}
      OBVIOUS
    <3> QED
      BY <3>2, <3>3, <3>4, FS_Singleton
  <2> HIDE DEF b, k
  <2>3. CASE g = h
    <3>1. OfHistogram(b, g) = {k}
      BY <2>1, <2>2, <2>3 DEF OfHistogram
    <3>2. EntriesOf(b, g) = {k} \X (1..1)
      BY <2>2, <3>1 DEF EntriesOf
    <3> QED
      BY <2>3, <3>2, Numbered DEF Filled, EntriesOf, b
  <2>4. CASE g # h
    <3>1. \A x \in DOMAIN b : ~(Len(x) = 3 /\ x[1] = g)
      BY <2>1, <2>2, <2>4
    <3> QED
      BY <1>1, <2>4, <3>1 DEF b
  <2> QED
    BY <2>3, <2>4
<1> QED
  BY <1>2, <1>3, <1>4

\* A histogram has as many entries as values.
LEMMA FilledLen ==
  ASSUME NEW V, NEW values \in Seq(V), NEW h, NEW ds, NEW g
  PROVE  Filled(Fill(h, ds, values), g) = IF g = h THEN Len(values) ELSE 0
<1> DEFINE T == {s \in Seq(V) : Filled(Fill(h, ds, s), g) = IF g = h THEN Len(s) ELSE 0}
<1>1. <<>> \in T
  BY FillNone, FilledNone
<1>2. ASSUME NEW s \in Seq(V), NEW v \in V, s \in T PROVE Append(s, v) \in T
  <2>5. Filled(Fill(h, ds, s), g) = IF g = h THEN Len(s) ELSE 0
    BY <1>2
  <2> SUFFICES Append(s, v) \in Seq(V)
               /\ Filled(Fill(h, ds, Append(s, v)), g) = IF g = h THEN Len(Append(s, v)) ELSE 0
    OBVIOUS
  <2> HIDE DEF T
  <2>1. /\ <<v>> \in Seq(V) /\ Append(s, v) \in Seq(V) /\ Append(s, v) = s \o <<v>>
        /\ Len(Append(s, v)) = Len(s) + 1 /\ Len(s) \in Nat
    OBVIOUS
  <2> DEFINE one == <<v>>
  <2>6. one \in Seq(V) /\ Append(s, v) = s \o one /\ s \in Seq(V)
    BY <2>1
  <2>7. Filled(Fill(h, ds, one), g) = IF g = h THEN 1 ELSE 0
    BY FilledNone
  <2> HIDE DEF one
  <2>2. Fill(h, ds, Append(s, v)) = Fill(h, ds, s) (+) Fill(h, ds, one)
    BY <2>6, FillBoth
  <2>3. /\ Finite(Fill(h, ds, s)) /\ Finite(Fill(h, ds, one))
        /\ Filled(Fill(h, ds, one), g) = IF g = h THEN 1 ELSE 0
    BY <2>6, <2>7, FillFinite
  <2>4. Filled(Fill(h, ds, Append(s, v)), g) = Filled(Fill(h, ds, s), g) + Filled(Fill(h, ds, one), g)
    BY <2>2, <2>3, FilledSum
  <2> QED
    BY <2>1, <2>3, <2>4, <2>5
<1> HIDE DEF T
<1>3. Seq(V) \subseteq T
  BY <1>1, <1>2, FromNone
<1> QED
  BY <1>3 DEF T

\* What is counted and held of a sum,
LEMMA SumHolds ==
  ASSUME NEW a, NEW b, Finite(a), Finite(b)
  PROVE  /\ Finite(a (+) b)
         /\ \A k : Reached(a (+) b, k) = Reached(a, k) + Reached(b, k)
         /\ \A h : Filled(a (+) b, h) = Filled(a, h) + Filled(b, h)
BY FilledSum, ReachedSum DEF Finite

\* of a counter,
LEMMA CountHolds ==
  ASSUME NEW key, NEW n \in Nat
  PROVE  /\ Finite(Count(key, n))
         /\ \A k : Reached(Count(key, n), k) = IF k = key THEN n ELSE 0
         /\ \A h : Filled(Count(key, n), h) = 0
<1>1. \A k : <<k>> = <<key>> <=> k = key
  OBVIOUS
<1> QED
  BY <1>1, CountAmount, FilledNone, ReachedAmount

\* and of a histogram.
LEMMA FillHolds ==
  ASSUME NEW V, NEW values \in Seq(V), NEW h, NEW ds
  PROVE  /\ Finite(Fill(h, ds, values))
         /\ \A k : Reached(Fill(h, ds, values), k) = 0
         /\ \A g : Filled(Fill(h, ds, values), g) = IF g = h THEN Len(values) ELSE 0
BY FillFinite, FilledLen, ReachedAmount

\* Rows that are as long as each other are as long together.
LEMMA SameRows ==
  ASSUME NEW V, NEW W
  PROVE  \A x \in Seq(Seq(V)), y \in Seq(Seq(W)) :
           Len(x) = Len(y) /\ (\A i \in 1..Len(x) : Len(x[i]) = Len(y[i]))
             => Len(FlattenSeq(x)) = Len(FlattenSeq(y))
<1> DEFINE Same(x, y) == Len(x) = Len(y) /\ \A i \in 1..Len(x) : Len(x[i]) = Len(y[i])
           T == {n \in Nat : \A x \in Seq(Seq(V)), y \in Seq(Seq(W)) :
                   Len(x) = n /\ Same(x, y) => Len(FlattenSeq(x)) = Len(FlattenSeq(y))}
<1>1. 0 \in T
  <2>1. \A x \in Seq(Seq(V)), y \in Seq(Seq(W)) :
          Len(x) = 0 /\ Len(x) = Len(y) => x = <<>> /\ y = <<>>
    OBVIOUS
  <2> QED
    BY <2>1
<1>2. ASSUME NEW n \in Nat, n \in T PROVE n + 1 \in T
  <2> SUFFICES ASSUME NEW x \in Seq(Seq(V)), NEW y \in Seq(Seq(W)), Len(x) = n + 1, Same(x, y)
               PROVE  Len(FlattenSeq(x)) = Len(FlattenSeq(y))
    OBVIOUS
  <2>1. PICK p \in Seq(Seq(V)), r \in Seq(V) : x = Append(p, r) /\ Len(p) = n
    BY LastOff
  <2>2. PICK q \in Seq(Seq(W)), t \in Seq(W) : y = Append(q, t) /\ Len(q) = n
    BY LastOff
  <2>3. Len(r) = Len(t) /\ Same(p, q)
    <3>1. /\ Append(p, r)[n + 1] = r /\ \A i \in 1..n : Append(p, r)[i] = p[i]
          /\ Append(q, t)[n + 1] = t /\ \A i \in 1..n : Append(q, t)[i] = q[i]
      BY <2>1, <2>2
    <3>2. \A i \in 1..(n + 1) : Len(x[i]) = Len(y[i])
      OBVIOUS
    <3>3. n + 1 \in 1..(n + 1) /\ \A i \in 1..n : i \in 1..(n + 1)
      OBVIOUS
    <3> HIDE DEF T
    <3> QED
      BY <2>1, <2>2, <3>1, <3>2, <3>3
  <2>4. Len(FlattenSeq(p)) = Len(FlattenSeq(q))
    BY <1>2, <2>1, <2>2, <2>3
  <2> HIDE DEF T, Same
  <2>5. FlattenSeq(p) \in Seq(V) /\ FlattenSeq(q) \in Seq(W)
    BY FlattenType
  <2>6. FlattenSeq(x) = FlattenSeq(p) \o r /\ FlattenSeq(y) = FlattenSeq(q) \o t
    BY <2>1, <2>2, <2>5, FlattenAppend
  <2>7. /\ Len(FlattenSeq(p) \o r) = Len(FlattenSeq(p)) + Len(r)
        /\ Len(FlattenSeq(q) \o t) = Len(FlattenSeq(q)) + Len(t)
    BY <2>5
  <2> QED
    BY <2>3, <2>4, <2>6, <2>7
<1> HIDE DEF T
<1>3. Nat \subseteq T
  BY <1>1, <1>2, FromZero
<1>4. \A x \in Seq(Seq(V)) : Len(x) \in Nat
  OBVIOUS
<1> QED
  BY <1>3, <1>4 DEF T

\* A mask leaves as many of one array as of another.
LEMMA SameMask ==
  ASSUME NEW V, NEW W, NEW s \in Seq(V), NEW t \in Seq(W), Len(s) = Len(t), NEW keep
  PROVE  Len(Mask(s, keep)) = Len(Mask(t, keep))
<1> DEFINE x == [i \in DOMAIN s |-> IF keep[i] THEN <<s[i]>> ELSE <<>>]
           y == [i \in DOMAIN t |-> IF keep[i] THEN <<t[i]>> ELSE <<>>]
<1>1. /\ DOMAIN s = 1..Len(s) /\ DOMAIN t = 1..Len(s) /\ Len(s) \in Nat
  OBVIOUS
<1>2. \A i \in 1..Len(s) : /\ (IF keep[i] THEN <<s[i]>> ELSE <<>>) \in Seq(V)
                           /\ (IF keep[i] THEN <<t[i]>> ELSE <<>>) \in Seq(W)
  BY <1>1
<1>3. /\ x \in Seq(Seq(V)) /\ y \in Seq(Seq(W)) /\ Len(x) = Len(s) /\ Len(y) = Len(s)
  BY <1>1, <1>2
<1>4. \A i \in 1..Len(s) : Len(x[i]) = Len(y[i])
  <2> TAKE i \in 1..Len(s)
  <2>1. /\ x[i] = IF keep[i] THEN <<s[i]>> ELSE <<>>
        /\ y[i] = IF keep[i] THEN <<t[i]>> ELSE <<>>
    BY <1>1
  <2>2. Len(<<s[i]>>) = 1 /\ Len(<<t[i]>>) = 1
    OBVIOUS
  <2> HIDE DEF x, y
  <2> QED
    BY <2>1, <2>2
<1> HIDE DEF x, y
<1>5. Len(FlattenSeq(x)) = Len(FlattenSeq(y))
  BY <1>3, <1>4, SameRows
<1> QED
  BY <1>5 DEF Mask, x, y

\* Accumulators whose counters agree, after postprocess, over n chunks.
Keyed(b) == \A k \in DOMAIN b : Len(k) = 1 \/ (Len(k) = 3 /\ k = <<k[1], k[2], k[3]>>)
Good(q, b, n) == Finite(b) /\ (q = "tHq" => Keyed(b)) /\ Agrees(q, PostOf(q, b), n)

\* The counters of the notebooks.
LEMMA Agreement ==
  ASSUME NEW b, NEW n
  PROVE  LET reached(key) == Reached(b, key)
             filled(h) == Filled(b, h)
         IN  /\ Agrees("example1", b, n) <=> reached("number of chunks") = n
             /\ Agrees("example3", b, n) <=>
                  /\ reached("abs(eta) < 1") = reached("final good jets")
                  /\ reached("final good jets") = filled("Jet_pt")
             /\ Agrees("example4", b, n) <=> reached("final events") = filled("MET_pt")
             /\ Agrees("example5", b, n) <=> reached("final events") = filled("MET")
             /\ Agrees("example7", b, n) <=> reached("final jets") = reached("jet-lepton pairs")
             /\ \A q \in {"example2", "example6", "zpeak", "ttbar", "tutorial", "template"} :
                  Agrees(q, b, n)
BY DEF Agrees

\* example1: a chunk for every chunk.
LEMMA Example1Agrees ==
  ASSUME NEW E, NEW s \in Seq(E), NEW ds
  PROVE  Good("example1", Example1(ds, s), 1)
<1> DEFINE k1 == "all events"
           k2 == "number of chunks"
           h == "MET"
           all == Count(k1, Len(s))
           one == Count(k2, 1)
           met == Fill(h, ds, Each(s, LAMBDA e : e.met))
<1>1. Example1(ds, s) = all (+) one (+) met
  BY DEF Example1
<1>2. Len(s) \in Nat /\ 1 \in Nat /\ Each(s, LAMBDA e : e.met) \in Seq({e.met : e \in E})
  BY DEF Each
<1>3. k1 # k2
  OBVIOUS
<1> HIDE DEF k1, k2, h
<1>4. /\ Finite(all) /\ Finite(one) /\ Finite(met)
      /\ Reached(all, k2) = 0 /\ Reached(one, k2) = 1 /\ Reached(met, k2) = 0
  BY <1>2, <1>3, CountHolds, FillHolds
<1> HIDE DEF all, one, met
<1>5. Finite(all (+) one) /\ Reached(all (+) one, k2) = 1
  BY <1>4, SumHolds
<1>6. Finite(all (+) one (+) met) /\ Reached(all (+) one (+) met, k2) = 1
  BY <1>4, <1>5, SumHolds
<1> QED
  BY <1>1, <1>6, Agreement DEF Good, PostOf, k2

\* example3: the mask and what it leaves.
LEMMA Example3Agrees ==
  ASSUME NEW E, NEW J, NEW L, Readable(E, J, L), NEW e \in E, NEW ds
  PROVE  Good("example3", Example3(ds, <<e>>), 0)
<1> DEFINE m == Each(e.jets, LAMBDA j : Abs(j.eta) < 1000)
           left == Mask(e.jets, m)
           k1 == "abs(eta) < 1"
           k2 == "final good jets"
           k3 == "all events"
           k4 == "number of jets"
           h == "Jet_pt"
           all == Count(k3, Len(<<e>>))
           jets == Count(k4, Len(FlattenSeq(<<e.jets>>)))
           mask == Count(k1, Len(FlattenSeq(<<Mask(m, m)>>)))
           good == Count(k2, Len(FlattenSeq(<<left>>)))
           pts == Fill(h, ds, Each(FlattenSeq(<<left>>), LAMBDA j : j.pt))
<1>1. Example3(ds, <<e>>) = all (+) jets (+) mask (+) good (+) pts
  <2>1. Each(<<e>>, LAMBDA x : Each(x.jets, LAMBDA j : Abs(j.eta) < 1000)) = <<m>>
    BY DEF Each
  <2> HIDE DEF m
  <2>2. NumOf(<<m>>, LAMBDA x : Mask(x, x)) = Len(FlattenSeq(<<Mask(m, m)>>))
    BY DEF NumOf, Each
  <2>3. [i \in DOMAIN <<e>> |-> Mask(<<e>>[i].jets, <<m>>[i])] = <<left>>
    OBVIOUS
  <2>4. NumOf(<<e>>, LAMBDA x : x.jets) = Len(FlattenSeq(<<e.jets>>))
    BY DEF NumOf, Each
  <2> HIDE DEF left
  <2>5. NumOf(<<left>>, LAMBDA js : js) = Len(FlattenSeq(<<left>>))
    BY DEF NumOf, Each
  <2>6. Example3(ds, <<e>>)
          = LET eta_max == Each(<<e>>, LAMBDA x : Each(x.jets, LAMBDA j : Abs(j.eta) < 1000))
                good_jets == [i \in DOMAIN <<e>> |-> Mask(<<e>>[i].jets, eta_max[i])]
            IN  Count("all events", Len(<<e>>))
                (+) Count("number of jets", NumOf(<<e>>, LAMBDA x : x.jets))
                (+) Count("abs(eta) < 1", NumOf(eta_max, LAMBDA x : Mask(x, x)))
                (+) Count("final good jets", NumOf(good_jets, LAMBDA js : js))
                (+) Fill("Jet_pt", ds, Each(FlattenSeq(good_jets), LAMBDA j : j.pt))
    BY DEF Example3
  <2> QED
    BY <2>1, <2>2, <2>3, <2>4, <2>5, <2>6
<1>2. /\ e.jets \in Seq(J) /\ m \in Seq({Abs(j.eta) < 1000 : j \in J}) /\ Len(m) = Len(e.jets)
  BY DEF Readable, Each
<1>3. k1 # k2 /\ k1 # k3 /\ k2 # k3 /\ k1 # k4 /\ k2 # k4
  OBVIOUS
<1> HIDE DEF m, k1, k2, k3, k4, h
<1>4. /\ left \in Seq(J) /\ Mask(m, m) \in Seq({Abs(j.eta) < 1000 : j \in J})
      /\ Len(Mask(m, m)) = Len(left)
  BY <1>2, WhereType, SameMask
<1> HIDE DEF left
<1>5. /\ FlattenSeq(<<e.jets>>) = e.jets /\ FlattenSeq(<<Mask(m, m)>>) = Mask(m, m)
      /\ FlattenSeq(<<left>>) = left
  BY <1>2, <1>4, FlattenOne
<1>6. /\ Each(left, LAMBDA j : j.pt) \in Seq({j.pt : j \in J})
      /\ Len(Each(left, LAMBDA j : j.pt)) = Len(left)
      /\ Len(left) \in Nat /\ Len(e.jets) \in Nat /\ Len(<<e>>) \in Nat
  BY <1>2, <1>4 DEF Each
<1>7. /\ Finite(all) /\ Reached(all, k1) = 0 /\ Reached(all, k2) = 0 /\ Filled(all, h) = 0
      /\ Finite(jets) /\ Reached(jets, k1) = 0 /\ Reached(jets, k2) = 0 /\ Filled(jets, h) = 0
  BY <1>3, <1>5, <1>6, CountHolds
<1>8. /\ Finite(mask) /\ Reached(mask, k1) = Len(left) /\ Reached(mask, k2) = 0
      /\ Filled(mask, h) = 0
  BY <1>3, <1>4, <1>5, <1>6, CountHolds
<1>9. /\ Finite(good) /\ Reached(good, k1) = 0 /\ Reached(good, k2) = Len(left)
      /\ Filled(good, h) = 0
  BY <1>3, <1>5, <1>6, CountHolds
<1>10. /\ Finite(pts) /\ Reached(pts, k1) = 0 /\ Reached(pts, k2) = 0
       /\ Filled(pts, h) = Len(left)
  BY <1>5, <1>6, FillHolds
<1> HIDE DEF all, jets, mask, good, pts
<1> DEFINE two == all (+) jets
           four == two (+) mask (+) good
           b == four (+) pts
<1>11. Finite(two) /\ Reached(two, k1) = 0 /\ Reached(two, k2) = 0 /\ Filled(two, h) = 0
  BY <1>7, SumHolds
<1> HIDE DEF two
<1>12. /\ Finite(four) /\ Reached(four, k1) = Len(left) /\ Reached(four, k2) = Len(left)
       /\ Filled(four, h) = 0
  BY <1>6, <1>8, <1>9, <1>11, SumHolds
<1> HIDE DEF four
<1>13. /\ Finite(b) /\ Reached(b, k1) = Len(left) /\ Reached(b, k2) = Len(left)
       /\ Filled(b, h) = Len(left)
  BY <1>6, <1>10, <1>12, SumHolds
<1>14. Example3(ds, <<e>>) = b
  BY <1>1 DEF four, two
<1> HIDE DEF b
<1> QED
  BY <1>13, <1>14, Agreement DEF Good, PostOf, k1, k2, h

\* example4 and example5: an entry for every final event.
LEMMA FinalEvents ==
  ASSUME NEW rest, Finite(rest), NEW E, NEW good \in Seq(E), NEW k, NEW h, NEW ds,
         Reached(rest, k) = 0, Filled(rest, h) = 0
  PROVE  LET b == rest (+) Count(k, Len(good)) (+) Fill(h, ds, Each(good, LAMBDA e : e.met))
         IN  Finite(b) /\ Reached(b, k) = Filled(b, h)
<1> DEFINE num == Count(k, Len(good))
           met == Fill(h, ds, Each(good, LAMBDA e : e.met))
<1>1. /\ Each(good, LAMBDA e : e.met) \in Seq({e.met : e \in E}) /\ Len(good) \in Nat
      /\ Len(Each(good, LAMBDA e : e.met)) = Len(good)
  BY DEF Each
<1>2. Finite(num) /\ Reached(num, k) = Len(good) /\ Filled(num, h) = 0
  BY <1>1, CountHolds
<1>3. Finite(met) /\ Reached(met, k) = 0 /\ Filled(met, h) = Len(good)
  BY <1>1, FillHolds
<1> HIDE DEF num, met
<1>4. /\ Finite(rest (+) num) /\ Reached(rest (+) num, k) = Len(good)
      /\ Filled(rest (+) num, h) = 0
  BY <1>1, <1>2, SumHolds
<1>5. /\ Finite(rest (+) num (+) met) /\ Reached(rest (+) num (+) met, k) = Len(good)
      /\ Filled(rest (+) num (+) met, h) = Len(good)
  BY <1>1, <1>3, <1>4, SumHolds
<1> QED
  BY <1>5 DEF num, met

\* example4: the events with two jets above 40.
LEMMA Example4Agrees ==
  ASSUME NEW E, NEW s \in Seq(E), NEW ds
  PROVE  Good("example4", Example4(ds, s), 0)
<1> DEFINE k == "final events"
           k1 == "all events"
           h == "MET_pt"
           keep == Each(s, LAMBDA e : Len(Where(e.jets, LAMBDA j : j.pt > 40)) >= 2)
           good == Mask(s, keep)
           rest == Count(k1, Len(s))
           b == rest (+) Count(k, Len(good)) (+) Fill(h, ds, Each(good, LAMBDA e : e.met))
<1>1. Example4(ds, s) = b
  BY DEF Example4, Where
<1>2. k # k1
  OBVIOUS
<1> HIDE DEF k, k1, h, keep
<1>3. good \in Seq(E) /\ Len(s) \in Nat
  BY WhereType
<1>4. Finite(rest) /\ Reached(rest, k) = 0 /\ Filled(rest, h) = 0
  BY <1>2, <1>3, CountHolds
<1> HIDE DEF good, rest
<1>5. Finite(b) /\ Reached(b, k) = Filled(b, h)
  BY <1>3, <1>4, FinalEvents
<1> HIDE DEF b
<1> QED
  BY <1>1, <1>5, Agreement DEF Good, PostOf, k, h

\* example5: the events with a good pair of muons.
LEMMA Example5Agrees ==
  ASSUME NEW E, NEW J, NEW L, Readable(E, J, L), NEW e \in E, NEW ds
  PROVE  Good("example5", Example5(ds, <<e>>), 0)
<1> DEFINE k == "final events"
           k1 == "all events"
           k2 == "all muons"
           h == "MET"
           pair(x) == Where(Pairs(x.muons), LAMBDA p : /\ p[1].charge # p[2].charge
                                                      /\ MassOf(p) >= 6000
                                                      /\ MassOf(p) < 12000)
           keep == Each(<<e>>, LAMBDA x : Len(pair(x)) >= 1)
           good == Mask(<<e>>, keep)
           rest == Count(k1, Len(<<e>>)) (+) Count(k2, Len(FlattenSeq(<<e.muons>>)))
           b == rest (+) Count(k, Len(good)) (+) Fill(h, ds, Each(good, LAMBDA x : x.met))
<1>1. Example5(ds, <<e>>) = b
  <2>1. NumOf(<<e>>, LAMBDA x : x.muons) = Len(FlattenSeq(<<e.muons>>))
    BY DEF NumOf, Each
  <2>2. Example5(ds, <<e>>)
          = LET g == Where(<<e>>, LAMBDA x : Len(pair(x)) >= 1)
            IN  Count("all events", Len(<<e>>))
                (+) Count("all muons", NumOf(<<e>>, LAMBDA x : x.muons))
                (+) Count("final events", Len(g))
                (+) Fill("MET", ds, Each(g, LAMBDA x : x.met))
    BY DEF Example5
  <2>3. Where(<<e>>, LAMBDA x : Len(pair(x)) >= 1) = good
    BY DEF Where
  <2> HIDE DEF pair, good
  <2> QED
    BY <2>1, <2>2, <2>3
<1>2. k # k1 /\ k # k2
  OBVIOUS
<1> HIDE DEF k, k1, k2, h, keep
<1>3. good \in Seq(E) /\ Len(<<e>>) \in Nat /\ Len(FlattenSeq(<<e.muons>>)) \in Nat
  <2>1. <<e>> \in Seq(E) /\ e.muons \in Seq(L)
    BY DEF Readable
  <2>2. FlattenSeq(<<e.muons>>) = e.muons
    BY <2>1, FlattenOne
  <2>3. good \in Seq(E)
    BY <2>1, WhereType
  <2> HIDE DEF good
  <2> QED
    BY <2>1, <2>2, <2>3
<1>4. /\ Finite(Count(k1, Len(<<e>>))) /\ Reached(Count(k1, Len(<<e>>)), k) = 0
      /\ Filled(Count(k1, Len(<<e>>)), h) = 0
  BY <1>2, <1>3, CountHolds
<1>5. /\ Finite(Count(k2, Len(FlattenSeq(<<e.muons>>))))
      /\ Reached(Count(k2, Len(FlattenSeq(<<e.muons>>))), k) = 0
      /\ Filled(Count(k2, Len(FlattenSeq(<<e.muons>>))), h) = 0
  BY <1>2, <1>3, CountHolds
<1>6. Finite(rest) /\ Reached(rest, k) = 0 /\ Filled(rest, h) = 0
  BY <1>4, <1>5, SumHolds
<1> HIDE DEF good, rest
<1>7. Finite(b) /\ Reached(b, k) = Filled(b, h)
  BY <1>3, <1>6, FinalEvents
<1> HIDE DEF b
<1> QED
  BY <1>1, <1>7, Agreement DEF Good, PostOf, k, h

\* A counter of the elements of a row.
LEMMA RowHolds ==
  ASSUME NEW V, NEW row \in Seq(V), NEW key
  PROVE  LET num == Count(key, Len(FlattenSeq(<<row>>)))
         IN  /\ Finite(num)
             /\ \A k : Reached(num, k) = IF k = key THEN Len(row) ELSE 0
<1>1. FlattenSeq(<<row>>) = row /\ Len(row) \in Nat
  BY FlattenOne
<1> QED
  BY <1>1, CountHolds

\* The nearest lepton of each kind is none's: an event with a jet above 30 has a muon and
\* an electron above 10.
BothKinds(E) ==
  \A e \in E :
    \/ Where(e.jets, LAMBDA j : j.pt > 30) = <<>>
    \/ /\ Where(e.muons, LAMBDA l : l.pt > 10) # <<>>
       /\ Where(e.electrons, LAMBDA l : l.pt > 10) # <<>>

\* example7: then no element of the mask is None.
LEMMA Example7Agrees ==
  ASSUME NEW E, NEW J, NEW L, Readable(E, J, L), BothKinds(E), NEW e \in E, NEW ds
  PROVE  Good("example7", Example7(ds, <<e>>), 0)
<1> DEFINE good(x) == Where(x.jets, LAMBDA j : j.pt > 30)
           above10(ls) == Where(ls, LAMBDA l : l.pt > 10)
           jm(x) == Each(good(x), LAMBDA j : FarFrom(j, above10(x.muons)))
           je(x) == Each(good(x), LAMBDA j : FarFrom(j, above10(x.electrons)))
           jl(x) == [i \in DOMAIN good(x) |-> Both(jm(x)[i], je(x)[i])]
           true(mask) == Where(mask, LAMBDA m : m = "T")
           far(mask) == Where(mask, LAMBDA m : m # "F")
           sumjets(x) == PtOf(Mask(good(x), Each(jl(x), LAMBDA m : m = "T")))
           Truth == {"T", "F", "None"}
           k1 == "all events"
           k2 == "all jets"
           k3 == "jets with pt > 30"
           k4 == "muons with pt > 10"
           k5 == "electrons with pt > 10"
           k6 == "jet-muon pairs"
           k7 == "jet-electron pairs"
           k8 == "jet-lepton pairs"
           k9 == "final jets"
           h == "Jet_pt"
           num(k, row) == Count(k, Len(FlattenSeq(<<row>>)))
<1>1. Example7(ds, <<e>>)
        = Count(k1, Len(<<e>>)) (+) num(k2, e.jets) (+) num(k3, good(e))
            (+) num(k4, above10(e.muons)) (+) num(k5, above10(e.electrons))
            (+) num(k6, true(jm(e))) (+) num(k7, true(je(e))) (+) num(k8, true(jl(e)))
            (+) num(k9, far(jl(e))) (+) Fill(h, ds, <<sumjets(e)>>)
  <2>1. Example7(ds, <<e>>)
          = Count(k1, Len(<<e>>)) (+) Count(k2, NumOf(<<e>>, LAMBDA x : x.jets))
              (+) Count(k3, NumOf(<<e>>, good))
              (+) Count(k4, NumOf(<<e>>, LAMBDA x : above10(x.muons)))
              (+) Count(k5, NumOf(<<e>>, LAMBDA x : above10(x.electrons)))
              (+) Count(k6, NumOf(<<e>>, LAMBDA x : true(jm(x))))
              (+) Count(k7, NumOf(<<e>>, LAMBDA x : true(je(x))))
              (+) Count(k8, NumOf(<<e>>, LAMBDA x : true(jl(x))))
              (+) Count(k9, NumOf(<<e>>, LAMBDA x : far(jl(x))))
              (+) Fill(h, ds, Each(<<e>>, sumjets))
    BY DEF Example7
  <2> HIDE DEF good, above10, jm, je, jl, true, far, sumjets, k1, k2, k3, k4, k5, k6, k7, k8, k9, h
  <2>2. /\ NumOf(<<e>>, LAMBDA x : x.jets) = Len(FlattenSeq(<<e.jets>>))
        /\ NumOf(<<e>>, good) = Len(FlattenSeq(<<good(e)>>))
        /\ NumOf(<<e>>, LAMBDA x : above10(x.muons)) = Len(FlattenSeq(<<above10(e.muons)>>))
        /\ NumOf(<<e>>, LAMBDA x : above10(x.electrons)) = Len(FlattenSeq(<<above10(e.electrons)>>))
    BY DEF NumOf, Each
  <2>3. /\ NumOf(<<e>>, LAMBDA x : true(jm(x))) = Len(FlattenSeq(<<true(jm(e))>>))
        /\ NumOf(<<e>>, LAMBDA x : true(je(x))) = Len(FlattenSeq(<<true(je(e))>>))
        /\ NumOf(<<e>>, LAMBDA x : true(jl(x))) = Len(FlattenSeq(<<true(jl(e))>>))
        /\ NumOf(<<e>>, LAMBDA x : far(jl(x))) = Len(FlattenSeq(<<far(jl(e))>>))
        /\ Each(<<e>>, sumjets) = <<sumjets(e)>>
    BY DEF NumOf, Each
  <2> QED
    BY <2>1, <2>2, <2>3
<1>2. /\ e.jets \in Seq(J) /\ good(e) \in Seq(J)
      /\ above10(e.muons) \in Seq(L) /\ above10(e.electrons) \in Seq(L)
  <2>1. e.jets \in Seq(J) /\ e.muons \in Seq(L) /\ e.electrons \in Seq(L)
    BY DEF Readable
  <2> QED
    BY <2>1, WhereType DEF Where
<1>3. good(e) = <<>> \/ (above10(e.muons) # <<>> /\ above10(e.electrons) # <<>>)
  BY DEF BothKinds
<1> HIDE DEF good, above10
<1>4. /\ jm(e) \in Seq(Truth) /\ je(e) \in Seq(Truth) /\ jl(e) \in Seq(Truth)
      /\ \A i \in DOMAIN jl(e) : jl(e)[i] # "None"
  <2>1. /\ \A j, ls : FarFrom(j, ls) \in Truth /\ (ls # <<>> => FarFrom(j, ls) # "None")
        /\ \A a, b : Both(a, b) \in Truth /\ (a \in Truth /\ b \in Truth /\ a # "None" /\ b # "None" => Both(a, b) # "None")
    BY DEF FarFrom, Both
  <2>2. DOMAIN good(e) = 1..Len(good(e)) /\ Len(good(e)) \in Nat
    BY <1>2
  <2>3. \A i \in 1..Len(good(e)) : jm(e)[i] \in Truth /\ je(e)[i] \in Truth /\ jm(e)[i] # "None" /\ je(e)[i] # "None"
    <3> TAKE i \in 1..Len(good(e))
    <3>1. /\ jm(e)[i] = FarFrom(good(e)[i], above10(e.muons))
          /\ je(e)[i] = FarFrom(good(e)[i], above10(e.electrons))
      BY <2>2 DEF Each
    <3>2. good(e) # <<>>
      OBVIOUS
    <3> HIDE DEF jm, je, Truth
    <3> QED
      BY <1>3, <2>1, <3>1, <3>2
  <2>4. /\ jm(e) = [i \in 1..Len(good(e)) |-> jm(e)[i]]
        /\ je(e) = [i \in 1..Len(good(e)) |-> je(e)[i]]
    BY <2>2 DEF Each
  <2>5. jl(e) = [i \in 1..Len(good(e)) |-> jl(e)[i]] /\ DOMAIN jl(e) = 1..Len(good(e))
    BY <2>2
  <2>6. \A i \in 1..Len(good(e)) : jl(e)[i] \in Truth /\ jl(e)[i] # "None"
    <3> TAKE i \in 1..Len(good(e))
    <3>1. jl(e)[i] = Both(jm(e)[i], je(e)[i])
      BY <2>2
    <3> HIDE DEF jm, je, jl, Truth
    <3> QED
      BY <2>1, <2>3, <3>1
  <2> HIDE DEF jm, je, jl, Truth
  <2> QED
    BY <2>2, <2>3, <2>4, <2>5, <2>6, MadeOf
<1> HIDE DEF jm, je, jl
<1>5. true(jl(e)) = far(jl(e))
  <2>1. Each(jl(e), LAMBDA m : m = "T") = Each(jl(e), LAMBDA m : m # "F")
    <3>1. \A i \in DOMAIN jl(e) : (jl(e)[i] = "T") <=> (jl(e)[i] # "F")
      BY <1>4
    <3>2. \A i \in DOMAIN jl(e) : (jl(e)[i] = "T") = (jl(e)[i] # "F")
      BY <3>1, Zenon
    <3> QED
      BY <3>2, Zenon DEF Each
  <2> QED
    BY <2>1, Zenon DEF Where
<1>6. /\ true(jm(e)) \in Seq(Truth) /\ true(je(e)) \in Seq(Truth) /\ true(jl(e)) \in Seq(Truth)
  BY <1>4, WhereType DEF Where
<1>7. k9 \notin {k1, k2, k3, k4, k5, k6, k7, k8} /\ k8 \notin {k1, k2, k3, k4, k5, k6, k7, k9}
  OBVIOUS
<1> DEFINE t == true(jl(e))
           w == sumjets(e)
           ev == Count(k1, Len(<<e>>))
           c2 == num(k2, e.jets)
           c3 == num(k3, good(e))
           c4 == num(k4, above10(e.muons))
           c5 == num(k5, above10(e.electrons))
           c6 == num(k6, true(jm(e)))
           c7 == num(k7, true(je(e)))
           c8 == num(k8, t)
           c9 == num(k9, t)
           pt == Fill(h, ds, <<w>>)
<1>8. Example7(ds, <<e>>) = ev (+) c2 (+) c3 (+) c4 (+) c5 (+) c6 (+) c7 (+) c8 (+) c9 (+) pt
  BY <1>1, <1>5
<1> HIDE DEF true, far, sumjets, Truth, k1, k2, k3, k4, k5, k6, k7, k8, k9, h, t, w
<1>11. /\ Finite(ev) /\ Reached(ev, k8) = 0 /\ Reached(ev, k9) = 0
  <2>1. Len(<<e>>) = 1 /\ 1 \in Nat
    OBVIOUS
  <2> QED
    BY <1>7, <2>1, CountHolds
<1>12. Finite(pt) /\ Reached(pt, k8) = 0 /\ Reached(pt, k9) = 0
  <2>1. <<w>> \in Seq({w})
    OBVIOUS
  <2> QED
    BY <2>1, FillHolds
<1>13. /\ Finite(c2) /\ Reached(c2, k8) = 0 /\ Reached(c2, k9) = 0
       /\ Finite(c3) /\ Reached(c3, k8) = 0 /\ Reached(c3, k9) = 0
       /\ Finite(c4) /\ Reached(c4, k8) = 0 /\ Reached(c4, k9) = 0
       /\ Finite(c5) /\ Reached(c5, k8) = 0 /\ Reached(c5, k9) = 0
  BY <1>2, <1>7, RowHolds
<1>14. /\ Finite(c6) /\ Reached(c6, k8) = 0 /\ Reached(c6, k9) = 0
       /\ Finite(c7) /\ Reached(c7, k8) = 0 /\ Reached(c7, k9) = 0
  BY <1>6, <1>7, RowHolds
<1>20. t \in Seq(Truth) /\ Len(t) \in Nat /\ k8 # k9
  BY <1>6, <1>7 DEF t
<1>21. /\ Finite(c8) /\ Reached(c8, k8) = Len(t) /\ Reached(c8, k9) = 0
       /\ Finite(c9) /\ Reached(c9, k8) = 0 /\ Reached(c9, k9) = Len(t)
  BY <1>20, RowHolds
<1> HIDE DEF ev, c2, c3, c4, c5, c6, c7, c8, c9, pt
<1> DEFINE b1 == ev (+) c2 (+) c3
           b2 == b1 (+) c4 (+) c5
           b3 == b2 (+) c6 (+) c7
           b == b3 (+) c8 (+) c9 (+) pt
<1>15. Finite(b1) /\ Reached(b1, k8) = 0 /\ Reached(b1, k9) = 0
  BY <1>11, <1>13, SumHolds
<1> HIDE DEF b1
<1>16. Finite(b2) /\ Reached(b2, k8) = 0 /\ Reached(b2, k9) = 0
  BY <1>13, <1>15, SumHolds
<1> HIDE DEF b2
<1>17. Finite(b3) /\ Reached(b3, k8) = 0 /\ Reached(b3, k9) = 0
  BY <1>14, <1>16, SumHolds
<1> HIDE DEF b3
<1>18. Finite(b) /\ Reached(b, k8) = Len(t) /\ Reached(b, k9) = Len(t)
  BY <1>12, <1>17, <1>20, <1>21, SumHolds
<1>19. Example7(ds, <<e>>) = b
  BY <1>8 DEF b1, b2, b3
<1> HIDE DEF b
<1> QED
  BY <1>18, <1>19, Agreement DEF Good, PostOf, k8, k9

-----------------------------------------------------------------------------
(* Postprocess *)

\* The groups a dataset is in,
GroupsOf(ds) == {g \in DOMAIN Groups : ds \in Groups[g]}
\* of which there are finitely many.
LEMMA GroupsFinite ==
  ASSUME NEW ds PROVE IsFiniteSet(GroupsOf(ds)) /\ Cardinality(GroupsOf(ds)) \in Nat
<1>1. IsFiniteSet({"tHq", "tHW", "ttW"}) /\ IsFiniteSet({"ttZ", "ttH", "WZ"})
      /\ IsFiniteSet({"ZZ", "VVV", "tttt"}) /\ IsFiniteSet({"WpWp"})
  <2>1. \A a, b, c : IsFiniteSet({a, b, c})
    <3> TAKE a, b, c
    <3>1. IsFiniteSet({a}) /\ IsFiniteSet({b}) /\ IsFiniteSet({c})
      BY FS_Singleton
    <3>2. IsFiniteSet({a} \cup {b}) /\ {a, b} = {a} \cup {b}
      BY <3>1, FS_Union
    <3>3. IsFiniteSet({a, b} \cup {c}) /\ {a, b, c} = {a, b} \cup {c}
      BY <3>1, <3>2, FS_Union
    <3> QED
      BY <3>3
  <2> QED
    BY <2>1, FS_Singleton
<1>2. IsFiniteSet({"tHq", "tHW", "ttW"} \cup {"ttZ", "ttH", "WZ"}
                  \cup {"ZZ", "VVV", "tttt"} \cup {"WpWp"})
  BY <1>1, FS_Union
<1>3. GroupsOf(ds) \subseteq {"tHq", "tHW", "ttW"} \cup {"ttZ", "ttH", "WZ"}
                             \cup {"ZZ", "VVV", "tttt"} \cup {"WpWp"}
  <2>1. DOMAIN Groups = {"tHq", "tHW", "ttW", "ttZ", "ttH", "WZ", "ZZ", "VVV", "tttt", "WpWp"}
    BY DEF Groups
  <2> QED
    BY <2>1 DEF GroupsOf
<1> QED
  BY <1>2, <1>3, FS_Subset, FS_CardinalityType

\* Accumulators with counters and histogram entries.
Plain(b) == Finite(b) /\ Keyed(b)

\* An entry of a group is a dataset's.
LEMMA OriginOf ==
  ASSUME NEW key, Len(key) = 1 \/ (Len(key) = 3 /\ key = <<key[1], key[2], key[3]>>)
  PROVE  \A entry \in Grouped(key) : Origin(entry) = key
<1>1. CASE Len(key) = 1
  BY <1>1 DEF Grouped, Origin
<1>2. CASE Len(key) # 1
  <2> SUFFICES ASSUME NEW entry \in Grouped(key) PROVE Origin(entry) = key
    OBVIOUS
  <2>1. PICK g : entry = <<key[1], <<g, key[2]>>, key[3]>>
    BY <1>2 DEF Grouped
  <2>2. Len(entry) = 3 /\ entry[1] = key[1] /\ entry[2][2] = key[2] /\ entry[3] = key[3]
    BY <2>1
  <2> QED
    BY <1>2, <2>2 DEF Origin
<1> QED
  BY <1>1, <1>2

\* What postprocess makes of an accumulator.
LEMMA PostAmount ==
  ASSUME NEW b, Plain(b)
  PROVE  /\ Finite(PostSignal(b))
         /\ \A k : Amount(PostSignal(b), k)
                     = IF k \in Grouped(Origin(k)) THEN Amount(b, Origin(k)) ELSE 0
<1> DEFINE P == PostSignal(b)
           S == {Grouped(key) : key \in DOMAIN b}
           f == [key \in DOMAIN b |-> Grouped(key)]
<1>1. /\ DOMAIN P = UNION S /\ \A k \in DOMAIN P : P[k] = b[Origin(k)]
      /\ P = [k \in DOMAIN P |-> P[k]]
  BY DEF PostSignal
<1>2. \A k : k \in DOMAIN P <=> Origin(k) \in DOMAIN b /\ k \in Grouped(Origin(k))
  <2>1. \A key \in DOMAIN b : \A k \in Grouped(key) : Origin(k) = key
    BY OriginOf DEF Plain, Keyed
  <2> QED
    BY <1>1, <2>1
<1>3. \A key : IsFiniteSet(Grouped(key))
  <2> TAKE key
  <2>1. CASE Len(key) = 1
    BY <2>1, FS_Singleton DEF Grouped
  <2>2. CASE Len(key) # 1
    <3> DEFINE G == GroupsOf(key[2])
               T == {<<key[1], <<g, key[2]>>, key[3]>> : g \in G}
               m == [g \in G |-> <<key[1], <<g, key[2]>>, key[3]>>]
    <3>1. Grouped(key) = T
      BY <2>2 DEF Grouped, GroupsOf
    <3>2. m \in Surjection(G, T)
      BY DEF Surjection
    <3> HIDE DEF m, G, T
    <3> QED
      BY <3>1, <3>2, GroupsFinite, FS_Surjection DEF G
  <2> QED
    BY <2>1, <2>2
<1>4. IsFiniteSet(DOMAIN P)
  <2>1. f \in Surjection(DOMAIN b, S)
    BY DEF Surjection
  <2>2. IsFiniteSet(DOMAIN b)
    BY DEF Plain, Finite
  <2> HIDE DEF f, S
  <2>3. IsFiniteSet(S)
    BY <2>1, <2>2, FS_Surjection
  <2>4. \A T \in S : IsFiniteSet(T)
    BY <1>3 DEF S
  <2> QED
    BY <1>1, <2>3, <2>4, FS_UNION
<1> HIDE DEF P, S, f
<1>5. \A k \in DOMAIN P : P[k] \in {n \in Nat : n > 0}
  BY <1>1, <1>2 DEF Plain, Finite, IsABag
<1>6. Finite(P)
  <2>1. P = [k \in DOMAIN P |-> P[k]]
    BY <1>1
  <2>2. P \in [DOMAIN P -> {n \in Nat : n > 0}]
    BY <1>5, <2>1
  <2> QED
    BY <1>4, <2>2 DEF Finite, IsABag
<1>7. \A k : Amount(P, k) = IF k \in Grouped(Origin(k)) THEN Amount(b, Origin(k)) ELSE 0
  BY <1>1, <1>2 DEF Amount
<1> QED
  BY <1>6, <1>7 DEF P

\* Of a sum it makes the sum,
LEMMA PostSum ==
  ASSUME NEW a, NEW b, Plain(a), Plain(b)
  PROVE  Plain(a (+) b) /\ PostSignal(a (+) b) = PostSignal(a) (+) PostSignal(b)
<1>1. Plain(a (+) b)
  <2>1. DOMAIN (a (+) b) = DOMAIN a \cup DOMAIN b
    BY DEF (+)
  <2>2. Finite(a (+) b)
    BY FilledSum DEF Plain
  <2> QED
    BY <2>1, <2>2 DEF Plain, Keyed
<1>2. /\ IsABag(a) /\ IsABag(b) /\ IsABag(PostSignal(a)) /\ IsABag(PostSignal(b))
      /\ IsABag(PostSignal(a (+) b))
  BY <1>1, PostAmount DEF Plain, Finite
<1>3. IsABag(PostSignal(a) (+) PostSignal(b))
  BY <1>2, AmountOfSum
<1>4. \A k : Amount(PostSignal(a (+) b), k) = Amount(PostSignal(a) (+) PostSignal(b), k)
  <2> TAKE k
  <2>1. Amount(a (+) b, Origin(k)) = Amount(a, Origin(k)) + Amount(b, Origin(k))
    BY <1>2, AmountOfSum
  <2>2. Amount(PostSignal(a) (+) PostSignal(b), k)
          = Amount(PostSignal(a), k) + Amount(PostSignal(b), k)
    BY <1>2, AmountOfSum
  <2>3. CASE k \in Grouped(Origin(k))
    BY <1>1, <2>1, <2>2, <2>3, PostAmount
  <2>4. CASE k \notin Grouped(Origin(k))
    BY <1>1, <2>2, <2>4, PostAmount
  <2> QED
    BY <2>3, <2>4
<1> QED
  BY <1>1, <1>2, <1>3, <1>4, SameAmounts

\* and a counter stays as it is.
LEMMA PostReached ==
  ASSUME NEW b, Plain(b) PROVE \A k : Reached(PostSignal(b), k) = Reached(b, k)
<1> TAKE k
<1>1. Origin(<<k>>) = <<k>> /\ <<k>> \in Grouped(<<k>>)
  BY DEF Origin, Grouped
<1> QED
  BY <1>1, PostAmount, ReachedAmount

-----------------------------------------------------------------------------
(* The analysis after postprocess *)

\* What is then in a histogram of a channel.
In(b, c, x) == Filled(PostSignal(b), <<c, x>>)

\* Of a sum,
LEMMA SumSignal ==
  ASSUME NEW a, NEW b, Plain(a), Plain(b)
  PROVE  /\ Plain(a (+) b)
         /\ \A k : Reached(a (+) b, k) = Reached(a, k) + Reached(b, k)
         /\ \A c, x : In(a (+) b, c, x) = In(a, c, x) + In(b, c, x)
         /\ \A k : Reached(a, k) \in Nat
         /\ \A c, x : In(a, c, x) \in Nat
<1>1. Plain(a (+) b) /\ PostSignal(a (+) b) = PostSignal(a) (+) PostSignal(b)
  BY PostSum
<1>2. Finite(PostSignal(a)) /\ Finite(PostSignal(b)) /\ IsABag(a) /\ IsABag(b)
  BY PostAmount DEF Plain, Finite
<1> QED
  BY <1>1, <1>2, FilledSum, FilledType, ReachedSum DEF In

\* and of a counter.
LEMMA CountSignal ==
  ASSUME NEW key, NEW n \in Nat
  PROVE  /\ Plain(Count(key, n)) /\ Plain(EmptyBag)
         /\ \A k : Reached(Count(key, n), k) = IF k = key THEN n ELSE 0
         /\ \A k : Reached(EmptyBag, k) = 0
         /\ \A c, x : In(Count(key, n), c, x) = 0 /\ In(EmptyBag, c, x) = 0
<1>1. \A k \in DOMAIN Count(key, n) : Len(k) = 1
  <2>1. DOMAIN Count(key, n) \subseteq {<<key>>} /\ Len(<<key>>) = 1
    BY DEF Count
  <2> QED
    BY <2>1
<1>2. DOMAIN EmptyBag = {} /\ IsABag(EmptyBag) /\ \A e : Amount(EmptyBag, e) = 0
  BY AddNothing DEF EmptyBag, SetToBag
<1>3. Plain(Count(key, n)) /\ Plain(EmptyBag)
  BY <1>1, <1>2, CountHolds, FS_EmptySet DEF Plain, Keyed, Finite
<1>4. ASSUME NEW b, Plain(b), \A k \in DOMAIN b : Len(k) = 1, NEW h
      PROVE  Filled(PostSignal(b), h) = 0
  <2>1. \A k \in DOMAIN PostSignal(b) : Len(k) = 1
    BY <1>4 DEF PostSignal, Grouped
  <2>2. EntriesOf(PostSignal(b), h) = {}
    BY <2>1 DEF EntriesOf, OfHistogram
  <2> QED
    BY <2>2, FS_EmptySet DEF Filled, EntriesOf
<1> QED
  BY <1>1, <1>2, <1>3, <1>4, CountHolds, ReachedAmount DEF In

\* An entry is one of every group its dataset is in.
LEMMA FillSignal ==
  ASSUME NEW V, NEW values \in Seq(V), Len(values) <= 1, NEW c, NEW x, NEW ds
  PROVE  LET b == Fill(<<c, x>>, ds, values)
         IN  /\ Plain(b)
             /\ \A k : Reached(b, k) = 0
             /\ \A d, y : In(b, d, y)
                  = IF d = c /\ y = x /\ values # <<>> THEN Cardinality(GroupsOf(ds)) ELSE 0
<1>6. values = <<>> \/ Len(values) = 1
  <2>1. Len(values) \in Nat
    OBVIOUS
  <2>2. Len(values) = 0 \/ Len(values) = 1
    BY <2>1
  <2> QED
    BY <2>2, EmptySeq
<1> DEFINE h == <<c, x>>
           b == Fill(h, ds, values)
<1>1. Finite(b) /\ \A k : Reached(b, k) = 0
  BY FillHolds
<1>2. \A k \in DOMAIN b : Len(k) = 3 /\ k = <<k[1], k[2], k[3]>>
  BY DEF Fill
<1>3. Plain(b)
  BY <1>1, <1>2 DEF Plain, Keyed
<1>4. CASE values = <<>>
  <2>1. b = EmptyBag /\ 0 \in Nat
    BY <1>4, FillNone
  <2> QED
    BY <1>1, <1>3, <1>4, <2>1, CountSignal
<1>5. CASE values # <<>>
  <2> DEFINE v == values[1]
             k == <<h, ds, v>>
             P == PostSignal(b)
  <2>1. values = <<v>>
    <3>2. Len(values) = 1
      BY <1>5, <1>6
    <3>3. Len(<<v>>) = 1 /\ <<v>>[1] = values[1] /\ v \in V /\ <<v>> \in Seq(V)
      BY <3>2
    <3> HIDE DEF v
    <3> QED
      BY <3>2, <3>3, SeqEqual
  <2>2. DOMAIN b = {k} /\ b[k] = 1
    <3> HIDE DEF v, h
    <3>1. ToSet(<<v>>) = {v}
      BY DEF ToSet
    <3>2. DOMAIN b = {k}
      BY <2>1, <3>1 DEF Fill
    <3>3. b[k] = Cardinality({i \in DOMAIN <<v>> : <<v>>[i] = k[3]})
      BY <2>1, <3>1 DEF Fill
    <3>4. {i \in DOMAIN <<v>> : <<v>>[i] = k[3]} = {1}
      OBVIOUS
    <3> QED
      BY <3>2, <3>3, <3>4, FS_Singleton
  <2>3. /\ Grouped(k) = {<<h, <<g, ds>>, v>> : g \in GroupsOf(ds)}
        /\ \A g : Origin(<<h, <<g, ds>>, v>>) = k
    <3>1. Len(k) = 3 /\ k[1] = h /\ k[2] = ds /\ k[3] = v
      OBVIOUS
    <3>2. \A g : LET y == <<h, <<g, ds>>, v>>
                 IN  Len(y) = 3 /\ y[1] = h /\ y[2][2] = ds /\ y[3] = v
      OBVIOUS
    <3> HIDE DEF h, v
    <3> QED
      BY <3>1, <3>2 DEF Grouped, GroupsOf, Origin
  <2> HIDE DEF b
  <2>4. /\ DOMAIN P = {<<h, <<g, ds>>, v>> : g \in GroupsOf(ds)}
        /\ \A y \in DOMAIN P : P[y] = 1
    <3>1. DOMAIN P = UNION {Grouped(y) : y \in {k}} /\ \A y \in DOMAIN P : P[y] = b[Origin(y)]
      BY <2>2 DEF PostSignal
    <3>2. UNION {Grouped(y) : y \in {k}} = Grouped(k)
      OBVIOUS
    <3> HIDE DEF P, k
    <3> QED
      BY <2>2, <2>3, <3>1, <3>2
  <2>5. ASSUME NEW d, NEW y, ~(d = c /\ y = x) PROVE In(b, d, y) = 0
    <3>1. <<d, y>> # h
      BY <2>5
    <3> HIDE DEF h, P, v
    <3>2. \A z \in DOMAIN P : z[1] = h
      BY <2>4
    <3>3. EntriesOf(P, <<d, y>>) = {}
      BY <3>1, <3>2 DEF EntriesOf, OfHistogram
    <3> QED
      BY <3>3, FS_EmptySet DEF In, Filled, EntriesOf, P
  <2>6. Filled(P, h) = Cardinality(GroupsOf(ds))
    <3> DEFINE G == GroupsOf(ds)
               T == EntriesOf(P, h)
               m == [g \in G |-> <<<<h, <<g, ds>>, v>>, 1>>]
    <3> HIDE DEF h, P, v
    <3>1. \A z \in DOMAIN P : Len(z) = 3 /\ z[1] = h
      BY <2>4
    <3>2. OfHistogram(P, h) = DOMAIN P
      BY <3>1 DEF OfHistogram
    <3>3. T = {<<z, 1>> : z \in DOMAIN P}
      BY <2>4, <3>2 DEF EntriesOf
    <3>4. m \in [G -> T] /\ \A z \in T : \E g \in G : m[g] = z
      BY <2>4, <3>3
    <3>5. \A g, i \in G : m[g] = m[i] => g = i
      OBVIOUS
    <3> HIDE DEF G, T, m
    <3>6. IsFiniteSet(G)
      BY GroupsFinite DEF G
    <3>7. Cardinality(T) = Cardinality(G)
      BY <3>4, <3>5, <3>6, SameNumber
    <3> QED
      BY <3>7 DEF T, G, Filled, EntriesOf
  <2>7. In(b, c, x) = Cardinality(GroupsOf(ds))
    BY <2>6 DEF In
  <2> HIDE DEF P, k, v
  <2> QED
    BY <1>1, <1>3, <1>5, <2>5, <2>7 DEF b
<1> QED
  BY <1>4, <1>5

\* The histograms of an event's leptons and jets, and those of a pair of its jets.
PerPair == {"fwdJet_leadbJet", "fwdJet_subleadbJet"}
\* As many entries in every one of the former as events, and in the latter no more.
Even(b) ==
  \A c : \E n \in Nat : /\ \A x \in PerEvent : In(b, c, x) = n
                        /\ \A x \in PerPair : In(b, c, x) <= n

\* One entry.
LEMMA EntrySignal ==
  ASSUME NEW c, NEW x, NEW ds, NEW v
  PROVE  LET b == Fill(<<c, x>>, ds, <<v>>)
         IN  /\ Plain(b)
             /\ \A k : Reached(b, k) = 0
             /\ \A d, y : In(b, d, y) = IF d = c /\ y = x THEN Cardinality(GroupsOf(ds)) ELSE 0
<1> DEFINE values == <<v>>
<1>1. values \in Seq({v}) /\ Len(values) <= 1 /\ values # <<>>
  OBVIOUS
<1> HIDE DEF values
<1>2. LET b == Fill(<<c, x>>, ds, values)
      IN  /\ Plain(b)
          /\ \A k : Reached(b, k) = 0
          /\ \A d, y : In(b, d, y) = IF d = c /\ y = x THEN Cardinality(GroupsOf(ds)) ELSE 0
  BY <1>1, FillSignal
<1> QED
  BY <1>2 DEF values

\* One entry at most.
LEMMA GapSignal ==
  ASSUME NEW c, NEW x, NEW ds, NEW as, NEW bs
  PROVE  LET b == Fill(<<c, x>>, ds, EtaGap(as, bs))
         IN  /\ Plain(b)
             /\ \A k : Reached(b, k) = 0
             /\ \A d, y : /\ In(b, d, y) \in Nat /\ In(b, d, y) <= Cardinality(GroupsOf(ds))
                          /\ ~(d = c /\ y = x) => In(b, d, y) = 0
<1> DEFINE w == Abs(as[1].eta - bs[1].eta)
           gap == EtaGap(as, bs)
<1>1. gap = <<>> \/ gap = <<w>>
  BY DEF EtaGap
<1> HIDE DEF w
<1>2. gap \in Seq({w}) /\ Len(gap) <= 1
  <2>1. <<>> \in Seq({w}) /\ <<w>> \in Seq({w}) /\ Len(<<>>) = 0 /\ Len(<<w>>) = 1
    OBVIOUS
  <2> HIDE DEF gap
  <2>2. CASE gap = <<>>
    BY <2>1, <2>2
  <2>3. CASE gap = <<w>>
    BY <2>1, <2>3
  <2> QED
    BY <1>1, <2>2, <2>3
<1>3. Cardinality(GroupsOf(ds)) \in Nat
  BY GroupsFinite
<1> DEFINE b == Fill(<<c, x>>, ds, gap)
           m == Cardinality(GroupsOf(ds))
<1> HIDE DEF gap
<1>4. /\ Plain(b) /\ \A k : Reached(b, k) = 0
      /\ \A d, y : In(b, d, y) = IF d = c /\ y = x /\ gap # <<>> THEN m ELSE 0
  BY <1>2, FillSignal
<1> HIDE DEF b, m
<1>5. m \in Nat
  BY <1>3 DEF m
<1>6. \A d, y : /\ In(b, d, y) \in Nat /\ In(b, d, y) <= m
                /\ ~(d = c /\ y = x) => In(b, d, y) = 0
  BY <1>4, <1>5
<1> QED
  BY <1>4, <1>6 DEF gap, b, m

\* A channel has the event or it has not.
LEMMA ChannelEven ==
  ASSUME NEW E, NEW J, NEW M, NEW N, Measured(E, J, M, N), NEW e \in E, NEW ds,
         NEW c \in Channels
  PROVE  LET b == Channel(c, ds, <<e>>)
         IN  Plain(b) /\ Even(b) /\ \A k : Reached(b, k) = 0
<1>0. \A K : K = {x \in E : InChannel(c, x)} =>
        Channel(c, ds, <<e>>) = Histograms(c, ds, Kept(<<e>>, K), Columns(c, K))
  <2> DEFINE one == <<e>>
  <2>1. one \in Seq(E)
    OBVIOUS
  <2> HIDE DEF one
  <2>2. \A K : K = {x \in E : InChannel(c, x)} =>
          Channel(c, ds, one) = Histograms(c, ds, Kept(one, K), Columns(c, K))
    BY <2>1, ChannelHistograms
  <2> QED
    BY <2>2 DEF one
<1> DEFINE K == Events(E, c)
           F == Columns(c, K)
           b == Channel(c, ds, <<e>>)
           w == Cardinality(GroupsOf(ds))
<1>1. b = Histograms(c, ds, Kept(<<e>>, K), F)
  <2>1. K = {x \in E : InChannel(c, x)}
    BY DEF Events
  <2> HIDE DEF K
  <2>2. Channel(c, ds, <<e>>) = Histograms(c, ds, Kept(<<e>>, K), Columns(c, K))
    BY <1>0, <2>1
  <2> QED
    BY <2>2
<1>2. Kept(<<e>>, K) = IF e \in K THEN <<e>> ELSE <<>>
  BY KeptOne
<1>3. CASE e \notin K
  <2>1. b = EmptyBag
    BY <1>1, <1>2, <1>3, HistogramsNone
  <2>2. 0 \in Nat
    OBVIOUS
  <2> HIDE DEF b
  <2>3. Plain(b) /\ (\A k : Reached(b, k) = 0) /\ \A d, y : In(b, d, y) = 0
    BY <2>1, <2>2, CountSignal
  <2>4. Even(b)
    BY <2>2, <2>3 DEF Even
  <2> QED
    BY <2>3, <2>4 DEF b
<1>4. CASE e \in K
  <2> DEFINE n1 == "leptonpT"
             n2 == "highpT_sslp"
             n3 == "minDelR"
             n4 == "TotalCharge"
             n5 == "jetMaxEta"
             n6 == "nJet25"
             n7 == "nJetEta1"
             n8 == "fwdJet_closestLepton"
             m1 == "fwdJet_leadbJet"
             m2 == "fwdJet_subleadbJet"
             fill(x, v) == Fill(<<c, x>>, ds, <<v>>)
             a1 == fill(n1, F.last[e])
             a2 == fill(n2, F.phi[e])
             a3 == fill(n3, F.delr[e])
             a4 == fill(n4, F.charge[e])
             a5 == fill(n5, F.maxeta[e])
             a6 == fill(n6, F.njet25[e])
             a7 == fill(n7, F.njeteta1[e])
             a8 == fill(n8, F.closest[e])
             p1 == Fill(<<c, m1>>, ds, EtaGap(Forward(Jets25(e)), LeadB(Jets25(e))))
             p2 == Fill(<<c, m2>>, ds, EtaGap(Forward(Jets25(e)), NextB(Jets25(e))))
             g1 == a1 (+) a2 (+) a3 (+) a4
             g2 == a5 (+) a6 (+) a7
             g3 == p1 (+) p2 (+) a8
  <2>1. b = g1 (+) g2 (+) g3
    <3>1. \A h, G : Column(c, h, ds, <<e>>, G) = fill(h, G[e])
      BY AppliedOne DEF Column
    <3>2. /\ Gaps(c, m1, ds, <<e>>, F.lead) = p1
          /\ Gaps(c, m2, ds, <<e>>, F.next) = p2
      <4>1. /\ F.lead[e] = EtaGap(Forward(Jets25(e)), LeadB(Jets25(e)))
            /\ F.next[e] = EtaGap(Forward(Jets25(e)), NextB(Jets25(e)))
        BY <1>4 DEF Columns
      <4>2. \A as, bs : FlattenSeq(<<EtaGap(as, bs)>>) = EtaGap(as, bs)
        <5> TAKE as, bs
        <5>1. EtaGap(as, bs) \in Seq({Abs(as[1].eta - bs[1].eta)})
          <6> DEFINE v == Abs(as[1].eta - bs[1].eta)
          <6>1. EtaGap(as, bs) = <<>> \/ EtaGap(as, bs) = <<v>>
            BY DEF EtaGap
          <6> HIDE DEF v
          <6>2. <<>> \in Seq({v}) /\ <<v>> \in Seq({v})
            OBVIOUS
          <6>3. EtaGap(as, bs) \in Seq({v})
            BY <6>1, <6>2
          <6> QED
            BY <6>3 DEF v
        <5> QED
          BY <5>1, FlattenOne
      <4> HIDE DEF F
      <4> QED
        BY <4>1, <4>2, AppliedOne DEF Gaps
    <3> HIDE DEF F, fill, p1, p2
    <3> QED
      BY <1>1, <1>2, <1>4, <3>1, <3>2 DEF Histograms
  <2>2. /\ n1 \notin {n2, n3, n4, n5, n6, n7, n8, m1, m2}
        /\ n2 \notin {n3, n4, n5, n6, n7, n8, m1, m2} /\ n3 \notin {n4, n5, n6, n7, n8, m1, m2}
        /\ n4 \notin {n5, n6, n7, n8, m1, m2} /\ n5 \notin {n6, n7, n8, m1, m2}
        /\ n6 \notin {n7, n8, m1, m2} /\ n7 \notin {n8, m1, m2} /\ n8 \notin {m1, m2}
        /\ m1 # m2
    OBVIOUS
  <2>3. PerEvent = {n1, n2, n3, n4, n5, n6, n7, n8} /\ PerPair = {m1, m2}
    BY DEF PerEvent, PerPair
  <2>4. w \in Nat
    BY GroupsFinite
  <2> HIDE DEF w, b, F, n1, n2, n3, n4, n5, n6, n7, n8, m1, m2
  <2>5. /\ Plain(p1) /\ Plain(p2) /\ \A k : Reached(p1, k) = 0 /\ Reached(p2, k) = 0
        /\ \A d, y : /\ In(p1, d, y) \in Nat /\ In(p1, d, y) <= w
                     /\ In(p2, d, y) \in Nat /\ In(p2, d, y) <= w
        /\ \A d, y : /\ ~(d = c /\ y = m1) => In(p1, d, y) = 0
                     /\ ~(d = c /\ y = m2) => In(p2, d, y) = 0
    BY GapSignal DEF w
  <2>6. \A x, v : /\ Plain(fill(x, v)) /\ \A k : Reached(fill(x, v), k) = 0
                  /\ \A d, y : In(fill(x, v), d, y) = IF d = c /\ y = x THEN w ELSE 0
    <3> TAKE x, v
    <3> HIDE DEF g1, g2, g3, p1, p2, a1, a2, a3, a4, a5, a6, a7, a8
    <3> QED
      BY EntrySignal DEF w
  <2> HIDE DEF fill, p1, p2
  <2>7. /\ Plain(a1) /\ Plain(a2) /\ Plain(a3) /\ Plain(a4)
        /\ Plain(a5) /\ Plain(a6) /\ Plain(a7) /\ Plain(a8)
        /\ \A k : /\ Reached(a1, k) = 0 /\ Reached(a2, k) = 0 /\ Reached(a3, k) = 0
                  /\ Reached(a4, k) = 0 /\ Reached(a5, k) = 0 /\ Reached(a6, k) = 0
                  /\ Reached(a7, k) = 0 /\ Reached(a8, k) = 0
    BY <2>6
  <2>8. \A d, y : /\ In(a1, d, y) = IF d = c /\ y = n1 THEN w ELSE 0
                  /\ In(a2, d, y) = IF d = c /\ y = n2 THEN w ELSE 0
                  /\ In(a3, d, y) = IF d = c /\ y = n3 THEN w ELSE 0
                  /\ In(a4, d, y) = IF d = c /\ y = n4 THEN w ELSE 0
                  /\ In(a5, d, y) = IF d = c /\ y = n5 THEN w ELSE 0
                  /\ In(a6, d, y) = IF d = c /\ y = n6 THEN w ELSE 0
                  /\ In(a7, d, y) = IF d = c /\ y = n7 THEN w ELSE 0
                  /\ In(a8, d, y) = IF d = c /\ y = n8 THEN w ELSE 0
    BY <2>6
  <2> HIDE DEF a1, a2, a3, a4, a5, a6, a7, a8
  <2>9. /\ Plain(g1) /\ Plain(g2) /\ Plain(g3)
        /\ \A k : Reached(g1, k) = 0 /\ Reached(g2, k) = 0 /\ Reached(g3, k) = 0
        /\ \A d, y : /\ In(g1, d, y) = In(a1, d, y) + In(a2, d, y) + In(a3, d, y) + In(a4, d, y)
                     /\ In(g2, d, y) = In(a5, d, y) + In(a6, d, y) + In(a7, d, y)
                     /\ In(g3, d, y) = In(p1, d, y) + In(p2, d, y) + In(a8, d, y)
    BY <2>5, <2>7, SumSignal
  <2> HIDE DEF g1, g2, g3
  <2>10. /\ Plain(b) /\ \A k : Reached(b, k) = 0
         /\ \A d, y : In(b, d, y) = In(g1, d, y) + In(g2, d, y) + In(g3, d, y)
    BY <2>1, <2>9, SumSignal
  <2>11. ASSUME NEW d, d # c PROVE \A y : In(b, d, y) = 0
    <3>1. \A y : In(g1, d, y) = 0 /\ In(g2, d, y) = 0 /\ In(g3, d, y) = 0
      BY <2>5, <2>8, <2>9, <2>11
    <3> QED
      BY <2>10, <3>1
  <2>12. \A y \in PerEvent : In(b, c, y) = w
    <3> TAKE y \in PerEvent
    <3>1. y \in {n1, n2, n3, n4} => In(g1, c, y) = w /\ In(g2, c, y) = 0 /\ In(g3, c, y) = 0
      BY <2>2, <2>4, <2>5, <2>8, <2>9
    <3>2. y \in {n5, n6, n7} => In(g1, c, y) = 0 /\ In(g2, c, y) = w /\ In(g3, c, y) = 0
      BY <2>2, <2>4, <2>5, <2>8, <2>9
    <3>3. y = n8 => In(g1, c, y) = 0 /\ In(g2, c, y) = 0 /\ In(g3, c, y) = w
      BY <2>2, <2>4, <2>5, <2>8, <2>9
    <3> QED
      BY <2>3, <2>4, <2>10, <3>1, <3>2, <3>3
  <2>13. \A y \in PerPair : In(b, c, y) <= w
    <3> TAKE y \in PerPair
    <3>1. In(g1, c, y) = 0 /\ In(g2, c, y) = 0 /\ In(g3, c, y) <= w /\ In(g3, c, y) \in Nat
      BY <2>2, <2>3, <2>4, <2>5, <2>8, <2>9
    <3> QED
      BY <2>4, <2>10, <3>1
  <2>14. Even(b)
    BY <2>4, <2>11, <2>12, <2>13 DEF Even
  <2> QED
    BY <2>10, <2>14 DEF b
<1> QED
  BY <1>3, <1>4

\* What is in two accumulators of the analysis is as even together.
LEMMA EvenSum ==
  ASSUME NEW a, NEW b, Plain(a), Plain(b), Even(a), Even(b) PROVE Even(a (+) b)
<1>1. /\ \A c, x : In(a (+) b, c, x) = In(a, c, x) + In(b, c, x)
      /\ \A c, x : In(a, c, x) \in Nat
      /\ \A c, x : In(b, c, x) \in Nat
  BY SumSignal
<1> SUFFICES ASSUME NEW c
             PROVE  \E n \in Nat : /\ \A x \in PerEvent : In(a (+) b, c, x) = n
                                   /\ \A x \in PerPair : In(a (+) b, c, x) <= n
  BY DEF Even
<1>2. PICK m \in Nat : /\ \A x \in PerEvent : In(a, c, x) = m
                       /\ \A x \in PerPair : In(a, c, x) <= m
  BY DEF Even
<1>3. PICK n \in Nat : /\ \A x \in PerEvent : In(b, c, x) = n
                       /\ \A x \in PerPair : In(b, c, x) <= n
  BY DEF Even
<1>4. m + n \in Nat
  OBVIOUS
<1>5. \A x \in PerEvent : In(a (+) b, c, x) = m + n
  BY <1>1, <1>2, <1>3
<1>6. \A x \in PerPair : In(a (+) b, c, x) <= m + n
  BY <1>1, <1>2, <1>3
<1> QED
  BY <1>4, <1>5, <1>6

\* The dilepton events' tight leptons are those of its channels.
Divided(b) ==
  Reached(b, "tight_ll") = Reached(b, "tights_2mu") + Reached(b, "tights_emu") + Reached(b, "tights_2e")
\* What the analysis counts and holds agrees,
Balanced(b) == Plain(b) /\ Even(b) /\ Divided(b)

\* in two parts as in the whole.
LEMMA BalancedSum ==
  ASSUME NEW a, NEW b, Balanced(a), Balanced(b) PROVE Balanced(a (+) b)
<1>1. Plain(a) /\ Plain(b) /\ Even(a) /\ Even(b) /\ Divided(a) /\ Divided(b)
  BY DEF Balanced
<1>2. Plain(a (+) b) /\ Even(a (+) b)
  BY <1>1, SumSignal, EvenSum
<1> DEFINE k1 == "tight_ll"
           k2 == "tights_2mu"
           k3 == "tights_emu"
           k4 == "tights_2e"
<1>3. \A x : Divided(x) <=> Reached(x, k1) = Reached(x, k2) + Reached(x, k3) + Reached(x, k4)
  BY DEF Divided
<1> HIDE DEF k1, k2, k3, k4
<1>4. /\ \A k : Reached(a (+) b, k) = Reached(a, k) + Reached(b, k)
      /\ \A k : Reached(a, k) \in Nat
      /\ \A k : Reached(b, k) \in Nat
  BY <1>1, SumSignal
<1>5. Divided(a (+) b)
  BY <1>1, <1>3, <1>4
<1> QED
  BY <1>2, <1>5 DEF Balanced

\* None of the histograms is filled.
LEMMA NotFilled ==
  ASSUME NEW b, \A c, x : In(b, c, x) = 0 PROVE Even(b)
<1>1. 0 \in Nat
  OBVIOUS
<1> QED
  BY <1>1 DEF Even

\* Any other counter agrees.
LEMMA BalancedCount ==
  ASSUME NEW key, key \notin {"tight_ll", "tights_2mu", "tights_emu", "tights_2e"}, NEW n \in Nat
  PROVE  Balanced(Count(key, n)) /\ Balanced(EmptyBag)
<1> DEFINE k1 == "tight_ll"
           k2 == "tights_2mu"
           k3 == "tights_emu"
           k4 == "tights_2e"
<1>1. key # k1 /\ key # k2 /\ key # k3 /\ key # k4
  OBVIOUS
<1>2. \A x : Divided(x) <=> Reached(x, k1) = Reached(x, k2) + Reached(x, k3) + Reached(x, k4)
  BY DEF Divided
<1> HIDE DEF k1, k2, k3, k4
<1>3. /\ Plain(Count(key, n)) /\ Plain(EmptyBag)
      /\ \A k : Reached(Count(key, n), k) = IF k = key THEN n ELSE 0
      /\ \A k : Reached(EmptyBag, k) = 0
      /\ \A c, x : In(Count(key, n), c, x) = 0 /\ In(EmptyBag, c, x) = 0
  BY CountSignal
<1>4. Divided(Count(key, n)) /\ Divided(EmptyBag)
  BY <1>1, <1>2, <1>3
<1>5. Even(Count(key, n)) /\ Even(EmptyBag)
  BY <1>3, NotFilled
<1> QED
  BY <1>3, <1>4, <1>5 DEF Balanced

\* So does nothing,
LEMMA BalancedNone == Balanced(EmptyBag)
<1> DEFINE k == "all events"
<1>1. k \notin {"tight_ll", "tights_2mu", "tights_emu", "tights_2e"} /\ 0 \in Nat
  OBVIOUS
<1> HIDE DEF k
<1> QED
  BY <1>1, BalancedCount

\* and so do the histograms of a channel.
LEMMA BalancedChannel ==
  ASSUME NEW E, NEW J, NEW M, NEW N, Measured(E, J, M, N), NEW e \in E, NEW ds,
         NEW c \in Channels
  PROVE  Balanced(Channel(c, ds, <<e>>))
<1> DEFINE b == Channel(c, ds, <<e>>)
<1>1. Plain(b) /\ Even(b) /\ \A k : Reached(b, k) = 0
  BY ChannelEven
<1> HIDE DEF b
<1>2. Divided(b)
  BY <1>1 DEF Divided
<1> QED
  BY <1>1, <1>2 DEF Balanced, b

\* Then the result of the analysis does.
LEMMA BalancedGood ==
  ASSUME NEW b, Balanced(b), NEW n PROVE Good("tHq", b, n)
<1> DEFINE P == PostSignal(b)
           k1 == "tight_ll"
           k2 == "tights_2mu"
           k3 == "tights_emu"
           k4 == "tights_2e"
<1>1. Plain(b) /\ Even(b) /\ Divided(b)
  BY DEF Balanced
<1>2. \A k : Reached(P, k) = Reached(b, k)
  BY <1>1, PostReached
<1>3. Reached(b, k1) = Reached(b, k2) + Reached(b, k3) + Reached(b, k4)
  BY <1>1 DEF Divided
<1> DEFINE C == {"lll", "mumu", "emu", "ee"}
<1>4. Accumulator = C \X (PerEvent \cup PerPair)
  BY DEF Accumulator, PerPair
<1> HIDE DEF k1, k2, k3, k4, C
<1>5. Reached(P, k1) = Reached(P, k2) + Reached(P, k3) + Reached(P, k4)
  BY <1>2, <1>3
<1>6. \A c, x : Filled(P, <<c, x>>) = In(b, c, x)
  BY DEF In
<1>7. ASSUME NEW c, NEW x \in PerEvent \cup PerPair, NEW y \in PerEvent
      PROVE  /\ x \in PerEvent => In(b, c, x) = In(b, c, y)
             /\ In(b, c, x) <= In(b, c, y)
  <2>1. PICK m \in Nat : /\ \A z \in PerEvent : In(b, c, z) = m
                         /\ \A z \in PerPair : In(b, c, z) <= m
    BY <1>1 DEF Even
  <2> QED
    BY <2>1
<1>8. ASSUME NEW h \in Accumulator, NEW other \in Accumulator, h[1] = other[1],
             other[2] \in PerEvent
      PROVE  /\ h[2] \in PerEvent => Filled(P, h) = Filled(P, other)
             /\ Filled(P, h) <= Filled(P, other)
  <2>1. h = <<h[1], h[2]>> /\ other = <<h[1], other[2]>> /\ h[2] \in PerEvent \cup PerPair
    BY <1>4, <1>8
  <2>2. Filled(P, h) = In(b, h[1], h[2]) /\ Filled(P, other) = In(b, h[1], other[2])
    BY <1>6, <2>1
  <2> QED
    BY <1>7, <1>8, <2>1, <2>2
<1> HIDE DEF P
<1>9. Agrees("tHq", P, n)
  BY <1>5, <1>8 DEF Agrees, k1, k2, k3, k4
<1>10. PostOf("tHq", b) = P
  BY DEF PostOf, P
<1> QED
  BY <1>1, <1>9, <1>10 DEF Good, Plain

\* What is counted of the one event that a mask keeps, or drops.
LEMMA NumOne ==
  ASSUME NEW e, NEW K, NEW G, NEW V, G[e] \in Seq(V)
  PROVE  NumIn(Applied(Kept(<<e>>, K), G)) = IF e \in K THEN Len(G[e]) ELSE 0
<1>1. CASE e \in K
  <2>1. Kept(<<e>>, K) = <<e>>
    BY <1>1, KeptOne
  <2>2. Applied(<<e>>, G) = <<G[e]>>
    BY AppliedOne
  <2>3. FlattenSeq(<<G[e]>>) = G[e]
    BY FlattenOne
  <2> QED
    BY <1>1, <2>1, <2>2, <2>3 DEF NumIn
<1>2. CASE e \notin K
  <2>1. Kept(<<e>>, K) = <<>>
    BY <1>2, KeptOne
  <2>2. Applied(<<>>, G) = <<>>
    BY AppliedOne
  <2>3. FlattenSeq(<<>>) = <<>>
    BY DEF FlattenSeq
  <2>4. Len(<<>>) = 0
    OBVIOUS
  <2> QED
    BY <1>2, <2>1, <2>2, <2>3, <2>4 DEF NumIn
<1> QED
  BY <1>1, <1>2

\* So are its tight leptons and its jets.
LEMMA NumCounts ==
  ASSUME NEW E, NEW J, NEW M, NEW N, Measured(E, J, M, N), NEW e \in E
  PROVE  /\ \A K : NumIn(Applied(Kept(<<e>>, K), TightOf(E)))
                      = IF e \in K THEN Len(Tight(e)) ELSE 0
         /\ \A K : NumIn(Applied(Kept(<<e>>, K), JetsOf(E)))
                      = IF e \in K THEN Len(Jets25(e)) ELSE 0
         /\ Len(Tight(e)) \in Nat /\ Len(Jets25(e)) \in Nat
<1>1. Tight(e) \in Seq(M \cup N) /\ Jets25(e) \in Seq(J)
  BY TightType
<1>2. TightOf(E)[e] = Tight(e) /\ JetsOf(E)[e] = Jets25(e)
  BY DEF TightOf, JetsOf
<1> DEFINE T == TightOf(E)
           G == JetsOf(E)
           t == Tight(e)
           g == Jets25(e)
<1>3. T[e] = t /\ G[e] = g
  BY <1>2
<1> HIDE DEF T, G, t, g
<1>4. T[e] \in Seq(M \cup N) /\ G[e] \in Seq(J)
  BY <1>1, <1>3 DEF t, g
<1>5. \A K : NumIn(Applied(Kept(<<e>>, K), T)) = IF e \in K THEN Len(t) ELSE 0
  BY <1>3, <1>4, NumOne
<1>6. \A K : NumIn(Applied(Kept(<<e>>, K), G)) = IF e \in K THEN Len(g) ELSE 0
  BY <1>3, <1>4, NumOne
<1>7. Len(t) \in Nat /\ Len(g) \in Nat
  BY <1>3, <1>4
<1> QED
  BY <1>5, <1>6, <1>7 DEF T, G, t, g

\* A dilepton event is one of one channel.
LEMMA OneChannel ==
  ASSUME NEW E, NEW J, NEW M, NEW N, Measured(E, J, M, N), NEW e \in E
  PROVE  LET n(c) == IF e \in Events(E, c) THEN Len(Tight(e)) ELSE 0
         IN  (IF e \in {x \in E : Dilepton(x)} THEN Len(Tight(e)) ELSE 0)
               = n("mumu") + n("emu") + n("ee")
<1> DEFINE f == Flavors(Tight(e))
           t == Len(Tight(e))
<1>1. t \in Nat
  BY TightType
<1>2. /\ e \in Events(E, "mumu") <=> Dilepton(e) /\ f = 0
      /\ e \in Events(E, "emu") <=> Dilepton(e) /\ f = 1
      /\ e \in Events(E, "ee") <=> Dilepton(e) /\ f = 2
  BY DEF Events, InChannel, FlavorSum
<1>3. Dilepton(e) => f = 0 \/ f = 1 \/ f = 2
  <2> SUFFICES ASSUME Dilepton(e) PROVE f = 0 \/ f = 1 \/ f = 2
    OBVIOUS
  <2> DEFINE mu == Where(e.muons, TightMuon)
             el == Where(e.electrons, TightElectron)
  <2>1. /\ f = 0 <=> Len(mu) = 2
        /\ f = 1 <=> Len(mu) = 1 /\ Len(el) = 1
        /\ f = 2 <=> Len(el) = 2
    BY FlavorsOfTwo
  <2>2. mu \in Seq(M) /\ el \in Seq(N) /\ Tight(e) = mu \o el /\ Tight(e) \in Seq(M \cup N)
    BY TightType DEF Tight
  <2>3. Len(Pairs(Tight(e))) = 1
    BY DEF Dilepton, DileptonMask
  <2> HIDE DEF mu, el, f, t
  <2>4. Len(Tight(e)) = 2
    BY <2>2, <2>3, PairsTwo
  <2>5. Len(mu) \in Nat /\ Len(el) \in Nat /\ Len(mu) + Len(el) = 2
    BY <2>2, <2>4
  <2> DEFINE m == Len(mu)
             n == Len(el)
  <2>6. m \in Nat /\ n \in Nat /\ m + n = 2
    BY <2>5
  <2>7. (f = 0 <=> m = 2) /\ (f = 1 <=> m = 1 /\ n = 1) /\ (f = 2 <=> n = 2)
    BY <2>1
  <2> HIDE DEF m, n
  <2>8. (m = 0 /\ n = 2) \/ (m = 1 /\ n = 1) \/ (m = 2 /\ n = 0)
    BY <2>6
  <2> QED
    BY <2>7, <2>8
<1> HIDE DEF f, t
<1>4. (IF Dilepton(e) THEN t ELSE 0)
        = (IF Dilepton(e) /\ f = 0 THEN t ELSE 0) + (IF Dilepton(e) /\ f = 1 THEN t ELSE 0)
          + (IF Dilepton(e) /\ f = 2 THEN t ELSE 0)
  BY <1>1, <1>3
<1> QED
  BY <1>2, <1>4 DEF t

\* What the dilepton part makes of an event,
LEMMA DileptonBalanced ==
  ASSUME NEW E, NEW J, NEW M, NEW N, Measured(E, J, M, N), NEW e \in E, NEW ds
  PROVE  Balanced(SignalDilepton(ds, <<e>>))
<1>0. /\ \A K : NumIn(Applied(Kept(<<e>>, K), TightOf(E))) = IF e \in K THEN Len(Tight(e)) ELSE 0
      /\ \A K : NumIn(Applied(Kept(<<e>>, K), JetsOf(E))) = IF e \in K THEN Len(Jets25(e)) ELSE 0
      /\ Len(Tight(e)) \in Nat /\ Len(Jets25(e)) \in Nat
  BY NumCounts
<1> DEFINE k1 == "tight_ll"
           k2 == "tights_2mu"
           k3 == "tights_emu"
           k4 == "tights_2e"
           k5 == "jets through dilepton mask"
           D == {x \in E : Dilepton(x)}
           num(K, G) == NumIn(Applied(Kept(<<e>>, K), G))
           n1 == num(D, TightOf(E))
           n2 == num(Events(E, "mumu"), TightOf(E))
           n3 == num(Events(E, "emu"), TightOf(E))
           n4 == num(Events(E, "ee"), TightOf(E))
           n5 == num(D, JetsOf(E))
           a == Count(k1, n1) (+) Count(k5, n5)
           b == Count(k2, n2) (+) Count(k3, n3) (+) Count(k4, n4)
           c == Channel("mumu", ds, <<e>>) (+) Channel("emu", ds, <<e>>) (+) Channel("ee", ds, <<e>>)
<1>1. SignalDilepton(ds, <<e>>) = a (+) b (+) c
  <2> DEFINE one == <<e>>
  <2>1. one \in Seq(E)
    OBVIOUS
  <2> HIDE DEF one
  <2>2. LET at(key, K, G) == Count(key, NumIn(Applied(Kept(one, K), G)))
        IN  SignalDilepton(ds, one) =
              (at(k1, D, TightOf(E)) (+) at(k5, D, JetsOf(E)))
              (+) (at(k2, Events(E, "mumu"), TightOf(E)) (+) at(k3, Events(E, "emu"), TightOf(E))
                   (+) at(k4, Events(E, "ee"), TightOf(E)))
              (+) (Channel("mumu", ds, one) (+) Channel("emu", ds, one) (+) Channel("ee", ds, one))
    BY <2>1, PartsFilled
  <2> QED
    BY <2>2 DEF one
<1>2. n1 \in Nat /\ n2 \in Nat /\ n3 \in Nat /\ n4 \in Nat /\ n5 \in Nat /\ n1 = n2 + n3 + n4
  <2> DEFINE in(K) == IF e \in K THEN Len(Tight(e)) ELSE 0
  <2>1. /\ n1 = in(D) /\ n2 = in(Events(E, "mumu")) /\ n3 = in(Events(E, "emu"))
        /\ n4 = in(Events(E, "ee")) /\ n5 = IF e \in D THEN Len(Jets25(e)) ELSE 0
    BY <1>0
  <2>2. in(D) = in(Events(E, "mumu")) + in(Events(E, "emu")) + in(Events(E, "ee"))
    BY OneChannel
  <2>3. n5 \in Nat /\ \A K : in(K) \in Nat
    BY <1>0, <2>1
  <2> HIDE DEF in, D, n1, n2, n3, n4, n5
  <2> QED
    BY <2>1, <2>2, <2>3
<1>3. Balanced(c)
  <2>1. /\ Balanced(Channel("mumu", ds, <<e>>)) /\ Balanced(Channel("emu", ds, <<e>>))
        /\ Balanced(Channel("ee", ds, <<e>>))
    BY BalancedChannel DEF Channels
  <2> QED
    BY <2>1, BalancedSum
<1>4. k5 \notin {k1, k2, k3, k4} /\ k1 \notin {k2, k3, k4} /\ k2 \notin {k3, k4} /\ k3 # k4
  OBVIOUS
<1>5. \A x : Divided(x) <=> Reached(x, k1) = Reached(x, k2) + Reached(x, k3) + Reached(x, k4)
  BY DEF Divided
<1> HIDE DEF k1, k2, k3, k4, k5, n1, n2, n3, n4, n5, c
<1>6. \A k : \A n \in Nat : /\ Plain(Count(k, n))
                            /\ \A l : Reached(Count(k, n), l) = IF l = k THEN n ELSE 0
                            /\ \A d, x : In(Count(k, n), d, x) = 0
  BY CountSignal
<1>7. /\ Plain(a)
      /\ \A k : Reached(a, k) = (IF k = k1 THEN n1 ELSE 0) + (IF k = k5 THEN n5 ELSE 0)
      /\ \A d, x : In(a, d, x) = 0
  <2> DEFINE u == Count(k1, n1)
             v == Count(k5, n5)
  <2>1. /\ Plain(u) /\ \A k : Reached(u, k) = IF k = k1 THEN n1 ELSE 0
        /\ \A d, x : In(u, d, x) = 0
    BY <1>2, <1>6
  <2>2. /\ Plain(v) /\ \A k : Reached(v, k) = IF k = k5 THEN n5 ELSE 0
        /\ \A d, x : In(v, d, x) = 0
    BY <1>2, <1>6
  <2> HIDE DEF u, v
  <2>3. /\ Plain(u (+) v)
        /\ \A k : Reached(u (+) v, k) = Reached(u, k) + Reached(v, k)
        /\ \A d, x : In(u (+) v, d, x) = In(u, d, x) + In(v, d, x)
    BY <2>1, <2>2, SumSignal
  <2>4. a = u (+) v
    BY DEF u, v
  <2> HIDE DEF a
  <2> QED
    BY <2>1, <2>2, <2>3, <2>4
<1>8. /\ Plain(b)
      /\ \A k : Reached(b, k) = (IF k = k2 THEN n2 ELSE 0) + (IF k = k3 THEN n3 ELSE 0)
                                + (IF k = k4 THEN n4 ELSE 0)
      /\ \A d, x : In(b, d, x) = 0
  <2> DEFINE u == Count(k2, n2)
             v == Count(k3, n3)
             w == Count(k4, n4)
  <2>1. /\ Plain(u) /\ \A k : Reached(u, k) = IF k = k2 THEN n2 ELSE 0
        /\ \A d, x : In(u, d, x) = 0
    BY <1>2, <1>6
  <2>2. /\ Plain(v) /\ \A k : Reached(v, k) = IF k = k3 THEN n3 ELSE 0
        /\ \A d, x : In(v, d, x) = 0
    BY <1>2, <1>6
  <2>3. /\ Plain(w) /\ \A k : Reached(w, k) = IF k = k4 THEN n4 ELSE 0
        /\ \A d, x : In(w, d, x) = 0
    BY <1>2, <1>6
  <2> HIDE DEF u, v, w
  <2>4. /\ Plain(u (+) v)
        /\ \A k : Reached(u (+) v, k) = Reached(u, k) + Reached(v, k)
        /\ \A d, x : In(u (+) v, d, x) = In(u, d, x) + In(v, d, x)
    BY <2>1, <2>2, SumSignal
  <2>5. /\ Plain(u (+) v (+) w)
        /\ \A k : Reached(u (+) v (+) w, k) = Reached(u (+) v, k) + Reached(w, k)
        /\ \A d, x : In(u (+) v (+) w, d, x) = In(u (+) v, d, x) + In(w, d, x)
    BY <2>3, <2>4, SumSignal
  <2>6. b = u (+) v (+) w
    BY DEF u, v, w
  <2> HIDE DEF b
  <2> QED
    BY <2>1, <2>2, <2>3, <2>4, <2>5, <2>6
<1> HIDE DEF a, b
<1>9. /\ Plain(a (+) b)
      /\ \A k : Reached(a (+) b, k) = Reached(a, k) + Reached(b, k)
      /\ \A d, x : In(a (+) b, d, x) = In(a, d, x) + In(b, d, x)
  BY <1>7, <1>8, SumSignal
<1>10. Even(a (+) b)
  <2>1. \A d, x : In(a (+) b, d, x) = 0
    BY <1>7, <1>8, <1>9
  <2> QED
    BY <2>1, NotFilled
<1>11. Divided(a (+) b)
  <2>1. Reached(a, k1) = n1 /\ Reached(a, k2) = 0 /\ Reached(a, k3) = 0 /\ Reached(a, k4) = 0
    BY <1>2, <1>4, <1>7
  <2>2. Reached(b, k1) = 0 /\ Reached(b, k2) = n2 /\ Reached(b, k3) = n3 /\ Reached(b, k4) = n4
    BY <1>2, <1>4, <1>8
  <2> QED
    BY <1>2, <1>5, <1>9, <2>1, <2>2
<1>12. Balanced(a (+) b)
  BY <1>9, <1>10, <1>11 DEF Balanced
<1> QED
  BY <1>1, <1>3, <1>12, BalancedSum

\* and the trilepton part,
LEMMA TrileptonBalanced ==
  ASSUME NEW E, NEW J, NEW M, NEW N, Measured(E, J, M, N), NEW e \in E, NEW ds
  PROVE  Balanced(SignalTrilepton(ds, <<e>>))
<1> DEFINE k1 == "tight_lll"
           k2 == "jets through trilepton mask"
           K == Events(E, "lll")
           n1 == NumIn(Applied(Kept(<<e>>, K), TightOf(E)))
           n2 == NumIn(Applied(Kept(<<e>>, K), JetsOf(E)))
<1>1. SignalTrilepton(ds, <<e>>) = Count(k1, n1) (+) Count(k2, n2) (+) Channel("lll", ds, <<e>>)
  <2> DEFINE one == <<e>>
  <2>1. one \in Seq(E)
    OBVIOUS
  <2> HIDE DEF one
  <2>2. SignalTrilepton(ds, one) =
          Count(k1, NumIn(Applied(Kept(one, K), TightOf(E))))
          (+) Count(k2, NumIn(Applied(Kept(one, K), JetsOf(E)))) (+) Channel("lll", ds, one)
    BY <2>1, PartsFilled
  <2> QED
    BY <2>2 DEF one
<1>2. n1 \in Nat /\ n2 \in Nat
  <2>1. /\ Tight(e) \in Seq(M \cup N) /\ Jets25(e) \in Seq(J)
        /\ TightOf(E)[e] = Tight(e) /\ JetsOf(E)[e] = Jets25(e)
    BY TightType DEF TightOf, JetsOf
  <2>2. n1 = (IF e \in K THEN Len(Tight(e)) ELSE 0) /\ n2 = (IF e \in K THEN Len(Jets25(e)) ELSE 0)
    BY <2>1, NumOne
  <2>3. Len(Tight(e)) \in Nat /\ Len(Jets25(e)) \in Nat
    BY <2>1
  <2> HIDE DEF n1, n2, K
  <2> QED
    BY <2>2, <2>3
<1>3. /\ k1 \notin {"tight_ll", "tights_2mu", "tights_emu", "tights_2e"}
      /\ k2 \notin {"tight_ll", "tights_2mu", "tights_emu", "tights_2e"}
  OBVIOUS
<1> HIDE DEF k1, k2, n1, n2
<1>4. Balanced(Count(k1, n1)) /\ Balanced(Count(k2, n2))
  BY <1>2, <1>3, BalancedCount
<1>5. Balanced(Channel("lll", ds, <<e>>))
  BY BalancedChannel DEF Channels
<1> QED
  BY <1>1, <1>4, <1>5, BalancedSum

\* and so what the processor makes of it,
LEMMA EventBalanced ==
  ASSUME NEW E, NEW J, NEW M, NEW N, Measured(E, J, M, N), NEW e \in E, NEW ds
  PROVE  Balanced(SignalProcessor(ds, <<e>>))
<1> DEFINE one == <<e>>
           n0 == Len(one)
           n1 == NumIn(Each(one, LAMBDA x : Where(x.muons, LooseMuon)))
           n2 == NumIn(Each(one, LAMBDA x : Where(x.muons, TightMuon)))
           n3 == NumIn(Each(one, LAMBDA x : Where(x.electrons, LooseElectron)))
           n4 == NumIn(Each(one, LAMBDA x : Where(x.electrons, TightElectron)))
           n5 == NumIn(Each(one, Jets25))
           NoPairs == NumIn(Each(one, LAMBDA x : Pairs(Tight(x)))) = 0
           NoTriples == NumIn(Each(one, LAMBDA x : Triples(Tight(x)))) = 0
           di == IF NoPairs THEN EmptyBag ELSE SignalDilepton(ds, one)
           tri == IF NoTriples THEN EmptyBag ELSE SignalTrilepton(ds, one)
           k0 == "all events"
           k1 == "loose muons"
           k2 == "tight muons"
           k3 == "loose electrons"
           k4 == "tight electrons"
           k5 == "jets > 25"
<1>1. SignalProcessor(ds, one) =
        Count(k0, n0) (+) (Count(k1, n1) (+) Count(k2, n2)) (+) (Count(k3, n3) (+) Count(k4, n4))
        (+) Count(k5, n5) (+) (di (+) tri)
  BY DEF SignalProcessor
<1>2. /\ Each(one, LAMBDA x : Where(x.muons, LooseMuon)) = <<Where(e.muons, LooseMuon)>>
      /\ Each(one, LAMBDA x : Where(x.muons, TightMuon)) = <<Where(e.muons, TightMuon)>>
      /\ Each(one, LAMBDA x : Where(x.electrons, LooseElectron))
           = <<Where(e.electrons, LooseElectron)>>
      /\ Each(one, LAMBDA x : Where(x.electrons, TightElectron))
           = <<Where(e.electrons, TightElectron)>>
      /\ Each(one, Jets25) = <<Jets25(e)>>
  BY DEF Each
<1>3. \A V : \A row \in Seq(V) : NumIn(<<row>>) \in Nat
  <2> TAKE V
  <2> TAKE row \in Seq(V)
  <2>1. FlattenSeq(<<row>>) = row /\ Len(row) \in Nat
    BY FlattenOne
  <2> QED
    BY <2>1 DEF NumIn
<1>4. n0 \in Nat
  OBVIOUS
<1>5. Balanced(EmptyBag)
  BY BalancedNone
<1>6. Balanced(di) /\ Balanced(tri)
  <2>1. Balanced(SignalDilepton(ds, one)) /\ Balanced(SignalTrilepton(ds, one))
    BY DileptonBalanced, TrileptonBalanced
  <2> HIDE DEF one, NoPairs, NoTriples
  <2> QED
    BY <1>5, <2>1
<1> HIDE DEF di, tri, NoPairs, NoTriples
<1>7. e.muons \in Seq(M) /\ e.electrons \in Seq(N)
  BY DEF Measured
<1>8. /\ Where(e.muons, LooseMuon) \in Seq(M) /\ Where(e.muons, TightMuon) \in Seq(M)
      /\ Where(e.electrons, LooseElectron) \in Seq(N)
      /\ Where(e.electrons, TightElectron) \in Seq(N) /\ Jets25(e) \in Seq(J)
  <2>1. Where(e.muons, LooseMuon) \in Seq(M) /\ Where(e.electrons, LooseElectron) \in Seq(N)
    BY <1>7, WhereType DEF Where
  <2> QED
    BY <2>1, TightType
<1>9. n1 \in Nat /\ n2 \in Nat /\ n3 \in Nat /\ n4 \in Nat /\ n5 \in Nat
  BY <1>2, <1>3, <1>8
<1>10. {k0, k1, k2, k3, k4, k5} \cap {"tight_ll", "tights_2mu", "tights_emu", "tights_2e"} = {}
  OBVIOUS
<1> HIDE DEF n0, n1, n2, n3, n4, n5, k0, k1, k2, k3, k4, k5
<1>11. \A k \in {k0, k1, k2, k3, k4, k5} : \A n \in Nat : Balanced(Count(k, n))
  BY <1>10, BalancedCount
<1>12. /\ Balanced(Count(k0, n0)) /\ Balanced(Count(k1, n1)) /\ Balanced(Count(k2, n2))
       /\ Balanced(Count(k3, n3)) /\ Balanced(Count(k4, n4)) /\ Balanced(Count(k5, n5))
  BY <1>4, <1>9, <1>11
<1> DEFINE a == Count(k0, n0) (+) (Count(k1, n1) (+) Count(k2, n2))
                (+) (Count(k3, n3) (+) Count(k4, n4)) (+) Count(k5, n5)
<1>13. Balanced(a)
  BY <1>12, BalancedSum
<1>14. Balanced(di (+) tri)
  BY <1>6, BalancedSum
<1>15. SignalProcessor(ds, one) = a (+) (di (+) tri)
  BY <1>1
<1> HIDE DEF a, one
<1> QED
  BY <1>13, <1>14, <1>15, BalancedSum DEF one

\* and of any events.
LEMMA SignalAgrees ==
  ASSUME NEW E, NEW J, NEW M, NEW N, Measured(E, J, M, N), NEW s \in Seq(E), NEW ds
  PROVE  Balanced(SignalProcessor(ds, s))
<1> DEFINE T == {t \in Seq(E) : Balanced(SignalProcessor(ds, t))}
<1>1. <<>> \in T
  <2>1. Joined(<<>>, <<>>, <<>>, E)
    BY JoinedNothing
  <2>2. SignalProcessor(ds, <<>>) = EmptyBag
    BY <2>1, SignalSummed, SummedNothing
  <2>3. <<>> \in Seq(E)
    OBVIOUS
  <2> QED
    BY <2>2, <2>3, BalancedNone
<1>2. ASSUME NEW t \in Seq(E), NEW e \in E, t \in T PROVE Append(t, e) \in T
  <2> DEFINE one == <<e>>
             more == Append(t, e)
  <2>1. Joined(t, one, more, E) /\ more \in Seq(E)
    BY OneMore
  <2>2. Balanced(SignalProcessor(ds, one))
    BY EventBalanced
  <2> HIDE DEF one, more
  <2>3. Summed(SignalProcessor(ds, t), SignalProcessor(ds, one), SignalProcessor(ds, more))
    BY <2>1, SignalSummed
  <2>4. Balanced(SignalProcessor(ds, t) (+) SignalProcessor(ds, one))
    BY <1>2, <2>2, BalancedSum
  <2>5. SignalProcessor(ds, more) = SignalProcessor(ds, t) (+) SignalProcessor(ds, one)
    BY <2>3 DEF Summed
  <2> QED
    BY <2>1, <2>4, <2>5 DEF more
<1> HIDE DEF T
<1>3. Seq(E) \subseteq T
  BY <1>1, <1>2, FromNone
<1> QED
  BY <1>3 DEF T

-----------------------------------------------------------------------------
(* The counters of a run *)

\* The notebooks with counters that should agree, and what is made of events or of chunks
\* of which they do.
WithCounters == {"example1", "example3", "example4", "example5", "example7"}
Fine(q, b, n) == IF q = "tHq" THEN Balanced(b) ELSE Good(q, b, n)

\* They agree.
LEMMA FineGood ==
  ASSUME NEW q \in WithCounters \cup {"tHq"}, NEW b, NEW n, Fine(q, b, n)
  PROVE  Finite(b) /\ Agrees(q, PostOf(q, b), n)
<1>1. Good(q, b, n)
  BY BalancedGood DEF Fine
<1> QED
  BY <1>1 DEF Good

\* For all but one of the notebooks the chunks are not counted.
LEMMA FineOne ==
  ASSUME NEW q \in WithCounters, q # "example1", NEW b, Fine(q, b, 0)
  PROVE  Fine(q, b, 1)
<1>1. Finite(b) /\ Agrees(q, b, 0) /\ q # "tHq"
  BY DEF Fine, Good, PostOf, WithCounters
<1>2. Agrees(q, b, 1)
  BY <1>1, Agreement DEF WithCounters
<1> QED
  BY <1>1, <1>2 DEF Fine, Good, PostOf

\* What agrees in two parts agrees in the whole.
LEMMA FineSum ==
  ASSUME NEW q \in WithCounters \cup {"tHq"}, NEW a, NEW b, NEW m \in Nat, NEW n \in Nat,
         Fine(q, a, m), Fine(q, b, n)
  PROVE  Fine(q, a (+) b, m + n)
<1>1. CASE q = "tHq"
  BY <1>1, BalancedSum DEF Fine
<1>2. CASE q \in WithCounters
  <2>1. /\ Finite(a) /\ Finite(b) /\ Agrees(q, a, m) /\ Agrees(q, b, n) /\ q # "tHq"
        /\ \A x : PostOf(q, x) = x
    BY <1>2 DEF Fine, Good, PostOf, WithCounters
  <2> DEFINE s == a (+) b
  <2>2. /\ Finite(s)
        /\ \A k : Reached(s, k) = Reached(a, k) + Reached(b, k)
        /\ \A h : Filled(s, h) = Filled(a, h) + Filled(b, h)
    BY <2>1, SumHolds
  <2> HIDE DEF s
  <2>3. ASSUME q = "example1" PROVE Agrees(q, s, m + n)
    <3> DEFINE k == "number of chunks"
    <3>1. \A x, l : Agrees("example1", x, l) <=> Reached(x, k) = l
      BY Agreement
    <3> HIDE DEF k
    <3>2. Agrees("example1", s, m + n)
      BY <2>1, <2>2, <2>3, <3>1
    <3> QED
      BY <2>3, <3>2
  <2>4. ASSUME q = "example3" PROVE Agrees(q, s, m + n)
    <3> DEFINE k == "abs(eta) < 1"
               l == "final good jets"
               h == "Jet_pt"
    <3>1. \A x, i : Agrees("example3", x, i) <=>
                      Reached(x, k) = Reached(x, l) /\ Reached(x, l) = Filled(x, h)
      BY Agreement
    <3> HIDE DEF k, l, h
    <3>2. Agrees("example3", s, m + n)
      BY <2>1, <2>2, <2>4, <3>1
    <3> QED
      BY <2>4, <3>2
  <2>5. ASSUME q = "example4" PROVE Agrees(q, s, m + n)
    <3> DEFINE k == "final events"
               h == "MET_pt"
    <3>1. \A x, i : Agrees("example4", x, i) <=> Reached(x, k) = Filled(x, h)
      BY Agreement
    <3> HIDE DEF k, h
    <3>2. Agrees("example4", s, m + n)
      BY <2>1, <2>2, <2>5, <3>1
    <3> QED
      BY <2>5, <3>2
  <2>6. ASSUME q = "example5" PROVE Agrees(q, s, m + n)
    <3> DEFINE k == "final events"
               h == "MET"
    <3>1. \A x, i : Agrees("example5", x, i) <=> Reached(x, k) = Filled(x, h)
      BY Agreement
    <3> HIDE DEF k, h
    <3>2. Agrees("example5", s, m + n)
      BY <2>1, <2>2, <2>6, <3>1
    <3> QED
      BY <2>6, <3>2
  <2>7. ASSUME q = "example7" PROVE Agrees(q, s, m + n)
    <3> DEFINE k == "final jets"
               l == "jet-lepton pairs"
    <3>1. \A x, i : Agrees("example7", x, i) <=> Reached(x, k) = Reached(x, l)
      BY Agreement
    <3> HIDE DEF k, l
    <3>2. Agrees("example7", s, m + n)
      BY <2>1, <2>2, <2>7, <3>1
    <3> QED
      BY <2>7, <3>2
  <2>8. Agrees(q, s, m + n)
    BY <1>2, <2>3, <2>4, <2>5, <2>6, <2>7 DEF WithCounters
  <2> QED
    BY <2>1, <2>2, <2>8 DEF Fine, Good, s
<1> QED
  BY <1>1, <1>2

\* Nothing agrees.
LEMMA FineNone == ASSUME NEW q \in WithCounters \cup {"tHq"} PROVE Fine(q, EmptyBag, 0)
<1>1. Balanced(EmptyBag)
  BY BalancedNone
<1>2. Finite(EmptyBag)
  BY <1>1 DEF Balanced, Plain
<1>3. (\A k : Reached(EmptyBag, k) = 0) /\ \A h : Filled(EmptyBag, h) = 0
  BY CountSignal, FilledNone
<1>4. q \in WithCounters => Agrees(q, EmptyBag, 0)
  BY <1>3, Agreement DEF WithCounters
<1> QED
  BY <1>1, <1>2, <1>4 DEF Fine, Good, PostOf, WithCounters

\* What the notebooks make of one event,
LEMMA EventFine ==
  ASSUME NEW E, NEW J, NEW L, Readable(E, J, L), NEW q \in {"example3", "example5", "example7"},
         q = "example7" => BothKinds(E), NEW e \in E, NEW ds
  PROVE  Fine(q, Processed(q, ds, <<e>>), 0)
BY Example3Agrees, Example5Agrees, Example7Agrees DEF Fine, Processed

\* or of any,
LEMMA EventsFine ==
  ASSUME NEW E, NEW J, NEW L, Readable(E, J, L), NEW q \in {"example3", "example5", "example7"},
         q = "example7" => BothKinds(E), NEW s \in Seq(E), NEW ds
  PROVE  Fine(q, Processed(q, ds, s), 0)
<1>1. ASSUME NEW u, NEW v, NEW w, Joined(u, v, w, E)
      PROVE  Summed(Processed(q, ds, u), Processed(q, ds, v), Processed(q, ds, w))
  BY <1>1, Example3Summed, Example5Summed, Example7Summed DEF Processed
<1> DEFINE T == {t \in Seq(E) : Fine(q, Processed(q, ds, t), 0)}
<1>2. q \in WithCounters
  BY DEF WithCounters
<1>3. <<>> \in T
  <2>1. Joined(<<>>, <<>>, <<>>, E)
    BY JoinedNothing
  <2>2. Processed(q, ds, <<>>) = EmptyBag
    BY <1>1, <2>1, SummedNothing
  <2>3. <<>> \in Seq(E)
    OBVIOUS
  <2> QED
    BY <1>2, <2>2, <2>3, FineNone
<1>4. ASSUME NEW t \in Seq(E), NEW e \in E, t \in T PROVE Append(t, e) \in T
  <2> DEFINE one == <<e>>
             more == Append(t, e)
  <2>1. Joined(t, one, more, E) /\ more \in Seq(E)
    BY OneMore
  <2>2. Fine(q, Processed(q, ds, one), 0)
    BY EventFine
  <2> HIDE DEF one, more
  <2>3. Summed(Processed(q, ds, t), Processed(q, ds, one), Processed(q, ds, more))
    BY <1>1, <2>1
  <2>4. Fine(q, Processed(q, ds, t), 0)
    BY <1>4
  <2>5. Fine(q, Processed(q, ds, t) (+) Processed(q, ds, one), 0 + 0)
    BY <1>2, <2>2, <2>4, FineSum
  <2>6. Fine(q, Processed(q, ds, more), 0)
    BY <2>3, <2>5 DEF Summed
  <2> QED
    BY <2>1, <2>6 DEF more
<1> HIDE DEF T
<1>5. Seq(E) \subseteq T
  BY <1>3, <1>4, FromNone
<1> QED
  BY <1>5 DEF T

\* and so of a chunk.
LEMMA ChunkFine ==
  ASSUME NEW E, NEW J, NEW L, Readable(E, J, L), NEW q \in WithCounters,
         q = "example7" => BothKinds(E), NEW s \in Seq(E), NEW ds
  PROVE  Fine(q, Processed(q, ds, s), 1)
<1>1. CASE q = "example1"
  BY <1>1, Example1Agrees DEF Fine, Processed
<1>2. CASE q = "example4"
  <2>1. Fine(q, Processed(q, ds, s), 0)
    BY <1>2, Example4Agrees DEF Fine, Processed
  <2> QED
    BY <1>2, <2>1, FineOne
<1>3. CASE q \in {"example3", "example5", "example7"}
  <2>1. Fine(q, Processed(q, ds, s), 0)
    BY <1>3, EventsFine
  <2> QED
    BY <1>3, <2>1, FineOne
<1> QED
  BY <1>1, <1>2, <1>3 DEF WithCounters

\* The sum over the chunks agrees if that of every chunk does.
LEMMA ChunksFine ==
  ASSUME NEW q \in WithCounters \cup {"tHq"}, NEW acc, NEW n \in Nat,
         \A c \in 1..n : IsABag(acc[c]) /\ Fine(q, acc[c], 1)
  PROVE  Fine(q, SumOver(acc, 1..n), n)
<1> DEFINE ok(m) == /\ Fine(q, SumOver(acc, 1..m), m)
                    /\ \A entry : IsFiniteSet(Copies(entry, acc, 1..m))
           T == {m \in Nat : m <= n => ok(m)}
<1>1. 0 \in T
  <2>1. 1..0 = {}
    OBVIOUS
  <2>2. ok(0)
    BY <2>1, SumOverNone, FineNone
  <2> HIDE DEF ok
  <2> QED
    BY <2>2
<1>2. ASSUME NEW m \in Nat, m \in T PROVE m + 1 \in T
  <2> SUFFICES ASSUME m + 1 <= n PROVE ok(m + 1)
    BY DEF T
  <2>1. ok(m)
    BY <1>2
  <2> DEFINE S == 1..m
             c == m + 1
  <2>2. c \in 1..n /\ c \notin S /\ 1..c = S \cup {c}
    OBVIOUS
  <2>3. IsABag(acc[c]) /\ Fine(q, acc[c], 1)
    BY <2>2
  <2> HIDE DEF S, c
  <2>4. Fine(q, SumOver(acc, S), m) /\ \A entry : IsFiniteSet(Copies(entry, acc, S))
    BY <2>1 DEF S
  <2>5. /\ SumOver(acc, S \cup {c}) = SumOver(acc, S) (+) acc[c]
        /\ \A entry : IsFiniteSet(Copies(entry, acc, S \cup {c}))
    BY <2>2, <2>3, <2>4, SumOverMore
  <2>6. Fine(q, SumOver(acc, S) (+) acc[c], m + 1)
    BY <2>3, <2>4, FineSum
  <2>7. /\ Fine(q, SumOver(acc, 1..c), c)
        /\ \A entry : IsFiniteSet(Copies(entry, acc, 1..c))
    BY <2>2, <2>5, <2>6 DEF c
  <2> QED
    BY <2>7 DEF c
<1> HIDE DEF T, ok
<1>3. Nat \subseteq T
  BY <1>1, <1>2, FromZero
<1> QED
  BY <1>3 DEF T, ok

\* Of the run of a job: its counters agree.
CountersAgree(j) ==
  (DOMAIN j.chunks) \cap j.raises = {} =>
    Agrees(j.query, Post(j.query, SumOver(j.acc, DOMAIN j.chunks)), Len(j.chunks))

\* Those of the notebooks that have some,
LEMMA JobCounts ==
  ASSUME NEW data, NEW chunks, NEW E, FilesetOf(data, chunks, E), DOMAIN chunks = 1..Len(chunks),
         NEW J, NEW L, Readable(E, J, L), NEW j \in JobsOn(data, chunks), j \in Jobs,
         j.query = "example7" => BothKinds(E), PostIsOurs
  PROVE  CountersAgree(j)
<1> DEFINE q == j.query
           n == Len(chunks)
           b == SumOver(j.acc, 1..n)
<1>1. /\ q \in ByEvent /\ j.chunks = chunks
      /\ \A c \in 1..n : j.acc[c] = Processed(q, chunks[c][1], chunks[c][2])
  BY JobsMade DEF MadeBy
<1>2. \A c \in 1..n : chunks[c][2] \in Seq(E)
  BY ChunkType
<1>3. \A c \in 1..n : IsABag(j.acc[c])
  BY <1>1, JobsAssumption
<1>4. n \in Nat
  BY DEF FilesetOf
<1>5. Post(q, b) = b
  BY <1>1 DEF ByEvent, PostOf, PostIsOurs
<1>6. q = "example7" => BothKinds(E)
  OBVIOUS
<1>7. CountersAgree(j) <=> (1..n \cap j.raises = {} => Agrees(q, Post(q, b), n))
  BY <1>1 DEF CountersAgree
<1> HIDE DEF q, n, b
<1>8. CASE q \in WithCounters
  <2>1. \A c \in 1..n : Fine(q, j.acc[c], 1)
    <3> TAKE c \in 1..n
    <3>1. chunks[c][2] \in Seq(E)
      BY <1>2
    <3>2. Fine(q, Processed(q, chunks[c][1], chunks[c][2]), 1)
      BY <1>6, <1>8, <3>1, ChunkFine
    <3> QED
      BY <1>1, <3>2
  <2>2. Fine(q, b, n)
    BY <1>3, <1>4, <1>8, <2>1, ChunksFine DEF b
  <2>3. Agrees(q, PostOf(q, b), n)
    BY <1>8, <2>2, FineGood
  <2>4. PostOf(q, b) = b
    BY <1>8 DEF PostOf, WithCounters
  <2> QED
    BY <1>5, <1>7, <2>3, <2>4
<1>9. CASE q \notin WithCounters
  <2>1. Agrees(q, b, n)
    BY <1>1, <1>9, Agreement DEF WithCounters, ByEvent
  <2> QED
    BY <1>5, <1>7, <2>1
<1> QED
  BY <1>8, <1>9

\* and those of the analysis.
LEMMA SignalCounts ==
  ASSUME NEW data, NEW chunks, NEW E, FilesetOf(data, chunks, E), DOMAIN chunks = 1..Len(chunks),
         NEW J, NEW M, NEW N, Measured(E, J, M, N), NEW j, j = SignalJob(data, chunks),
         j \in Jobs, PostIsOurs
  PROVE  CountersAgree(j)
<1> DEFINE q == "tHq"
           n == Len(chunks)
           b == SumOver(j.acc, 1..n)
<1>1. /\ j.query = q /\ j.chunks = chunks
      /\ \A c \in 1..n : j.acc[c] = SignalProcessor(chunks[c][1], chunks[c][2])
  BY DEF SignalJob, Job, Never
<1>2. \A c \in 1..n : chunks[c][2] \in Seq(E)
  BY ChunkType
<1>3. \A c \in 1..n : IsABag(j.acc[c])
  BY <1>1, JobsAssumption
<1>4. n \in Nat
  BY DEF FilesetOf
<1>5. Post(q, b) = PostOf(q, b)
  BY DEF PostIsOurs
<1>6. CountersAgree(j) <=> (1..n \cap j.raises = {} => Agrees(q, Post(q, b), n))
  BY <1>1 DEF CountersAgree
<1>7. \A x : Fine(q, x, 1) <=> Balanced(x)
  BY DEF Fine
<1> HIDE DEF q, n, b
<1>8. \A c \in 1..n : Fine(q, j.acc[c], 1)
  BY <1>1, <1>2, <1>7, SignalAgrees
<1>9. q \in WithCounters \cup {"tHq"}
  BY DEF q
<1>10. Fine(q, b, n)
  BY <1>3, <1>4, <1>8, <1>9, ChunksFine DEF b
<1>11. Agrees(q, PostOf(q, b), n)
  BY <1>9, <1>10, FineGood
<1> QED
  BY <1>5, <1>6, <1>11

(* The counters of a result agree with each other and with its histograms, for *)
(* any events and chunks, of every notebook; those of example7, where an event  *)
(* with a good jet has a lepton of each kind.                                   *)
THEOREM CountersOfARun ==
  ASSUME PostIsOurs,
         \A j \in Jobs :
           \/ \E data, chunks, E :
                /\ FilesetOf(data, chunks, E) /\ DOMAIN chunks = 1..Len(chunks)
                /\ \/ \E J, L : /\ Readable(E, J, L) /\ j \in JobsOn(data, chunks)
                                /\ j.query = "example7" => BothKinds(E)
                   \/ \E J, M, N : Measured(E, J, M, N) /\ j = SignalJob(data, chunks)
           \/ j.query \in {"example8", "dilepton"}
  PROVE  Spec => []CutflowAgrees
<1>1. \A j \in Jobs : CountersAgree(j)
  <2> SUFFICES ASSUME NEW j \in Jobs PROVE CountersAgree(j)
    OBVIOUS
  <2>1. CASE \E data, chunks, E :
                /\ FilesetOf(data, chunks, E) /\ DOMAIN chunks = 1..Len(chunks)
                /\ \/ \E J, L : /\ Readable(E, J, L) /\ j \in JobsOn(data, chunks)
                                /\ j.query = "example7" => BothKinds(E)
                   \/ \E J, M, N : Measured(E, J, M, N) /\ j = SignalJob(data, chunks)
    BY <2>1, JobCounts, SignalCounts
  <2>2. CASE j.query \in {"example8", "dilepton"}
    <3>1. \A b, n : Agrees(j.query, b, n)
      BY <2>2 DEF Agrees
    <3> QED
      BY <3>1 DEF CountersAgree
  <2> QED
    BY <2>1, <2>2
<1>2. SummedInv => CutflowAgrees
  BY <1>1 DEF SummedInv, CutflowAgrees, CountersAgree, Chunks
<1> QED
  BY Running, <1>2, PTL

-----------------------------------------------------------------------------
(* What the notebooks say *)

\* An entry of some of the histograms.
Told(k, H) == Len(k) = 3 /\ k[1] \in H

\* What some histograms hold of an accumulator.
LEMMA OnlyAmount ==
  ASSUME NEW b, IsABag(b), NEW H
  PROVE  /\ IsABag(Only(b, H))
         /\ \A k : Amount(Only(b, H), k) = IF Told(k, H) THEN Amount(b, k) ELSE 0
<1> DEFINE D == {k \in DOMAIN b : Told(k, H)}
<1>1. UNION {OfHistogram(b, h) : h \in H} = D
  BY DEF OfHistogram, Told
<1>2. Only(b, H) = [k \in D |-> b[k]]
  BY <1>1 DEF Only
<1>3. \A k : k \in D <=> k \in DOMAIN b /\ Told(k, H)
  OBVIOUS
<1> HIDE DEF D
<1>4. IsABag(Only(b, H))
  BY <1>2, <1>3 DEF IsABag
<1>5. \A k : Amount(Only(b, H), k) = IF Told(k, H) THEN Amount(b, k) ELSE 0
  BY <1>2, <1>3 DEF Amount
<1> QED
  BY <1>4, <1>5

\* Of a sum, it is the sum of what they hold.
LEMMA OnlySum ==
  ASSUME NEW a, NEW b, IsABag(a), IsABag(b), NEW H
  PROVE  Only(a (+) b, H) = Only(a, H) (+) Only(b, H)
<1>1. /\ IsABag(a (+) b) /\ IsABag(Only(a, H)) /\ IsABag(Only(b, H))
      /\ IsABag(Only(a (+) b, H)) /\ IsABag(Only(a, H) (+) Only(b, H))
  BY AmountOfSum, OnlyAmount
<1>2. ASSUME NEW k PROVE Amount(Only(a (+) b, H), k) = Amount(Only(a, H) (+) Only(b, H), k)
  <2>1. Amount(a (+) b, k) = Amount(a, k) + Amount(b, k)
    BY AmountOfSum
  <2>2. Amount(Only(a, H) (+) Only(b, H), k) = Amount(Only(a, H), k) + Amount(Only(b, H), k)
    BY <1>1, AmountOfSum
  <2>3. /\ Amount(Only(a, H), k) = IF Told(k, H) THEN Amount(a, k) ELSE 0
        /\ Amount(Only(b, H), k) = IF Told(k, H) THEN Amount(b, k) ELSE 0
        /\ Amount(Only(a (+) b, H), k) = IF Told(k, H) THEN Amount(a (+) b, k) ELSE 0
    BY <1>1, OnlyAmount
  <2> QED
    BY <2>1, <2>2, <2>3
<1> QED
  BY <1>1, <1>2, SameAmounts

\* And so of the sum over some chunks.
LEMMA OnlyOver ==
  ASSUME NEW acc, NEW S, NEW H
  PROVE  Only(SumOver(acc, S), H) = SumOver([c \in S |-> Only(acc[c], H)], S)
<1> DEFINE only == [c \in S |-> Only(acc[c], H)]
           in == UNION {BagToSet(acc[c]) : c \in S}
           D == {k \in in : Told(k, H)}
<1>0. \A b : Only(b, H) = [k \in {k \in DOMAIN b : Told(k, H)} |-> b[k]]
  <2> TAKE b
  <2>1. UNION {OfHistogram(b, h) : h \in H} = {k \in DOMAIN b : Told(k, H)}
    BY DEF OfHistogram, Told
  <2> QED
    BY <2>1 DEF Only
<1> HIDE DEF only
<1>1. ASSUME NEW c \in S
      PROVE  /\ BagToSet(only[c]) = {k \in BagToSet(acc[c]) : Told(k, H)}
             /\ \A e \in BagToSet(only[c]) : only[c][e] = acc[c][e]
  <2>1. only[c] = [k \in {k \in DOMAIN acc[c] : Told(k, H)} |-> acc[c][k]]
    BY <1>0 DEF only
  <2> QED
    BY <2>1 DEF BagToSet
<1>2. UNION {BagToSet(only[c]) : c \in S} = D
  BY <1>1
<1>3. \A e \in D : Copies(e, only, S) = Copies(e, acc, S)
  <2> TAKE e \in D
  <2>1. {d \in S : BagIn(e, only[d])} = {d \in S : BagIn(e, acc[d])}
    BY <1>1 DEF BagIn
  <2>2. \A d \in {d \in S : BagIn(e, acc[d])} : only[d][e] = acc[d][e]
    BY <1>1 DEF BagIn
  <2> DEFINE P == {d \in S : BagIn(e, acc[d])}
  <2>3. /\ Copies(e, only, S) = UNION {{c} \X (1..only[c][e]) : c \in P}
        /\ Copies(e, acc, S) = UNION {{c} \X (1..acc[c][e]) : c \in P}
    BY <2>1 DEF Copies
  <2> HIDE DEF P
  <2> QED
    BY <2>2, <2>3 DEF P
<1>4. SumOver(only, S) = [e \in D |-> Cardinality(Copies(e, acc, S))]
  BY <1>2, <1>3 DEF SumOver
<1>5. SumOver(acc, S) = [e \in in |-> Cardinality(Copies(e, acc, S))]
  BY DEF SumOver
<1> HIDE DEF in
<1>6. Only(SumOver(acc, S), H) = [e \in D |-> Cardinality(Copies(e, acc, S))]
  BY <1>0, <1>5
<1> QED
  BY <1>4, <1>6 DEF only

\* The number of chunks is in none of them.
LEMMA OnlyTrimmed ==
  ASSUME NEW b, NEW H PROVE Only(NoChunks(b), H) = Only(b, H)
<1> DEFINE key == <<"number of chunks">>
<1>1. Len(key) # 3
  OBVIOUS
<1> HIDE DEF key
<1>2. NoChunks(b) = [k \in (DOMAIN b) \ {key} |-> b[k]]
  BY DEF NoChunks, key
<1>3. \A h : OfHistogram(NoChunks(b), h) = OfHistogram(b, h)
  BY <1>1, <1>2 DEF OfHistogram
<1>4. \A k \in UNION {OfHistogram(b, h) : h \in H} : NoChunks(b)[k] = b[k]
  BY <1>1, <1>2 DEF OfHistogram
<1> QED
  BY <1>3, <1>4 DEF Only

\* What an event adds is said in pairs.
Paired(V) == \A x \in V : x = <<x[1], x[2]>>

\* How much is entered of a pair: as much as is said of it.
LEMMA EnteredAmount ==
  ASSUME NEW V, Paired(V), NEW said \in Seq(V), NEW ds
  PROVE  /\ IsABag(Entered(ds, said))
         /\ \A a, v : Amount(Entered(ds, said), <<a, ds, v>>)
                        = Amount(Fill(ds, ds, said), <<ds, ds, <<a, v>>>>)
         /\ \A k : Amount(Entered(ds, said), k) # 0 => \E a, v : k = <<a, ds, v>>
<1> DEFINE D == {<<x[1], ds, x[2]>> : x \in ToSet(said)}
           with(k) == {i \in DOMAIN said : said[i] = <<k[1], k[3]>>}
<1>1. /\ DOMAIN said = 1..Len(said) /\ Len(said) \in Nat
      /\ IsFiniteSet(1..Len(said)) /\ \A i \in DOMAIN said : said[i] \in V
  BY FS_Interval
<1>2. \A k : IsFiniteSet(with(k)) /\ Cardinality(with(k)) \in Nat
  <2>1. \A k : with(k) \subseteq 1..Len(said)
    BY <1>1
  <2> HIDE DEF with
  <2> QED
    BY <1>1, <2>1, FS_Subset, FS_CardinalityType
<1>3. \A a, v : with(<<a, ds, v>>) = {i \in DOMAIN said : said[i] = <<a, v>>}
  OBVIOUS
<1>4. \A a, v : <<a, ds, v>> \in D <=> with(<<a, ds, v>>) # {}
  <2> TAKE a, v
  <2>1. ASSUME <<a, ds, v>> \in D PROVE with(<<a, ds, v>>) # {}
    <3>1. PICK i \in DOMAIN said : <<a, ds, v>> = <<said[i][1], ds, said[i][2]>>
      BY <2>1 DEF ToSet
    <3>2. said[i] = <<said[i][1], said[i][2]>>
      BY <1>1 DEF Paired
    <3>3. said[i] = <<a, v>>
      BY <3>1, <3>2
    <3> QED
      BY <1>3, <3>3
  <2>2. ASSUME with(<<a, ds, v>>) # {} PROVE <<a, ds, v>> \in D
    <3>1. PICK i \in DOMAIN said : said[i] = <<a, v>>
      BY <1>3, <2>2
    <3>2. said[i][1] = a /\ said[i][2] = v /\ said[i] \in ToSet(said)
      BY <3>1 DEF ToSet
    <3> QED
      BY <3>2
  <2> QED
    BY <2>1, <2>2
<1>5. Entered(ds, said) = [k \in D |-> Cardinality(with(k))]
  BY DEF Entered
<1>6. \A k : k \in D => \E a, v : k = <<a, ds, v>>
  OBVIOUS
<1>7. \A a, v : Amount(Fill(ds, ds, said), <<ds, ds, <<a, v>>>>) = Cardinality(with(<<a, ds, v>>))
  <2> TAKE a, v
  <2>1. FilledWith(ds, ds, said, <<ds, ds, <<a, v>>>>) = with(<<a, ds, v>>)
    BY <1>3 DEF FilledWith
  <2> HIDE DEF with
  <2> QED
    BY <2>1, FillAmount
<1> HIDE DEF D, with
<1>8. \A a, v : <<a, ds, v>> \in D <=> Cardinality(with(<<a, ds, v>>)) # 0
  BY <1>2, <1>4, FS_EmptySet
<1>9. \A k \in D : Cardinality(with(k)) # 0
  BY <1>6, <1>8
<1>10. IsABag(Entered(ds, said))
  BY <1>2, <1>5, <1>9 DEF IsABag
<1>11. \A k : Amount(Entered(ds, said), k) = IF k \in D THEN Cardinality(with(k)) ELSE 0
  BY <1>5 DEF Amount
<1>12. \A a, v : Amount(Entered(ds, said), <<a, ds, v>>) = Cardinality(with(<<a, ds, v>>))
  BY <1>8, <1>11
<1> QED
  BY <1>6, <1>7, <1>10, <1>11, <1>12

\* Said first and said then is said.
LEMMA EnteredBoth ==
  ASSUME NEW V, Paired(V), NEW x, NEW y, NEW z, Joined(x, y, z, V), NEW ds
  PROVE  Summed(Entered(ds, x), Entered(ds, y), Entered(ds, z))
<1> DEFINE a == Entered(ds, x)
           b == Entered(ds, y)
           c == Entered(ds, z)
<1>1. x \in Seq(V) /\ y \in Seq(V) /\ z \in Seq(V)
  BY JoinedType
<1>2. /\ IsABag(a) /\ IsABag(b) /\ IsABag(c)
      /\ \A s \in {x, y, z} : \A k : Amount(Entered(ds, s), k) # 0 => \E h, v : k = <<h, ds, v>>
  BY <1>1, EnteredAmount
<1>3. \A s \in {x, y, z} : \A h, v : Amount(Entered(ds, s), <<h, ds, v>>)
                                   = Amount(Fill(ds, ds, s), <<ds, ds, <<h, v>>>>)
  BY <1>1, EnteredAmount
<1>4. /\ IsABag(Fill(ds, ds, x)) /\ IsABag(Fill(ds, ds, y))
      /\ Fill(ds, ds, z) = Fill(ds, ds, x) (+) Fill(ds, ds, y)
  BY SummedFill DEF Summed
<1>5. \A k : Amount(Fill(ds, ds, z), k) = Amount(Fill(ds, ds, x), k) + Amount(Fill(ds, ds, y), k)
  BY <1>4, AmountOfSum
<1>6. \A h, v : Amount(c, <<h, ds, v>>) = Amount(a, <<h, ds, v>>) + Amount(b, <<h, ds, v>>)
  <2> TAKE h, v
  <2>1. Amount(c, <<h, ds, v>>) = Amount(Fill(ds, ds, z), <<ds, ds, <<h, v>>>>)
    BY <1>3
  <2>2. /\ Amount(a, <<h, ds, v>>) = Amount(Fill(ds, ds, x), <<ds, ds, <<h, v>>>>)
        /\ Amount(b, <<h, ds, v>>) = Amount(Fill(ds, ds, y), <<ds, ds, <<h, v>>>>)
    BY <1>3
  <2> DEFINE k == <<h, ds, v>>
             l == <<ds, ds, <<h, v>>>>
  <2> HIDE DEF a, b, c, k, l
  <2>3. Amount(Fill(ds, ds, z), l) = Amount(Fill(ds, ds, x), l) + Amount(Fill(ds, ds, y), l)
    BY <1>5
  <2>4. Amount(c, k) = Amount(a, k) + Amount(b, k)
    BY <2>1, <2>2, <2>3 DEF k, l
  <2> QED
    BY <2>4 DEF k
<1>7. \A k : /\ Amount(a, k) # 0 => \E h, v : k = <<h, ds, v>>
             /\ Amount(b, k) # 0 => \E h, v : k = <<h, ds, v>>
             /\ Amount(c, k) # 0 => \E h, v : k = <<h, ds, v>>
  BY <1>2
<1> HIDE DEF a, b, c
<1>8. \A k : Amount(c, k) = Amount(a, k) + Amount(b, k)
  <2> TAKE k
  <2>1. CASE \E h, v : k = <<h, ds, v>>
    BY <1>6, <2>1
  <2>2. CASE ~\E h, v : k = <<h, ds, v>>
    BY <1>7, <2>2
  <2> QED
    BY <2>1, <2>2
<1>9. c = a (+) b
  <2>1. IsABag(a (+) b) /\ \A k : Amount(a (+) b, k) = Amount(a, k) + Amount(b, k)
    BY <1>2, AmountOfSum DEF a, b
  <2>2. IsABag(c)
    BY <1>2 DEF c
  <2> QED
    BY <1>8, <2>1, <2>2, SameAmounts
<1> QED
  BY <1>2, <1>9 DEF Summed, a, b, c

\* Values said of one histogram are those it is filled with.
LEMMA EnteredOne ==
  ASSUME NEW values, NEW said, NEW h, NEW ds,
         DOMAIN said = DOMAIN values, \A i \in DOMAIN values : said[i] = <<h, values[i]>>
  PROVE  Entered(ds, said) = Fill(h, ds, values)
<1> DEFINE D == {<<x[1], ds, x[2]>> : x \in ToSet(said)}
           B == {<<h, ds, v>> : v \in ToSet(values)}
<1>1. D = B
  <2>1. \A i \in DOMAIN values : <<said[i][1], ds, said[i][2]>> = <<h, ds, values[i]>>
    OBVIOUS
  <2>2. D = {<<said[i][1], ds, said[i][2]>> : i \in DOMAIN values}
    BY DEF ToSet
  <2>3. B = {<<h, ds, values[i]>> : i \in DOMAIN values}
    BY DEF ToSet
  <2> QED
    BY <2>1, <2>2, <2>3
<1>2. \A k \in B : {i \in DOMAIN said : said[i] = <<k[1], k[3]>>} = {i \in DOMAIN values : values[i] = k[3]}
  <2> TAKE k \in B
  <2>1. k[1] = h
    OBVIOUS
  <2>2. \A i \in DOMAIN values : said[i] = <<k[1], k[3]>> <=> values[i] = k[3]
    BY <2>1
  <2> QED
    BY <2>2
<1> HIDE DEF D, B
<1>3. Entered(ds, said) = [k \in D |-> Cardinality({i \in DOMAIN said : said[i] = <<k[1], k[3]>>})]
  BY DEF Entered, D
<1>4. Fill(h, ds, values) = [k \in B |-> Cardinality({i \in DOMAIN values : values[i] = k[3]})]
  BY DEF Fill, B
<1> QED
  BY <1>1, <1>2, <1>3, <1>4

\* Nothing is entered of nothing.
LEMMA EnteredNothing ==
  ASSUME NEW ds PROVE Entered(ds, <<>>) = EmptyBag
<1>1. Paired({})
  BY DEF Paired
<1>2. Joined(<<>>, <<>>, <<>>, {})
  BY JoinedNothing
<1> QED
  BY <1>1, <1>2, EnteredBoth, SummedNothing

\* What the notebooks say of an event.
Said(query, e) ==
  CASE query = "example1" -> Says1(e)
    [] query = "example2" -> Says2(e)
    [] query = "example3" -> Says3(e)
    [] query = "example4" -> Says4(e)
    [] query = "example5" -> Says5(e)
    [] query = "example6" -> Says6(e)
    [] query = "example7" -> Says7(e)
    [] query = "zpeak" -> SaysZPeak(e)
    [] query = "ttbar" -> SaysTtbar(e)
    [] query = "tutorial" -> SaysTutorial(e)
    [] OTHER -> SaysNothing(e)

\* The histograms that are spoken of, and the entries that are said of a fileset.
SpokenBy(j, data, S) ==
  /\ j.told = Tells[j.query]
  /\ j.described = SumOver([ds \in DOMAIN data |-> Entered(ds, FlattenSeq(Applied(data[ds], S)))],
                          DOMAIN data)

\* A job of these notebooks is measured against it.
LEMMA JobsSpoken ==
  ASSUME NEW data, NEW E, \A ds \in DOMAIN data : data[ds] \in Seq(E), NEW chunks,
         NEW j \in JobsOn(data, chunks)
  PROVE  SpokenBy(j, data, [e \in E |-> Said(j.query, e)])
<1>0. \A ds \in DOMAIN data : \A i \in DOMAIN data[ds] : data[ds][i] \in E
  OBVIOUS
<1> USE DEF Job
<1>1. CASE j = Job("example1", Example1, Never, Says1, data, chunks)
  <2>1. j.query = "example1"
    BY <1>1
  <2>2. \A e : Said("example1", e) = Says1(e)
    BY DEF Said
  <2>3. j.told = Tells[j.query]
    BY <1>1, <2>1
  <2> DEFINE S == [e \in E |-> Said(j.query, e)]
  <2>4. \A ds \in DOMAIN data : Each(data[ds], Says1) = Applied(data[ds], S)
    BY <1>0, <2>1, <2>2 DEF Each, Applied
  <2>5. j.described = Described(Says1, data)
    BY <1>1 DEF PostOf
  <2> HIDE DEF S, Job
  <2>6. [ds \in DOMAIN data |-> Entered(ds, FlattenSeq(Each(data[ds], Says1)))]
          = [ds \in DOMAIN data |-> Entered(ds, FlattenSeq(Applied(data[ds], S)))]
    BY <2>4
  <2> QED
    BY <2>3, <2>5, <2>6 DEF SpokenBy, Described, S
<1>2. CASE j = Job("example2", Example2, Never, Says2, data, chunks)
  <2>1. j.query = "example2"
    BY <1>2
  <2>2. \A e : Said("example2", e) = Says2(e)
    BY DEF Said
  <2>3. j.told = Tells[j.query]
    BY <1>2, <2>1
  <2> DEFINE S == [e \in E |-> Said(j.query, e)]
  <2>4. \A ds \in DOMAIN data : Each(data[ds], Says2) = Applied(data[ds], S)
    BY <1>0, <2>1, <2>2 DEF Each, Applied
  <2>5. j.described = Described(Says2, data)
    BY <1>2 DEF PostOf
  <2> HIDE DEF S, Job
  <2>6. [ds \in DOMAIN data |-> Entered(ds, FlattenSeq(Each(data[ds], Says2)))]
          = [ds \in DOMAIN data |-> Entered(ds, FlattenSeq(Applied(data[ds], S)))]
    BY <2>4
  <2> QED
    BY <2>3, <2>5, <2>6 DEF SpokenBy, Described, S
<1>3. CASE j = Job("example3", Example3, Never, Says3, data, chunks)
  <2>1. j.query = "example3"
    BY <1>3
  <2>2. \A e : Said("example3", e) = Says3(e)
    BY DEF Said
  <2>3. j.told = Tells[j.query]
    BY <1>3, <2>1
  <2> DEFINE S == [e \in E |-> Said(j.query, e)]
  <2>4. \A ds \in DOMAIN data : Each(data[ds], Says3) = Applied(data[ds], S)
    BY <1>0, <2>1, <2>2 DEF Each, Applied
  <2>5. j.described = Described(Says3, data)
    BY <1>3 DEF PostOf
  <2> HIDE DEF S, Job
  <2>6. [ds \in DOMAIN data |-> Entered(ds, FlattenSeq(Each(data[ds], Says3)))]
          = [ds \in DOMAIN data |-> Entered(ds, FlattenSeq(Applied(data[ds], S)))]
    BY <2>4
  <2> QED
    BY <2>3, <2>5, <2>6 DEF SpokenBy, Described, S
<1>4. CASE j = Job("example4", Example4, Never, Says4, data, chunks)
  <2>1. j.query = "example4"
    BY <1>4
  <2>2. \A e : Said("example4", e) = Says4(e)
    BY DEF Said
  <2>3. j.told = Tells[j.query]
    BY <1>4, <2>1
  <2> DEFINE S == [e \in E |-> Said(j.query, e)]
  <2>4. \A ds \in DOMAIN data : Each(data[ds], Says4) = Applied(data[ds], S)
    BY <1>0, <2>1, <2>2 DEF Each, Applied
  <2>5. j.described = Described(Says4, data)
    BY <1>4 DEF PostOf
  <2> HIDE DEF S, Job
  <2>6. [ds \in DOMAIN data |-> Entered(ds, FlattenSeq(Each(data[ds], Says4)))]
          = [ds \in DOMAIN data |-> Entered(ds, FlattenSeq(Applied(data[ds], S)))]
    BY <2>4
  <2> QED
    BY <2>3, <2>5, <2>6 DEF SpokenBy, Described, S
<1>5. CASE j = Job("example5", Example5, Never, Says5, data, chunks)
  <2>1. j.query = "example5"
    BY <1>5
  <2>2. \A e : Said("example5", e) = Says5(e)
    BY DEF Said
  <2>3. j.told = Tells[j.query]
    BY <1>5, <2>1
  <2> DEFINE S == [e \in E |-> Said(j.query, e)]
  <2>4. \A ds \in DOMAIN data : Each(data[ds], Says5) = Applied(data[ds], S)
    BY <1>0, <2>1, <2>2 DEF Each, Applied
  <2>5. j.described = Described(Says5, data)
    BY <1>5 DEF PostOf
  <2> HIDE DEF S, Job
  <2>6. [ds \in DOMAIN data |-> Entered(ds, FlattenSeq(Each(data[ds], Says5)))]
          = [ds \in DOMAIN data |-> Entered(ds, FlattenSeq(Applied(data[ds], S)))]
    BY <2>4
  <2> QED
    BY <2>3, <2>5, <2>6 DEF SpokenBy, Described, S
<1>6. CASE j = Job("example6", Example6, Never, Says6, data, chunks)
  <2>1. j.query = "example6"
    BY <1>6
  <2>2. \A e : Said("example6", e) = Says6(e)
    BY DEF Said
  <2>3. j.told = Tells[j.query]
    BY <1>6, <2>1
  <2> DEFINE S == [e \in E |-> Said(j.query, e)]
  <2>4. \A ds \in DOMAIN data : Each(data[ds], Says6) = Applied(data[ds], S)
    BY <1>0, <2>1, <2>2 DEF Each, Applied
  <2>5. j.described = Described(Says6, data)
    BY <1>6 DEF PostOf
  <2> HIDE DEF S, Job
  <2>6. [ds \in DOMAIN data |-> Entered(ds, FlattenSeq(Each(data[ds], Says6)))]
          = [ds \in DOMAIN data |-> Entered(ds, FlattenSeq(Applied(data[ds], S)))]
    BY <2>4
  <2> QED
    BY <2>3, <2>5, <2>6 DEF SpokenBy, Described, S
<1>7. CASE j = Job("example7", Example7, Never, Says7, data, chunks)
  <2>1. j.query = "example7"
    BY <1>7
  <2>2. \A e : Said("example7", e) = Says7(e)
    BY DEF Said
  <2>3. j.told = Tells[j.query]
    BY <1>7, <2>1
  <2> DEFINE S == [e \in E |-> Said(j.query, e)]
  <2>4. \A ds \in DOMAIN data : Each(data[ds], Says7) = Applied(data[ds], S)
    BY <1>0, <2>1, <2>2 DEF Each, Applied
  <2>5. j.described = Described(Says7, data)
    BY <1>7 DEF PostOf
  <2> HIDE DEF S, Job
  <2>6. [ds \in DOMAIN data |-> Entered(ds, FlattenSeq(Each(data[ds], Says7)))]
          = [ds \in DOMAIN data |-> Entered(ds, FlattenSeq(Applied(data[ds], S)))]
    BY <2>4
  <2> QED
    BY <2>3, <2>5, <2>6 DEF SpokenBy, Described, S
<1>8. CASE j = Job("zpeak", ZPeak, Never, SaysZPeak, data, chunks)
  <2>1. j.query = "zpeak"
    BY <1>8
  <2>2. \A e : Said("zpeak", e) = SaysZPeak(e)
    BY DEF Said
  <2>3. j.told = Tells[j.query]
    BY <1>8, <2>1
  <2> DEFINE S == [e \in E |-> Said(j.query, e)]
  <2>4. \A ds \in DOMAIN data : Each(data[ds], SaysZPeak) = Applied(data[ds], S)
    BY <1>0, <2>1, <2>2 DEF Each, Applied
  <2>5. j.described = Described(SaysZPeak, data)
    BY <1>8 DEF PostOf
  <2> HIDE DEF S, Job
  <2>6. [ds \in DOMAIN data |-> Entered(ds, FlattenSeq(Each(data[ds], SaysZPeak)))]
          = [ds \in DOMAIN data |-> Entered(ds, FlattenSeq(Applied(data[ds], S)))]
    BY <2>4
  <2> QED
    BY <2>3, <2>5, <2>6 DEF SpokenBy, Described, S
<1>9. CASE j = Job("ttbar", TtbarAnalysis, Never, SaysTtbar, data, chunks)
  <2>1. j.query = "ttbar"
    BY <1>9
  <2>2. \A e : Said("ttbar", e) = SaysTtbar(e)
    BY DEF Said
  <2>3. j.told = Tells[j.query]
    BY <1>9, <2>1
  <2> DEFINE S == [e \in E |-> Said(j.query, e)]
  <2>4. \A ds \in DOMAIN data : Each(data[ds], SaysTtbar) = Applied(data[ds], S)
    BY <1>0, <2>1, <2>2 DEF Each, Applied
  <2>5. j.described = Described(SaysTtbar, data)
    BY <1>9 DEF PostOf
  <2> HIDE DEF S, Job
  <2>6. [ds \in DOMAIN data |-> Entered(ds, FlattenSeq(Each(data[ds], SaysTtbar)))]
          = [ds \in DOMAIN data |-> Entered(ds, FlattenSeq(Applied(data[ds], S)))]
    BY <2>4
  <2> QED
    BY <2>3, <2>5, <2>6 DEF SpokenBy, Described, S
<1>10. CASE j = Job("tutorial", Tutorial, Never, SaysTutorial, data, chunks)
  <2>1. j.query = "tutorial"
    BY <1>10
  <2>2. \A e : Said("tutorial", e) = SaysTutorial(e)
    BY DEF Said
  <2>3. j.told = Tells[j.query]
    BY <1>10, <2>1
  <2> DEFINE S == [e \in E |-> Said(j.query, e)]
  <2>4. \A ds \in DOMAIN data : Each(data[ds], SaysTutorial) = Applied(data[ds], S)
    BY <1>0, <2>1, <2>2 DEF Each, Applied
  <2>5. j.described = Described(SaysTutorial, data)
    BY <1>10 DEF PostOf
  <2> HIDE DEF S, Job
  <2>6. [ds \in DOMAIN data |-> Entered(ds, FlattenSeq(Each(data[ds], SaysTutorial)))]
          = [ds \in DOMAIN data |-> Entered(ds, FlattenSeq(Applied(data[ds], S)))]
    BY <2>4
  <2> QED
    BY <2>3, <2>5, <2>6 DEF SpokenBy, Described, S
<1>11. CASE j = Job("template", MinimalProcessor, Never, SaysNothing, data, chunks)
  <2>1. j.query = "template"
    BY <1>11
  <2>2. \A e : Said("template", e) = SaysNothing(e)
    BY DEF Said
  <2>3. j.told = Tells[j.query]
    BY <1>11, <2>1
  <2> DEFINE S == [e \in E |-> Said(j.query, e)]
  <2>4. \A ds \in DOMAIN data : Each(data[ds], SaysNothing) = Applied(data[ds], S)
    BY <1>0, <2>1, <2>2 DEF Each, Applied
  <2>5. j.described = Described(SaysNothing, data)
    BY <1>11 DEF PostOf
  <2> HIDE DEF S, Job
  <2>6. [ds \in DOMAIN data |-> Entered(ds, FlattenSeq(Each(data[ds], SaysNothing)))]
          = [ds \in DOMAIN data |-> Entered(ds, FlattenSeq(Applied(data[ds], S)))]
    BY <2>4
  <2> QED
    BY <2>3, <2>5, <2>6 DEF SpokenBy, Described, S
<1> HIDE DEF Job
<1> QED
  BY <1>1, <1>2, <1>3, <1>4, <1>5, <1>6, <1>7, <1>8, <1>9, <1>10, <1>11 DEF JobsOn

\* What agrees on every event agrees on every array of them, if both add up.
LEMMA AddsSame ==
  ASSUME NEW E, NEW P, NEW R, Adds(P, E), Adds(R, E), \A e \in E : P[<<e>>] = R[<<e>>]
  PROVE  \A s \in Seq(E) : P[s] = R[s]
<1> DEFINE T == {s \in Seq(E) : P[s] = R[s]}
<1>1. <<>> \in T
  <2>1. P[<<>>] = EmptyBag /\ R[<<>>] = EmptyBag
    BY AddsNone
  <2>2. <<>> \in Seq(E)
    OBVIOUS
  <2> QED
    BY <2>1, <2>2
<1>2. ASSUME NEW t \in Seq(E), NEW e \in E, t \in T PROVE Append(t, e) \in T
  <2> DEFINE one == <<e>>
             more == Append(t, e)
  <2>1. one \in Seq(E) /\ more \in Seq(E) /\ more = t \o one
    BY OneMore
  <2>2. P[one] = R[one] /\ P[t] = R[t]
    BY <1>2
  <2> HIDE DEF one, more
  <2>3. P[more] = P[t] (+) P[one] /\ R[more] = R[t] (+) R[one]
    BY <2>1 DEF Adds
  <2>4. more \in T
    BY <2>1, <2>2, <2>3
  <2> QED
    BY <2>4 DEF more
<1> HIDE DEF T
<1>3. Seq(E) \subseteq T
  BY <1>1, <1>2, FromNone
<1> QED
  BY <1>3 DEF T

\* What is said of events adds up.
LEMMA SaidAdds ==
  ASSUME NEW E, NEW V, Paired(V), NEW S, \A e \in E : S[e] \in Seq(V), NEW ds
  PROVE  Adds([s \in Seq(E) |-> Entered(ds, FlattenSeq(Applied(s, S)))], E)
<1> DEFINE R == [s \in Seq(E) |-> Entered(ds, FlattenSeq(Applied(s, S)))]
<1>1. ASSUME NEW u \in Seq(E), NEW v \in Seq(E)
      PROVE  IsABag(R[u]) /\ R[u \o v] = R[u] (+) R[v]
  <2>1. Joined(u, v, u \o v, E) /\ u \o v \in Seq(E)
    BY DEF Joined
  <2>2. Joined(FlattenSeq(Applied(u, S)), FlattenSeq(Applied(v, S)),
               FlattenSeq(Applied(u \o v, S)), V)
    BY <2>1, JoinedRows
  <2>3. Summed(Entered(ds, FlattenSeq(Applied(u, S))), Entered(ds, FlattenSeq(Applied(v, S))),
               Entered(ds, FlattenSeq(Applied(u \o v, S))))
    BY <2>2, EnteredBoth
  <2> QED
    BY <2>1, <2>3 DEF Summed
<1> HIDE DEF R
<1>2. Adds(R, E)
  BY <1>1 DEF Adds
<1> QED
  BY <1>2 DEF R

\* What a notebook says of every event is what it makes of it.
Speaks(query, E, V) ==
  /\ Paired(V)
  /\ \A e \in E : /\ Said(query, e) \in Seq(V)
                  /\ \A ds : Only(Processed(query, ds, <<e>>), Tells[query])
                               = Entered(ds, Said(query, e))

\* Then it says what it makes of a dataset,
LEMMA DatasetTold ==
  ASSUME NEW E, NEW J, NEW L, Readable(E, J, L), NEW query \in ByEvent,
         NEW V, Speaks(query, E, V), NEW s \in Seq(E), NEW ds
  PROVE  Only(Processed(query, ds, s), Tells[query])
           = Entered(ds, FlattenSeq(Applied(s, [e \in E |-> Said(query, e)])))
<1> DEFINE S == [e \in E |-> Said(query, e)]
           H == Tells[query]
           P == [t \in Seq(E) |-> Only(NoChunks(Processed(query, ds, t)), H)]
           R == [t \in Seq(E) |-> Entered(ds, FlattenSeq(Applied(t, S)))]
<1>1. Paired(V) /\ \A e \in E : S[e] \in Seq(V)
  BY DEF Speaks
<1>2. Adds(R, E)
  <2> HIDE DEF S
  <2> QED
    BY <1>1, SaidAdds
<1>3. Adds(P, E)
  <2>1. ASSUME NEW u \in Seq(E), NEW v \in Seq(E)
        PROVE  IsABag(P[u]) /\ P[u \o v] = P[u] (+) P[v]
    <3>1. Joined(u, v, u \o v, E) /\ u \o v \in Seq(E)
      BY DEF Joined
    <3> HIDE DEF H
    <3>2. Summed(NoChunks(Processed(query, ds, u)), NoChunks(Processed(query, ds, v)),
                 NoChunks(Processed(query, ds, u \o v)))
      BY <3>1, ProcessedSummed
    <3> QED
      BY <3>1, <3>2, OnlySum, OnlyAmount DEF Summed
  <2> HIDE DEF P
  <2> QED
    BY <2>1 DEF Adds
<1>4. \A e \in E : P[<<e>>] = R[<<e>>]
  <2> TAKE e \in E
  <2>1. /\ <<e>> \in Seq(E) /\ P[<<e>>] = Only(Processed(query, ds, <<e>>), H)
    BY OnlyTrimmed
  <2>2. Applied(<<e>>, S) = <<S[e]>> /\ FlattenSeq(<<S[e]>>) = S[e]
    BY <1>1, AppliedOne, FlattenOne
  <2>3. R[<<e>>] = Entered(ds, Said(query, e))
    BY <2>1, <2>2
  <2>4. Only(Processed(query, ds, <<e>>), H) = Entered(ds, Said(query, e))
    BY DEF Speaks
  <2> QED
    BY <2>1, <2>3, <2>4
<1>5. P[s] = R[s]
  <2> HIDE DEF P, R
  <2> QED
    BY <1>2, <1>3, <1>4, AddsSame
<1> QED
  BY <1>5, OnlyTrimmed

\* and of a fileset.
LEMMA FilesetTold ==
  ASSUME NEW data, NEW chunks, NEW E, FilesetOf(data, chunks, E),
         NEW J, NEW L, Readable(E, J, L), NEW j \in JobsOn(data, chunks),
         NEW V, Speaks(j.query, E, V)
  PROVE  Only(SumOver(j.acc, DOMAIN j.chunks), j.told) = j.described
<1> DEFINE q == j.query
           H == Tells[q]
           S == [e \in E |-> Said(q, e)]
           only == [ds \in DOMAIN j.uncut |-> Only(j.uncut[ds], H)]
           said == [ds \in DOMAIN data |-> Entered(ds, FlattenSeq(Applied(data[ds], S)))]
<1>1. /\ q \in ByEvent /\ DOMAIN j.uncut = DOMAIN data
      /\ \A ds \in DOMAIN data : j.uncut[ds] = Processed(q, ds, data[ds])
  BY JobsMade DEF MadeBy
<1>2. \A ds \in DOMAIN data : data[ds] \in Seq(E)
  BY DEF FilesetOf
<1>3. j.told = H /\ j.described = SumOver(said, DOMAIN data)
  BY <1>2, JobsSpoken DEF SpokenBy
<1>4. NoChunks(SumOver(j.acc, DOMAIN j.chunks)) = NoChunks(SumOver(j.uncut, DOMAIN j.uncut))
  BY JobSums
<1>5. \A ds \in DOMAIN data : Only(Processed(q, ds, data[ds]), H) = said[ds]
  BY <1>1, <1>2, DatasetTold
<1> HIDE DEF H, S, said
<1>6. Only(SumOver(j.acc, DOMAIN j.chunks), H) = Only(SumOver(j.uncut, DOMAIN j.uncut), H)
  <2> DEFINE a == SumOver(j.acc, DOMAIN j.chunks)
             b == SumOver(j.uncut, DOMAIN j.uncut)
  <2>1. NoChunks(a) = NoChunks(b)
    BY <1>4
  <2> HIDE DEF a, b
  <2>2. Only(a, H) = Only(b, H)
    BY <2>1, OnlyTrimmed
  <2> QED
    BY <2>2 DEF a, b
<1>7. Only(SumOver(j.uncut, DOMAIN j.uncut), H) = SumOver(only, DOMAIN j.uncut)
  BY OnlyOver
<1>8. only = said
  <2>1. \A ds \in DOMAIN data : only[ds] = said[ds]
    BY <1>1, <1>5
  <2>2. only = [ds \in DOMAIN data |-> only[ds]] /\ said = [ds \in DOMAIN data |-> said[ds]]
    BY <1>1 DEF said
  <2> QED
    BY <2>1, <2>2
<1> QED
  BY <1>1, <1>3, <1>6, <1>7, <1>8

\* An accumulator without entries of the histograms.
Silent(b, H) == \A k \in DOMAIN b : ~Told(k, H)

\* The counters are in none of them, whatever they count, and so is no other histogram.
LEMMA SilentParts ==
  /\ \A key, n, H : Silent(Count(key, n), H)
  /\ \A h, ds, values, H : h \notin H => Silent(Fill(h, ds, values), H)
  /\ \A a, b, H : Silent(a, H) /\ Silent(b, H) => Silent(a (+) b, H)
<1>1. ASSUME NEW key, NEW n, NEW H PROVE Silent(Count(key, n), H)
  <2>1. \A k \in DOMAIN Count(key, n) : k = <<key>>
    BY DEF Count
  <2>2. Len(<<key>>) = 1
    OBVIOUS
  <2> QED
    BY <2>1, <2>2 DEF Silent, Told
<1>2. ASSUME NEW h, NEW ds, NEW values, NEW H, h \notin H PROVE Silent(Fill(h, ds, values), H)
  <2>1. \A k \in DOMAIN Fill(h, ds, values) : k[1] = h
    BY DEF Fill
  <2> QED
    BY <1>2, <2>1 DEF Silent, Told
<1>3. \A a, b, H : Silent(a, H) /\ Silent(b, H) => Silent(a (+) b, H)
  BY DEF Silent, (+)
<1> QED
  BY <1>1, <1>2, <1>3

\* What has none of their entries does not show in them.
LEMMA SilentAdded ==
  ASSUME NEW a, NEW b, NEW H, Silent(a, H), IsABag(b)
  PROVE  Only(a (+) b, H) = Only(b, H) /\ Only(b (+) a, H) = Only(b, H)
<1>0. \A c : Only(c, H) = [k \in {k \in DOMAIN c : Told(k, H)} |-> c[k]]
  <2> TAKE c
  <2>1. UNION {OfHistogram(c, h) : h \in H} = {k \in DOMAIN c : Told(k, H)}
    BY DEF OfHistogram, Told
  <2> QED
    BY <2>1 DEF Only
<1>1. \A k \in DOMAIN b : b[k] \in Nat
  BY DEF IsABag
<1>2. /\ DOMAIN (a (+) b) = (DOMAIN a) \cup (DOMAIN b)
      /\ DOMAIN (b (+) a) = (DOMAIN a) \cup (DOMAIN b)
  BY DEF (+)
<1>3. \A k \in (DOMAIN b) \ (DOMAIN a) : (a (+) b)[k] = b[k] /\ (b (+) a)[k] = b[k]
  BY <1>1 DEF (+)
<1>4. \A k \in DOMAIN a : ~Told(k, H)
  BY DEF Silent
<1> DEFINE ab == a (+) b
           ba == b (+) a
           D == {k \in DOMAIN b : Told(k, H)}
<1> HIDE DEF ab, ba
<1>5. {k \in DOMAIN ab : Told(k, H)} = D /\ {k \in DOMAIN ba : Told(k, H)} = D
  BY <1>2, <1>4 DEF ab, ba
<1>6. \A k \in D : ab[k] = b[k] /\ ba[k] = b[k]
  BY <1>3, <1>4 DEF ab, ba
<1>7. Only(ab, H) = [k \in D |-> b[k]] /\ Only(ba, H) = [k \in D |-> b[k]]
  <2>1. /\ Only(ab, H) = [k \in {k \in DOMAIN ab : Told(k, H)} |-> ab[k]]
        /\ Only(ba, H) = [k \in {k \in DOMAIN ba : Told(k, H)} |-> ba[k]]
    BY <1>0
  <2>2. Only(ab, H) = [k \in D |-> ab[k]] /\ Only(ba, H) = [k \in D |-> ba[k]]
    BY <1>5, <2>1
  <2> HIDE DEF D
  <2> QED
    BY <1>6, <2>2
<1> QED
  BY <1>0, <1>7 DEF ab, ba

\* A histogram is all of its entries.
LEMMA OnlyFill ==
  ASSUME NEW V, NEW values \in Seq(V), NEW h, NEW ds, NEW H, h \in H
  PROVE  Only(Fill(h, ds, values), H) = Fill(h, ds, values)
<1> DEFINE b == Fill(h, ds, values)
<1>1. \A k \in DOMAIN b : Told(k, H)
  <2>1. \A k \in DOMAIN b : \E v : k = <<h, ds, v>>
    BY DEF Fill
  <2>2. \A v : Told(<<h, ds, v>>, H)
    BY DEF Told
  <2> QED
    BY <2>1, <2>2
<1>2. IsABag(b)
  BY FillAmount
<1> HIDE DEF b
<1>3. IsABag(Only(b, H)) /\ \A k : Amount(Only(b, H), k) = IF Told(k, H) THEN Amount(b, k) ELSE 0
  BY <1>2, OnlyAmount
<1>4. \A k : Amount(Only(b, H), k) = Amount(b, k)
  <2> TAKE k
  <2>1. CASE k \in DOMAIN b
    BY <1>1, <1>3, <2>1
  <2>2. CASE k \notin DOMAIN b
    BY <1>3, <2>2 DEF Amount
  <2> QED
    BY <2>1, <2>2
<1>5. Only(b, H) = b
  BY <1>2, <1>3, <1>4, SameAmounts
<1> QED
  BY <1>5 DEF b

\* Behind counters and other histograms it is the only one.
LEMMA OnlyOne ==
  ASSUME NEW rest, NEW V, NEW values \in Seq(V), NEW h, NEW ds, Silent(rest, {h})
  PROVE  /\ Only(rest (+) Fill(h, ds, values), {h}) = Fill(h, ds, values)
         /\ Only(Fill(h, ds, values) (+) rest, {h}) = Fill(h, ds, values)
<1>1. IsABag(Fill(h, ds, values))
  BY FillAmount
<1> QED
  BY <1>1, SilentAdded, OnlyFill

\* Arrays of the same values, in some order.
Giving(s, v) == {i \in DOMAIN s : s[i] = v}
SameValues(s, t) == \A v : Cardinality(Giving(s, v)) = Cardinality(Giving(t, v))

\* A histogram does not tell them apart.
LEMMA FillSame ==
  ASSUME NEW V, NEW s \in Seq(V), NEW t \in Seq(V), SameValues(s, t), NEW h, NEW ds
  PROVE  Fill(h, ds, s) = Fill(h, ds, t)
<1>1. \A x \in {s, t} : \A v : FilledWith(h, ds, x, <<h, ds, v>>) = Giving(x, v)
  BY DEF FilledWith, Giving
<1>2. \A x \in {s, t} : \A e : (\A v : e # <<h, ds, v>>) => FilledWith(h, ds, x, e) = {}
  BY DEF FilledWith
<1>3. \A e : Cardinality(FilledWith(h, ds, s, e)) = Cardinality(FilledWith(h, ds, t, e))
  <2> TAKE e
  <2>1. CASE \E v : e = <<h, ds, v>>
    <3>1. PICK v : e = <<h, ds, v>>
      BY <2>1
    <3>2. FilledWith(h, ds, s, e) = Giving(s, v) /\ FilledWith(h, ds, t, e) = Giving(t, v)
      BY <1>1, <3>1
    <3> QED
      BY <3>2 DEF SameValues
  <2>2. CASE \A v : e # <<h, ds, v>>
    <3>1. FilledWith(h, ds, s, e) = {} /\ FilledWith(h, ds, t, e) = {}
      BY <1>2, <2>2
    <3> QED
      BY <3>1
  <2> QED
    BY <2>1, <2>2
<1>4. /\ IsABag(Fill(h, ds, s)) /\ IsABag(Fill(h, ds, t))
      /\ \A e : Amount(Fill(h, ds, s), e) = Amount(Fill(h, ds, t), e)
  <2>1. /\ IsABag(Fill(h, ds, s))
        /\ \A e : Amount(Fill(h, ds, s), e) = Cardinality(FilledWith(h, ds, s, e))
    BY FillAmount
  <2>2. /\ IsABag(Fill(h, ds, t))
        /\ \A e : Amount(Fill(h, ds, t), e) = Cardinality(FilledWith(h, ds, t, e))
    BY FillAmount
  <2> QED
    BY <1>3, <2>1, <2>2
<1> QED
  BY <1>4, SameAmounts

\* What is said of one histogram.
SaidOf(h, values) == [i \in DOMAIN values |-> <<h, values[i]>>]

\* An accumulator with these values in the histogram.
Fills(b, h, ds, values) ==
  \E rest : /\ Silent(rest, {h})
            /\ \/ b = Fill(h, ds, values)
               \/ b = rest (+) Fill(h, ds, values)
               \/ b = Fill(h, ds, values) (+) rest
\* A notebook fills it with the values it says of the event.
Shows(query, h, e) ==
  \E W, m, n : /\ m \in Seq(W) /\ n \in Seq(W) /\ SameValues(m, n)
               /\ Said(query, e) = SaidOf(h, n)
               /\ \A ds : Fills(Processed(query, ds, <<e>>), h, ds, m)

\* If it does of every event, it says what it makes of it.
LEMMA SpeaksOne ==
  ASSUME NEW query, NEW h, Tells[query] = {h}, NEW E, \A e \in E : Shows(query, h, e)
  PROVE  \E V : Speaks(query, E, V)
<1> DEFINE V == UNION {ToSet(Said(query, e)) : e \in E}
<1>1. ASSUME NEW e \in E
      PROVE  /\ Said(query, e) \in Seq(V) /\ Paired(ToSet(Said(query, e)))
             /\ \A ds : Only(Processed(query, ds, <<e>>), {h}) = Entered(ds, Said(query, e))
  <2>1. PICK W, m, n : /\ m \in Seq(W) /\ n \in Seq(W) /\ SameValues(m, n)
                       /\ Said(query, e) = SaidOf(h, n)
                       /\ \A ds : Fills(Processed(query, ds, <<e>>), h, ds, m)
    BY DEF Shows
  <2> DEFINE x == Said(query, e)
  <2>2. x = [i \in 1..Len(n) |-> <<h, n[i]>>] /\ Len(n) \in Nat
    BY <2>1 DEF SaidOf
  <2>3. ToSet(x) \subseteq V
    OBVIOUS
  <2>4. x \in Seq(V)
    <3> HIDE DEF x, V
    <3>1. \A i \in 1..Len(n) : x[i] \in V
      BY <2>2, <2>3 DEF ToSet
    <3> QED
      BY <2>2, <3>1, MadeOf
  <2>5. Paired(ToSet(x))
    <3> HIDE DEF x
    <3>1. \A y \in ToSet(x) : \E v : y = <<h, v>>
      BY <2>2 DEF ToSet
    <3>2. \A v : <<h, v>> = <<<<h, v>>[1], <<h, v>>[2]>>
      OBVIOUS
    <3> QED
      BY <3>1, <3>2 DEF Paired
  <2>6. \A ds : Entered(ds, x) = Fill(h, ds, n)
    BY <2>1, EnteredOne DEF SaidOf
  <2>7. \A ds : Fill(h, ds, m) = Fill(h, ds, n)
    BY <2>1, FillSame
  <2>8. \A ds : Only(Processed(query, ds, <<e>>), {h}) = Fill(h, ds, m)
    <3> TAKE ds
    <3> DEFINE b == Processed(query, ds, <<e>>)
               f == Fill(h, ds, m)
    <3>1. PICK rest : Silent(rest, {h}) /\ (b = f \/ b = rest (+) f \/ b = f (+) rest)
      BY <2>1 DEF Fills
    <3>2. /\ Only(f, {h}) = f /\ Only(rest (+) f, {h}) = f /\ Only(f (+) rest, {h}) = f
      BY <2>1, <3>1, OnlyOne, OnlyFill
    <3> HIDE DEF b, f
    <3>3. Only(b, {h}) = f
      BY <3>1, <3>2
    <3> QED
      BY <3>3 DEF b, f
  <2> HIDE DEF x, V
  <2> QED
    BY <2>4, <2>5, <2>6, <2>7, <2>8 DEF x
<1>2. Paired(V)
  BY <1>1 DEF Paired
<1> HIDE DEF V
<1>3. Speaks(query, E, V)
  BY <1>1, <1>2 DEF Speaks
<1> QED
  BY <1>3

\* A sequence that has the members of a set, each once.
Lists(f, n, S) ==
  /\ f \in [1..n -> S] /\ \A x \in S : \E k \in 1..n : f[k] = x
  /\ \A k, l \in 1..n : f[k] = f[l] => k = l

\* Of its values, there are as many as members that have them.
LEMMA ListCount ==
  ASSUME NEW f, NEW n \in Nat, NEW S, Lists(f, n, S)
  PROVE  /\ IsFiniteSet(S) /\ Cardinality(S) = n
         /\ \A F, x, v : DOMAIN F = S /\ DOMAIN x = 1..n /\ (\A k \in 1..n : x[k] = F[f[k]])
                          => Cardinality(Giving(x, v)) = Cardinality(Giving(F, v))
<1>1. IsFiniteSet(1..n) /\ Cardinality(1..n) = n
  BY FS_Interval
<1>2. IsFiniteSet(S) /\ Cardinality(S) = n
  BY <1>1, SameNumber DEF Lists
<1>3. ASSUME NEW F, NEW x, NEW v, DOMAIN F = S, DOMAIN x = 1..n, \A k \in 1..n : x[k] = F[f[k]]
      PROVE  Cardinality(Giving(x, v)) = Cardinality(Giving(F, v))
  <2> DEFINE A == Giving(x, v)
             B == Giving(F, v)
             g == [k \in A |-> f[k]]
  <2>1. /\ \A k : k \in A <=> k \in 1..n /\ F[f[k]] = v
        /\ \A i : i \in B <=> i \in S /\ F[i] = v
    BY <1>3 DEF Giving
  <2> HIDE DEF A, B
  <2>2. IsFiniteSet(A)
    BY <1>1, <2>1, FS_Subset
  <2>3. g \in [A -> B] /\ (\A k, l \in A : g[k] = g[l] => k = l) /\ \A i \in B : \E k \in A : g[k] = i
    BY <2>1 DEF Lists
  <2> HIDE DEF g
  <2>4. Cardinality(B) = Cardinality(A)
    BY <2>2, <2>3, SameNumber
  <2> QED
    BY <2>4 DEF A, B
<1> QED
  BY <1>2, <1>3

\* What SetToSeq makes of a set lists it.
LEMMA SetListed ==
  ASSUME NEW S, IsFiniteSet(S)
  PROVE  /\ SetToSeq(S) \in Seq(S) /\ Len(SetToSeq(S)) \in Nat
         /\ Lists(SetToSeq(S), Len(SetToSeq(S)), S)
<1> DEFINE n == Cardinality(S)
           f == SetToSeq(S)
<1>1. n \in Nat /\ IsFiniteSet(1..n) /\ Cardinality(1..n) = n
  BY FS_CardinalityType, FS_Interval
<1>2. \E g \in [1..n -> S] : IsInjective(g)
  BY FS_CardinalityType DEF ExistsBijection, Bijection, Injection
<1>3. f \in [1..n -> S] /\ IsInjective(f)
  BY <1>2 DEF SetToSeq
<1> HIDE DEF f
<1>4. f \in Injection(1..n, S)
  BY <1>3 DEF Injection
<1>5. f \in Surjection(1..n, S)
  BY <1>1, <1>4, FS_Injection
<1>6. Lists(f, n, S)
  BY <1>3, <1>5 DEF Lists, IsInjective, Surjection
<1>7. f \in Seq(S) /\ Len(f) = n
  BY <1>1, <1>3
<1> QED
  BY <1>1, <1>6, <1>7 DEF f

\* What is in an array and passes a mask.
Passes(s, K) == {i \in DOMAIN s : s[i] \in K}

\* What a mask keeps lists what passes it.
LEMMA KeptListed ==
  ASSUME NEW E, NEW K, NEW s \in Seq(E)
  PROVE  \E f : /\ Lists(f, Len(Kept(s, K)), Passes(s, K))
                /\ \A n \in DOMAIN Kept(s, K) : Kept(s, K)[n] = s[f[n]]
<1> DEFINE listed(f, t) == /\ Lists(f, Len(Kept(t, K)), Passes(t, K))
                           /\ \A n \in DOMAIN Kept(t, K) : Kept(t, K)[n] = t[f[n]]
           T == {t \in Seq(E) : \E f : listed(f, t)}
<1>1. <<>> \in T
  <2>1. Kept(<<>>, K) = <<>> /\ <<>> \in Seq(E)
    BY KeptNone
  <2>2. listed(<<>>, <<>>)
    BY <2>1 DEF Lists, Passes
  <2> QED
    BY <2>1, <2>2
<1>2. ASSUME NEW t \in Seq(E), NEW e \in E, t \in T PROVE Append(t, e) \in T
  <2> DEFINE a == Append(t, e)
             x == Kept(t, K)
             y == Kept(a, K)
             n == Len(t)
             m == Len(x)
             S == Passes(t, K)
             R == Passes(a, K)
  <2>1. PICK f : listed(f, t)
    BY <1>2
  <2>2. /\ a \in Seq(E) /\ n \in Nat /\ DOMAIN t = 1..n /\ DOMAIN a = 1..(n + 1)
        /\ a[n + 1] = e /\ \A i \in 1..n : a[i] = t[i]
    OBVIOUS
  <2>3. x \in Seq(E) /\ y = IF e \in K THEN Append(x, e) ELSE x
    BY KeptType, KeptMore
  <2>4. Lists(f, m, S) /\ \A i \in DOMAIN x : x[i] = t[f[i]]
    BY <2>1
  <2> HIDE DEF a, x, y
  <2>5. m \in Nat /\ DOMAIN x = 1..m
    BY <2>3
  <2>6. /\ \A i : i \in S <=> i \in 1..n /\ t[i] \in K
        /\ \A i : i \in R <=> i \in 1..(n + 1) /\ a[i] \in K
    BY <2>2 DEF Passes
  <2> HIDE DEF S, R
  <2>7. CASE e \in K
    <3> DEFINE g == [i \in 1..(m + 1) |-> IF i <= m THEN f[i] ELSE n + 1]
    <3>1. R = S \cup {n + 1} /\ n + 1 \notin S
      BY <2>2, <2>6, <2>7
    <3>2. Len(y) = m + 1 /\ DOMAIN y = 1..(m + 1) /\ y[m + 1] = e /\ \A i \in 1..m : y[i] = x[i]
      BY <2>3, <2>5, <2>7
    <3>3. /\ \A i \in 1..m : g[i] = f[i] /\ f[i] \in S
          /\ g[m + 1] = n + 1
      BY <2>4, <2>5 DEF Lists
    <3>4. Lists(g, m + 1, R)
      <4>1. g \in [1..(m + 1) -> R]
        <5>1. \A i \in 1..(m + 1) : g[i] \in R
          <6> TAKE i \in 1..(m + 1)
          <6>1. i \in 1..m \/ i = m + 1
            BY <2>5
          <6> HIDE DEF g
          <6> QED
            BY <3>1, <3>3, <6>1
        <5>2. g = [i \in 1..(m + 1) |-> g[i]]
          OBVIOUS
        <5> HIDE DEF g
        <5> QED
          BY <5>1, <5>2
      <4>2. \A i \in R : \E k \in 1..(m + 1) : g[k] = i
        <5> TAKE i \in R
        <5>1. CASE i = n + 1
          <6>1. m + 1 \in 1..(m + 1)
            BY <2>5
          <6> QED
            BY <3>3, <5>1, <6>1
        <5>2. CASE i \in S
          <6>1. PICK k \in 1..m : f[k] = i
            BY <2>4, <5>2 DEF Lists
          <6>2. k \in 1..(m + 1)
            BY <2>5
          <6> QED
            BY <3>3, <6>1, <6>2
        <5> QED
          BY <3>1, <5>1, <5>2
      <4>3. \A k, l \in 1..(m + 1) : g[k] = g[l] => k = l
        <5> TAKE k, l \in 1..(m + 1)
        <5>1. (k \in 1..m \/ k = m + 1) /\ (l \in 1..m \/ l = m + 1)
          BY <2>5
        <5> HIDE DEF g
        <5> QED
          BY <2>4, <3>1, <3>3, <5>1 DEF Lists
      <4> QED
        BY <4>1, <4>2, <4>3 DEF Lists
    <3>5. \A i \in DOMAIN y : y[i] = a[g[i]]
      <4> TAKE i \in DOMAIN y
      <4>1. CASE i \in 1..m
        <5>1. y[i] = t[f[i]] /\ g[i] = f[i] /\ f[i] \in 1..n
          BY <2>4, <2>5, <2>6, <3>2, <3>3, <4>1
        <5> QED
          BY <2>2, <5>1
      <4>2. CASE i = m + 1
        BY <2>2, <3>2, <3>3, <4>2
      <4> QED
        BY <2>5, <3>2, <4>1, <4>2
    <3> HIDE DEF g
    <3>6. Lists(g, Len(y), R)
      BY <3>2, <3>4
    <3> QED
      BY <2>2, <3>5, <3>6 DEF a, y, R
  <2>8. CASE e \notin K
    <3>1. y = x /\ R = S
      <4>1. \A i : i \in R <=> i \in S
        BY <2>2, <2>6, <2>8
      <4> QED
        BY <2>3, <2>8, <4>1
    <3>2. \A i \in DOMAIN y : y[i] = a[f[i]]
      <4> TAKE i \in DOMAIN y
      <4>1. y[i] = t[f[i]] /\ f[i] \in 1..n
        BY <2>4, <2>5, <2>6, <3>1 DEF Lists
      <4> QED
        BY <2>2, <4>1
    <3>3. Lists(f, Len(y), R)
      BY <2>4, <3>1
    <3> QED
      BY <2>2, <3>2, <3>3 DEF a, y, R
  <2> QED
    BY <2>7, <2>8
<1> HIDE DEF T
<1>3. Seq(E) \subseteq T
  BY <1>1, <1>2, FromNone
<1> QED
  BY <1>3 DEF T

\* Two such sequences give the same values.
LEMMA ListsSame ==
  ASSUME NEW S, NEW m \in Nat, NEW n \in Nat, NEW f, NEW g, Lists(f, m, S), Lists(g, n, S),
         NEW F, DOMAIN F = S, NEW x, NEW y, DOMAIN x = 1..m, DOMAIN y = 1..n,
         \A i \in 1..m : x[i] = F[f[i]], \A i \in 1..n : y[i] = F[g[i]]
  PROVE  SameValues(x, y)
<1> SUFFICES ASSUME NEW v PROVE Cardinality(Giving(x, v)) = Cardinality(Giving(y, v))
  BY DEF SameValues
<1>1. Cardinality(Giving(x, v)) = Cardinality(Giving(F, v))
  BY ListCount
<1>2. Cardinality(Giving(y, v)) = Cardinality(Giving(F, v))
  BY ListCount
<1> QED
  BY <1>1, <1>2

\* The values of what passes a mask, in the order of the array or of a set.
LEMMA KeptSame ==
  ASSUME NEW E, NEW K, NEW s \in Seq(E), NEW W, NEW G, Takes(G, E, W),
         NEW S, S = Passes(s, K), NEW F, DOMAIN F = S, \A i \in S : F[i] = G[s[i]]
  PROVE  /\ Applied(Kept(s, K), G) \in Seq(W) /\ Applied(SetToSeq(S), F) \in Seq(W)
         /\ SameValues(Applied(Kept(s, K), G), Applied(SetToSeq(S), F))
<1> DEFINE x == Kept(s, K)
           y == SetToSeq(S)
<1>1. PICK f : Lists(f, Len(x), S) /\ \A n \in DOMAIN x : x[n] = s[f[n]]
  BY KeptListed
<1>2. x \in Seq(E) /\ Len(x) \in Nat /\ DOMAIN x = 1..Len(x)
  BY KeptType
<1>3. IsFiniteSet(S)
  BY <1>1, <1>2, ListCount
<1>4. y \in Seq(S) /\ Len(y) \in Nat /\ DOMAIN y = 1..Len(y) /\ Lists(y, Len(y), S)
  BY <1>3, SetListed
<1>5. \A i \in S : s[i] \in E
  BY DEF Passes
<1> HIDE DEF x, y
<1>6. Applied(x, G) \in Seq(W) /\ DOMAIN Applied(x, G) = DOMAIN x
  BY <1>2 DEF Takes, Applied
<1>7. Applied(y, F) \in Seq(W) /\ DOMAIN Applied(y, F) = DOMAIN y
  <2>1. \A i \in DOMAIN y : y[i] \in S
    BY <1>4
  <2>2. \A i \in DOMAIN y : F[y[i]] \in W
    BY <1>5, <2>1 DEF Takes
  <2> QED
    BY <1>4, <2>2 DEF Applied
<1>8. \A n \in 1..Len(x) : Applied(x, G)[n] = F[f[n]]
  <2> TAKE n \in 1..Len(x)
  <2>1. f[n] \in S /\ x[n] = s[f[n]]
    BY <1>1, <1>2 DEF Lists
  <2>2. Applied(x, G)[n] = G[x[n]]
    BY <1>2 DEF Applied
  <2> QED
    BY <2>1, <2>2
<1>9. \A n \in 1..Len(y) : Applied(y, F)[n] = F[y[n]]
  BY <1>4 DEF Applied
<1>10. SameValues(Applied(x, G), Applied(y, F))
  BY <1>1, <1>2, <1>4, <1>6, <1>7, <1>8, <1>9, ListsSame
<1> QED
  BY <1>6, <1>7, <1>10 DEF x, y

\* An array and itself.
LEMMA SelfSame == \A s : SameValues(s, s)
BY DEF SameValues

\* A mask over one event leaves it or not, and its values.
LEMMA OneMasked ==
  ASSUME NEW e, NEW K, NEW G
  PROVE  Applied(Kept(<<e>>, K), G) = IF e \in K THEN <<G[e]>> ELSE <<>>
BY KeptOne, AppliedOne

\* What is said of one histogram: nothing, one value, or those of a set.
LEMMA SaidTypes ==
  /\ \A h : SaidOf(h, <<>>) = <<>>
  /\ \A h, v : SaidOf(h, <<v>>) = <<<<h, v>>>>
  /\ \A h, S, F : IsFiniteSet(S) => SaidOf(h, Applied(SetToSeq(S), F))
                                      = [k \in DOMAIN SetToSeq(S) |-> <<h, F[SetToSeq(S)[k]]>>]
BY DEF SaidOf, Applied

\* Two elements pass a mask, or one does, when as many are left.
LEMMA KeptTwo ==
  ASSUME NEW E, NEW s \in Seq(E), NEW K
  PROVE  /\ Len(Kept(s, K)) \in Nat
         /\ Len(Kept(s, K)) >= 1 <=> \E i \in DOMAIN s : s[i] \in K
         /\ Len(Kept(s, K)) >= 2 <=> \E i, j \in DOMAIN s : i # j /\ s[i] \in K /\ s[j] \in K
<1> DEFINE x == Kept(s, K)
           n == Len(x)
           S == Passes(s, K)
<1>1. PICK f : Lists(f, n, S)
  BY KeptListed
<1>2. n \in Nat
  BY KeptType
<1>3. \A i : i \in S <=> i \in DOMAIN s /\ s[i] \in K
  BY DEF Passes
<1> HIDE DEF n, S
<1>4. n >= 1 <=> \E i \in S : TRUE
  <2>1. n >= 1 => 1 \in 1..n
    BY <1>2
  <2> QED
    BY <1>1, <1>2, <2>1 DEF Lists
<1>5. n >= 2 <=> \E i, j \in S : i # j
  <2>1. n >= 2 => 1 \in 1..n /\ 2 \in 1..n
    BY <1>2
  <2>2. n >= 2 => f[1] \in S /\ f[2] \in S /\ f[1] # f[2]
    BY <1>1, <2>1 DEF Lists
  <2>3. ASSUME NEW i \in S, NEW j \in S, i # j PROVE n >= 2
    <3>1. PICK k \in 1..n, l \in 1..n : f[k] = i /\ f[l] = j
      BY <1>1 DEF Lists
    <3> QED
      BY <1>2, <2>3, <3>1
  <2> QED
    BY <2>2, <2>3
<1> QED
  BY <1>2, <1>3, <1>4, <1>5 DEF n, x

\* A mask that everything passes.
LEMMA KeptAll == ASSUME NEW E, NEW s \in Seq(E) PROVE Kept(s, E) = s
<1> DEFINE G == [e \in E |-> e]
           R == [e \in E |-> <<e>>]
<1>1. Takes(G, E, E) /\ \A e \in E : R[e] = <<G[e]>>
  BY DEF Takes
<1>2. \A i \in DOMAIN s : s[i] \in E
  OBVIOUS
<1>3. Kept(s, E) = FlattenSeq(Applied(s, R)) /\ Applied(s, G) = s
  <2>1. [i \in DOMAIN s |-> IF s[i] \in E THEN <<s[i]>> ELSE <<>>] = Applied(s, R)
    BY <1>2 DEF Applied
  <2>2. Applied(s, G) = [i \in DOMAIN s |-> s[i]]
    BY <1>2 DEF Applied
  <2>3. s = [i \in DOMAIN s |-> s[i]]
    OBVIOUS
  <2> HIDE DEF G, R
  <2> QED
    BY <2>1, <2>2, <2>3 DEF Kept
<1> HIDE DEF G, R
<1> QED
  BY <1>1, <1>3, Singles

\* The values of what passes a mask are those of a set of indices.
LEMMA RowShown ==
  ASSUME NEW J, NEW s \in Seq(J), NEW K, NEW G, NEW F, NEW query, NEW h, NEW e,
         Said(query, e) = SaidOf(h, Applied(SetToSeq(Passes(s, K)), F)),
         DOMAIN F = Passes(s, K), \A i \in Passes(s, K) : F[i] = G[s[i]],
         \A ds : Fills(Processed(query, ds, <<e>>), h, ds, Applied(Kept(s, K), G))
  PROVE  Shows(query, h, e)
<1> DEFINE W == {G[j] : j \in J}
           S == Passes(s, K)
           m == Applied(Kept(s, K), G)
           n == Applied(SetToSeq(S), F)
<1>1. Takes(G, J, W)
  BY DEF Takes
<1> HIDE DEF W, S
<1>2. DOMAIN F = S /\ \A i \in S : F[i] = G[s[i]]
  BY DEF S
<1>3. m \in Seq(W) /\ n \in Seq(W) /\ SameValues(m, n)
  BY <1>1, <1>2, KeptSame DEF S
<1>4. Said(query, e) = SaidOf(h, n) /\ \A ds : Fills(Processed(query, ds, <<e>>), h, ds, m)
  BY DEF S
<1> HIDE DEF m, n
<1> QED
  BY <1>3, <1>4 DEF Shows

\* One value or none, of an event that passes or does not.
LEMMA ValueShown ==
  ASSUME NEW query, NEW h, NEW e, NEW v, NEW values, values = <<v>> \/ values = <<>>,
         Said(query, e) = SaidOf(h, values),
         \A ds : Fills(Processed(query, ds, <<e>>), h, ds, values)
  PROVE  Shows(query, h, e)
<1>1. values \in Seq({v})
  <2>1. <<v>> \in Seq({v}) /\ <<>> \in Seq({v})
    OBVIOUS
  <2> QED
    BY <2>1
<1> QED
  BY <1>1, SelfSame DEF Shows

\* example1
LEMMA Example1Told ==
  ASSUME NEW e PROVE Shows("example1", "MET", e)
<1> DEFINE q == "example1"
           h == "MET"
           rest == Count("all events", Len(<<e>>)) (+) Count("number of chunks", 1)
<1>1. Said(q, e) = <<<<h, e.met>>>>
  BY DEF Said, Says1
<1>2. \A ds : Processed(q, ds, <<e>>) = rest (+) Fill(h, ds, <<e.met>>)
  <2>1. Each(<<e>>, LAMBDA x : x.met) = <<e.met>>
    BY DEF Each
  <2> QED
    BY <2>1 DEF Processed, Example1
<1> HIDE DEF q, h
<1>3. Silent(rest, {h})
  BY SilentParts
<1> HIDE DEF rest
<1>4. \A ds : Fills(Processed(q, ds, <<e>>), h, ds, <<e.met>>)
  BY <1>2, <1>3 DEF Fills
<1>5. Shows(q, h, e)
  BY <1>1, <1>4, ValueShown, SaidTypes
<1> QED
  BY <1>5 DEF q, h

\* example2
LEMMA Example2Told ==
  ASSUME NEW J, NEW e, e.jets \in Seq(J) PROVE Shows("example2", "Jet_pt", e)
<1> DEFINE q == "example2"
           h == "Jet_pt"
           s == e.jets
           G == [j \in J |-> j.pt]
           W == {j.pt : j \in J}
           S == Passes(s, J)
           F == [i \in S |-> s[i].pt]
           x == Applied(s, G)
           rest == Count("all events", Len(<<e>>)) (+) Count("all jets", NumOf(<<e>>, LAMBDA y : y.jets))
<1>1. s \in Seq(J) /\ DOMAIN s = 1..Len(s) /\ Len(s) \in Nat /\ \A i \in DOMAIN s : s[i] \in J
  OBVIOUS
<1>2. S = DOMAIN s /\ IsFiniteSet(S)
  <2>1. S = DOMAIN s
    BY <1>1 DEF Passes
  <2> HIDE DEF S
  <2> QED
    BY <1>1, <2>1, FS_Interval
<1>3. Said(q, e) = SaidOf(h, Applied(SetToSeq(S), F))
  <2>1. Said(q, e) = Of(h, S, LAMBDA i : s[i].pt)
    BY <1>2 DEF Said, Says2
  <2> HIDE DEF S
  <2>2. \A k \in DOMAIN SetToSeq(S) : SetToSeq(S)[k] \in S
    BY <1>2, SetListed
  <2>3. Of(h, S, LAMBDA i : s[i].pt) = [k \in DOMAIN SetToSeq(S) |-> <<h, F[SetToSeq(S)[k]]>>]
    BY <2>2 DEF Of, Each
  <2> HIDE DEF F, s, q, h
  <2> QED
    BY <1>2, <2>1, <2>3, SaidTypes
<1>4. x = [i \in DOMAIN s |-> s[i].pt]
  BY <1>1 DEF Applied
<1>5. x \in Seq(W)
  BY <1>1, <1>4
<1>6. \A ds : Processed(q, ds, <<e>>) = rest (+) Fill(h, ds, x)
  <2>1. Each(<<e>>, LAMBDA y : Each(y.jets, LAMBDA j : j.pt)) = <<x>>
    BY <1>4 DEF Each
  <2> HIDE DEF x, W
  <2>2. FlattenSeq(Each(<<e>>, LAMBDA y : Each(y.jets, LAMBDA j : j.pt))) = x
    BY <1>5, <2>1, FlattenOne
  <2> QED
    BY <2>2 DEF Processed, Example2
<1> HIDE DEF q, h
<1>7. Silent(rest, {h})
  BY SilentParts
<1>8. Kept(s, J) = s
  BY <1>1, KeptAll
<1> HIDE DEF rest
<1>9. \A ds : Fills(Processed(q, ds, <<e>>), h, ds, Applied(Kept(s, J), G))
  BY <1>6, <1>7, <1>8 DEF Fills
<1>10. DOMAIN F = S /\ \A i \in S : F[i] = G[s[i]]
  BY <1>1, <1>2
<1> HIDE DEF F, G, S
<1>11. Shows(q, h, e)
  BY <1>1, <1>3, <1>9, <1>10, RowShown DEF S
<1> QED
  BY <1>11 DEF q, h

\* Jets and leptons as they are measured.
Particles(J, L) ==
  /\ \A j \in J : j.pt \in Nat /\ j.mass \in Nat /\ j.eta \in Int /\ j.phi \in Int
  /\ \A l \in L : /\ l.charge \in {-1, 1} /\ l.mass \in Int
                  /\ l.eta \in Int /\ l.phi \in Int

\* What example3 makes of one event,
LEMMA Example3One ==
  ASSUME NEW J, NEW L, Particles(J, L), NEW e, e.jets \in Seq(J), NEW ds
  PROVE  Fills(Processed("example3", ds, <<e>>), "Jet_pt", ds,
               Applied(Kept(e.jets, {j \in J : j.eta \in -999..999}), [j \in J |-> j.pt]))
<1> DEFINE s == e.jets
           K == {j \in J : j.eta \in -999..999}
           G == [j \in J |-> j.pt]
           x == Kept(s, K)
           mask == [i \in DOMAIN s |-> Abs(s[i].eta) < 1000]
<1>1. \A i \in DOMAIN s : s[i] \in J
  OBVIOUS
<1>2. Mask(s, mask) = x
  <2>1. \A n \in Int : Abs(n) < 1000 <=> n \in -999..999
    BY DEF Abs
  <2>2. \A i \in DOMAIN s : s[i].eta \in Int
    BY <1>1 DEF Particles
  <2>3. \A i \in DOMAIN s : s[i] \in K <=> s[i].eta \in -999..999
    BY <1>1
  <2>4. \A i \in DOMAIN s : Abs(s[i].eta) < 1000 <=> s[i] \in K
    <3> HIDE DEF s, K, G, x, mask
    <3> TAKE i \in DOMAIN s
    <3> DEFINE n == s[i].eta
    <3>1. n \in Int /\ (s[i] \in K <=> n \in -999..999)
      BY <2>2, <2>3
    <3> HIDE DEF n
    <3>2. Abs(n) < 1000 <=> s[i] \in K
      BY <2>1, <3>1
    <3> QED
      BY <3>2 DEF n
  <2> HIDE DEF s, K
  <2>5. [i \in DOMAIN s |-> IF mask[i] THEN <<s[i]>> ELSE <<>>]
          = [i \in DOMAIN s |-> IF s[i] \in K THEN <<s[i]>> ELSE <<>>]
    BY <2>4
  <2> QED
    BY <2>5 DEF Mask, Kept
<1>3. x \in Seq(J)
  BY KeptType
<1> HIDE DEF x
<1>4. Each(x, LAMBDA j : j.pt) = Applied(x, G)
  BY <1>3 DEF Each, Applied
<1>5. FlattenSeq(<<x>>) = x
  BY <1>3, FlattenOne
<1>6. PICK n1, n2, n3, n4 :
        Example3(ds, <<e>>) = Count("all events", n1) (+) Count("number of jets", n2)
                                (+) Count("abs(eta) < 1", n3) (+) Count("final good jets", n4)
                                (+) Fill("Jet_pt", ds, Applied(x, G))
  <2> DEFINE masks == Each(<<e>>, LAMBDA y : Each(y.jets, LAMBDA j : Abs(j.eta) < 1000))
             good == [i \in DOMAIN <<e>> |-> Mask(<<e>>[i].jets, masks[i])]
  <2>1. masks[1] = mask
    BY DEF Each
  <2>2. good = <<Mask(s, masks[1])>>
    OBVIOUS
  <2> HIDE DEF masks, mask, s
  <2>3. good = <<x>>
    BY <1>2, <2>1, <2>2
  <2> HIDE DEF good
  <2>4. Each(FlattenSeq(good), LAMBDA j : j.pt) = Applied(x, G)
    BY <1>4, <1>5, <2>3
  <2>5. Example3(ds, <<e>>)
          = Count("all events", Len(<<e>>)) (+) Count("number of jets", NumOf(<<e>>, LAMBDA y : y.jets))
              (+) Count("abs(eta) < 1", NumOf(masks, LAMBDA m : Mask(m, m)))
              (+) Count("final good jets", NumOf(good, LAMBDA js : js))
              (+) Fill("Jet_pt", ds, Each(FlattenSeq(good), LAMBDA j : j.pt))
    BY DEF Example3, masks, good
  <2> HIDE DEF G
  <2> QED
    BY <2>4, <2>5
<1> DEFINE rest == Count("all events", n1) (+) Count("number of jets", n2)
                     (+) Count("abs(eta) < 1", n3) (+) Count("final good jets", n4)
           h == "Jet_pt"
<1>7. Silent(rest, {h})
  <2> HIDE DEF s, K, G, mask
  <2>1. /\ Silent(Count("all events", n1), {h}) /\ Silent(Count("number of jets", n2), {h})
        /\ Silent(Count("abs(eta) < 1", n3), {h}) /\ Silent(Count("final good jets", n4), {h})
    BY SilentParts
  <2>2. Silent(Count("all events", n1) (+) Count("number of jets", n2), {h})
    BY <2>1, SilentParts
  <2>3. Silent(Count("all events", n1) (+) Count("number of jets", n2)
                 (+) Count("abs(eta) < 1", n3), {h})
    BY <2>1, <2>2, SilentParts
  <2> QED
    BY <2>1, <2>3, SilentParts
<1>8. Processed("example3", ds, <<e>>) = rest (+) Fill(h, ds, Applied(x, G))
  BY <1>6 DEF Processed
<1> HIDE DEF rest, h, G, K, s
<1>9. Fills(Processed("example3", ds, <<e>>), h, ds, Applied(x, G))
  BY <1>7, <1>8 DEF Fills
<1> QED
  BY <1>9 DEF x, h, G, K, s

\* and what it says of it.
LEMMA Example3Told ==
  ASSUME NEW J, NEW L, Particles(J, L), NEW e, e.jets \in Seq(J) PROVE Shows("example3", "Jet_pt", e)
<1> DEFINE q == "example3"
           h == "Jet_pt"
           s == e.jets
           K == {j \in J : j.eta \in -999..999}
           G == [j \in J |-> j.pt]
           S == Passes(s, K)
           F == [i \in S |-> s[i].pt]
<1>1. s \in Seq(J) /\ DOMAIN s = 1..Len(s) /\ Len(s) \in Nat /\ \A i \in DOMAIN s : s[i] \in J
  OBVIOUS
<1>2. {i \in DOMAIN e.jets : e.jets[i].eta \in -999..999} = S
  BY <1>1 DEF Passes
<1>3. IsFiniteSet(S)
  <2>1. S \subseteq 1..Len(s)
    BY <1>1 DEF Passes
  <2>2. IsFiniteSet(1..Len(s))
    BY <1>1, FS_Interval
  <2> HIDE DEF S
  <2> QED
    BY <2>1, <2>2, FS_Subset
<1>4. Said(q, e) = SaidOf(h, Applied(SetToSeq(S), F))
  <2> HIDE DEF S
  <2>1. Said(q, e) = Of(h, S, LAMBDA i : s[i].pt)
    BY <1>2 DEF Said, Says3
  <2>2. \A k \in DOMAIN SetToSeq(S) : SetToSeq(S)[k] \in S
    BY <1>3, SetListed
  <2>3. Of(h, S, LAMBDA i : s[i].pt) = [k \in DOMAIN SetToSeq(S) |-> <<h, F[SetToSeq(S)[k]]>>]
    BY <2>2 DEF Of, Each
  <2> HIDE DEF F, s, q, h
  <2> QED
    BY <1>3, <2>1, <2>3, SaidTypes
<1>5. \A ds : Fills(Processed(q, ds, <<e>>), h, ds, Applied(Kept(s, K), G))
  BY Example3One
<1>6. DOMAIN F = S /\ \A i \in S : F[i] = G[s[i]]
  BY <1>1 DEF Passes
<1> HIDE DEF q, h, F, G, S, K
<1>7. Shows(q, h, e)
  BY <1>1, <1>4, <1>5, <1>6, RowShown DEF S
<1> QED
  BY <1>7 DEF q, h

\* example4
LEMMA Example4Told ==
  ASSUME NEW J, NEW e, e.jets \in Seq(J) PROVE Shows("example4", "MET_pt", e)
<1> DEFINE q == "example4"
           h == "MET_pt"
           s == e.jets
           K == {j \in J : j.pt > 40}
           good == Where(<<e>>, LAMBDA y : Len(Where(y.jets, LAMBDA j : j.pt > 40)) >= 2)
           rest == Count("all events", Len(<<e>>)) (+) Count("final events", Len(good))
           values == IF Len(Kept(s, K)) >= 2 THEN <<e.met>> ELSE <<>>
<1>1. Len(Where(s, LAMBDA j : j.pt > 40)) >= 2 <=> Len(Kept(s, K)) >= 2
  <2>1. \A i \in DOMAIN s : s[i] \in J
    OBVIOUS
  <2>2. Where(s, LAMBDA j : j.pt > 40) = Kept(s, K)
    BY <2>1 DEF Where, Mask, Each, Kept
  <2> QED
    BY <2>2
<1>2. TwoAbove40(e) <=> Len(Kept(s, K)) >= 2
  <2>1. Len(Kept(s, K)) >= 2 <=> \E i, j \in DOMAIN s : i # j /\ s[i] \in K /\ s[j] \in K
    BY KeptTwo
  <2>2. \A i \in DOMAIN s : s[i] \in K <=> s[i].pt > 40
    OBVIOUS
  <2> HIDE DEF K
  <2> QED
    BY <2>1, <2>2 DEF TwoAbove40
<1>3. Said(q, e) = SaidOf(h, values)
  <2>1. Said(q, e) = If(TwoAbove40(e), <<<<h, e.met>>>>)
    BY DEF Said, Says4
  <2> HIDE DEF K, q, h
  <2> QED
    BY <1>2, <2>1, SaidTypes DEF If
<1>4. \A ds : Processed(q, ds, <<e>>) = rest (+) Fill(h, ds, values)
  <2> DEFINE A == {y \in {e} : Len(Where(y.jets, LAMBDA j : j.pt > 40)) >= 2}
             G == [y \in {e} |-> y.met]
  <2>1. good = Kept(<<e>>, A)
    <3>1. <<e>> \in Seq({e}) /\ \A i \in DOMAIN <<e>> : <<e>>[i] = e
      OBVIOUS
    <3> QED
      BY <3>1 DEF Where, Mask, Each, Kept
  <2>2. e \in A <=> Len(Kept(s, K)) >= 2
    BY <1>1
  <2> HIDE DEF A, K
  <2>3. Applied(good, G) = values
    <3>1. Applied(good, G) = IF e \in A THEN <<G[e]>> ELSE <<>>
      BY <2>1, OneMasked
    <3> QED
      BY <2>2, <3>1
  <2>4. Each(good, LAMBDA y : y.met) = Applied(good, G)
    <3>1. good \in Seq({e})
      <4>1. <<e>> \in Seq({e})
        OBVIOUS
      <4> QED
        BY <2>1, <4>1, KeptType
    <3> HIDE DEF good
    <3> QED
      BY <3>1 DEF Each, Applied
  <2>5. \A ds : Processed(q, ds, <<e>>) = rest (+) Fill(h, ds, Each(good, LAMBDA y : y.met))
    BY DEF Processed, Example4
  <2> HIDE DEF good, rest, values, G
  <2> QED
    BY <2>3, <2>4, <2>5
<1> HIDE DEF q, h
<1>5. Silent(rest, {h})
  BY SilentParts
<1>6. values = <<e.met>> \/ values = <<>>
  OBVIOUS
<1> HIDE DEF rest, values
<1>7. \A ds : Fills(Processed(q, ds, <<e>>), h, ds, values)
  BY <1>4, <1>5 DEF Fills
<1>8. Shows(q, h, e)
  BY <1>3, <1>6, <1>7, ValueShown
<1> QED
  BY <1>8 DEF q, h

\* What is in flattened rows is in one of them.
LEMMA FlattenHas ==
  ASSUME NEW V PROVE \A rows \in Seq(Seq(V)) : \A x : x \in ToSet(FlattenSeq(rows))
                                                    <=> \E i \in DOMAIN rows : x \in ToSet(rows[i])
<1> DEFINE Has(rows) == \A x : x \in ToSet(FlattenSeq(rows))
                                 <=> \E i \in DOMAIN rows : x \in ToSet(rows[i])
           T == {rows \in Seq(Seq(V)) : Has(rows)}
<1>1. <<>> \in T
  <2>1. FlattenSeq(<<>>) = <<>> /\ <<>> \in Seq(Seq(V)) /\ DOMAIN <<>> = {} /\ ToSet(<<>>) = {}
    BY DEF FlattenSeq, ToSet
  <2> QED
    BY <2>1
<1>2. ASSUME NEW t \in Seq(Seq(V)), NEW r \in Seq(V), t \in T PROVE Append(t, r) \in T
  <2> DEFINE a == Append(t, r)
             f == FlattenSeq(t)
             g == FlattenSeq(a)
             n == Len(t)
  <2>1. f \in Seq(V) /\ g = f \o r
    BY FlattenType, FlattenAppend
  <2>2. Has(t)
    BY <1>2
  <2>3. /\ a \in Seq(Seq(V)) /\ n \in Nat /\ DOMAIN t = 1..n /\ DOMAIN a = 1..(n + 1)
        /\ a[n + 1] = r /\ \A i \in 1..n : a[i] = t[i]
    OBVIOUS
  <2> HIDE DEF f, g, a, n
  <2>4. ToSet(g) = ToSet(f) \cup ToSet(r)
    <3>1. /\ Len(f) \in Nat /\ Len(r) \in Nat /\ DOMAIN f = 1..Len(f) /\ DOMAIN r = 1..Len(r)
          /\ DOMAIN g = 1..(Len(f) + Len(r))
          /\ \A i \in 1..Len(f) : g[i] = f[i] /\ i \in DOMAIN g
          /\ \A i \in 1..Len(r) : g[Len(f) + i] = r[i] /\ Len(f) + i \in DOMAIN g
      BY <2>1
    <3>2. \A k \in DOMAIN g : k \in 1..Len(f) \/ (k - Len(f) \in 1..Len(r) /\ g[k] = r[k - Len(f)])
      <4> TAKE k \in DOMAIN g
      <4>1. CASE k > Len(f)
        <5>1. k - Len(f) \in 1..Len(r) /\ Len(f) + (k - Len(f)) = k
          BY <3>1, <4>1
        <5> QED
          BY <3>1, <5>1
      <4> QED
        BY <3>1, <4>1
    <3>3. /\ \A x \in ToSet(g) : \E k \in DOMAIN g : g[k] = x
          /\ \A x \in ToSet(f) : \E k \in DOMAIN f : f[k] = x
          /\ \A x \in ToSet(r) : \E k \in DOMAIN r : r[k] = x
          /\ \A k \in DOMAIN g : g[k] \in ToSet(g)
          /\ \A k \in DOMAIN f : f[k] \in ToSet(f)
          /\ \A k \in DOMAIN r : r[k] \in ToSet(r)
      BY DEF ToSet
    <3>4. ToSet(f) \subseteq ToSet(g)
      BY <3>1, <3>3
    <3>5. ToSet(r) \subseteq ToSet(g)
      BY <3>1, <3>3
    <3>6. ToSet(g) \subseteq ToSet(f) \cup ToSet(r)
      BY <3>1, <3>2, <3>3
    <3> QED
      BY <3>4, <3>5, <3>6
  <2>5. ASSUME NEW x PROVE x \in ToSet(g) <=> \E i \in DOMAIN a : x \in ToSet(a[i])
    <3>1. x \in ToSet(f) <=> \E i \in 1..n : x \in ToSet(t[i])
      BY <2>2, <2>3 DEF f
    <3>2. \A i \in 1..(n + 1) : i \in 1..n \/ i = n + 1
      BY <2>3
    <3>3. n + 1 \in 1..(n + 1) /\ \A i \in 1..n : i \in 1..(n + 1)
      BY <2>3
    <3> QED
      BY <2>3, <2>4, <3>1, <3>2, <3>3
  <2> QED
    BY <2>3, <2>5 DEF a, g
<1> HIDE DEF T
<1>3. Seq(Seq(V)) \subseteq T
  BY <1>1, <1>2, FromNone
<1> QED
  BY <1>3 DEF T

\* The pairs of an array are those of an element and a later one.
LEMMA PairsHave ==
  ASSUME NEW J, NEW s \in Seq(J)
  PROVE  \A x : x \in ToSet(Pairs(s)) <=> \E i, j \in DOMAIN s : i < j /\ x = <<s[i], s[j]>>
<1> DEFINE n == Len(s)
           rows == [i \in DOMAIN s |-> [j \in 1..n - i |-> <<s[i], s[i + j]>>]]
<1>1. n \in Nat /\ DOMAIN s = 1..n
  OBVIOUS
<1>2. ASSUME NEW i \in DOMAIN s
      PROVE  [j \in 1..n - i |-> <<s[i], s[i + j]>>] \in Seq(J \X J)
  <2> DEFINE f == [j \in 1..n - i |-> <<s[i], s[i + j]>>]
  <2>1. n - i \in Nat /\ \A j \in 1..n - i : s[i] \in J /\ s[i + j] \in J
    BY <1>1
  <2>2. \A j \in 1..n - i : f[j] \in J \X J
    BY <2>1
  <2>3. f = [j \in 1..n - i |-> f[j]]
    OBVIOUS
  <2> HIDE DEF f
  <2>4. f \in Seq(J \X J)
    BY <2>1, <2>2, <2>3, MadeOf
  <2> QED
    BY <2>4 DEF f
<1>3. /\ rows \in Seq(Seq(J \X J)) /\ DOMAIN rows = DOMAIN s
      /\ \A i \in DOMAIN s : /\ DOMAIN rows[i] = 1..n - i
                             /\ \A j \in 1..n - i : rows[i][j] = <<s[i], s[i + j]>>
  BY <1>1, <1>2
<1>4. Pairs(s) = FlattenSeq(rows)
  BY DEF Pairs
<1> HIDE DEF rows, n
<1>5. ASSUME NEW x PROVE x \in ToSet(Pairs(s)) <=> \E i \in DOMAIN s : x \in ToSet(rows[i])
  BY <1>3, <1>4, FlattenHas
<1>6. ASSUME NEW x, NEW i \in DOMAIN s
      PROVE  x \in ToSet(rows[i]) <=> \E j \in DOMAIN s : i < j /\ x = <<s[i], s[j]>>
  <2>1. x \in ToSet(rows[i]) <=> \E j \in 1..n - i : x = <<s[i], s[i + j]>>
    BY <1>3 DEF ToSet
  <2>2. \A j \in 1..n - i : i + j \in DOMAIN s /\ i < i + j
    BY <1>1
  <2>3. \A j \in DOMAIN s : i < j => j - i \in 1..n - i /\ i + (j - i) = j
    BY <1>1
  <2> QED
    BY <2>1, <2>2, <2>3
<1> QED
  BY <1>5, <1>6

\* Two leptons are of different charges when these cancel, and their mass is a number.
LEMMA PairMeasured ==
  ASSUME NEW J, NEW L, Particles(J, L), NEW a \in L, NEW b \in L
  PROVE  /\ a.charge + b.charge = 0 <=> a.charge # b.charge
         /\ MassOf(<<a, b>>) \in Int
         /\ Total(Each(<<a, b>>, LAMBDA l : l.charge)) = a.charge + b.charge
<1>1. a.charge \in {-1, 1} /\ b.charge \in {-1, 1} /\ a.mass \in Int /\ b.mass \in Int
  BY DEF Particles
<1>2. /\ Each(<<a, b>>, LAMBDA l : l.charge) = <<a.charge, b.charge>>
      /\ Each(<<a, b>>, LAMBDA l : l.mass) = <<a.mass, b.mass>>
  BY DEF Each
<1>3. \A m, n \in Int : Total(<<m, n>>) = m + n
  <2> TAKE m, n \in Int
  <2> DEFINE t == <<m, n>>
  <2>1. t \in Seq(Int) /\ Len(t) = 2 /\ t[1] = m /\ t[2] = n
    OBVIOUS
  <2> HIDE DEF t
  <2>2. Total(t) = m + n
    BY <2>1, TotalOfTwo
  <2> QED
    BY <2>2 DEF t
<1>4. Total(<<a.mass, b.mass>>) = a.mass + b.mass /\ Total(<<a.charge, b.charge>>) = a.charge + b.charge
  BY <1>1, <1>3
<1>5. MassOf(<<a, b>>) = a.mass + b.mass
  BY <1>2, <1>4 DEF MassOf
<1>6. a.charge + b.charge = 0 <=> a.charge # b.charge
  BY <1>1
<1>7. a.mass + b.mass \in Int
  BY <1>1
<1> QED
  BY <1>2, <1>4, <1>5, <1>6, <1>7

\* example5
LEMMA Example5Told ==
  ASSUME NEW J, NEW L, Particles(J, L), NEW e, e.muons \in Seq(L) PROVE Shows("example5", "MET", e)
<1> DEFINE s == e.muons
           Z == {p \in L \X L : /\ p[1].charge # p[2].charge
                                /\ MassOf(p) >= 6000
                                /\ MassOf(p) < 12000}
           count(y) == Len(Where(Pairs(y.muons), LAMBDA p : /\ p[1].charge # p[2].charge
                                                            /\ MassOf(p) >= 6000
                                                            /\ MassOf(p) < 12000))
           values == IF count(e) >= 1 THEN <<e.met>> ELSE <<>>
<1>1. Pairs(s) \in Seq(L \X L) /\ \A i \in DOMAIN s : s[i] \in L
  BY PairsType
<1>2. OppositePair(e) <=> count(e) >= 1
  <2>1. Where(Pairs(s), LAMBDA p : /\ p[1].charge # p[2].charge
                                   /\ MassOf(p) >= 6000
                                   /\ MassOf(p) < 12000) = Kept(Pairs(s), Z)
    <3> DEFINE ps == Pairs(s)
    <3>1. \A k \in DOMAIN ps : ps[k] \in L \X L
      BY <1>1
    <3> HIDE DEF ps
    <3>2. Where(ps, LAMBDA p : /\ p[1].charge # p[2].charge
                               /\ MassOf(p) >= 6000
                               /\ MassOf(p) < 12000) = Kept(ps, Z)
      BY <3>1 DEF Where, Mask, Each, Kept
    <3> QED
      BY <3>2 DEF ps
  <2>2. ASSUME NEW i \in DOMAIN s, NEW j \in DOMAIN s
        PROVE  <<s[i], s[j]>> \in Z <=> /\ s[i].charge + s[j].charge = 0
                                        /\ MassOf(<<s[i], s[j]>>) \in 6000..11999
    <3> DEFINE a == s[i]
               b == s[j]
               m == MassOf(<<a, b>>)
    <3>1. a \in L /\ b \in L
      BY <1>1
    <3>2. <<a, b>> \in Z <=> a.charge # b.charge /\ m >= 6000 /\ m < 12000
      BY <3>1
    <3> HIDE DEF a, b
    <3>3. (a.charge + b.charge = 0 <=> a.charge # b.charge) /\ m \in Int
      BY <3>1, PairMeasured
    <3> HIDE DEF m, Z
    <3>4. m >= 6000 /\ m < 12000 <=> m \in 6000..11999
      BY <3>3
    <3>5. <<a, b>> \in Z <=> a.charge + b.charge = 0 /\ m \in 6000..11999
      BY <3>2, <3>3, <3>4
    <3> QED
      BY <3>5 DEF a, b, m
  <2> HIDE DEF Z
  <2>3. Len(Kept(Pairs(s), Z)) >= 1 <=> \E k \in DOMAIN Pairs(s) : Pairs(s)[k] \in Z
    BY <1>1, KeptTwo
  <2>4. (\E k \in DOMAIN Pairs(s) : Pairs(s)[k] \in Z) <=> \E x \in ToSet(Pairs(s)) : x \in Z
    BY DEF ToSet
  <2>5. (\E x \in ToSet(Pairs(s)) : x \in Z) <=> \E i, j \in DOMAIN s : i < j /\ <<s[i], s[j]>> \in Z
    <3>1. \A x : x \in ToSet(Pairs(s)) <=> \E i, j \in DOMAIN s : i < j /\ x = <<s[i], s[j]>>
      BY PairsHave
    <3> HIDE DEF s, count, values
    <3>2. ASSUME NEW x \in ToSet(Pairs(s)), x \in Z
          PROVE  \E i, j \in DOMAIN s : i < j /\ <<s[i], s[j]>> \in Z
      <4>1. PICK i \in DOMAIN s, j \in DOMAIN s : i < j /\ x = <<s[i], s[j]>>
        BY <3>1, <3>2
      <4> QED
        BY <3>2, <4>1
    <3>3. ASSUME NEW i \in DOMAIN s, NEW j \in DOMAIN s, i < j, <<s[i], s[j]>> \in Z
          PROVE  \E x \in ToSet(Pairs(s)) : x \in Z
      <4> DEFINE x == <<s[i], s[j]>>
      <4>1. x \in ToSet(Pairs(s))
        BY <3>1, <3>3
      <4> QED
        BY <3>3, <4>1
    <3> QED
      BY <3>2, <3>3
  <2>6. OppositePair(e) <=> \E i, j \in DOMAIN s : /\ i < j /\ s[i].charge + s[j].charge = 0
                                                   /\ MassOf(<<s[i], s[j]>>) \in 6000..11999
    BY DEF OppositePair
  <2>7. count(e) = Len(Kept(Pairs(s), Z))
    BY <2>1
  <2> HIDE DEF count, s
  <2> QED
    BY <2>2, <2>3, <2>4, <2>5, <2>6, <2>7
<1> DEFINE q == "example5"
           h == "MET"
           A == {y \in {e} : count(y) >= 1}
           G == [y \in {e} |-> y.met]
           good == Where(<<e>>, LAMBDA y : count(y) >= 1)
           rest == Count("all events", Len(<<e>>)) (+) Count("all muons", NumOf(<<e>>, LAMBDA y : y.muons))
                     (+) Count("final events", Len(good))
<1>3. Said(q, e) = SaidOf(h, values)
  <2>1. Said(q, e) = If(OppositePair(e), <<<<h, e.met>>>>)
    BY DEF Said, Says5
  <2> HIDE DEF q, h, Z, A, G, good, rest, count
  <2> QED
    BY <1>2, <2>1, SaidTypes DEF If
<1>4. \A ds : Processed(q, ds, <<e>>) = rest (+) Fill(h, ds, Each(good, LAMBDA y : y.met))
  BY DEF Processed, Example5
<1>5. <<e>> \in Seq({e}) /\ \A i \in DOMAIN <<e>> : <<e>>[i] \in {e}
  OBVIOUS
<1> HIDE DEF count, Z, s
<1>6. good = Kept(<<e>>, A)
  BY <1>5 DEF Where, Mask, Each, Kept
<1>7. good \in Seq({e})
  BY <1>5, <1>6, KeptType
<1>8. Applied(good, G) = values
  BY <1>6, OneMasked
<1>9. Each(good, LAMBDA y : y.met) = Applied(good, G)
  <2> HIDE DEF good
  <2> QED
    BY <1>7 DEF Each, Applied
<1> HIDE DEF q, h, A, G
<1>10. Silent(rest, {h})
  <2> HIDE DEF good, values
  <2> DEFINE n1 == Len(<<e>>)
             n2 == NumOf(<<e>>, LAMBDA y : y.muons)
             n3 == Len(good)
  <2> HIDE DEF n1, n2, n3
  <2>1. /\ Silent(Count("all events", n1), {h}) /\ Silent(Count("all muons", n2), {h})
        /\ Silent(Count("final events", n3), {h})
    BY SilentParts
  <2>2. Silent(Count("all events", n1) (+) Count("all muons", n2), {h})
    BY <2>1, SilentParts
  <2>3. Silent(Count("all events", n1) (+) Count("all muons", n2) (+) Count("final events", n3), {h})
    BY <2>1, <2>2, SilentParts
  <2> QED
    BY <2>3 DEF n1, n2, n3
<1>11. values = <<e.met>> \/ values = <<>>
  OBVIOUS
<1> HIDE DEF rest, values, good
<1>12. \A ds : Fills(Processed(q, ds, <<e>>), h, ds, values)
  BY <1>4, <1>8, <1>9, <1>10 DEF Fills
<1>13. Shows(q, h, e)
  BY <1>3, <1>11, <1>12, ValueShown
<1> QED
  BY <1>13 DEF q, h

\* zpeak_example
LEMMA ZPeakTold ==
  ASSUME NEW J, NEW L, Particles(J, L), NEW e, e.muons \in Seq(L) PROVE Shows("zpeak", "dimu_mass", e)
<1> DEFINE s == e.muons
           m == MassOf(s)
           values == IF Neutral(s) THEN <<m>> ELSE <<>>
<1>1. Neutral(s) <=> Len(s) = 2 /\ \E i, j \in 1..2 : s[i].charge > s[j].charge
  <2> SUFFICES ASSUME Len(s) = 2
               PROVE  Total(Each(s, LAMBDA l : l.charge)) = 0
                        <=> \E i, j \in 1..2 : s[i].charge > s[j].charge
    BY DEF Neutral
  <2> DEFINE a == s[1]
             b == s[2]
  <2>1. a \in L /\ b \in L /\ s = <<a, b>>
    OBVIOUS
  <2>2. a.charge \in {-1, 1} /\ b.charge \in {-1, 1}
    BY <2>1 DEF Particles
  <2>3. (\E i, j \in 1..2 : s[i].charge > s[j].charge)
          <=> a.charge > b.charge \/ b.charge > a.charge
    <3>1. ~(a.charge > a.charge) /\ ~(b.charge > b.charge)
      BY <2>2
    <3>2. \A i \in 1..2 : i = 1 \/ i = 2
      OBVIOUS
    <3>3. 1 \in 1..2 /\ 2 \in 1..2
      OBVIOUS
    <3> HIDE DEF s
    <3> QED
      BY <3>1, <3>2, <3>3
  <2> HIDE DEF a, b, s
  <2>4. /\ a.charge + b.charge = 0 <=> a.charge # b.charge
        /\ Total(Each(<<a, b>>, LAMBDA l : l.charge)) = a.charge + b.charge
    BY <2>1, PairMeasured
  <2>5. a.charge > b.charge \/ b.charge > a.charge <=> a.charge # b.charge
    BY <2>2
  <2>6. Total(Each(s, LAMBDA l : l.charge)) = a.charge + b.charge
    BY <2>1, <2>4
  <2> QED
    BY <2>3, <2>4, <2>5, <2>6
<1> DEFINE q == "zpeak"
           h == "dimu_mass"
<1>2. Said(q, e) = SaidOf(h, values)
  <2>1. Said(q, e) = If(Len(s) = 2 /\ \E i, j \in 1..2 : s[i].charge > s[j].charge, <<<<h, m>>>>)
    BY DEF Said, SaysZPeak
  <2> HIDE DEF q, h, s, m
  <2> QED
    BY <1>1, <2>1, SaidTypes DEF If
<1>3. \A ds : Processed(q, ds, <<e>>) = Fill(h, ds, values)
  <2> DEFINE K == {ls \in Seq(L) : Neutral(ls)}
             G == [ls \in Seq(L) |-> MassOf(ls)]
             one == <<s>>
  <2>1. Each(<<e>>, LAMBDA y : y.muons) = one
    BY DEF Each
  <2>2. one \in Seq(Seq(L)) /\ \A i \in DOMAIN one : one[i] \in Seq(L)
    OBVIOUS
  <2>3. s \in K <=> Neutral(s)
    OBVIOUS
  <2>4. G[s] = m
    OBVIOUS
  <2> HIDE DEF s, m, values
  <2>5. Applied(Kept(<<s>>, K), G) = IF s \in K THEN <<G[s]>> ELSE <<>>
    BY OneMasked
  <2>6. Applied(Kept(one, K), G) = values
    BY <2>3, <2>4, <2>5 DEF values
  <2> HIDE DEF one
  <2>7. Where(one, Neutral) = Kept(one, K)
    BY <2>2 DEF Where, Mask, Each, Kept
  <2> HIDE DEF K
  <2>8. Kept(one, K) \in Seq(Seq(L))
    BY <2>2, KeptType
  <2>9. Each(Kept(one, K), MassOf) = Applied(Kept(one, K), G)
    BY <2>8 DEF Each, Applied
  <2> HIDE DEF G
  <2>10. Masses(one) = values
    BY <2>6, <2>7, <2>9 DEF Masses
  <2> QED
    BY <2>1, <2>10 DEF Processed, ZPeak
<1>4. values = <<m>> \/ values = <<>>
  OBVIOUS
<1> HIDE DEF values, q, h, m, s
<1>5. \A ds : Fills(Processed(q, ds, <<e>>), h, ds, values)
  <2> DEFINE none == EmptyBag
  <2>1. DOMAIN none = {}
    BY DEF EmptyBag, SetToBag
  <2> HIDE DEF none
  <2>2. Silent(none, {h})
    BY <2>1 DEF Silent
  <2> QED
    BY <1>3, <2>2 DEF Fills
<1>6. Shows(q, h, e)
  BY <1>2, <1>4, <1>5, ValueShown
<1> QED
  BY <1>6 DEF q, h

\* As many units as the numbers of a set add up to.
Units(F, S) == UNION {{i} \X (1..F[i]) : i \in S}

\* One number more, as many units more.
LEMMA UnitsMore ==
  ASSUME NEW F, NEW S, \A i \in S : F[i] \in Nat, NEW x \in S, IsFiniteSet(Units(F, S \ {x}))
  PROVE  /\ IsFiniteSet(Units(F, S))
         /\ Cardinality(Units(F, S)) = F[x] + Cardinality(Units(F, S \ {x}))
<1> DEFINE A == {x} \X (1..F[x])
           B == Units(F, S \ {x})
<1>1. IsFiniteSet(A) /\ Cardinality(A) = F[x]
  BY Numbered
<1>2. Units(F, S) = A \cup B /\ A \cap B = {}
  <2>1. \A u : u \in Units(F, S) <=> \E i \in S : u \in {i} \X (1..F[i])
    BY DEF Units
  <2>2. \A u : u \in B <=> \E i \in S \ {x} : u \in {i} \X (1..F[i])
    BY DEF Units
  <2>3. \A u \in A : u[1] = x
    OBVIOUS
  <2>4. \A u \in B : u[1] # x
    BY <2>2
  <2> HIDE DEF B
  <2> QED
    BY <2>1, <2>2, <2>3, <2>4
<1> HIDE DEF A, B
<1>3. IsFiniteSet(B)
  BY DEF B
<1>4. Cardinality(A \cup B) = Cardinality(A) + Cardinality(B) - Cardinality(A \cap B)
  BY <1>1, <1>3, FS_Union
<1>5. IsFiniteSet(A \cup B) /\ Cardinality(A \cap B) = 0
  BY <1>1, <1>2, <1>3, FS_Union, FS_EmptySet
<1>6. Cardinality(B) \in Nat
  BY <1>3, FS_CardinalityType
<1> QED
  BY <1>1, <1>2, <1>4, <1>5, <1>6 DEF B

\* No numbers, no units; finitely many, as many.
LEMMA UnitsFinite ==
  /\ \A F : Units(F, {}) = {}
  /\ \A F, S : IsFiniteSet(S) /\ (\A i \in S : F[i] \in Nat) => IsFiniteSet(Units(F, S))
<1>1. \A F : Units(F, {}) = {}
  BY DEF Units
<1>2. ASSUME NEW F PROVE \A S : IsFiniteSet(S) /\ (\A i \in S : F[i] \in Nat) => IsFiniteSet(Units(F, S))
  <2> DEFINE T == {n \in Nat : \A S : /\ IsFiniteSet(S) /\ Cardinality(S) = n
                                      /\ \A i \in S : F[i] \in Nat
                                      => IsFiniteSet(Units(F, S))}
  <2>1. 0 \in T
    <3>1. \A S : IsFiniteSet(S) /\ Cardinality(S) = 0 => S = {}
      BY FS_EmptySet
    <3> QED
      BY <1>1, <3>1, FS_EmptySet
  <2>2. ASSUME NEW n \in Nat, n \in T PROVE n + 1 \in T
    <3> SUFFICES ASSUME NEW S, IsFiniteSet(S), Cardinality(S) = n + 1, \A i \in S : F[i] \in Nat
                 PROVE  IsFiniteSet(Units(F, S))
      OBVIOUS
    <3>1. PICK x : x \in S
      BY FS_EmptySet
    <3>2. IsFiniteSet(S \ {x}) /\ Cardinality(S \ {x}) = n
      BY <3>1, FS_RemoveElement
    <3>3. IsFiniteSet(Units(F, S \ {x}))
      BY <2>2, <3>2
    <3> QED
      BY <3>1, <3>3, UnitsMore
  <2> HIDE DEF T
  <2>3. Nat \subseteq T
    BY <2>1, <2>2, FromZero
  <2>4. \A S : IsFiniteSet(S) => Cardinality(S) \in Nat
    BY FS_CardinalityType
  <2> QED
    BY <2>3, <2>4 DEF T
<1> QED
  BY <1>1, <1>2

\* How the library adds the numbers of a set.
Sums(F, S, f) ==
  f = [T \in SUBSET S |-> IF T = {} THEN 0
                          ELSE F[CHOOSE i \in T : TRUE] + f[T \ {CHOOSE i \in T : TRUE}]]

\* It gives the number of units.
LEMMA SumsUnits ==
  ASSUME NEW S, IsFiniteSet(S), NEW F, \A i \in S : F[i] \in Nat
  PROVE  /\ \E f : Sums(F, S, f)
         /\ \A f : Sums(F, S, f) => f[S] = Cardinality(Units(F, S))
<1>1. \A T \in SUBSET S : IsFiniteSet(T) /\ \A i \in T : F[i] \in Nat
  BY FS_Subset
<1>2. \A T \in SUBSET S : T # {} =>
        /\ (CHOOSE i \in T : TRUE) \in T
        /\ Cardinality(Units(F, T)) = F[CHOOSE i \in T : TRUE]
                                        + Cardinality(Units(F, T \ {CHOOSE i \in T : TRUE}))
  <2> SUFFICES ASSUME NEW T \in SUBSET S, T # {}
               PROVE  /\ (CHOOSE i \in T : TRUE) \in T
                      /\ Cardinality(Units(F, T)) = F[CHOOSE i \in T : TRUE]
                                        + Cardinality(Units(F, T \ {CHOOSE i \in T : TRUE}))
    OBVIOUS
  <2> DEFINE x == CHOOSE i \in T : TRUE
  <2>1. x \in T
    OBVIOUS
  <2> HIDE DEF x
  <2>2. T \ {x} \in SUBSET S
    OBVIOUS
  <2>3. IsFiniteSet(Units(F, T \ {x}))
    BY <1>1, <2>2, UnitsFinite
  <2>4. Cardinality(Units(F, T)) = F[x] + Cardinality(Units(F, T \ {x}))
    BY <1>1, <2>1, <2>3, UnitsMore
  <2> QED
    BY <2>1, <2>4 DEF x
<1>3. Cardinality(Units(F, {})) = 0
  BY UnitsFinite, FS_EmptySet
<1>4. \E f : Sums(F, S, f)
  <2> DEFINE g == [T \in SUBSET S |-> Cardinality(Units(F, T))]
  <2>1. \A T \in SUBSET S :
          g[T] = IF T = {} THEN 0 ELSE F[CHOOSE i \in T : TRUE] + g[T \ {CHOOSE i \in T : TRUE}]
    <3> SUFFICES ASSUME NEW T \in SUBSET S
                 PROVE  g[T] = IF T = {} THEN 0
                               ELSE F[CHOOSE i \in T : TRUE] + g[T \ {CHOOSE i \in T : TRUE}]
      OBVIOUS
    <3> DEFINE x == CHOOSE i \in T : TRUE
    <3>1. g[T] = Cardinality(Units(F, T)) /\ g[T \ {x}] = Cardinality(Units(F, T \ {x}))
      OBVIOUS
    <3>2. T # {} => Cardinality(Units(F, T)) = F[x] + Cardinality(Units(F, T \ {x}))
      BY <1>2
    <3> HIDE DEF x, g
    <3>3. g[T] = IF T = {} THEN 0 ELSE F[x] + g[T \ {x}]
      BY <1>3, <3>1, <3>2
    <3> QED
      BY <3>3 DEF x
  <2>2. g = [T \in SUBSET S |-> g[T]]
    OBVIOUS
  <2> HIDE DEF g
  <2>3. Sums(F, S, g)
    BY <2>1, <2>2 DEF Sums
  <2> QED
    BY <2>3
<1>5. ASSUME NEW f, Sums(F, S, f) PROVE f[S] = Cardinality(Units(F, S))
  <2>1. \A T \in SUBSET S : f[T] = IF T = {} THEN 0
                                   ELSE F[CHOOSE i \in T : TRUE] + f[T \ {CHOOSE i \in T : TRUE}]
    BY <1>5 DEF Sums
  <2> DEFINE N == {n \in Nat : \A T \in SUBSET S :
                     Cardinality(T) = n => f[T] = Cardinality(Units(F, T))}
  <2>2. 0 \in N
    <3>1. \A T \in SUBSET S : Cardinality(T) = 0 => T = {}
      BY <1>1, FS_EmptySet
    <3>2. f[{}] = 0
      BY <2>1
    <3> QED
      BY <1>3, <3>1, <3>2
  <2>3. ASSUME NEW n \in Nat, n \in N PROVE n + 1 \in N
    <3> SUFFICES ASSUME NEW T \in SUBSET S, Cardinality(T) = n + 1
                 PROVE  f[T] = Cardinality(Units(F, T))
      OBVIOUS
    <3> DEFINE x == CHOOSE i \in T : TRUE
    <3>1. T # {}
      BY FS_EmptySet
    <3>2. x \in T /\ Cardinality(Units(F, T)) = F[x] + Cardinality(Units(F, T \ {x}))
      BY <1>2, <3>1
    <3>3. f[T] = F[x] + f[T \ {x}]
      BY <2>1, <3>1
    <3> HIDE DEF x
    <3>4. Cardinality(T \ {x}) = n /\ T \ {x} \in SUBSET S
      <4>1. IsFiniteSet(T)
        BY <1>1
      <4>2. Cardinality(T \ {x}) = Cardinality(T) - 1
        BY <3>2, <4>1, FS_RemoveElement
      <4> HIDE DEF N
      <4> QED
        BY <4>2
    <3>5. f[T \ {x}] = Cardinality(Units(F, T \ {x}))
      BY <2>3, <3>4
    <3> QED
      BY <3>2, <3>3, <3>5
  <2> HIDE DEF N
  <2>4. Nat \subseteq N
    BY <2>2, <2>3, FromZero
  <2>5. Cardinality(S) \in Nat /\ S \in SUBSET S
    BY FS_CardinalityType
  <2> QED
    BY <2>4, <2>5 DEF N
<1> QED
  BY <1>4, <1>5

\* The sum of an array.
LEMMA TotalUnits ==
  ASSUME NEW s \in Seq(Nat) PROVE Total(s) = Cardinality(Units(s, DOMAIN s))
<1> DEFINE S == DOMAIN s
           P(f) == f = [T \in SUBSET S |->
                          IF T = {} THEN 0
                          ELSE s[CHOOSE i \in T : TRUE] + f[T \ {CHOOSE i \in T : TRUE}]]
           g == CHOOSE f : P(f)
<1>1. S = 1..Len(s) /\ Len(s) \in Nat /\ \A i \in S : s[i] \in Nat
  OBVIOUS
<1>2. IsFiniteSet(S)
  BY <1>1, FS_Interval
<1>3. Total(s) = g[S]
  BY DEF Total, SumFunction, SumFunctionOnSet, FoldFunctionOnSet, MapThenFoldSet
<1>4. \A f : P(f) <=> Sums(s, S, f)
  BY DEF Sums
<1> HIDE DEF S
<1>5. \E f : Sums(s, S, f)
  BY <1>1, <1>2, SumsUnits
<1>6. P(g)
  <2>1. PICK f : Sums(s, S, f)
    BY <1>5
  <2>2. P(f)
    BY <1>4, <2>1
  <2> HIDE DEF P
  <2> QED
    BY <2>2
<1>7. Sums(s, S, g)
  BY <1>4, <1>6
<1> HIDE DEF g
<1>8. g[S] = Cardinality(Units(s, S))
  BY <1>1, <1>2, <1>7, SumsUnits
<1> QED
  BY <1>3, <1>8 DEF S

\* The sum of the pt of some jets of an event.
LEMMA PtUnits ==
  ASSUME NEW e, NEW S, IsFiniteSet(S), \A i \in S : e.jets[i].pt \in Nat
  PROVE  Pt(e, S) = Cardinality(Units([i \in S |-> e.jets[i].pt], S))
<1> DEFINE F == [i \in S |-> e.jets[i].pt]
           P(f) == f = [T \in SUBSET S |->
                          IF T = {} THEN 0
                          ELSE e.jets[CHOOSE i \in T : TRUE].pt + f[T \ {CHOOSE i \in T : TRUE}]]
           g == CHOOSE f : P(f)
<1>1. \A i \in S : F[i] = e.jets[i].pt /\ F[i] \in Nat
  OBVIOUS
<1>2. Pt(e, S) = g[S]
  BY DEF Pt, MapThenSumSet, MapThenFoldSet
<1> HIDE DEF F
<1>3. \A f : P(f) <=> Sums(F, S, f)
  <2> TAKE f
  <2> DEFINE A == [T \in SUBSET S |-> IF T = {} THEN 0 ELSE e.jets[CHOOSE i \in T : TRUE].pt
                                                              + f[T \ {CHOOSE i \in T : TRUE}]]
             B == [T \in SUBSET S |-> IF T = {} THEN 0 ELSE F[CHOOSE i \in T : TRUE]
                                                              + f[T \ {CHOOSE i \in T : TRUE}]]
  <2>1. \A T \in SUBSET S : T # {} => (CHOOSE i \in T : TRUE) \in S
    OBVIOUS
  <2>2. \A T \in SUBSET S : T # {} => F[CHOOSE i \in T : TRUE] = e.jets[CHOOSE i \in T : TRUE].pt
    BY <1>1, <2>1
  <2>3. A = B
    BY <2>2
  <2>4. (P(f) <=> f = A) /\ (Sums(F, S, f) <=> f = B)
    BY DEF Sums
  <2> HIDE DEF A, B, P
  <2> QED
    BY <2>3, <2>4
<1>4. \E f : Sums(F, S, f)
  BY <1>1, SumsUnits
<1>5. P(g)
  <2>1. PICK f : Sums(F, S, f)
    BY <1>4
  <2>2. P(f)
    BY <1>3, <2>1
  <2> HIDE DEF P
  <2> QED
    BY <2>2
<1>6. Sums(F, S, g)
  BY <1>3, <1>5
<1> HIDE DEF g
<1>7. g[S] = Cardinality(Units(F, S))
  BY <1>1, <1>6, SumsUnits
<1> QED
  BY <1>2, <1>7 DEF F

\* A sequence of the numbers of a set, each once, has as many units.
LEMMA ListUnits ==
  ASSUME NEW S, NEW m \in Nat, NEW f, Lists(f, m, S), NEW F, \A i \in S : F[i] \in Nat,
         NEW y, \A n \in 1..m : y[n] = F[f[n]]
  PROVE  Cardinality(Units(F, S)) = Cardinality(Units(y, 1..m))
<1>0. \A n \in 1..m : f[n] \in S /\ y[n] = F[f[n]] /\ y[n] \in Nat
  BY DEF Lists
<1> DEFINE A == Units(y, 1..m)
           B == Units(F, S)
           g == [u \in A |-> <<f[u[1]], u[2]>>]
<1>1. IsFiniteSet(A)
  <2>1. IsFiniteSet(1..m) /\ \A n \in 1..m : y[n] \in Nat
    BY <1>0, FS_Interval
  <2> QED
    BY <2>1, UnitsFinite
<1>2. \A u : u \in A <=> \E n \in 1..m, k \in Nat : k \in 1..y[n] /\ u = <<n, k>>
  BY DEF Units
<1>3. \A u : u \in B <=> \E i \in S, k \in Nat : k \in 1..F[i] /\ u = <<i, k>>
  BY DEF Units
<1> HIDE DEF A, B
<1>4. \A u \in A : g[u] \in B
  <2> TAKE u \in A
  <2>1. PICK n \in 1..m, k \in Nat : k \in 1..y[n] /\ u = <<n, k>>
    BY <1>2
  <2>2. g[u] = <<f[n], k>> /\ f[n] \in S /\ k \in 1..F[f[n]]
    BY <1>0, <2>1
  <2> HIDE DEF g
  <2> QED
    BY <1>3, <2>2
<1>5. \A u, v \in A : g[u] = g[v] => u = v
  <2> SUFFICES ASSUME NEW u \in A, NEW v \in A, g[u] = g[v] PROVE u = v
    OBVIOUS
  <2>1. PICK n \in 1..m, k \in Nat : k \in 1..y[n] /\ u = <<n, k>>
    BY <1>2
  <2>2. PICK o \in 1..m, l \in Nat : l \in 1..y[o] /\ v = <<o, l>>
    BY <1>2
  <2>3. g[u] = <<f[n], k>> /\ g[v] = <<f[o], l>>
    BY <2>1, <2>2
  <2> HIDE DEF g
  <2>4. f[n] = f[o] /\ k = l
    <3>1. <<f[n], k>> = <<f[o], l>>
      BY <2>3
    <3> DEFINE a == f[n]
               b == f[o]
    <3> HIDE DEF a, b
    <3>2. <<a, k>> = <<b, l>> => a = b /\ k = l
      OBVIOUS
    <3> QED
      BY <3>1, <3>2 DEF a, b
  <2>5. n = o
    BY <2>4 DEF Lists
  <2> QED
    BY <2>1, <2>2, <2>4, <2>5
<1>6. \A w \in B : \E u \in A : g[u] = w
  <2> TAKE w \in B
  <2>1. PICK i \in S, k \in Nat : k \in 1..F[i] /\ w = <<i, k>>
    BY <1>3
  <2>2. PICK n \in 1..m : f[n] = i
    BY DEF Lists
  <2>3. <<n, k>> \in A
    BY <1>0, <1>2, <2>1, <2>2
  <2>4. g[<<n, k>>] = <<f[n], k>>
    BY <2>3
  <2> HIDE DEF g
  <2> QED
    BY <2>1, <2>2, <2>3, <2>4
<1>7. g = [u \in A |-> g[u]]
  OBVIOUS
<1> HIDE DEF g
<1>8. g \in [A -> B]
  BY <1>4, <1>7
<1>9. Cardinality(B) = Cardinality(A)
  BY <1>1, <1>5, <1>6, <1>8, SameNumber
<1> QED
  BY <1>9 DEF A, B

\* The pt of what passes a mask add up to those of a set of indices.
LEMMA KeptTotal ==
  ASSUME NEW J, \A j \in J : j.pt \in Nat, NEW e, e.jets \in Seq(J), NEW K
  PROVE  PtOf(Kept(e.jets, K)) = Pt(e, Passes(e.jets, K))
<1> DEFINE s == e.jets
           x == Kept(s, K)
           m == Len(x)
           S == Passes(s, K)
           y == [n \in DOMAIN x |-> x[n].pt]
           F == [i \in S |-> e.jets[i].pt]
<1>1. PICK f : Lists(f, m, S) /\ \A n \in DOMAIN x : x[n] = s[f[n]]
  BY KeptListed
<1>2. x \in Seq(J) /\ m \in Nat /\ DOMAIN x = 1..m
  BY KeptType
<1>3. \A i \in S : s[i] \in J /\ F[i] = s[i].pt /\ F[i] \in Nat
  BY DEF Passes
<1>4. PtOf(x) = Total(y)
  BY DEF PtOf, Each
<1> HIDE DEF x
<1>5. y \in Seq(Nat) /\ DOMAIN y = 1..m
  <2>1. \A n \in 1..m : x[n] \in J
    BY <1>2
  <2>2. DOMAIN y = 1..m /\ \A n \in 1..m : y[n] \in Nat
    BY <1>2, <2>1
  <2>3. y = [n \in 1..m |-> y[n]]
    BY <1>2
  <2> HIDE DEF y
  <2> QED
    BY <1>2, <2>2, <2>3, MadeOf
<1>6. \A n \in 1..m : f[n] \in S /\ y[n] = F[f[n]]
  <2> SUFFICES ASSUME NEW n \in 1..m PROVE f[n] \in S /\ y[n] = F[f[n]]
    OBVIOUS
  <2>1. f[n] \in S
    BY <1>1 DEF Lists
  <2>2. y[n] = s[f[n]].pt
    BY <1>1, <1>2
  <2> QED
    BY <1>3, <2>1, <2>2
<1>7. IsFiniteSet(S)
  BY <1>1, <1>2, ListCount
<1>8. Pt(e, S) = Cardinality(Units(F, S))
  BY <1>3, <1>7, PtUnits
<1>9. Total(y) = Cardinality(Units(y, 1..m))
  BY <1>5, TotalUnits
<1> HIDE DEF y, F, S, m, s
<1>10. Cardinality(Units(F, S)) = Cardinality(Units(y, 1..m))
  BY <1>1, <1>2, <1>3, <1>6, ListUnits
<1> QED
  BY <1>4, <1>8, <1>9, <1>10 DEF S, x, s

\* ttbar_HT
LEMMA TtbarTold ==
  ASSUME NEW J, NEW L, Particles(J, L), NEW e, e.jets \in Seq(J) PROVE Shows("ttbar", "ht", e)
<1> DEFINE q == "ttbar"
           h == "ht"
           s == e.jets
           K == {j \in J : j.pt > 25}
           ht(y) == PtOf(Where(y.jets, LAMBDA j : j.pt > 25))
           v == ht(e)
<1>1. v = Pt(e, {i \in DOMAIN e.jets : e.jets[i].pt > 25})
  <2>1. \A i \in DOMAIN s : s[i] \in J
    OBVIOUS
  <2>2. Where(s, LAMBDA j : j.pt > 25) = Kept(s, K)
    BY <2>1 DEF Where, Mask, Each, Kept
  <2>3. Passes(s, K) = {i \in DOMAIN e.jets : e.jets[i].pt > 25}
    BY <2>1 DEF Passes
  <2>4. \A j \in J : j.pt \in Nat
    BY DEF Particles
  <2> HIDE DEF K
  <2>5. PtOf(Kept(s, K)) = Pt(e, Passes(s, K))
    BY <2>4, KeptTotal
  <2> QED
    BY <2>2, <2>3, <2>5
<1>2. Said(q, e) = <<<<h, Pt(e, {i \in DOMAIN e.jets : e.jets[i].pt > 25})>>>>
  BY DEF Said, SaysTtbar
<1>3. \A ds : Processed(q, ds, <<e>>) = Fill(h, ds, <<v>>)
  <2>1. \A ds : Processed(q, ds, <<e>>) = Fill(h, ds, Each(<<e>>, LAMBDA y : ht(y)))
    BY DEF Processed, TtbarAnalysis
  <2> HIDE DEF ht
  <2>2. Each(<<e>>, LAMBDA y : ht(y)) = <<v>>
    BY DEF Each
  <2> QED
    BY <2>1, <2>2
<1> HIDE DEF q, h, v
<1>4. Said(q, e) = SaidOf(h, <<v>>)
  BY <1>1, <1>2, SaidTypes
<1>5. \A ds : Fills(Processed(q, ds, <<e>>), h, ds, <<v>>)
  <2> DEFINE none == EmptyBag
  <2>1. DOMAIN none = {}
    BY DEF EmptyBag, SetToBag
  <2> HIDE DEF none
  <2>2. Silent(none, {h})
    BY <2>1 DEF Silent
  <2> QED
    BY <1>3, <2>2 DEF Fills
<1>6. Shows(q, h, e)
  BY <1>4, <1>5, ValueShown
<1> QED
  BY <1>6 DEF q, h

\* A mask of what a mask leaves.
LEMMA KeptTwice ==
  ASSUME NEW E, NEW s \in Seq(E), NEW K1, NEW K2
  PROVE  Kept(Kept(s, K1), K2) = Kept(s, K1 \cap K2)
<1> DEFINE G == [y \in E |-> y]
           K == K1 \cap K2
<1>1. Takes(G, E, E) /\ Composed(E, G, K, K1, K2)
  BY DEF Takes, Composed
<1>2. \A t \in Seq(E) : Applied(t, G) = t
  <2> TAKE t \in Seq(E)
  <2>1. \A i \in DOMAIN t : t[i] \in E
    OBVIOUS
  <2>2. Applied(t, G) = [i \in DOMAIN t |-> t[i]]
    BY <2>1 DEF Applied
  <2>3. t = [i \in DOMAIN t |-> t[i]]
    OBVIOUS
  <2> HIDE DEF G
  <2> QED
    BY <2>2, <2>3
<1>3. Kept(s, K1) \in Seq(E) /\ Kept(s, K) \in Seq(E)
  BY KeptType
<1> HIDE DEF G, K
<1>4. Kept(Applied(Kept(s, K1), G), K2) = Applied(Kept(s, K), G)
  BY <1>1, KeptApplied
<1> QED
  BY <1>2, <1>3, <1>4 DEF K

\* What a mask leaves is what was there and passes.
LEMMA KeptHas ==
  ASSUME NEW E, NEW s \in Seq(E), NEW K
  PROVE  \A x : x \in ToSet(Kept(s, K)) <=> x \in ToSet(s) /\ x \in K
<1> DEFINE y == Kept(s, K)
           S == Passes(s, K)
<1>1. PICK f : Lists(f, Len(y), S) /\ \A n \in DOMAIN y : y[n] = s[f[n]]
  BY KeptListed
<1>2. y \in Seq(E) /\ Len(y) \in Nat /\ DOMAIN y = 1..Len(y)
  BY KeptType
<1>3. \A i : i \in S <=> i \in DOMAIN s /\ s[i] \in K
  BY DEF Passes
<1> HIDE DEF y, S
<1>4. \A x : x \in ToSet(y) <=> \E n \in DOMAIN y : y[n] = x
  BY DEF ToSet
<1>5. \A x : x \in ToSet(s) <=> \E i \in DOMAIN s : s[i] = x
  BY DEF ToSet
<1>6. ASSUME NEW x \in ToSet(y) PROVE x \in ToSet(s) /\ x \in K
  <2>1. PICK n \in DOMAIN y : y[n] = x
    BY <1>4
  <2>2. f[n] \in S /\ x = s[f[n]]
    BY <1>1, <1>2, <2>1 DEF Lists
  <2> QED
    BY <1>3, <1>5, <2>2
<1>7. ASSUME NEW x \in ToSet(s), x \in K PROVE x \in ToSet(y)
  <2>1. PICK i \in DOMAIN s : s[i] = x
    BY <1>5
  <2>2. i \in S
    BY <1>3, <1>7, <2>1
  <2>3. PICK n \in 1..Len(y) : f[n] = i
    BY <1>1, <2>2 DEF Lists
  <2>4. y[n] = x
    BY <1>1, <1>2, <2>1, <2>3
  <2> QED
    BY <1>2, <1>4, <2>4
<1> QED
  BY <1>6, <1>7 DEF y

\* The least of some numbers is above a bound when all are.
LEMMA LeastAbove ==
  ASSUME NEW S \in SUBSET Nat, S # {}, NEW b \in Nat
  PROVE  Min(S) > b <=> \A x \in S : x > b
<1>1. \E x \in S : \A y \in S : x <= y
  <2>1. PICK x \in S : \A y \in S : ~(<<y, x>> \in OpToRel(<, Nat))
    <3> DEFINE R == OpToRel(<, Nat)
    <3>1. IsWellFoundedOn(R, Nat)
      BY NatLessThanWellFounded
    <3> HIDE DEF R
    <3>2. \E x \in S : \A y \in S : ~(<<y, x>> \in R)
      BY <3>1, WFMin
    <3> QED
      BY <3>2 DEF R
  <2>2. \A y \in S : ~(y < x)
    BY <2>1 DEF OpToRel
  <2> QED
    BY <2>2
<1> DEFINE m == Min(S)
<1>2. m \in S /\ \A y \in S : m <= y
  BY <1>1 DEF Min
<1> HIDE DEF m
<1>3. m > b <=> \A x \in S : x > b
  BY <1>2
<1> QED
  BY <1>3 DEF m

\* A jet is far from leptons, of which there are some, when it is from each.
LEMMA FarTrue ==
  ASSUME NEW J, NEW L, Particles(J, L), NEW j \in J, NEW ls \in Seq(L), ls # <<>>
  PROVE  FarFrom(j, ls) = "T" <=> \A l \in ToSet(ls) : DeltaR(j, l) > 400
<1> DEFINE S == {DeltaR(j, l) : l \in ToSet(ls)}
<1>1. \A l \in ToSet(ls) : l \in L
  BY DEF ToSet
<1>2. \A n \in Int : Abs(n) \in Nat
  BY DEF Abs
<1>3. \A l \in L : DeltaR(j, l) \in Nat
  <2> TAKE l \in L
  <2>1. j.eta \in Int /\ l.eta \in Int /\ j.phi \in Int /\ l.phi \in Int
    BY DEF Particles
  <2>2. Abs(j.eta - l.eta) \in Nat /\ Abs(j.phi - l.phi) \in Nat
    <3> DEFINE m == j.eta - l.eta
               n == j.phi - l.phi
    <3>1. m \in Int /\ n \in Int
      BY <2>1
    <3> HIDE DEF m, n, S
    <3>2. Abs(m) \in Nat /\ Abs(n) \in Nat
      BY <1>2, <3>1
    <3> QED
      BY <3>2 DEF m, n
  <2>3. Abs(j.eta - l.eta) + 100 * Abs(j.phi - l.phi) \in Nat
    BY <2>2
  <2> QED
    BY <2>3 DEF DeltaR
<1>4. S \in SUBSET Nat
  BY <1>1, <1>3
<1>5. S # {}
  <2>1. 1 \in DOMAIN ls
    OBVIOUS
  <2>2. ls[1] \in ToSet(ls)
    BY <2>1 DEF ToSet
  <2> QED
    BY <2>2
<1>6. FarFrom(j, ls) = IF Min(S) > 400 THEN "T" ELSE "F"
  BY DEF FarFrom
<1>7. (\A x \in S : x > 400) <=> \A l \in ToSet(ls) : DeltaR(j, l) > 400
  OBVIOUS
<1> HIDE DEF S
<1>8. Min(S) > 400 <=> \A x \in S : x > 400
  BY <1>4, <1>5, LeastAbove
<1>9. FarFrom(j, ls) = "T" <=> Min(S) > 400
  BY <1>6
<1> QED
  BY <1>7, <1>8, <1>9

\* An event of example7 adds up the pt of the jets that no lepton is near, if it has both
\* kinds of them.
LEMMA Example7Sum ==
  ASSUME NEW E, NEW J, NEW L, Readable(E, J, L), Particles(J, L), BothKinds(E), NEW e \in E
  PROVE  LET good == Where(e.jets, LAMBDA j : j.pt > 30)
             jm == Each(good, LAMBDA j : FarFrom(j, Where(e.muons, LAMBDA l : l.pt > 10)))
             je == Each(good, LAMBDA j : FarFrom(j, Where(e.electrons, LAMBDA l : l.pt > 10)))
             jl == [i \in DOMAIN good |-> Both(jm[i], je[i])]
         IN  PtOf(Mask(good, Each(jl, LAMBDA m : m = "T"))) = Pt(e, Isolated(e))
<1> DEFINE s == e.jets
           good == Where(s, LAMBDA j : j.pt > 30)
           ms == Where(e.muons, LAMBDA l : l.pt > 10)
           es == Where(e.electrons, LAMBDA l : l.pt > 10)
           jm == Each(good, LAMBDA j : FarFrom(j, ms))
           je == Each(good, LAMBDA j : FarFrom(j, es))
           jl == [i \in DOMAIN good |-> Both(jm[i], je[i])]
           mask == Each(jl, LAMBDA m : m = "T")
           K1 == {j \in J : j.pt > 30}
           KL == {l \in L : l.pt > 10}
           K2 == {j \in J : \A l \in ToSet(ms) \cup ToSet(es) : DeltaR(j, l) > 400}
<1>1. /\ s \in Seq(J) /\ e.muons \in Seq(L) /\ e.electrons \in Seq(L)
      /\ \A i \in DOMAIN s : s[i] \in J
      /\ \A i \in DOMAIN e.muons : e.muons[i] \in L
      /\ \A i \in DOMAIN e.electrons : e.electrons[i] \in L
  <2>1. s \in Seq(J) /\ e.muons \in Seq(L) /\ e.electrons \in Seq(L)
    BY DEF Readable
  <2> QED
    BY <2>1
<1>2. good = Kept(s, K1) /\ ms = Kept(e.muons, KL) /\ es = Kept(e.electrons, KL)
  BY <1>1 DEF Where, Mask, Each, Kept
<1>3. good = <<>> \/ (ms # <<>> /\ es # <<>>)
  BY DEF BothKinds
<1>4. \A j \in J : j \in K2 <=> \A l \in ToSet(ms) \cup ToSet(es) : DeltaR(j, l) > 400
  OBVIOUS
<1>5. /\ \A j \in J : j \in K1 <=> j.pt > 30
      /\ \A l \in L : l \in KL <=> l.pt > 10
  OBVIOUS
<1> HIDE DEF good, ms, es, K1, K2, KL
<1>6. good \in Seq(J) /\ ms \in Seq(L) /\ es \in Seq(L)
  BY <1>1, <1>2, KeptType
<1>7. \A i \in DOMAIN good : mask[i] <=> good[i] \in K2
  <2> SUFFICES ASSUME NEW i \in DOMAIN good PROVE mask[i] <=> good[i] \in K2
    OBVIOUS
  <2> DEFINE j == good[i]
             a == FarFrom(j, ms)
             b == FarFrom(j, es)
  <2>1. mask[i] <=> Both(a, b) = "T"
    <3>1. jm[i] = a /\ je[i] = b
      BY DEF Each
    <3>2. jl[i] = Both(jm[i], je[i]) /\ i \in DOMAIN jl
      OBVIOUS
    <3> HIDE DEF jl, a, b
    <3>3. mask[i] = (jl[i] = "T")
      BY <3>2 DEF Each
    <3> HIDE DEF mask, jm, je
    <3> QED
      BY <3>1, <3>2, <3>3
  <2>2. j \in J /\ good # <<>>
    BY <1>6
  <2>3. a \in {"T", "F", "None"} /\ b \in {"T", "F", "None"}
    BY DEF FarFrom
  <2>4. Both(a, b) = "T" <=> a = "T" /\ b = "T"
    <3> HIDE DEF a, b
    <3> QED
      BY <2>3 DEF Both
  <2> HIDE DEF j
  <2>5. /\ a = "T" <=> \A l \in ToSet(ms) : DeltaR(j, l) > 400
        /\ b = "T" <=> \A l \in ToSet(es) : DeltaR(j, l) > 400
    BY <1>3, <1>6, <2>2, FarTrue
  <2> HIDE DEF a, b, mask
  <2>6. mask[i] <=> j \in K2
    BY <1>4, <2>1, <2>2, <2>4, <2>5
  <2> QED
    BY <2>6 DEF j
<1> HIDE DEF mask
<1>8. Mask(good, mask) = Kept(good, K2)
  <2>1. [i \in DOMAIN good |-> IF mask[i] THEN <<good[i]>> ELSE <<>>]
          = [i \in DOMAIN good |-> IF good[i] \in K2 THEN <<good[i]>> ELSE <<>>]
    BY <1>7
  <2> QED
    BY <2>1 DEF Mask, Kept
<1>9. Kept(good, K2) = Kept(s, K1 \cap K2)
  BY <1>1, <1>2, KeptTwice
<1>10. PtOf(Kept(s, K1 \cap K2)) = Pt(e, Passes(s, K1 \cap K2))
  <2>1. \A j \in J : j.pt \in Nat
    BY DEF Particles
  <2> QED
    BY <1>1, <2>1, KeptTotal
<1>11. Passes(s, K1 \cap K2) = Isolated(e)
  <2> DEFINE far(j) == \A l \in ToSet(e.muons) \cup ToSet(e.electrons) :
                         l.pt > 10 => DeltaR(j, l) > 400
  <2>1. \A j \in J : j \in K2 <=> far(j)
    <3>1. /\ \A l : l \in ToSet(ms) <=> l \in ToSet(e.muons) /\ l \in KL
          /\ \A l : l \in ToSet(es) <=> l \in ToSet(e.electrons) /\ l \in KL
      BY <1>1, <1>2, KeptHas
    <3>2. /\ \A l \in ToSet(e.muons) : l \in L
          /\ \A l \in ToSet(e.electrons) : l \in L
      BY <1>1 DEF ToSet
    <3> QED
      BY <1>4, <1>5, <3>1, <3>2
  <2>2. Isolated(e) = {i \in DOMAIN s : s[i].pt > 30 /\ far(s[i])}
    BY DEF Isolated
  <2> HIDE DEF far
  <2>3. \A i \in DOMAIN s : s[i] \in K1 \cap K2 <=> s[i].pt > 30 /\ far(s[i])
    BY <1>1, <1>5, <2>1
  <2> HIDE DEF s
  <2> QED
    BY <2>2, <2>3 DEF Passes
<1>12. PtOf(Mask(good, mask)) = Pt(e, Isolated(e))
  BY <1>8, <1>9, <1>10, <1>11
<1> QED
  BY <1>12 DEF mask, good, ms, es

\* example7
LEMMA Example7Told ==
  ASSUME NEW E, NEW J, NEW L, Readable(E, J, L), Particles(J, L), BothKinds(E), NEW e \in E
  PROVE  Shows("example7", "Jet_pt", e)
<1> DEFINE good(y) == Where(y.jets, LAMBDA j : j.pt > 30)
           above10(ls) == Where(ls, LAMBDA l : l.pt > 10)
           jm(y) == Each(good(y), LAMBDA j : FarFrom(j, above10(y.muons)))
           je(y) == Each(good(y), LAMBDA j : FarFrom(j, above10(y.electrons)))
           jl(y) == [i \in DOMAIN good(y) |-> Both(jm(y)[i], je(y)[i])]
           true(mask) == Where(mask, LAMBDA m : m = "T")
           far(mask) == Where(mask, LAMBDA m : m # "F")
           sumjets(y) == PtOf(Mask(good(y), Each(jl(y), LAMBDA m : m = "T")))
           n1 == Len(<<e>>)
           n2 == NumOf(<<e>>, LAMBDA y : y.jets)
           n3 == NumOf(<<e>>, good)
           n4 == NumOf(<<e>>, LAMBDA y : above10(y.muons))
           n5 == NumOf(<<e>>, LAMBDA y : above10(y.electrons))
           n6 == NumOf(<<e>>, LAMBDA y : true(jm(y)))
           n7 == NumOf(<<e>>, LAMBDA y : true(je(y)))
           n8 == NumOf(<<e>>, LAMBDA y : true(jl(y)))
           n9 == NumOf(<<e>>, LAMBDA y : far(jl(y)))
           q == "example7"
           h == "Jet_pt"
           v == sumjets(e)
<1>1. v = Pt(e, Isolated(e))
  BY Example7Sum
<1>2. \A ds : Processed(q, ds, <<e>>)
          = Count("all events", n1) (+) Count("all jets", n2) (+) Count("jets with pt > 30", n3)
              (+) Count("muons with pt > 10", n4) (+) Count("electrons with pt > 10", n5)
              (+) Count("jet-muon pairs", n6) (+) Count("jet-electron pairs", n7)
              (+) Count("jet-lepton pairs", n8) (+) Count("final jets", n9)
              (+) Fill(h, ds, Each(<<e>>, sumjets))
  BY DEF Processed, Example7
<1>3. Said(q, e) = <<<<h, Pt(e, Isolated(e))>>>>
  BY DEF Said, Says7
<1>4. Each(<<e>>, sumjets) = <<v>>
  <2> HIDE DEF sumjets
  <2> QED
    BY DEF Each
<1> HIDE DEF n1, n2, n3, n4, n5, n6, n7, n8, n9, q, h, v, good, above10, jm, je, jl, true, far, sumjets
<1> DEFINE b1 == Count("all events", n1) (+) Count("all jets", n2) (+) Count("jets with pt > 30", n3)
           b2 == b1 (+) Count("muons with pt > 10", n4) (+) Count("electrons with pt > 10", n5)
           b3 == b2 (+) Count("jet-muon pairs", n6) (+) Count("jet-electron pairs", n7)
           rest == b3 (+) Count("jet-lepton pairs", n8) (+) Count("final jets", n9)
<1>5. \A ds : Processed(q, ds, <<e>>) = rest (+) Fill(h, ds, <<v>>)
  BY <1>2, <1>4
<1>6. \A key, n : Silent(Count(key, n), {h})
  BY SilentParts
<1>7. Silent(b1, {h})
  BY <1>6, SilentParts
<1> HIDE DEF b1
<1>8. Silent(b2, {h})
  BY <1>6, <1>7, SilentParts
<1> HIDE DEF b2
<1>9. Silent(b3, {h})
  BY <1>6, <1>8, SilentParts
<1> HIDE DEF b3
<1>10. Silent(rest, {h})
  BY <1>6, <1>9, SilentParts
<1> HIDE DEF rest
<1>11. \A ds : Fills(Processed(q, ds, <<e>>), h, ds, <<v>>)
  BY <1>5, <1>10 DEF Fills
<1>12. Said(q, e) = SaidOf(h, <<v>>)
  BY <1>1, <1>3, SaidTypes
<1>13. Shows(q, h, e)
  BY <1>11, <1>12, ValueShown
<1> QED
  BY <1>13 DEF q, h

\* An array has one element for each member of a set, which a function says.
Gives(s, S, H) == \E f : Lists(f, Len(s), S) /\ \A k \in DOMAIN s : s[k] = H[f[k]]

\* Nothing has none,
LEMMA GivesNone == \A H : Gives(<<>>, {}, H)
<1>1. Lists(<<>>, 0, {})
  BY DEF Lists
<1> QED
  BY <1>1 DEF Gives

\* two arrays one behind the other have those of both,
LEMMA GivesBoth ==
  ASSUME NEW V, NEW u \in Seq(V), NEW v \in Seq(V), NEW H, NEW S, NEW T, S \cap T = {},
         Gives(u, S, H), Gives(v, T, H)
  PROVE  Gives(u \o v, S \cup T, H)
<1> DEFINE m == Len(u)
           n == Len(v)
           w == u \o v
<1>1. PICK f : Lists(f, m, S) /\ \A k \in DOMAIN u : u[k] = H[f[k]]
  BY DEF Gives
<1>2. PICK g : Lists(g, n, T) /\ \A k \in DOMAIN v : v[k] = H[g[k]]
  BY DEF Gives
<1>3. /\ m \in Nat /\ n \in Nat /\ DOMAIN u = 1..m /\ DOMAIN v = 1..n /\ DOMAIN w = 1..(m + n)
      /\ Len(w) = m + n /\ (\A k \in 1..m : w[k] = u[k]) /\ \A k \in 1..n : w[m + k] = v[k]
  OBVIOUS
<1> DEFINE h == [k \in 1..(m + n) |-> IF k <= m THEN f[k] ELSE g[k - m]]
<1> HIDE DEF m, n, w
<1>4. /\ \A k \in 1..m : k \in 1..(m + n) /\ h[k] = f[k] /\ f[k] \in S
      /\ \A k \in 1..n : m + k \in 1..(m + n) /\ h[m + k] = g[k] /\ g[k] \in T
  BY <1>1, <1>2, <1>3 DEF Lists
<1>5. \A k \in 1..(m + n) : k \in 1..m \/ \E l \in 1..n : k = m + l
  <2> TAKE k \in 1..(m + n)
  <2>1. k <= m \/ (k - m \in 1..n /\ k = m + (k - m))
    BY <1>3
  <2> QED
    BY <1>3, <2>1
<1>6. h = [k \in 1..(m + n) |-> h[k]]
  OBVIOUS
<1> HIDE DEF h
<1>7. \A k \in 1..(m + n) : h[k] \in S \cup T /\ w[k] = H[h[k]]
  <2> TAKE k \in 1..(m + n)
  <2>1. CASE k \in 1..m
    BY <1>1, <1>3, <1>4, <2>1
  <2>2. ASSUME NEW l \in 1..n, k = m + l PROVE h[k] \in S \cup T /\ w[k] = H[h[k]]
    <3>1. w[k] = v[l] /\ h[k] = g[l] /\ g[l] \in T
      BY <1>3, <1>4, <2>2
    <3>2. v[l] = H[g[l]]
      BY <1>2, <1>3
    <3> QED
      BY <3>1, <3>2
  <2> QED
    BY <1>5, <2>1, <2>2
<1>8. \A x \in S \cup T : \E k \in 1..(m + n) : h[k] = x
  BY <1>1, <1>2, <1>4 DEF Lists
<1>9. ASSUME NEW k \in 1..(m + n), NEW l \in 1..(m + n), h[k] = h[l] PROVE k = l
  <2>1. CASE k \in 1..m /\ l \in 1..m
    BY <1>1, <1>4, <1>9, <2>1 DEF Lists
  <2>2. CASE \E i, j \in 1..n : k = m + i /\ l = m + j
    BY <1>2, <1>4, <1>9, <2>2 DEF Lists
  <2>3. CASE k \in 1..m /\ \E j \in 1..n : l = m + j
    BY <1>4, <1>9, <2>3
  <2>4. CASE l \in 1..m /\ \E i \in 1..n : k = m + i
    BY <1>4, <1>9, <2>4
  <2> QED
    BY <1>5, <2>1, <2>2, <2>3, <2>4
<1>10. Lists(h, m + n, S \cup T)
  BY <1>6, <1>7, <1>8, <1>9 DEF Lists
<1>11. Gives(w, S \cup T, H)
  BY <1>3, <1>7, <1>10 DEF Gives
<1> QED
  BY <1>11 DEF w

\* and flattened rows those of all rows.
LEMMA GivesFlat ==
  ASSUME NEW V, NEW H, NEW S
  PROVE  \A rows \in Seq(Seq(V)) :
           /\ \A i \in DOMAIN rows : Gives(rows[i], S[i], H)
           /\ \A i, j \in DOMAIN rows : i # j => S[i] \cap S[j] = {}
           => Gives(FlattenSeq(rows), UNION {S[i] : i \in DOMAIN rows}, H)
<1> DEFINE Rows(r) == /\ \A i \in DOMAIN r : Gives(r[i], S[i], H)
                      /\ \A i, j \in DOMAIN r : i # j => S[i] \cap S[j] = {}
           T == {r \in Seq(Seq(V)) :
                   Rows(r) => Gives(FlattenSeq(r), UNION {S[i] : i \in DOMAIN r}, H)}
<1>1. <<>> \in T
  <2>1. FlattenSeq(<<>>) = <<>>
    BY DEF FlattenSeq
  <2>2. UNION {S[i] : i \in DOMAIN <<>>} = {}
    OBVIOUS
  <2>3. <<>> \in Seq(Seq(V))
    OBVIOUS
  <2> HIDE DEF Rows
  <2> QED
    BY <2>1, <2>2, <2>3, GivesNone
<1>2. ASSUME NEW t \in Seq(Seq(V)), NEW x \in Seq(V), t \in T PROVE Append(t, x) \in T
  <2> DEFINE a == Append(t, x)
             n == Len(t)
             A == UNION {S[i] : i \in DOMAIN t}
  <2>1. /\ a \in Seq(Seq(V)) /\ n \in Nat /\ DOMAIN t = 1..n /\ DOMAIN a = 1..(n + 1)
        /\ a[n + 1] = x /\ \A i \in 1..n : a[i] = t[i]
    OBVIOUS
  <2>2. FlattenSeq(t) \in Seq(V) /\ FlattenSeq(a) = FlattenSeq(t) \o x
    BY FlattenType, FlattenAppend
  <2> HIDE DEF a, n
  <2>3. ASSUME Rows(a) PROVE Gives(FlattenSeq(a), UNION {S[i] : i \in DOMAIN a}, H)
    <3>1. n + 1 \in DOMAIN a /\ n + 1 \notin DOMAIN t /\ DOMAIN a = DOMAIN t \cup {n + 1}
      BY <2>1
    <3>2. Rows(t)
      BY <2>1, <2>3, <3>1
    <3>3. Gives(FlattenSeq(t), A, H)
      BY <1>2, <3>2
    <3>4. Gives(x, S[n + 1], H)
      BY <2>1, <2>3, <3>1
    <3>5. A \cap S[n + 1] = {}
      BY <2>3, <3>1
    <3>6. UNION {S[i] : i \in DOMAIN a} = A \cup S[n + 1]
      BY <3>1
    <3> HIDE DEF A, Rows
    <3> QED
      BY <2>2, <3>3, <3>4, <3>5, <3>6, GivesBoth
  <2> HIDE DEF Rows
  <2> QED
    BY <2>1, <2>3 DEF a
<1>3. Seq(Seq(V)) \subseteq T
  <2> HIDE DEF T
  <2> QED
    BY <1>1, <1>2, FromNone
<1> QED
  BY <1>3

\* A mask leaves those whose element passes it.
LEMMA GivesKept ==
  ASSUME NEW V, NEW s \in Seq(V), NEW S, NEW H, Gives(s, S, H), NEW K
  PROVE  Gives(Kept(s, K), {x \in S : H[x] \in K}, H)
<1> DEFINE y == Kept(s, K)
           m == Len(y)
           n == Len(s)
           P == Passes(s, K)
           T == {x \in S : H[x] \in K}
<1>1. PICK f : Lists(f, m, P) /\ \A k \in DOMAIN y : y[k] = s[f[k]]
  BY KeptListed
<1>2. PICK g : Lists(g, n, S) /\ \A k \in DOMAIN s : s[k] = H[g[k]]
  BY DEF Gives
<1>3. m \in Nat /\ n \in Nat /\ DOMAIN y = 1..m /\ DOMAIN s = 1..n
  BY KeptType
<1>4. \A i : i \in P <=> i \in 1..n /\ s[i] \in K
  BY <1>3 DEF Passes
<1> DEFINE h == [k \in 1..m |-> g[f[k]]]
<1> HIDE DEF y, m, n, P
<1>5. \A i : i \in P <=> i \in 1..n /\ g[i] \in T
  BY <1>2, <1>3, <1>4 DEF Lists
<1>6. \A k \in 1..m : f[k] \in P /\ h[k] = g[f[k]] /\ h[k] \in T
  BY <1>1, <1>5 DEF Lists
<1>7. h = [k \in 1..m |-> h[k]]
  OBVIOUS
<1> HIDE DEF h
<1>8. \A k \in 1..m : y[k] = H[h[k]]
  BY <1>1, <1>2, <1>3, <1>5, <1>6
<1>9. \A x \in T : \E k \in 1..m : h[k] = x
  <2> SUFFICES ASSUME NEW x \in T PROVE \E k \in 1..m : h[k] = x
    OBVIOUS
  <2>1. PICK i \in 1..n : g[i] = x
    BY <1>2 DEF Lists
  <2>2. i \in P
    BY <1>5, <2>1
  <2>3. PICK k \in 1..m : f[k] = i
    BY <1>1, <2>2 DEF Lists
  <2> QED
    BY <1>6, <2>1, <2>3
<1>10. \A k, l \in 1..m : h[k] = h[l] => k = l
  <2> SUFFICES ASSUME NEW k \in 1..m, NEW l \in 1..m, h[k] = h[l] PROVE k = l
    OBVIOUS
  <2>1. g[f[k]] = g[f[l]] /\ f[k] \in 1..n /\ f[l] \in 1..n
    BY <1>5, <1>6
  <2>2. f[k] = f[l]
    BY <1>2, <2>1 DEF Lists
  <2> QED
    BY <1>1, <2>2 DEF Lists
<1> HIDE DEF T
<1>11. Lists(h, m, T)
  BY <1>6, <1>7, <1>9, <1>10 DEF Lists
<1>12. Gives(y, T, H)
  BY <1>3, <1>8, <1>11 DEF Gives, m
<1> QED
  BY <1>12 DEF y, T

\* The members may be renamed, and the elements changed.
LEMMA GivesNamed ==
  ASSUME NEW V, NEW s \in Seq(V), NEW S, NEW H, Gives(s, S, H), NEW T, NEW b \in [S -> T],
         \A x, y \in S : b[x] = b[y] => x = y, \A z \in T : \E x \in S : b[x] = z,
         NEW G, NEW R, \A x \in S : R[b[x]] = G[H[x]]
  PROVE  Gives(Applied(s, G), T, R)
<1> DEFINE n == Len(s)
           y == Applied(s, G)
<1>1. PICK f : Lists(f, n, S) /\ \A k \in DOMAIN s : s[k] = H[f[k]]
  BY DEF Gives
<1>2. /\ n \in Nat /\ DOMAIN s = 1..n /\ DOMAIN y = 1..n /\ Len(y) = n
      /\ \A k \in 1..n : y[k] = G[s[k]]
  BY DEF Applied
<1> DEFINE h == [k \in 1..n |-> b[f[k]]]
<1> HIDE DEF n, y
<1>3. \A k \in 1..n : f[k] \in S /\ h[k] = b[f[k]] /\ h[k] \in T
  BY <1>1 DEF Lists
<1>4. h = [k \in 1..n |-> h[k]]
  OBVIOUS
<1> HIDE DEF h
<1>5. \A k \in 1..n : y[k] = R[h[k]]
  BY <1>1, <1>2, <1>3
<1>6. \A z \in T : \E k \in 1..n : h[k] = z
  BY <1>1, <1>3 DEF Lists
<1>7. \A k, l \in 1..n : h[k] = h[l] => k = l
  <2> SUFFICES ASSUME NEW k \in 1..n, NEW l \in 1..n, h[k] = h[l] PROVE k = l
    OBVIOUS
  <2>1. f[k] = f[l]
    BY <1>3
  <2> QED
    BY <1>1, <2>1 DEF Lists
<1>8. Lists(h, n, T)
  BY <1>3, <1>4, <1>6, <1>7 DEF Lists
<1>9. Gives(y, T, R)
  BY <1>2, <1>5, <1>8 DEF Gives
<1> QED
  BY <1>9 DEF y

\* Such an array has the values of the set.
LEMMA GivesSame ==
  ASSUME NEW W, NEW s \in Seq(W), NEW S, NEW F, DOMAIN F = S, \A x \in S : F[x] \in W,
         Gives(s, S, F)
  PROVE  /\ IsFiniteSet(S) /\ Applied(SetToSeq(S), F) \in Seq(W)
         /\ SameValues(s, Applied(SetToSeq(S), F))
<1> DEFINE y == SetToSeq(S)
           n == Len(s)
<1>1. PICK f : Lists(f, n, S) /\ \A k \in DOMAIN s : s[k] = F[f[k]]
  BY DEF Gives
<1>2. n \in Nat /\ DOMAIN s = 1..n
  OBVIOUS
<1> HIDE DEF n
<1>3. IsFiniteSet(S)
  BY <1>1, <1>2, ListCount
<1>4. y \in Seq(S) /\ Len(y) \in Nat /\ DOMAIN y = 1..Len(y) /\ Lists(y, Len(y), S)
  BY <1>3, SetListed
<1> HIDE DEF y
<1>5. /\ Applied(y, F) \in Seq(W) /\ DOMAIN Applied(y, F) = 1..Len(y)
      /\ \A k \in 1..Len(y) : Applied(y, F)[k] = F[y[k]]
  BY <1>4 DEF Applied
<1>6. SameValues(s, Applied(y, F))
  BY <1>1, <1>2, <1>4, <1>5, ListsSame
<1> QED
  BY <1>3, <1>5, <1>6 DEF y

\* The pairs of an array are two indices in order,
PairTags(n) == {p \in (1..n) \X (1..n) : p[1] < p[2]}
PairAt(s) == [p \in (DOMAIN s) \X (DOMAIN s) |-> <<s[p[1]], s[p[2]]>>]
LEMMA GivesPairs ==
  ASSUME NEW J, NEW s \in Seq(J) PROVE Gives(Pairs(s), PairTags(Len(s)), PairAt(s))
<1> DEFINE n == Len(s)
           H == PairAt(s)
           row(i) == [j \in 1..n - i |-> <<s[i], s[i + j]>>]
           rows == [i \in DOMAIN s |-> row(i)]
           S == [i \in DOMAIN s |-> {<<i, k>> : k \in (i + 1)..n}]
<1>1. n \in Nat /\ DOMAIN s = 1..n /\ \A i \in 1..n : s[i] \in J
  OBVIOUS
<1>2. \A i, k \in 1..n : H[<<i, k>>] = <<s[i], s[k]>>
  BY <1>1 DEF PairAt
<1> HIDE DEF H
<1>3. ASSUME NEW i \in 1..n PROVE row(i) \in Seq(J \X J) /\ Gives(row(i), S[i], H)
  <2> DEFINE m == n - i
             r == row(i)
             f == [j \in 1..m |-> <<i, i + j>>]
  <2>1. m \in Nat /\ \A j \in 1..m : i + j \in 1..n /\ i + j \in (i + 1)..n
    BY <1>1
  <2>2. \A j \in 1..m : r[j] = <<s[i], s[i + j]>> /\ r[j] \in J \X J
    BY <1>1, <2>1
  <2>3. DOMAIN r = 1..m /\ r = [j \in 1..m |-> r[j]]
    OBVIOUS
  <2> HIDE DEF r
  <2>4. r \in Seq(J \X J) /\ Len(r) = m
    <3> HIDE DEF m, n, f, S
    <3>1. r \in Seq(J \X J)
      BY <2>1, <2>2, <2>3, MadeOf
    <3> QED
      BY <2>1, <2>3, <3>1
  <2>5. \A x : x \in S[i] <=> \E k \in (i + 1)..n : x = <<i, k>>
    <3>1. S[i] = {<<i, k>> : k \in (i + 1)..n}
      BY <1>1
    <3> HIDE DEF S, m, n, r, f
    <3> QED
      BY <3>1
  <2>6. \A j \in 1..m : f[j] = <<i, i + j>> /\ f[j] \in S[i]
    BY <2>1, <2>5
  <2>7. f = [j \in 1..m |-> f[j]]
    OBVIOUS
  <2> HIDE DEF f, S
  <2>8. \A j \in 1..m : r[j] = H[f[j]]
    BY <1>2, <2>1, <2>2, <2>6
  <2>9. \A x \in S[i] : \E j \in 1..m : f[j] = x
    <3> SUFFICES ASSUME NEW x \in S[i] PROVE \E j \in 1..m : f[j] = x
      OBVIOUS
    <3>1. PICK k \in (i + 1)..n : x = <<i, k>>
      BY <2>5
    <3>2. k - i \in 1..m /\ i + (k - i) = k
      BY <1>1
    <3> QED
      BY <2>6, <3>1, <3>2
  <2>10. \A j, k \in 1..m : f[j] = f[k] => j = k
    <3> SUFFICES ASSUME NEW j \in 1..m, NEW k \in 1..m, f[j] = f[k] PROVE j = k
      OBVIOUS
    <3>1. <<i, i + j>> = <<i, i + k>>
      BY <2>6
    <3>2. i + j = i + k
      BY <3>1
    <3> QED
      BY <3>2
  <2>11. Lists(f, m, S[i])
    BY <2>6, <2>7, <2>9, <2>10 DEF Lists
  <2> HIDE DEF m
  <2>12. Gives(r, S[i], H)
    BY <2>3, <2>4, <2>8, <2>11 DEF Gives
  <2> QED
    BY <2>4, <2>12 DEF r
<1>4. \A i, j \in 1..n : i # j => S[i] \cap S[j] = {}
  BY <1>1
<1>5. UNION {S[i] : i \in 1..n} = PairTags(n)
  <2>1. \A x : x \in UNION {S[i] : i \in 1..n}
                 <=> \E i \in 1..n : \E k \in (i + 1)..n : x = <<i, k>>
    BY <1>1
  <2>2. \A x : x \in PairTags(n) <=> \E i, k \in 1..n : i < k /\ x = <<i, k>>
    BY DEF PairTags
  <2>3. \A i \in 1..n : \A k : k \in (i + 1)..n <=> k \in 1..n /\ i < k
    BY <1>1
  <2> HIDE DEF S
  <2> QED
    BY <2>1, <2>2, <2>3
<1>6. \A i \in 1..n : rows[i] = row(i)
  BY <1>1
<1>7. DOMAIN rows = 1..n /\ rows = [i \in 1..n |-> rows[i]]
  BY <1>1
<1>8. Pairs(s) = FlattenSeq(rows)
  BY DEF Pairs
<1> HIDE DEF rows, row, S, n
<1>9. rows \in Seq(Seq(J \X J))
  BY <1>1, <1>3, <1>6, <1>7, MadeOf
<1>10. \A i \in DOMAIN rows : Gives(rows[i], S[i], H)
  BY <1>3, <1>6, <1>7
<1>11. \A i, j \in DOMAIN rows : i # j => S[i] \cap S[j] = {}
  BY <1>4, <1>7
<1>12. Gives(FlattenSeq(rows), UNION {S[i] : i \in DOMAIN rows}, H)
  BY <1>9, <1>10, <1>11, GivesFlat
<1> QED
  BY <1>5, <1>7, <1>8, <1>12 DEF n, H

\* An element before two others,
LEMMA OneAndTwo ==
  ASSUME NEW J, NEW z \in J, NEW x \in J, NEW y \in J PROVE <<z>> \o <<x, y>> = <<z, x, y>>
<1>1. \A u, v \in Seq(J) : /\ u \o v \in Seq(J) /\ Len(u \o v) = Len(u) + Len(v)
                           /\ \A k \in 1..Len(u) : (u \o v)[k] = u[k]
                           /\ \A k \in 1..Len(v) : (u \o v)[Len(u) + k] = v[k]
  OBVIOUS
<1> DEFINE u == <<z>>
           v == <<x, y>>
           w == u \o v
<1>2. /\ u \in Seq(J) /\ Len(u) = 1 /\ u[1] = z
      /\ v \in Seq(J) /\ Len(v) = 2 /\ v[1] = x /\ v[2] = y
  OBVIOUS
<1> HIDE DEF u, v
<1>3. /\ w \in Seq(J) /\ Len(w) = Len(u) + Len(v)
      /\ \A k \in 1..Len(u) : w[k] = u[k]
      /\ \A k \in 1..Len(v) : w[Len(u) + k] = v[k]
  BY <1>1, <1>2
<1> HIDE DEF w
<1>4. Len(w) = 3 /\ w[1] = z /\ w[2] = x /\ w[3] = y
  BY <1>2, <1>3
<1>5. \A q \in Seq(J) : Len(q) = 3 => q = <<q[1], q[2], q[3]>>
  OBVIOUS
<1> QED
  BY <1>3, <1>4, <1>5 DEF w, u, v

\* and its triples three.
TripleTags(n) == {t \in (1..n) \X (1..n) \X (1..n) : t[1] < t[2] /\ t[2] < t[3]}
TripleAt(s) ==
  [t \in (DOMAIN s) \X (DOMAIN s) \X (DOMAIN s) |-> <<s[t[1]], s[t[2]], s[t[3]]>>]
LEMMA GivesTriples ==
  ASSUME NEW J, NEW s \in Seq(J)
  PROVE  /\ Triples(s) \in Seq(J \X J \X J)
         /\ Gives(Triples(s), TripleTags(Len(s)), TripleAt(s))
<1> DEFINE n == Len(s)
           H == TripleAt(s)
           row(i) == Each(Pairs(SubSeq(s, i + 1, Len(s))), LAMBDA p : <<s[i]>> \o p)
           rows == [i \in DOMAIN s |-> row(i)]
           S == [i \in DOMAIN s |-> {t \in TripleTags(n) : t[1] = i}]
           V == J \X J \X J
<1>1. n \in Nat /\ DOMAIN s = 1..n /\ \A i \in 1..n : s[i] \in J
  OBVIOUS
<1>2. \A i, j, k \in 1..n : H[<<i, j, k>>] = <<s[i], s[j], s[k]>>
  BY <1>1 DEF TripleAt
<1>3. \A t : t \in TripleTags(n) <=> \E i, j, k \in 1..n : i < j /\ j < k /\ t = <<i, j, k>>
  BY DEF TripleTags
<1>4. \A i \in 1..n : \A t : t \in S[i] <=> \E j, k \in 1..n : i < j /\ j < k /\ t = <<i, j, k>>
  BY <1>1, <1>3
<1> HIDE DEF H
<1>5. ASSUME NEW i \in 1..n PROVE row(i) \in Seq(V) /\ Gives(row(i), S[i], H)
  <2> DEFINE r == SubSeq(s, i + 1, Len(s))
             m == n - i
             G == [p \in J \X J |-> <<s[i]>> \o p]
             b == [p \in PairTags(m) |-> <<i, i + p[1], i + p[2]>>]
  <2>1. /\ r \in Seq(J) /\ Len(r) = m /\ m \in Nat /\ DOMAIN r = 1..m
        /\ \A k \in 1..m : r[k] = s[i + k] /\ i + k \in 1..n
    BY <1>1
  <2> HIDE DEF r
  <2>2. Pairs(r) \in Seq(J \X J) /\ Gives(Pairs(r), PairTags(m), PairAt(r))
    BY <2>1, PairsType, GivesPairs
  <2>3. \A x \in J : \A y \in J : <<s[i]>> \o <<x, y>> = <<s[i], x, y>>
    BY <1>1, OneAndTwo
  <2>4. \A x \in J : \A y \in J : G[<<x, y>>] = <<s[i], x, y>> /\ G[<<x, y>>] \in V
    <3> SUFFICES ASSUME NEW x \in J, NEW y \in J
                 PROVE  G[<<x, y>>] = <<s[i], x, y>> /\ G[<<x, y>>] \in V
      OBVIOUS
    <3>1. G[<<x, y>>] = <<s[i]>> \o <<x, y>>
      OBVIOUS
    <3>2. G[<<x, y>>] = <<s[i], x, y>> /\ s[i] \in J
      BY <1>1, <2>3, <3>1
    <3> HIDE DEF G
    <3> QED
      BY <3>2
  <2>5. Takes(G, J \X J, V)
    <3> HIDE DEF G, V
    <3>1. \A p \in J \X J : p = <<p[1], p[2]>> /\ p[1] \in J /\ p[2] \in J
      OBVIOUS
    <3> QED
      BY <2>4, <3>1 DEF Takes
  <2>6. row(i) = Applied(Pairs(r), G) /\ row(i) \in Seq(V)
    <3>1. \A k \in DOMAIN Pairs(r) : Pairs(r)[k] \in J \X J
      BY <2>2
    <3>2. row(i) = Applied(Pairs(r), G)
      BY <3>1 DEF Each, Applied, r
    <3> DEFINE ps == Pairs(r)
               y == Applied(ps, G)
    <3>3. y = [k \in 1..Len(ps) |-> y[k]] /\ Len(ps) \in Nat
      BY <2>2 DEF Applied
    <3>4. \A k \in 1..Len(ps) : y[k] \in V
      <4>1. \A k \in 1..Len(ps) : ps[k] \in J \X J /\ y[k] = G[ps[k]]
        BY <2>2, <3>1 DEF Applied
      <4> HIDE DEF y, ps, G, V
      <4> QED
        BY <2>5, <4>1 DEF Takes
    <3> HIDE DEF y, ps
    <3>5. y \in Seq(V)
      BY <3>3, <3>4, MadeOf
    <3> QED
      BY <3>2, <3>5 DEF y, ps
  <2>7. \A p : p \in PairTags(m) <=> \E j, k \in 1..m : j < k /\ p = <<j, k>>
    BY DEF PairTags
  <2>8. \A j, k \in 1..m : j < k => b[<<j, k>>] = <<i, i + j, i + k>>
    BY <2>7
  <2>9. b = [p \in PairTags(m) |-> b[p]]
    OBVIOUS
  <2> HIDE DEF b, G, S, m
  <2>10. \A p \in PairTags(m) : b[p] \in S[i]
    <3> TAKE p \in PairTags(m)
    <3>1. PICK j \in 1..m, k \in 1..m : j < k /\ p = <<j, k>>
      BY <2>7
    <3>2. i + j \in 1..n /\ i + k \in 1..n /\ i < i + j /\ i + j < i + k
      BY <2>1, <3>1
    <3> QED
      BY <1>4, <2>8, <3>1, <3>2
  <2>11. \A x, y \in PairTags(m) : b[x] = b[y] => x = y
    <3> SUFFICES ASSUME NEW x \in PairTags(m), NEW y \in PairTags(m), b[x] = b[y] PROVE x = y
      OBVIOUS
    <3>1. PICK j \in 1..m, k \in 1..m : j < k /\ x = <<j, k>>
      BY <2>7
    <3>2. PICK g \in 1..m, l \in 1..m : g < l /\ y = <<g, l>>
      BY <2>7
    <3>3. <<i, i + j, i + k>> = <<i, i + g, i + l>>
      BY <2>8, <3>1, <3>2
    <3>4. i + j = i + g /\ i + k = i + l
      BY <3>3
    <3> QED
      BY <3>1, <3>2, <3>4
  <2>12. \A z \in S[i] : \E x \in PairTags(m) : b[x] = z
    <3> SUFFICES ASSUME NEW z \in S[i] PROVE \E x \in PairTags(m) : b[x] = z
      OBVIOUS
    <3>1. PICK j \in 1..n, k \in 1..n : i < j /\ j < k /\ z = <<i, j, k>>
      BY <1>4
    <3>2. /\ j - i \in 1..m /\ k - i \in 1..m /\ j - i < k - i
          /\ i + (j - i) = j /\ i + (k - i) = k
      BY <1>1, <2>1, <3>1 DEF m
    <3>3. <<j - i, k - i>> \in PairTags(m) /\ b[<<j - i, k - i>>] = <<i, j, k>>
      BY <2>7, <2>8, <3>2
    <3> QED
      BY <3>1, <3>3
  <2>13. \A x \in PairTags(m) : H[b[x]] = G[PairAt(r)[x]]
    <3> TAKE x \in PairTags(m)
    <3>1. PICK j \in 1..m, k \in 1..m : j < k /\ x = <<j, k>>
      BY <2>7
    <3>2. PairAt(r)[x] = <<r[j], r[k]>>
      BY <2>1, <3>1 DEF PairAt
    <3>3. r[j] = s[i + j] /\ r[k] = s[i + k] /\ i + j \in 1..n /\ i + k \in 1..n
      BY <2>1
    <3>4. G[<<s[i + j], s[i + k]>>] = <<s[i], s[i + j], s[i + k]>>
      BY <1>1, <2>4, <3>3
    <3>5. H[<<i, i + j, i + k>>] = <<s[i], s[i + j], s[i + k]>>
      BY <1>2, <3>3
    <3> QED
      BY <2>8, <3>1, <3>2, <3>3, <3>4, <3>5
  <2>14. b \in [PairTags(m) -> S[i]]
    BY <2>9, <2>10
  <2>15. Gives(Applied(Pairs(r), G), S[i], H)
    BY <2>2, <2>11, <2>12, <2>13, <2>14, GivesNamed
  <2> QED
    BY <2>6, <2>15
<1>6. \A i, j \in 1..n : i # j => S[i] \cap S[j] = {}
  BY <1>1
<1>7. UNION {S[i] : i \in 1..n} = TripleTags(n)
  <2> HIDE DEF S
  <2>1. \A t : t \in UNION {S[i] : i \in 1..n} <=> \E i \in 1..n : t \in S[i]
    OBVIOUS
  <2> QED
    BY <1>3, <1>4, <2>1
<1>8. \A i \in 1..n : rows[i] = row(i)
  BY <1>1
<1>9. DOMAIN rows = 1..n /\ rows = [i \in 1..n |-> rows[i]]
  BY <1>1
<1>10. Triples(s) = FlattenSeq(rows)
  BY DEF Triples
<1> HIDE DEF rows, row, S, n, V
<1>11. rows \in Seq(Seq(V))
  BY <1>1, <1>5, <1>8, <1>9, MadeOf
<1>12. \A i \in DOMAIN rows : Gives(rows[i], S[i], H)
  BY <1>5, <1>8, <1>9
<1>13. \A i, j \in DOMAIN rows : i # j => S[i] \cap S[j] = {}
  BY <1>6, <1>9
<1>14. Gives(FlattenSeq(rows), UNION {S[i] : i \in DOMAIN rows}, H)
  BY <1>11, <1>12, <1>13, GivesFlat
<1>15. FlattenSeq(rows) \in Seq(V)
  BY <1>11, FlattenType
<1> QED
  BY <1>7, <1>9, <1>10, <1>14, <1>15 DEF n, H, V

\* The sum of the masses of some jets of an event, as the text of example6 has it.
Mass(e, S) == MapThenSumSet(LAMBDA i : e.jets[i].mass, S)
LEMMA MassUnits ==
  ASSUME NEW e, NEW S, IsFiniteSet(S), \A i \in S : e.jets[i].mass \in Nat
  PROVE  Mass(e, S) = Cardinality(Units([i \in S |-> e.jets[i].mass], S))
<1> DEFINE F == [i \in S |-> e.jets[i].mass]
           P(f) == f = [T \in SUBSET S |->
                          IF T = {} THEN 0
                          ELSE e.jets[CHOOSE i \in T : TRUE].mass + f[T \ {CHOOSE i \in T : TRUE}]]
           g == CHOOSE f : P(f)
<1>1. \A i \in S : F[i] = e.jets[i].mass /\ F[i] \in Nat
  OBVIOUS
<1>2. Mass(e, S) = g[S]
  BY DEF Mass, MapThenSumSet, MapThenFoldSet
<1> HIDE DEF F
<1>3. \A f : P(f) <=> Sums(F, S, f)
  <2> TAKE f
  <2> DEFINE A == [T \in SUBSET S |-> IF T = {} THEN 0 ELSE e.jets[CHOOSE i \in T : TRUE].mass
                                                              + f[T \ {CHOOSE i \in T : TRUE}]]
             B == [T \in SUBSET S |-> IF T = {} THEN 0 ELSE F[CHOOSE i \in T : TRUE]
                                                              + f[T \ {CHOOSE i \in T : TRUE}]]
  <2>1. \A T \in SUBSET S : T # {} => (CHOOSE i \in T : TRUE) \in S
    OBVIOUS
  <2>2. \A T \in SUBSET S : T # {} => F[CHOOSE i \in T : TRUE] = e.jets[CHOOSE i \in T : TRUE].mass
    BY <1>1, <2>1
  <2>3. A = B
    BY <2>2
  <2>4. (P(f) <=> f = A) /\ (Sums(F, S, f) <=> f = B)
    BY DEF Sums
  <2> HIDE DEF A, B, P
  <2> QED
    BY <2>3, <2>4
<1>4. \E f : Sums(F, S, f)
  BY <1>1, SumsUnits
<1>5. P(g)
  <2>1. PICK f : Sums(F, S, f)
    BY <1>4
  <2>2. P(f)
    BY <1>3, <2>1
  <2> HIDE DEF P
  <2> QED
    BY <2>2
<1>6. Sums(F, S, g)
  BY <1>3, <1>5
<1> HIDE DEF g
<1>7. g[S] = Cardinality(Units(F, S))
  BY <1>1, <1>6, SumsUnits
<1> QED
  BY <1>2, <1>7 DEF F

\* The pt and the mass of three jets are those of their indices.
LEMMA TripleSums ==
  ASSUME NEW J, NEW L, Particles(J, L), NEW e, e.jets \in Seq(J), NEW i \in DOMAIN e.jets,
         NEW j \in DOMAIN e.jets, NEW k \in DOMAIN e.jets, i # j, j # k, i # k
  PROVE  LET t == <<e.jets[i], e.jets[j], e.jets[k]>>
         IN  /\ PtOf(t) = Pt(e, {i, j, k}) /\ MassOf(t) = Mass(e, {i, j, k})
             /\ MassOf(t) \in Nat
<1> DEFINE S == {i, j, k}
           f == <<i, j, k>>
           t == <<e.jets[i], e.jets[j], e.jets[k]>>
<1>1. \A n \in 1..3 : f[n] \in S /\ t[n] = e.jets[f[n]] /\ (n = 1 \/ n = 2 \/ n = 3)
  OBVIOUS
<1>2. DOMAIN t = 1..3 /\ f = [n \in 1..3 |-> f[n]] /\ f[1] = i /\ f[2] = j /\ f[3] = k
  OBVIOUS
<1>3. \A x \in S : x \in DOMAIN e.jets /\ e.jets[x] \in J
  OBVIOUS
<1>4. \A x \in S : e.jets[x].pt \in Nat /\ e.jets[x].mass \in Nat
  BY <1>3 DEF Particles
<1>5. 1 \in 1..3 /\ 2 \in 1..3 /\ 3 \in 1..3
  OBVIOUS
<1>6. \A x : x \in S <=> x = i \/ x = j \/ x = k
  OBVIOUS
<1> HIDE DEF S, f, t
<1>7. Lists(f, 3, S)
  BY <1>1, <1>2, <1>5, <1>6 DEF Lists
<1>8. IsFiniteSet(S)
  BY <1>7, ListCount
<1>9. ASSUME NEW F, DOMAIN F = S, \A x \in S : F[x] \in Nat,
             NEW y, y = [n \in 1..3 |-> y[n]], \A n \in 1..3 : y[n] = F[f[n]]
      PROVE  Total(y) = Cardinality(Units(F, S)) /\ Total(y) \in Nat
  <2>1. \A n \in 1..3 : y[n] \in Nat
    BY <1>1, <1>9
  <2>2. y \in Seq(Nat) /\ DOMAIN y = 1..3
    BY <1>9, <2>1, MadeOf
  <2>3. Total(y) = Cardinality(Units(y, 1..3))
    BY <2>2, TotalUnits
  <2>4. Cardinality(Units(F, S)) = Cardinality(Units(y, 1..3))
    <3> DEFINE m == 3
    <3>1. m \in Nat /\ Lists(f, m, S) /\ \A n \in 1..m : y[n] = F[f[n]]
      BY <1>7, <1>9
    <3> HIDE DEF m
    <3>2. Cardinality(Units(F, S)) = Cardinality(Units(y, 1..m))
      BY <1>9, <3>1, ListUnits
    <3> QED
      BY <3>2 DEF m
  <2>5. IsFiniteSet(Units(F, S))
    BY <1>8, <1>9, UnitsFinite
  <2> QED
    BY <2>3, <2>4, <2>5, FS_CardinalityType
<1>10. PtOf(t) = Pt(e, S)
  <2> DEFINE F == [x \in S |-> e.jets[x].pt]
             y == [n \in 1..3 |-> t[n].pt]
  <2>1. PtOf(t) = Total(y)
    BY <1>2 DEF PtOf, Each
  <2>2. \A n \in 1..3 : y[n] = F[f[n]]
    BY <1>1
  <2>3. DOMAIN F = S /\ (\A x \in S : F[x] \in Nat) /\ y = [n \in 1..3 |-> y[n]]
    BY <1>4
  <2>4. Pt(e, S) = Cardinality(Units(F, S))
    BY <1>4, <1>8, PtUnits
  <2> HIDE DEF F, y
  <2> QED
    BY <1>9, <2>1, <2>2, <2>3, <2>4
<1>11. MassOf(t) = Mass(e, S) /\ MassOf(t) \in Nat
  <2> DEFINE F == [x \in S |-> e.jets[x].mass]
             y == [n \in 1..3 |-> t[n].mass]
  <2>1. MassOf(t) = Total(y)
    BY <1>2 DEF MassOf, Each
  <2>2. \A n \in 1..3 : y[n] = F[f[n]]
    BY <1>1
  <2>3. DOMAIN F = S /\ (\A x \in S : F[x] \in Nat) /\ y = [n \in 1..3 |-> y[n]]
    BY <1>4
  <2>4. Mass(e, S) = Cardinality(Units(F, S))
    BY <1>4, <1>8, MassUnits
  <2> HIDE DEF F, y
  <2> QED
    BY <1>9, <2>1, <2>2, <2>3, <2>4
<1> QED
  BY <1>10, <1>11 DEF S, t

\* Sets of three have three different members.
LEMMA ThreeMembers ==
  ASSUME NEW S
  PROVE  IsFiniteSet(S) /\ Cardinality(S) = 3
           <=> \E a, b, c \in S : a # b /\ b # c /\ a # c /\ S = {a, b, c}
<1>1. ASSUME IsFiniteSet(S), Cardinality(S) = 3
      PROVE  \E a, b, c \in S : a # b /\ b # c /\ a # c /\ S = {a, b, c}
  <2>1. PICK a \in S : TRUE
    BY <1>1, FS_EmptySet
  <2>2. IsFiniteSet(S \ {a}) /\ Cardinality(S \ {a}) = 2
    BY <1>1, <2>1, FS_RemoveElement
  <2>3. PICK b \in S \ {a} : TRUE
    BY <2>2, FS_EmptySet
  <2> DEFINE R == S \ {a}
             Q == R \ {b}
  <2>4. IsFiniteSet(Q) /\ Cardinality(Q) = 1
    <3> HIDE DEF R
    <3>1. IsFiniteSet(R) /\ Cardinality(R) = 2 /\ b \in R
      BY <2>2, <2>3 DEF R
    <3> QED
      BY <3>1, FS_RemoveElement
  <2> HIDE DEF Q
  <2>5. PICK c : Q = {c}
    BY <2>4, FS_Singleton
  <2>6. S = {a, b, c} /\ a # b /\ b # c /\ a # c
    BY <2>1, <2>3, <2>5 DEF Q
  <2> QED
    BY <2>1, <2>3, <2>6
<1>2. ASSUME NEW a \in S, NEW b \in S, NEW c \in S, a # b, b # c, a # c, S = {a, b, c}
      PROVE  IsFiniteSet(S) /\ Cardinality(S) = 3
  <2>1. IsFiniteSet({c}) /\ Cardinality({c}) = 1
    BY FS_Singleton
  <2>2. IsFiniteSet({c} \cup {b}) /\ Cardinality({c} \cup {b}) = 2
    BY <1>2, <2>1, FS_AddElement
  <2> DEFINE R == {c} \cup {b}
  <2>3. a \notin R /\ S = R \cup {a}
    BY <1>2
  <2> HIDE DEF R
  <2> QED
    BY <2>2, <2>3, FS_AddElement DEF R
<1> QED
  BY <1>1, <1>2

\* The sets of three are the triples of indices of a list.
ThreeOf(q, t) == {q[t[1]], q[t[2]], q[t[3]]}
LEMMA ThreesListed ==
  ASSUME NEW S, NEW n \in Nat, NEW q, Lists(q, n, S)
  PROVE  /\ \A t \in TripleTags(n) : ThreeOf(q, t) \in kSubset(3, S)
         /\ \A t, u \in TripleTags(n) : ThreeOf(q, t) = ThreeOf(q, u) => t = u
         /\ \A T \in kSubset(3, S) : \E t \in TripleTags(n) : ThreeOf(q, t) = T
<1>1. /\ \A k \in 1..n : q[k] \in S
      /\ \A x \in S : \E k \in 1..n : q[k] = x
      /\ \A k, l \in 1..n : q[k] = q[l] => k = l
  BY DEF Lists
<1>2. \A t : t \in TripleTags(n) <=> \E i, j, k \in 1..n : i < j /\ j < k /\ t = <<i, j, k>>
  BY DEF TripleTags
<1>3. \A i, j, k \in 1..n : ThreeOf(q, <<i, j, k>>) = {q[i], q[j], q[k]}
  BY DEF ThreeOf
<1>4. \A T : T \in kSubset(3, S) <=> T \subseteq S /\ IsFiniteSet(T) /\ Cardinality(T) = 3
  <2>1. IsFiniteSet(S)
    BY ListCount
  <2> QED
    BY <2>1, FS_Subset DEF kSubset
<1>5. ASSUME NEW t \in TripleTags(n) PROVE ThreeOf(q, t) \in kSubset(3, S)
  <2>1. PICK i \in 1..n, j \in 1..n, k \in 1..n : i < j /\ j < k /\ t = <<i, j, k>>
    BY <1>2
  <2>2. i # j /\ j # k /\ i # k
    BY <2>1
  <2>3. q[i] # q[j] /\ q[j] # q[k] /\ q[i] # q[k]
    BY <1>1, <2>2
  <2> DEFINE T == {q[i], q[j], q[k]}
  <2>4. T \subseteq S /\ q[i] \in T /\ q[j] \in T /\ q[k] \in T
    BY <1>1
  <2>5. IsFiniteSet(T) /\ Cardinality(T) = 3
    BY <2>3, <2>4, ThreeMembers
  <2>6. ThreeOf(q, t) = T
    BY <1>3, <2>1
  <2> HIDE DEF T
  <2> QED
    BY <1>4, <2>4, <2>5, <2>6
<1>6. ASSUME NEW t \in TripleTags(n), NEW u \in TripleTags(n), ThreeOf(q, t) = ThreeOf(q, u)
      PROVE  t = u
  <2>1. PICK i \in 1..n, j \in 1..n, k \in 1..n : i < j /\ j < k /\ t = <<i, j, k>>
    BY <1>2
  <2>2. PICK a \in 1..n, b \in 1..n, c \in 1..n : a < b /\ b < c /\ u = <<a, b, c>>
    BY <1>2
  <2>3. {q[i], q[j], q[k]} = {q[a], q[b], q[c]}
    BY <1>3, <1>6, <2>1, <2>2
  <2>4. /\ q[i] \in {q[a], q[b], q[c]} /\ q[j] \in {q[a], q[b], q[c]} /\ q[k] \in {q[a], q[b], q[c]}
        /\ q[a] \in {q[i], q[j], q[k]} /\ q[b] \in {q[i], q[j], q[k]} /\ q[c] \in {q[i], q[j], q[k]}
    BY <2>3
  <2>5. /\ i \in {a, b, c} /\ j \in {a, b, c} /\ k \in {a, b, c}
        /\ a \in {i, j, k} /\ b \in {i, j, k} /\ c \in {i, j, k}
    BY <1>1, <2>4
  <2>6. i = a /\ j = b /\ k = c
    BY <2>1, <2>2, <2>5
  <2> QED
    BY <2>1, <2>2, <2>6
<1>7. ASSUME NEW T \in kSubset(3, S) PROVE \E t \in TripleTags(n) : ThreeOf(q, t) = T
  <2>1. T \subseteq S /\ IsFiniteSet(T) /\ Cardinality(T) = 3
    BY <1>4
  <2>2. PICK x \in T, y \in T, z \in T : x # y /\ y # z /\ x # z /\ T = {x, y, z}
    BY <2>1, ThreeMembers
  <2>3. PICK a \in 1..n : q[a] = x
    BY <1>1, <2>1
  <2>4. PICK b \in 1..n : q[b] = y
    BY <1>1, <2>1
  <2>5. PICK c \in 1..n : q[c] = z
    BY <1>1, <2>1
  <2>6. ASSUME NEW i \in 1..n, NEW j \in 1..n, NEW k \in 1..n, i < j, j < k,
               T = {q[i], q[j], q[k]}
        PROVE  \E t \in TripleTags(n) : ThreeOf(q, t) = T
    <3>1. <<i, j, k>> \in TripleTags(n) /\ ThreeOf(q, <<i, j, k>>) = T
      BY <1>2, <1>3, <2>6
    <3> QED
      BY <3>1
  <2>7. a # b /\ b # c /\ a # c
    BY <2>2, <2>3, <2>4, <2>5
  <2>8. \/ (a < b /\ b < c) \/ (a < c /\ c < b) \/ (b < a /\ a < c)
        \/ (b < c /\ c < a) \/ (c < a /\ a < b) \/ (c < b /\ b < a)
    BY <2>7
  <2>9. /\ T = {q[a], q[b], q[c]} /\ T = {q[a], q[c], q[b]} /\ T = {q[b], q[a], q[c]}
        /\ T = {q[b], q[c], q[a]} /\ T = {q[c], q[a], q[b]} /\ T = {q[c], q[b], q[a]}
    BY <2>2, <2>3, <2>4, <2>5
  <2> QED
    BY <2>6, <2>8, <2>9
<1> QED
  BY <1>5, <1>6, <1>7

\* The triples of jets of an event closest to the mass of the top quark are the sets that
\* the text speaks of.
ClosestOf(s, V) ==
  {t \in V : \A other \in ToSet(Triples(s)) : Abs(17250 - MassOf(t)) <= Abs(17250 - MassOf(other))}
LEMMA TrijetsListed ==
  ASSUME NEW J, NEW L, Particles(J, L), NEW e, e.jets \in Seq(J), NEW V, V = J \X J \X J,
         NEW x, x = Kept(e.jets, {j \in J : j.pt > 30})
  PROVE  /\ Kept(Triples(x), ClosestOf(x, V)) \in Seq(V)
         /\ Gives(Applied(Kept(Triples(x), ClosestOf(x, V)), [t \in V |-> PtOf(t)]),
                  Trijet(e), [T \in Trijet(e) |-> Pt(e, T)])
<1> DEFINE s == e.jets
           n == Len(x)
           hard == Passes(s, {j \in J : j.pt > 30})
           threes == kSubset(3, hard)
           tags == TripleTags(n)
           H == TripleAt(x)
           all == Triples(x)
           off(T) == Abs(Mass(e, T) - 17250)
           K == ClosestOf(x, V)
           G == [t \in V |-> PtOf(t)]
           R == [T \in Trijet(e) |-> Pt(e, T)]
<1>1. PICK q : Lists(q, n, hard) /\ \A k \in DOMAIN x : x[k] = s[q[k]]
  <2> DEFINE Q == {j \in J : j.pt > 30}
             y == Kept(e.jets, Q)
  <2>1. x = y
    OBVIOUS
  <2> HIDE DEF Q
  <2>2. \E f : Lists(f, Len(y), Passes(e.jets, Q)) /\ \A k \in DOMAIN y : y[k] = e.jets[f[k]]
    BY KeptListed
  <2> HIDE DEF y
  <2> QED
    BY <2>1, <2>2 DEF Q
<1>2. x \in Seq(J) /\ n \in Nat /\ DOMAIN x = 1..n
  BY KeptType
<1>3. all \in Seq(V) /\ Gives(all, tags, H)
  BY <1>2, GivesTriples
<1>4. \A i : i \in hard <=> i \in DOMAIN s /\ s[i].pt > 30
  BY DEF Passes
<1>5. \A t : t \in tags <=> \E i, j, k \in 1..n : i < j /\ j < k /\ t = <<i, j, k>>
  <2> HIDE DEF n
  <2> QED
    BY DEF TripleTags
<1>6. Trijet(e) = {T \in threes : \A U \in threes : off(T) <= off(U)}
  <2>1. hard = {i \in DOMAIN e.jets : e.jets[i].pt > 30}
    BY <1>4
  <2> HIDE DEF hard
  <2> QED
    BY <2>1 DEF Trijet, Mass
<1>7. /\ \A t \in tags : ThreeOf(q, t) \in threes
      /\ \A t, u \in tags : ThreeOf(q, t) = ThreeOf(q, u) => t = u
      /\ \A T \in threes : \E t \in tags : ThreeOf(q, t) = T
  <2> HIDE DEF hard, n
  <2> QED
    BY <1>1, <1>2, ThreesListed
<1>8. ASSUME NEW t \in tags
      PROVE  /\ H[t] \in V /\ PtOf(H[t]) = Pt(e, ThreeOf(q, t))
             /\ Abs(17250 - MassOf(H[t])) = off(ThreeOf(q, t))
  <2>1. PICK i \in 1..n, j \in 1..n, k \in 1..n : i < j /\ j < k /\ t = <<i, j, k>>
    <3> HIDE DEF tags, n, s, hard, threes, H, all, off, K, G, R
    <3> QED
      BY <1>5
  <2>2. H[t] = <<x[i], x[j], x[k]>>
    BY <1>2, <2>1 DEF TripleAt
  <2>3. x[i] = s[q[i]] /\ x[j] = s[q[j]] /\ x[k] = s[q[k]]
    BY <1>1, <1>2
  <2>4. q[i] \in hard /\ q[j] \in hard /\ q[k] \in hard
    BY <1>1 DEF Lists
  <2>5. i # j /\ j # k /\ i # k
    BY <2>1
  <2>6. q[i] # q[j] /\ q[j] # q[k] /\ q[i] # q[k]
    BY <1>1, <2>5 DEF Lists
  <2>7. ThreeOf(q, t) = {q[i], q[j], q[k]}
    BY <2>1 DEF ThreeOf
  <2> DEFINE m == MassOf(H[t])
  <2>8. /\ PtOf(H[t]) = Pt(e, ThreeOf(q, t)) /\ m = Mass(e, ThreeOf(q, t)) /\ m \in Nat
    <3>1. q[i] \in DOMAIN e.jets /\ q[j] \in DOMAIN e.jets /\ q[k] \in DOMAIN e.jets
      BY <1>4, <2>4
    <3> DEFINE a == q[i]
               b == q[j]
               c == q[k]
    <3>2. H[t] = <<e.jets[a], e.jets[b], e.jets[c]>> /\ ThreeOf(q, t) = {a, b, c}
      BY <2>2, <2>3, <2>7
    <3>3. /\ a \in DOMAIN e.jets /\ b \in DOMAIN e.jets /\ c \in DOMAIN e.jets
          /\ a # b /\ b # c /\ a # c
      BY <2>6, <3>1
    <3> HIDE DEF a, b, c, H, s, hard, threes, tags, n, all, off, K, G, R
    <3>4. LET y == <<e.jets[a], e.jets[b], e.jets[c]>>
          IN  /\ PtOf(y) = Pt(e, {a, b, c}) /\ MassOf(y) = Mass(e, {a, b, c})
              /\ MassOf(y) \in Nat
      BY <3>3, TripleSums
    <3> QED
      BY <3>2, <3>4
  <2>9. H[t] \in V
    <3>1. x[i] \in J /\ x[j] \in J /\ x[k] \in J
      BY <1>2
    <3> HIDE DEF H, tags, n
    <3> QED
      BY <2>2, <3>1
  <2> HIDE DEF m
  <2>10. Abs(17250 - m) = Abs(m - 17250)
    BY <2>8 DEF Abs
  <2> QED
    BY <2>8, <2>9, <2>10 DEF m
<1> HIDE DEF H, tags, all, n, hard, threes
<1>9. \A y : y \in ToSet(all) <=> \E t \in tags : y = H[t]
  <2>1. PICK f : Lists(f, Len(all), tags) /\ \A k \in DOMAIN all : all[k] = H[f[k]]
    BY <1>3 DEF Gives
  <2>2. DOMAIN all = 1..Len(all)
    BY <1>3
  <2>3. \A y : y \in ToSet(all) <=> \E k \in 1..Len(all) : y = all[k]
    BY <2>2 DEF ToSet
  <2> QED
    BY <2>1, <2>2, <2>3 DEF Lists
<1>10. \A t \in tags : H[t] \in K <=> ThreeOf(q, t) \in Trijet(e)
  <2> TAKE t \in tags
  <2>1. H[t] \in K <=> \A other \in ToSet(all) : Abs(17250 - MassOf(H[t])) <= Abs(17250 - MassOf(other))
    BY <1>8 DEF ClosestOf, all
  <2>2. H[t] \in K <=> \A u \in tags : off(ThreeOf(q, t)) <= off(ThreeOf(q, u))
    <3> HIDE DEF off, K
    <3> QED
      BY <1>8, <1>9, <2>1
  <2> HIDE DEF off, K
  <2>3. ThreeOf(q, t) \in Trijet(e) <=> \A U \in threes : off(ThreeOf(q, t)) <= off(U)
    BY <1>6, <1>7
  <2> QED
    BY <1>7, <2>2, <2>3
<1> DEFINE S == {t \in tags : H[t] \in K}
           b == [t \in S |-> ThreeOf(q, t)]
<1> HIDE DEF K, G, R, off
<1>11. Kept(all, K) \in Seq(V) /\ Gives(Kept(all, K), S, H)
  BY <1>3, KeptType, GivesKept
<1>12. \A t \in S : t \in tags /\ b[t] = ThreeOf(q, t) /\ b[t] \in Trijet(e)
  BY <1>10
<1>13. b \in [S -> Trijet(e)]
  <2>1. b = [t \in S |-> b[t]]
    OBVIOUS
  <2> HIDE DEF b, S
  <2> QED
    BY <1>12, <2>1
<1>14. \A T \in Trijet(e) : \E t \in S : b[t] = T
  <2> SUFFICES ASSUME NEW T \in Trijet(e) PROVE \E t \in S : b[t] = T
    OBVIOUS
  <2>1. PICK t \in tags : ThreeOf(q, t) = T
    BY <1>6, <1>7
  <2>2. t \in S
    BY <1>10, <2>1
  <2> HIDE DEF S, b
  <2> QED
    BY <1>12, <2>1, <2>2
<1> HIDE DEF b, S
<1>15. \A t, u \in S : b[t] = b[u] => t = u
  BY <1>7, <1>12
<1>16. \A t \in S : R[b[t]] = G[H[t]]
  BY <1>8, <1>12 DEF R, G
<1>17. Gives(Applied(Kept(all, K), G), Trijet(e), R)
  BY <1>11, <1>13, <1>14, <1>15, <1>16, GivesNamed
<1> QED
  BY <1>11, <1>17 DEF all, K, G, R

\* example6
LEMMA Example6Told ==
  ASSUME NEW J, NEW L, Particles(J, L), NEW e, e.jets \in Seq(J) PROVE Shows("example6", "Jet_pt", e)
<1> DEFINE query == "example6"
           h == "Jet_pt"
           V == J \X J \X J
           x == Kept(e.jets, {j \in J : j.pt > 30})
           K == ClosestOf(x, V)
           closest == Kept(Triples(x), K)
           G == [t \in V |-> PtOf(t)]
           S == Trijet(e)
           R == [T \in S |-> Pt(e, T)]
           m == Applied(closest, G)
<1>1. closest \in Seq(V) /\ Gives(m, S, R)
  <2>1. \A W, y : W = V /\ y = x =>
          /\ Kept(Triples(y), ClosestOf(y, W)) \in Seq(W)
          /\ Gives(Applied(Kept(Triples(y), ClosestOf(y, W)), [t \in W |-> PtOf(t)]),
                   Trijet(e), [T \in Trijet(e) |-> Pt(e, T)])
    BY TrijetsListed
  <2> QED
    BY <2>1
<1>2. x \in Seq(J) /\ Triples(x) \in Seq(V)
  BY KeptType, GivesTriples
<1> DEFINE trijets(y) == Triples(Where(y.jets, LAMBDA j : j.pt > 30))
           distance(t) == Abs(17250 - MassOf(t))
           nearest(y) == Where(trijets(y), LAMBDA t :
                           \A other \in ToSet(trijets(y)) : distance(t) <= distance(other))
           tags(s) == Each(s, LAMBDA t : Max({t[1].btag, t[2].btag, t[3].btag}))
<1>3. Where(e.jets, LAMBDA j : j.pt > 30) = x
  <2>1. \A i \in DOMAIN e.jets : e.jets[i] \in J
    OBVIOUS
  <2> QED
    BY <2>1 DEF Where, Mask, Each, Kept
<1> HIDE DEF x
<1>4. nearest(e) = closest
  <2> DEFINE s == Triples(x)
             near(t) == \A other \in ToSet(s) : distance(t) <= distance(other)
  <2>1. \A i \in DOMAIN s : s[i] \in V
    BY <1>2
  <2>2. \A i \in DOMAIN s : s[i] \in K <=> near(s[i])
    BY <2>1 DEF ClosestOf
  <2>3. trijets(e) = s
    BY <1>3
  <2> HIDE DEF s, V, K
  <2>4. nearest(e) = Where(s, near)
    <3> HIDE DEF trijets, distance
    <3> QED
      BY <2>3 DEF Where, Mask, Each
  <2> HIDE DEF near, nearest, trijets
  <2>5. Where(s, near) = Kept(s, K)
    BY <2>2 DEF Where, Mask, Each, Kept
  <2> QED
    BY <2>4, <2>5 DEF s
<1>5. \A ds : Processed(query, ds, <<e>>) = Fill(h, ds, m) (+) Fill("b_tag", ds, tags(closest))
  <2> HIDE DEF nearest, closest, V
  <2>1. Each(<<e>>, nearest) = <<closest>>
    BY <1>4 DEF Each
  <2>2. FlattenSeq(Each(<<e>>, nearest)) = closest
    BY <1>1, <2>1, FlattenOne
  <2>3. Each(closest, PtOf) = m
    BY <1>1 DEF Each, Applied
  <2>4. \A ds : Example6(ds, <<e>>)
                  = Fill("Jet_pt", ds, Each(FlattenSeq(Each(<<e>>, nearest)), PtOf))
                      (+) Fill("b_tag", ds, tags(FlattenSeq(Each(<<e>>, nearest))))
    BY DEF Example6, nearest
  <2> HIDE DEF m, tags
  <2> QED
    BY <2>2, <2>3, <2>4 DEF Processed
<1> HIDE DEF tags
<1>6. \A ds : Fills(Processed(query, ds, <<e>>), h, ds, m)
  <2>1. \A ds : Silent(Fill("b_tag", ds, tags(closest)), {h})
    BY SilentParts
  <2> HIDE DEF m, closest, query, h
  <2> QED
    BY <1>5, <2>1 DEF Fills
<1> DEFINE W == {PtOf(t) : t \in V} \cup {R[T] : T \in S}
<1>7. m \in Seq(W) /\ \A T \in S : R[T] \in W
  <2>1. Takes(G, V, W)
    BY DEF Takes
  <2>2. \A T \in S : R[T] \in W
    OBVIOUS
  <2> DEFINE n == Len(closest)
  <2>3. n \in Nat /\ DOMAIN closest = 1..n /\ \A k \in 1..n : closest[k] \in V
    <3> HIDE DEF closest, V
    <3> QED
      BY <1>1
  <2> HIDE DEF closest, V, G, W, n
  <2>4. m = [k \in 1..n |-> m[k]] /\ \A k \in 1..n : m[k] = G[closest[k]]
    BY <2>3 DEF Applied
  <2> HIDE DEF m
  <2>5. \A k \in 1..n : m[k] \in W
    BY <2>1, <2>3, <2>4 DEF Takes
  <2> QED
    BY <2>2, <2>3, <2>4, <2>5, MadeOf
<1>8. /\ IsFiniteSet(S) /\ Applied(SetToSeq(S), R) \in Seq(W)
      /\ SameValues(m, Applied(SetToSeq(S), R))
  <2>1. DOMAIN R = S
    OBVIOUS
  <2> HIDE DEF R, S, W, m
  <2> QED
    BY <1>1, <1>7, <2>1, GivesSame
<1>9. Said(query, e) = SaidOf(h, Applied(SetToSeq(S), R))
  <2> DEFINE y == SetToSeq(S)
  <2>1. Said(query, e) = Of(h, S, LAMBDA T : Pt(e, T))
    BY DEF Said, Says6
  <2> HIDE DEF S
  <2>2. \A k \in DOMAIN y : y[k] \in S
    BY <1>8, SetListed
  <2>3. Of(h, S, LAMBDA T : Pt(e, T)) = [k \in DOMAIN y |-> <<h, R[y[k]]>>]
    BY <2>2 DEF Of, Each
  <2> HIDE DEF R, h, query
  <2> QED
    BY <1>8, <2>1, <2>3, SaidTypes
<1> HIDE DEF query, h, m, R, S, W
<1>10. Shows(query, h, e)
  BY <1>6, <1>7, <1>8, <1>9 DEF Shows
<1> QED
  BY <1>10 DEF query, h

\* The notebooks of which every event is shown here to say what is made of it, with the
\* histogram that they speak of.
Shown == [example1 |-> "MET", example2 |-> "Jet_pt", example3 |-> "Jet_pt",
          example4 |-> "MET_pt", example5 |-> "MET", example6 |-> "Jet_pt",
          example7 |-> "Jet_pt", zpeak |-> "dimu_mass", ttbar |-> "ht"]

\* They are.
LEMMA EventShown ==
  ASSUME NEW E, NEW J, NEW L, Readable(E, J, L), Particles(J, L), NEW e \in E,
         NEW q \in DOMAIN Shown, q = "example7" => BothKinds(E)
  PROVE  Shows(q, Shown[q], e)
<1>1. e.jets \in Seq(J) /\ e.muons \in Seq(L)
  BY DEF Readable
<1>2. CASE q = "example1"
  BY <1>2, Example1Told DEF Shown
<1>3. CASE q = "example2"
  BY <1>1, <1>3, Example2Told DEF Shown
<1>4. CASE q = "example3"
  BY <1>1, <1>4, Example3Told DEF Shown
<1>5. CASE q = "example4"
  BY <1>1, <1>5, Example4Told DEF Shown
<1>6. CASE q = "example5"
  BY <1>1, <1>6, Example5Told DEF Shown
<1>7. CASE q = "example6"
  BY <1>1, <1>7, Example6Told DEF Shown
<1>8. CASE q = "example7"
  BY <1>8, Example7Told DEF Shown
<1>9. CASE q = "zpeak"
  BY <1>1, <1>9, ZPeakTold DEF Shown
<1>10. CASE q = "ttbar"
  BY <1>1, <1>10, TtbarTold DEF Shown
<1> QED
  BY <1>2, <1>3, <1>4, <1>5, <1>6, <1>7, <1>8, <1>9, <1>10 DEF Shown

\* The sum over the chunks of a job has what is said of its events, if it has a histogram.
ToldOf(j) ==
  LET all == SumOver(j.acc, DOMAIN j.chunks)
  IN  j.told # {} => Only(Post(j.query, all), j.told) = j.described

\* It has, of a job of these notebooks.
LEMMA JobTold ==
  ASSUME NEW data, NEW chunks, NEW E, FilesetOf(data, chunks, E),
         NEW J, NEW L, Readable(E, J, L), Particles(J, L), NEW j \in JobsOn(data, chunks),
         j.query \in DOMAIN Shown \cup {"template"}, j.query = "example7" => BothKinds(E),
         PostIsOurs
  PROVE  ToldOf(j)
<1> DEFINE q == j.query
<1>1. q \in ByEvent
  BY JobsMade DEF MadeBy
<1>2. \A b : Post(q, b) = b
  BY <1>1 DEF ByEvent, PostOf, PostIsOurs
<1>3. j.told = Tells[q]
  <2>1. \A ds \in DOMAIN data : data[ds] \in Seq(E)
    BY DEF FilesetOf
  <2> QED
    BY <2>1, JobsSpoken DEF SpokenBy
<1>4. CASE q = "template"
  BY <1>3, <1>4 DEF ToldOf, Tells
<1>5. CASE q \in DOMAIN Shown
  <2>1. Tells[q] = {Shown[q]}
    BY <1>5 DEF Tells, Shown
  <2>2. \A e \in E : Shows(q, Shown[q], e)
    BY <1>5, EventShown
  <2> DEFINE h == Shown[q]
  <2> HIDE DEF h, q
  <2>3. \E V : Speaks(q, E, V)
    BY <2>1, <2>2, SpeaksOne DEF h
  <2>4. Only(SumOver(j.acc, DOMAIN j.chunks), j.told) = j.described
    BY <2>3, FilesetTold DEF q
  <2> QED
    BY <1>2, <2>4 DEF ToldOf, q
<1> QED
  BY <1>4, <1>5

(* The histograms hold what the notebook says of each event of each dataset, for *)
(* any events of jets and leptons (Particles), cut in any way, of the notebooks    *)
(* that fill one histogram from objects, pairs or triples; of example7, where an   *)
(* event with a good jet has a lepton of each kind.                                *)
THEOREM DescriptionOfARun ==
  ASSUME PostIsOurs,
         \A j \in Jobs : \E data, chunks, E, J, L :
           /\ FilesetOf(data, chunks, E) /\ Readable(E, J, L) /\ Particles(J, L)
           /\ j \in JobsOn(data, chunks)
           /\ j.query \in DOMAIN Shown \cup {"template"}
           /\ j.query = "example7" => BothKinds(E)
  PROVE  Spec => []AsDescribed
<1>1. \A j \in Jobs : ToldOf(j)
  BY JobTold
<1>2. SummedInv => AsDescribed
  BY <1>1 DEF SummedInv, AsDescribed, ToldOf, Chunks
<1> QED
  BY Running, <1>2, PTL
=============================================================================
