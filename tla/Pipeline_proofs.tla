-------------------------- MODULE Pipeline_proofs --------------------------
(***************************************************************************)
(* Proofs about Pipeline: for every chain, any number of goroutines, any   *)
(* sizes of channels and batches and any number of restarts, nothing is    *)
(* handled twice, nothing is lost but what a failed answer or the slice of *)
(* batching loses, and the pipeline implements the abstract index.         *)
(***************************************************************************)
EXTENDS Pipeline, FiniteSetTheorems, SequenceTheorems, TLAPS

-----------------------------------------------------------------------------
(* Counting on queues                                                      *)

\* How often a queue holds a member of S.
At(q, S) == {j \in 1 .. Len(q) : q[j] \in S}
Count(q, S) == Cardinality(At(q, S))

\* A condition as a number.
One(p) == IF p THEN 1 ELSE 0

\* What a queue holds is finite.
LEMMA CountType ==
    ASSUME NEW T, NEW q \in Seq(T), NEW S
    PROVE  IsFiniteSet(At(q, S)) /\ Count(q, S) \in Nat
<1>1. IsFiniteSet(1 .. Len(q))
  BY FS_Interval
<1>2. IsFiniteSet(At(q, S))
  BY <1>1, FS_Subset DEF At
<1>3. QED
  BY <1>2, FS_CardinalityType DEF Count

\* An empty queue holds nothing.
LEMMA CountEmpty == \A S : Count(<<>>, S) = 0
<1>1. \A S : At(<<>>, S) = {}
  BY DEF At
<1>2. QED
  BY <1>1, FS_EmptySet DEF Count

\* A queue and the one behind it hold what both hold.
LEMMA CountConcat ==
    ASSUME NEW T, NEW q \in Seq(T), NEW r \in Seq(T), NEW S
    PROVE  q \o r \in Seq(T) /\ Count(q \o r, S) = Count(q, S) + Count(r, S)
<1> DEFINE both == q \o r
           behind == {j \in At(both, S) : j > Len(q)}
<1>1. /\ both \in Seq(T) /\ Len(q) \in Nat /\ Len(r) \in Nat /\ Len(both) = Len(q) + Len(r)
      /\ \A i \in 1 .. Len(q) : both[i] = q[i]
      /\ \A i \in 1 .. Len(r) : both[Len(q) + i] = r[i]
  BY ConcatProperties, LenProperties
<1> HIDE DEF both
<1>2. At(both, S) = At(q, S) \cup behind /\ At(q, S) \cap behind = {}
  BY <1>1 DEF At
<1>3. /\ IsFiniteSet(At(q, S)) /\ IsFiniteSet(At(r, S)) /\ IsFiniteSet(At(both, S))
      /\ Count(q, S) \in Nat /\ Count(r, S) \in Nat
  BY <1>1, CountType
<1>4. IsFiniteSet(behind)
  BY <1>3, FS_Subset
<1>5. Cardinality(behind) = Cardinality(At(r, S))
  <2> DEFINE f == [j \in At(r, S) |-> Len(q) + j]
  <2>1. \A j \in At(r, S) : Len(q) + j \in behind
    BY <1>1 DEF At
  <2>2. \A j \in behind : j - Len(q) \in At(r, S) /\ Len(q) + (j - Len(q)) = j
    <3>1. ASSUME NEW j \in behind PROVE j - Len(q) \in At(r, S) /\ Len(q) + (j - Len(q)) = j
      <4>1. j \in 1 .. Len(both) /\ j > Len(q) /\ both[j] \in S
        BY DEF At
      <4>2. j - Len(q) \in 1 .. Len(r) /\ Len(q) + (j - Len(q)) = j
        BY <1>1, <4>1
      <4>3. both[Len(q) + (j - Len(q))] = r[j - Len(q)]
        BY <1>1, <4>2
      <4>4. QED
        BY <4>1, <4>2, <4>3 DEF At
    <3>2. QED
      BY <3>1
  <2>3. \A i, j \in At(r, S) : Len(q) + i = Len(q) + j => i = j
    BY <1>1 DEF At
  <2>4. f \in [At(r, S) -> behind]
    BY <2>1
  <2>5. f \in Bijection(At(r, S), behind)
    BY <2>2, <2>3, <2>4 DEF Bijection, Injection, Surjection, IsInjective
  <2>6. QED
    BY <1>3, <2>5, FS_Bijection DEF ExistsBijection
<1> HIDE DEF behind
<1>6. Cardinality(At(q, S) \cup behind) =
        Cardinality(At(q, S)) + Cardinality(behind) - Cardinality(At(q, S) \cap behind)
  BY <1>3, <1>4, FS_Union
<1>7. Cardinality(At(q, S) \cap behind) = 0
  BY <1>2, FS_EmptySet
<1>8. Count(both, S) = Count(q, S) + Count(r, S)
  BY <1>2, <1>3, <1>5, <1>6, <1>7 DEF Count
<1>9. QED
  BY <1>1, <1>8 DEF both

\* A queue of one element.
LEMMA CountOne ==
    ASSUME NEW T, NEW x \in T, NEW S
    PROVE  <<x>> \in Seq(T) /\ Count(<<x>>, S) = One(x \in S)
<1>1. <<x>> \in Seq(T) /\ Len(<<x>>) = 1 /\ <<x>>[1] = x
  OBVIOUS
<1>2. At(<<x>>, S) = IF x \in S THEN {1} ELSE {}
  BY <1>1 DEF At
<1>3. QED
  BY <1>1, <1>2, FS_EmptySet, FS_Singleton DEF Count, One

\* An element put at the end of a queue.
LEMMA CountAppend ==
    ASSUME NEW T, NEW q \in Seq(T), NEW x \in T, NEW S
    PROVE  /\ Append(q, x) \in Seq(T) /\ Len(q) \in Nat /\ Len(Append(q, x)) = Len(q) + 1
           /\ Count(Append(q, x), S) = Count(q, S) + One(x \in S)
<1>1. PICK r \in Seq(T) : r = <<x>> /\ Count(r, S) = One(x \in S)
  BY CountOne
<1>2. Append(q, x) = q \o r
  BY <1>1, AppendIsConcat
<1>3. Count(q \o r, S) = Count(q, S) + Count(r, S)
  BY CountConcat
<1>4. /\ Append(q, x) \in Seq(T) /\ Len(q) \in Nat /\ Len(Append(q, x)) = Len(q) + 1
  BY AppendProperties, LenProperties
<1>5. QED
  BY <1>1, <1>2, <1>3, <1>4

\* An element taken from the head of a queue.
LEMMA CountTail ==
    ASSUME NEW T, NEW q \in Seq(T), q # <<>>, NEW S
    PROVE  /\ Head(q) \in T /\ Tail(q) \in Seq(T) /\ Len(Tail(q)) = Len(q) - 1 /\ Len(q) \in Nat
           /\ Count(q, S) = One(Head(q) \in S) + Count(Tail(q), S)
<1>1. /\ Head(q) \in T /\ Tail(q) \in Seq(T) /\ Len(Tail(q)) = Len(q) - 1 /\ Len(q) \in Nat
      /\ q = <<Head(q)>> \o Tail(q)
  BY HeadTailProperties, LenProperties
<1>2. PICK r \in Seq(T) : r = <<Head(q)>> /\ Count(r, S) = One(Head(q) \in S)
  BY <1>1, CountOne
<1>3. PICK rest \in Seq(T) : rest = Tail(q)
  BY <1>1
<1>4. Count(r \o rest, S) = Count(r, S) + Count(rest, S)
  BY CountConcat
<1>5. q = r \o rest
  BY <1>1, <1>2, <1>3
<1>6. QED
  BY <1>1, <1>2, <1>3, <1>4, <1>5

-----------------------------------------------------------------------------
(* Blocks and batches                                                      *)

\* A transaction has one height, and one place in its block.
LEMMA HeightFacts ==
    /\ \A t \in Txs : HeightOf(t) \in Heights /\ t \in ToSet(Block[HeightOf(t)])
    /\ \A h \in Heights : \A t \in ToSet(Block[h]) : t \in Txs /\ HeightOf(t) = h
<1>1. ASSUME NEW t \in Txs PROVE HeightOf(t) \in Heights /\ t \in ToSet(Block[HeightOf(t)])
  <2>1. \E h \in Heights : \E i \in 1 .. Len(Block[h]) : Block[h][i] = t
    BY DEF Txs
  <2>2. /\ HeightOf(t) \in Heights
        /\ \E i \in 1 .. Len(Block[HeightOf(t)]) : Block[HeightOf(t)][i] = t
    BY <2>1 DEF HeightOf
  <2>3. QED
    BY <2>2 DEF ToSet
<1>2. ASSUME NEW h \in Heights, NEW t \in ToSet(Block[h]) PROVE t \in Txs /\ HeightOf(t) = h
  <2>1. PICK i \in 1 .. Len(Block[h]) : Block[h][i] = t
    BY DEF ToSet
  <2>2. t \in Txs
    BY <2>1 DEF Txs
  <2>3. PICK j \in 1 .. Len(Block[HeightOf(t)]) : Block[HeightOf(t)][j] = t
    BY <1>1, <2>2 DEF ToSet
  <2>4. QED
    BY <1>1, <2>1, <2>2, <2>3, PipelineAssumption
<1>3. QED
  BY <1>1, <1>2

\* What block_processing, transaction_processing and the tx workers have: a
\* block with its transactions, or without if the answer failed.
Genuine == {b \in BlockType : b.hashes \in {<<>>, Block[b.height]}}

\* The transactions of such a block are of its height, each in one place.
LEMMA GenuineFacts ==
    ASSUME NEW b \in Genuine
    PROVE  /\ b \in BlockType /\ b.height \in Heights /\ b.hashes \in Seq(Txs)
           /\ \A t \in ToSet(b.hashes) : t \in Txs /\ HeightOf(t) = b.height
           /\ \A i, j \in 1 .. Len(b.hashes) : b.hashes[i] = b.hashes[j] => i = j
<1>1. b \in BlockType /\ b.height \in Heights /\ b.hashes \in Seq(Txs)
  BY DEF Genuine, BlockType
<1>2. CASE b.hashes = <<>>
  BY <1>1, <1>2 DEF ToSet
<1>3. CASE b.hashes = Block[b.height]
  BY <1>1, <1>3, HeightFacts, PipelineAssumption
<1>4. QED
  BY <1>1, <1>2, <1>3 DEF Genuine

\* The number of batches.
LEMMA BatchCountFacts ==
    ASSUME NEW s \in Seq(Txs)
    PROVE  /\ BatchCount(s) \in Nat
           /\ 0 .. BatchCount(s) - 1 \subseteq 0 .. Len(s)
           /\ s # <<>> /\ Len(s) <= batch_size => BatchCount(s) = 1
<1> DEFINE n == Len(s)
           k == BatchCount(s)
<1>1. n \in Nat /\ batch_size \in Nat /\ batch_size > 0
  BY PipelineAssumption
<1>2. k \in Int /\ batch_size * k <= n + batch_size - 1 /\ n + batch_size - 1 < batch_size * k + batch_size
  BY <1>1 DEF BatchCount
<1> HIDE DEF k, n
<1>3. k \in Nat
  <2>1. SUFFICES ASSUME k <= -1 PROVE FALSE
    BY <1>2
  <2>2. batch_size * k <= batch_size * (-1)
    BY <1>1, <1>2, <2>1
  <2>3. QED
    BY <1>1, <1>2, <2>2
<1>4. k <= n + 1
  <2>1. SUFFICES ASSUME k >= n + 2 PROVE FALSE
    BY <1>1, <1>2
  <2>2. batch_size * k >= batch_size * (n + 2) /\ batch_size * (n + 2) >= n + 2 * batch_size
    BY <1>1, <1>2, <2>1
  <2>3. QED
    BY <1>1, <1>2, <2>2
<1>5. ASSUME s # <<>>, n <= batch_size PROVE k = 1
  <2>1. n >= 1
    BY <1>5, EmptySeq DEF n
  <2>2. k >= 1
    BY <1>1, <1>2, <1>3, <2>1
  <2>3. ASSUME k >= 2 PROVE FALSE
    <3>1. batch_size * k >= batch_size * 2
      BY <1>1, <1>3, <2>3
    <3>2. QED
      BY <1>1, <1>2, <1>5, <3>1
  <2>4. QED
    BY <1>3, <2>2, <2>3
<1>6. QED
  BY <1>1, <1>3, <1>4, <1>5 DEF k, n

\* Only the last batch has transactions, some of the block's and each once.
LEMMA BatchFacts ==
    ASSUME NEW b \in Genuine, NEW batch \in 0 .. BatchCount(b.hashes) - 1
    PROVE  /\ BatchHashes(b.hashes, batch) \in Seq(Txs)
           /\ ToSet(BatchHashes(b.hashes, batch)) \subseteq ToSet(b.hashes)
           /\ \A t : Count(BatchHashes(b.hashes, batch), {t}) =
                       One(t \in ToSet(BatchHashes(b.hashes, batch)))
           /\ batch # BatchCount(b.hashes) - 1 => ToSet(BatchHashes(b.hashes, batch)) = {}
           /\ Len(b.hashes) <= batch_size => BatchHashes(b.hashes, batch) = b.hashes
<1> DEFINE s == b.hashes
           part == BatchHashes(s, batch)
           m == batch_size * batch
<1>1. /\ s \in Seq(Txs) /\ Len(s) \in Nat /\ BatchCount(s) \in Nat
      /\ \A i, j \in 1 .. Len(s) : s[i] = s[j] => i = j
  BY GenuineFacts, BatchCountFacts, LenProperties
<1>2. m \in Nat
  BY PipelineAssumption
<1> HIDE DEF m
<1>3. CASE batch # BatchCount(s) - 1
  <2>1. part = SubSeq(s, m + 1, m)
    BY <1>3 DEF BatchHashes, m
  <2>2. part = <<>>
    BY <1>2, <2>1, SubSeqEmpty
  <2>3. ToSet(part) = {} /\ \A t : Count(part, {t}) = 0
    BY <2>2, CountEmpty DEF ToSet
  <2>4. Len(s) <= batch_size => BatchCount(s) = 1 \/ s = <<>>
    BY <1>1, BatchCountFacts
  <2>5. Len(s) <= batch_size => part = s
    BY <1>1, <1>3, <2>2, <2>4
  <2> HIDE DEF part
  <2>6. part \in Seq(Txs) /\ ToSet(part) \subseteq ToSet(s)
    BY <2>2, <2>3
  <2>7. \A t : Count(part, {t}) = One(t \in ToSet(part))
    BY <2>3 DEF One
  <2>8. QED
    BY <2>3, <2>5, <2>6, <2>7 DEF part
<1>4. CASE batch = BatchCount(s) - 1
  <2>1. part = SubSeq(s, m + 1, Len(s))
    BY <1>4 DEF BatchHashes, m
  <2>2. /\ part \in Seq(Txs) /\ Len(part) \in Nat
        /\ \A i \in 1 .. Len(part) : part[i] = s[m + i] /\ m + i \in 1 .. Len(s)
    <3>1. CASE m + 1 <= Len(s)
      <4>1. m + 1 \in 1 .. Len(s) + 1 /\ Len(s) \in m .. Len(s)
        BY <1>1, <1>2, <3>1
      <4>2. /\ part \in Seq(Txs) /\ Len(part) = Len(s) - m
            /\ \A i \in 1 .. Len(s) - m : part[i] = s[(m + 1) + i - 1]
        BY <1>1, <1>2, <2>1, <4>1, SubSeqProperties
      <4>3. QED
        BY <1>1, <1>2, <3>1, <4>2
    <3>2. CASE m + 1 > Len(s)
      <4>1. part = <<>>
        BY <1>1, <1>2, <2>1, <3>2, SubSeqEmpty
      <4>2. QED
        BY <4>1
    <3>3. QED
      BY <1>1, <1>2, <3>1, <3>2
  <2> HIDE DEF part, s
  <2>3. ToSet(part) \subseteq ToSet(s)
    BY <2>2 DEF ToSet
  <2>4. \A i, j \in 1 .. Len(part) : part[i] = part[j] => i = j
    <3>1. ASSUME NEW i \in 1 .. Len(part), NEW j \in 1 .. Len(part), part[i] = part[j]
          PROVE  i = j
      <4>1. s[m + i] = s[m + j] /\ m + i \in 1 .. Len(s) /\ m + j \in 1 .. Len(s)
        BY <2>2, <3>1
      <4>2. m + i = m + j
        BY <1>1, <4>1
      <4>3. QED
        BY <1>2, <4>2
    <3>2. QED
      BY <3>1
  <2>5. ASSUME NEW t PROVE Count(part, {t}) = One(t \in ToSet(part))
    <3>1. CASE t \in ToSet(part)
      <4>1. PICK i \in 1 .. Len(part) : part[i] = t
        BY <3>1 DEF ToSet
      <4>2. At(part, {t}) = {i}
        BY <2>4, <4>1 DEF At
      <4>3. QED
        BY <3>1, <4>2, FS_Singleton DEF Count, One
    <3>2. CASE t \notin ToSet(part)
      <4>1. At(part, {t}) = {}
        BY <3>2 DEF ToSet, At
      <4>2. QED
        BY <3>2, <4>1, FS_EmptySet DEF Count, One
    <3>3. QED
      BY <3>1, <3>2
  <2>6. ASSUME Len(s) <= batch_size PROVE part = s
    <3>1. s # <<>>
      <4>1. BatchCount(s) >= 1
        BY <1>1, <1>4 DEF s
      <4>2. ASSUME s = <<>> PROVE BatchCount(s) = 0
        BY <4>2, PipelineAssumption DEF BatchCount
      <4>3. QED
        BY <4>1, <4>2
    <3>2. batch = 0
      BY <1>1, <1>4, <2>6, <3>1, BatchCountFacts DEF s
    <3>3. m = 0
      BY <3>2, PipelineAssumption DEF m
    <3>4. part = SubSeq(s, 1, Len(s))
      BY <2>1, <3>3
    <3>5. QED
      BY <1>1, <3>4, SubSeqFull
  <2>7. QED
    BY <1>4, <2>2, <2>3, <2>5, <2>6 DEF part, s
<1>5. QED
  BY <1>3, <1>4

-----------------------------------------------------------------------------
(* The invariant                                                           *)

\* What the variables hold: blocks on their way have their own transactions or
\* none, a listener hears of its height only, and each channel carries only
\* what the goroutine before it lets through.
Feed ==
    /\ next \in 0 .. Top /\ base \in 0 .. next
    /\ fetching \subseteq base .. next - 1 /\ Cardinality(fetching) <= parallel_blocks
    /\ stops \in 0 .. MaxStops /\ faults \in 0 .. MaxFaults

BlocksOnWay ==
    /\ block_processing \in Seq(Genuine) /\ Len(block_processing) <= QueueSize
    /\ transaction_processing \in Seq(Genuine) /\ Len(transaction_processing) <= QueueSize
    /\ job \in [TxWorkers -> Genuine \cup {NoBlock}]
    /\ pending \in [TxWorkers -> SUBSET Nat]
    /\ \A w \in TxWorkers : pending[w] \subseteq 0 .. BatchCount(job[w].hashes) - 1

TxsOnWay ==
    /\ listener \in [Heights -> Seq(Txs)]
    /\ \A h \in Heights : ToSet(listener[h]) \subseteq ToSet(Block[h])
    /\ scid_processing \in Seq(Txs \ Counted) /\ Len(scid_processing) <= QueueSize
    /\ scid_db_queue \in Seq(Valid) /\ Len(scid_db_queue) <= QueueSize
    /\ settled \subseteq Txs
    /\ writer = Idle \/ writer \in [step : {"counts", "height"}, tx : indexed]

Database ==
    /\ holding_queue \in Nat /\ txCount \in Nat /\ LastIndexHeight \in 0 .. Top
    /\ indexed \subseteq Valid /\ invalid \subseteq Installs

\* In how many places of the pipeline transaction t is.
With(t) == {b \in BlockType : t \in ToSet(b.hashes)}
InBatch(t) == {v \in TxWorkers : \E b \in pending[v] : t \in ToSet(BatchHashes(job[v].hashes, b))}

NFetch(t)  == One(HeightOf(t) \in fetching)
NBlock(t)  == Count(block_processing, With(t))
NTx(t)     == Count(transaction_processing, With(t))
NBatch(t)  == Cardinality(InBatch(t))
NHeard(t)  == Count(listener[HeightOf(t)], {t})
NScid(t)   == Count(scid_processing, {t})
NQueue(t)  == Count(scid_db_queue, {t})
NWriter(t) == One(writer # Idle /\ writer.tx = t)
NDone(t)   == One(t \in settled)

Weight(t) == NFetch(t) + NBlock(t) + NTx(t) + NBatch(t) + NHeard(t) + NScid(t)
             + NQueue(t) + NWriter(t) + NDone(t)

Handed(t) == base <= HeightOf(t) /\ HeightOf(t) < next

\* Every block fits into one batch, so that the slice of batching loses nothing.
SmallBlocks == \A h \in Heights : Len(Block[h]) <= batch_size

\* A transaction is in one place at most, in none if its height was not handed
\* out, and in one if nothing failed.
WeightInv ==
    \A t \in Txs :
        /\ Weight(t) <= One(Handed(t))
        /\ SmallBlocks /\ faults = 0 /\ Handed(t) => Weight(t) = 1

\* What was done for the transactions this process is done with.
SettledInv ==
    /\ \A t \in settled : t \in Valid => t \in indexed \/ faults > 0
    /\ \A t \in settled : t \in Installs \ Valid => t \in invalid
    /\ faults = 0 => invalid \cap Valid = {}
    /\ IsFiniteSet(settled \cap Counted)
    /\ stops = 0 => base = 0 /\ holding_queue = Cardinality(settled \cap Counted)

StateInv == Feed /\ BlocksOnWay /\ TxsOnWay /\ Database

IndInv == StateInv /\ WeightInv /\ SettledInv
-----------------------------------------------------------------------------
(* The variables keep what they hold                                       *)

\* What handle_tx counts or leaves is of no contract.
LEMMA Sorts ==
    /\ Counted \cup Ignored \subseteq Txs /\ Counted \cap Ignored = {}
    /\ (Counted \cup Ignored) \cap (Valid \cup Installs) = {}
BY PipelineAssumption

\* The blocks that handle_height_task sends, and the worker without a block.
LEMMA Blocks ==
    /\ \A h \in Heights : [height |-> h, hashes |-> Block[h]] \in Genuine
    /\ \A h \in Heights : [height |-> h, hashes |-> <<>>] \in Genuine
    /\ NoBlock.hashes = <<>> /\ BatchCount(<<>>) = 0 /\ NoBlock \notin Genuine
<1>1. Block \in [Heights -> Seq(Txs)] /\ <<>> \in Seq(Txs)
  BY PipelineAssumption
<1>2. \A h \in Heights : [height |-> h, hashes |-> Block[h]] \in Genuine
  BY <1>1 DEF Genuine, BlockType
<1>3. \A h \in Heights : [height |-> h, hashes |-> <<>>] \in Genuine
  BY <1>1 DEF Genuine, BlockType
<1>4. NoBlock.hashes = <<>> /\ BatchCount(<<>>) = 0
  BY PipelineAssumption DEF NoBlock, BatchCount
<1>5. NoBlock \notin Genuine
  <2>1. NoBlock.height = -1 /\ -1 \notin Heights
    BY PipelineAssumption DEF NoBlock, Heights
  <2>2. QED
    BY <2>1, GenuineFacts
<1>6. QED
  BY <1>2, <1>3, <1>4, <1>5

\* A queue is in its set of sequences, so are its tail and what Append makes.
LEMMA Queues ==
    ASSUME NEW T, NEW q \in Seq(T)
    PROVE  /\ Len(q) \in Nat
           /\ \A x \in T : Append(q, x) \in Seq(T) /\ Len(Append(q, x)) = Len(q) + 1
           /\ q # <<>> => /\ Head(q) \in T /\ Tail(q) \in Seq(T)
                          /\ Len(Tail(q)) = Len(q) - 1
<1>1. Len(q) \in Nat
  BY LenProperties
<1>2. \A x \in T : Append(q, x) \in Seq(T) /\ Len(Append(q, x)) = Len(q) + 1
  BY AppendProperties
<1>3. q # <<>> => Head(q) \in T /\ Tail(q) \in Seq(T) /\ Len(Tail(q)) = Len(q) - 1
  BY HeadTailProperties
<1>4. QED
  BY <1>1, <1>2, <1>3

\* A send to a channel with room leaves it within its capacity.
LEMMA SentTo ==
    ASSUME NEW T, NEW q \in Seq(T), NEW r, Len(q) <= QueueSize,
           r = q \/ \E x \in T : Len(q) < QueueSize /\ r = Append(q, x)
    PROVE  r \in Seq(T) /\ Len(r) <= QueueSize
<1>1. Len(q) \in Nat /\ QueueSize \in Nat
  BY PipelineAssumption, Queues
<1>2. ASSUME NEW x \in T, Len(q) < QueueSize, r = Append(q, x)
      PROVE  r \in Seq(T) /\ Len(r) <= QueueSize
  <2>1. r \in Seq(T) /\ Len(r) = Len(q) + 1
    BY <1>2, Queues
  <2>2. QED
    BY <1>1, <1>2, <2>1
<1>3. QED
  BY <1>2

\* A fault leaves the number of faults within its bound.
LEMMA FaultBound ==
    ASSUME NEW f \in 0 .. MaxFaults, NEW g, g = f \/ (f < MaxFaults /\ g = f + 1)
    PROVE  g \in 0 .. MaxFaults
  BY PipelineAssumption

\* The first process starts in such a state, and so does every later one.
LEMMA FreshState ==
    ASSUME block_processing = <<>>, transaction_processing = <<>>,
           job = NoJobs, pending = NoBatches, listener = NothingHeard,
           scid_processing = <<>>, scid_db_queue = <<>>, writer = Idle, settled = {}
    PROVE  BlocksOnWay /\ TxsOnWay
<1>1. QueueSize \in Nat
  BY PipelineAssumption
<1>2. BlocksOnWay
  <2>1. job \in [TxWorkers -> Genuine \cup {NoBlock}] /\ pending \in [TxWorkers -> SUBSET Nat]
    BY DEF NoJobs, NoBatches
  <2>2. \A w \in TxWorkers : pending[w] = {}
    BY DEF NoBatches
  <2>3. QED
    BY <1>1, <2>1, <2>2 DEF BlocksOnWay
<1>3. TxsOnWay
  <2>1. listener \in [Heights -> Seq(Txs)] /\ \A h \in Heights : listener[h] = <<>>
    BY DEF NothingHeard
  <2>2. \A h \in Heights : ToSet(listener[h]) = {}
    BY <2>1 DEF ToSet
  <2>3. QED
    BY <1>1, <2>1, <2>2 DEF TxsOnWay
<1>4. QED
  BY <1>2, <1>3

\* The first process starts in such a state.
LEMMA InitState == Init => StateInv
<1> SUFFICES ASSUME Init PROVE StateInv
  OBVIOUS
<1>1. BlocksOnWay /\ TxsOnWay
  BY FreshState DEF Init
<1>2. Feed
  BY PipelineAssumption, FS_EmptySet DEF Init, Feed
<1>3. Database
  BY PipelineAssumption DEF Init, Database
<1>4. QED
  BY <1>1, <1>2, <1>3 DEF StateInv

\* Every step keeps the variables in these sets.
LEMMA StateStep == StateInv /\ [Next]_vars => StateInv'
<1> SUFFICES ASSUME StateInv, [Next]_vars PROVE StateInv'
  OBVIOUS
<1> USE DEF StateInv
<1>0. /\ Top \in Nat /\ QueueSize \in Nat /\ parallel_blocks \in Nat
      /\ MaxStops \in Nat /\ MaxFaults \in Nat
  BY PipelineAssumption
<1>1. CASE Fetch
  <2> USE <1>1 DEF Fetch
  <2>1. IsFiniteSet(fetching) /\ Cardinality(fetching) \in Nat /\ next \notin fetching
    <3>1. IsFiniteSet(base .. next - 1)
      BY <1>0, FS_Interval DEF Feed
    <3>2. IsFiniteSet(fetching)
      BY <3>1, FS_Subset DEF Feed
    <3>3. next \notin fetching
      BY <1>0 DEF Feed
    <3>4. QED
      BY <3>2, <3>3, FS_CardinalityType
  <2>2. Cardinality(fetching \cup {next}) = Cardinality(fetching) + 1
    BY <2>1, FS_AddElement
  <2>3. Feed'
    BY <1>0, <2>1, <2>2 DEF Feed
  <2>4. BlocksOnWay' /\ TxsOnWay' /\ Database'
    BY DEF BlocksOnWay, TxsOnWay, Database, txWork, database
  <2>5. QED
    BY <2>3, <2>4
<1>2. ASSUME NEW h \in Heights, HandOver(h) PROVE StateInv'
  <2> USE <1>2 DEF HandOver, Fault
  <2>1. IsFiniteSet(fetching) /\ Cardinality(fetching) \in Nat
    <3>1. IsFiniteSet(base .. next - 1)
      BY <1>0, FS_Interval DEF Feed
    <3>2. IsFiniteSet(fetching)
      BY <1>0, <3>1, FS_Subset DEF Feed
    <3>3. QED
      BY <3>2, FS_CardinalityType
  <2>2. Cardinality(fetching \ {h}) = Cardinality(fetching) - 1
    BY <2>1, FS_RemoveElement
  <2>3. Feed'
    BY <1>0, <2>1, <2>2 DEF Feed
  <2>4. PICK b \in Genuine : block_processing' = Append(block_processing, b)
    BY Blocks
  <2>5. BlocksOnWay'
    <3>1. block_processing' \in Seq(Genuine) /\ Len(block_processing') = Len(block_processing) + 1
      BY <2>4, Queues DEF BlocksOnWay
    <3>2. Len(block_processing) \in Nat
      BY Queues DEF BlocksOnWay
    <3>3. QED
      BY <1>0, <3>1, <3>2 DEF BlocksOnWay, txWork
  <2>6. TxsOnWay' /\ Database'
    BY DEF TxsOnWay, Database, txWork, database
  <2>7. QED
    BY <2>3, <2>5, <2>6
<1>3. CASE StoreAchieved
  <2> USE <1>3 DEF StoreAchieved
  <2>1. Database'
    BY <1>0 DEF Database
  <2>2. Feed' /\ BlocksOnWay' /\ TxsOnWay'
    BY DEF Feed, BlocksOnWay, TxsOnWay, txWork, feed
  <2>3. QED
    BY <2>1, <2>2
<1>4. CASE WorkOnBlocks
  <2> USE <1>4 DEF WorkOnBlocks
  <2>1. /\ Head(block_processing) \in Genuine /\ Tail(block_processing) \in Seq(Genuine)
        /\ Len(Tail(block_processing)) = Len(block_processing) - 1
        /\ Len(block_processing) \in Nat /\ Len(transaction_processing) \in Nat
    BY Queues DEF BlocksOnWay
  <2>2. /\ transaction_processing' \in Seq(Genuine)
        /\ Len(transaction_processing') <= QueueSize
    <3>1. PICK b \in Genuine : b = Head(block_processing)
      BY <2>1
    <3>2. \/ UNCHANGED transaction_processing
          \/ /\ Len(transaction_processing) < QueueSize
             /\ transaction_processing' = Append(transaction_processing, b)
      BY <3>1
    <3>3. QED
      BY <3>2, SentTo DEF BlocksOnWay
  <2>3. BlocksOnWay'
    BY <1>0, <2>1, <2>2 DEF BlocksOnWay, txWork
  <2>4. Feed' /\ TxsOnWay' /\ Database'
    BY DEF Feed, TxsOnWay, Database, txWork, database, feed
  <2>5. QED
    BY <2>3, <2>4
<1>5. ASSUME NEW w \in TxWorkers, Operate(w) PROVE StateInv'
  <2> USE <1>5 DEF Operate
  <2>1. PICK b : b = Head(transaction_processing)
    OBVIOUS
  <2>2. /\ b \in Genuine /\ Tail(transaction_processing) \in Seq(Genuine)
        /\ Len(Tail(transaction_processing)) = Len(transaction_processing) - 1
        /\ Len(transaction_processing) \in Nat
    BY <2>1, Queues DEF BlocksOnWay
  <2>3. 0 .. BatchCount(b.hashes) - 1 \in SUBSET Nat
    OBVIOUS
  <2>4. job' = [job EXCEPT ![w] = b] /\ pending' = [pending EXCEPT ![w] = 0 .. BatchCount(b.hashes) - 1]
    BY <2>1
  <2>5. job' \in [TxWorkers -> Genuine \cup {NoBlock}] /\ pending' \in [TxWorkers -> SUBSET Nat]
    BY <2>2, <2>3, <2>4 DEF BlocksOnWay
  <2>6. \A v \in TxWorkers : pending'[v] \subseteq 0 .. BatchCount(job'[v].hashes) - 1
    <3>1. ASSUME NEW v \in TxWorkers, v # w
          PROVE  pending'[v] = pending[v] /\ job'[v] = job[v]
      BY <2>4, <3>1 DEF BlocksOnWay
    <3>2. pending'[w] = 0 .. BatchCount(b.hashes) - 1 /\ job'[w] = b
      BY <2>4 DEF BlocksOnWay
    <3>3. QED
      BY <3>1, <3>2 DEF BlocksOnWay
  <2>7. transaction_processing' \in Seq(Genuine) /\ Len(transaction_processing') <= QueueSize
    BY <1>0, <2>2 DEF BlocksOnWay
  <2>8. block_processing' \in Seq(Genuine) /\ Len(block_processing') <= QueueSize
    BY DEF BlocksOnWay
  <2>9. BlocksOnWay'
    BY <2>5, <2>6, <2>7, <2>8 DEF BlocksOnWay
  <2>10. Feed' /\ TxsOnWay' /\ Database'
    BY DEF Feed, TxsOnWay, Database, database, feed
  <2>11. QED
    BY <2>9, <2>10
<1>6. ASSUME NEW w \in TxWorkers, NEW batch \in pending[w], Batching(w, batch) PROVE StateInv'
  <2> USE <1>6 DEF Batching, Fault
  <2>1. job[w] \in Genuine /\ batch \in 0 .. BatchCount(job[w].hashes) - 1
    BY Blocks DEF BlocksOnWay
  <2>2. PICK b \in Genuine : b = job[w]
    BY <2>1
  <2>3. PICK part \in Seq(Txs) : /\ part = BatchHashes(b.hashes, batch)
                                 /\ ToSet(part) \subseteq ToSet(b.hashes)
    BY <2>1, <2>2, BatchFacts
  <2>4. b.height \in Heights /\ ToSet(part) \subseteq ToSet(Block[b.height])
    <3>1. b.hashes \in {<<>>, Block[b.height]} /\ b.height \in Heights
      BY GenuineFacts DEF Genuine
    <3>2. ToSet(<<>>) = {}
      BY DEF ToSet
    <3>3. QED
      BY <2>3, <3>1, <3>2
  <2>5. BlocksOnWay'
    <3>1. pending' \in [TxWorkers -> SUBSET Nat]
      BY DEF BlocksOnWay
    <3>2. \A v \in TxWorkers : pending'[v] \subseteq pending[v]
      BY DEF BlocksOnWay
    <3>3. QED
      BY <3>1, <3>2 DEF BlocksOnWay
  <2>6. TxsOnWay'
    <3>1. CASE UNCHANGED listener
      BY <3>1 DEF TxsOnWay, database
    <3>2. CASE listener' = [listener EXCEPT ![b.height] = @ \o part]
      <4>1. PICK g : g = listener[b.height] \o part
        OBVIOUS
      <4>2. g \in Seq(Txs) /\ ToSet(g) \subseteq ToSet(listener[b.height]) \cup ToSet(part)
        <5>1. PICK q \in Seq(Txs) : q = listener[b.height]
          BY <2>4 DEF TxsOnWay
        <5>2. /\ q \o part \in Seq(Txs) /\ Len(q \o part) = Len(q) + Len(part)
              /\ \A i \in 1 .. Len(q) : (q \o part)[i] = q[i]
              /\ \A i \in 1 .. Len(part) : (q \o part)[Len(q) + i] = part[i]
          BY ConcatProperties
        <5>3. Len(q) \in Nat /\ Len(part) \in Nat
          BY LenProperties
        <5>4. ASSUME NEW i \in 1 .. Len(g) PROVE g[i] \in ToSet(q) \cup ToSet(part)
          <6>1. CASE i <= Len(q)
            BY <4>1, <5>1, <5>2, <5>3, <5>4, <6>1 DEF ToSet
          <6>2. CASE i > Len(q)
            <7>1. PICK j \in 1 .. Len(part) : i = Len(q) + j
              BY <4>1, <5>1, <5>2, <5>3, <5>4, <6>2, i - Len(q) \in 1 .. Len(part)
            <7>2. QED
              BY <4>1, <5>1, <5>2, <7>1 DEF ToSet
          <6>3. QED
            BY <5>2, <5>3, <5>4, <6>1, <6>2
        <5>5. QED
          BY <4>1, <5>1, <5>2, <5>4 DEF ToSet
      <4>3. listener' = [listener EXCEPT ![b.height] = g]
        BY <3>2, <4>1
      <4>4. listener' \in [Heights -> Seq(Txs)]
        BY <4>2, <4>3 DEF TxsOnWay
      <4>5. \A h \in Heights : ToSet(listener'[h]) \subseteq ToSet(Block[h])
        BY <2>4, <4>2, <4>3 DEF TxsOnWay
      <4>6. QED
        BY <4>4, <4>5 DEF TxsOnWay, database
    <3>3. QED
      BY <2>2, <2>3, <3>1, <3>2
  <2>7. Feed' /\ Database'
    <3>1. faults' = faults \/ (faults < MaxFaults /\ faults' = faults + 1)
      OBVIOUS
    <3>2. faults' \in 0 .. MaxFaults
      BY <3>1, FaultBound DEF Feed
    <3>3. QED
      BY <3>2 DEF Feed, Database, database, feed
  <2>8. QED
    BY <2>5, <2>6, <2>7
<1>7. ASSUME NEW w \in TxWorkers, Operated(w) PROVE StateInv'
  <2> USE <1>7 DEF Operated
  <2>1. job' \in [TxWorkers -> Genuine \cup {NoBlock}]
    BY DEF BlocksOnWay
  <2>2. \A v \in TxWorkers : pending[v] \subseteq 0 .. BatchCount(job'[v].hashes) - 1
    BY DEF BlocksOnWay
  <2>3. BlocksOnWay'
    BY <2>1, <2>2 DEF BlocksOnWay
  <2>4. Feed' /\ TxsOnWay' /\ Database'
    BY DEF Feed, TxsOnWay, Database, database, feed
  <2>5. QED
    BY <2>3, <2>4
<1>8. ASSUME NEW h \in Heights, HandleTx(h) PROVE StateInv'
  <2> USE <1>8 DEF HandleTx
  <2>1. PICK q \in Seq(Txs) : q = listener[h] /\ q # <<>>
    BY DEF TxsOnWay
  <2>2. /\ Head(q) \in Txs /\ Tail(q) \in Seq(Txs) /\ Head(q) = q[1]
        /\ Len(Tail(q)) = Len(q) - 1 /\ Len(q) \in Nat
        /\ \A i \in 1 .. Len(Tail(q)) : Tail(q)[i] = q[i + 1]
    BY <2>1, HeadTailProperties, LenProperties
  <2>3. ToSet(Tail(q)) \subseteq ToSet(q)
    BY <2>2 DEF ToSet
  <2>4. PICK rest : rest = Tail(q)
    OBVIOUS
  <2>5. listener' = [listener EXCEPT ![h] = rest]
    BY <2>1, <2>4
  <2>6. /\ listener' \in [Heights -> Seq(Txs)]
        /\ \A k \in Heights : ToSet(listener'[k]) \subseteq ToSet(Block[k])
    BY <2>1, <2>2, <2>3, <2>4, <2>5 DEF TxsOnWay
  <2>7. scid_processing' \in Seq(Txs \ Counted) /\ Len(scid_processing') <= QueueSize
    <3>1. Len(scid_processing) \in Nat
      BY Queues DEF TxsOnWay
    <3>2. PICK x : x = Head(q)
      OBVIOUS
    <3>3. CASE UNCHANGED scid_processing
      BY <3>3, Queues DEF TxsOnWay
    <3>4. CASE x \notin Counted \cup Ignored /\ scid_processing' # scid_processing
      <4>1. x \in Txs \ Counted /\ scid_processing' = Append(scid_processing, x) /\ Len(scid_processing) < QueueSize
        BY <2>1, <2>2, <3>2, <3>4
      <4>2. scid_processing' \in Seq(Txs \ Counted) /\ Len(scid_processing') = Len(scid_processing) + 1
        BY <4>1, Queues DEF TxsOnWay
      <4>3. QED
        BY <1>0, <3>1, <4>1, <4>2
    <3>5. QED
      BY <2>1, <3>2, <3>3, <3>4
  <2>8. settled' \subseteq Txs /\ holding_queue' \in Nat
    BY <2>1, <2>2 DEF TxsOnWay, Database
  <2>9. TxsOnWay'
    BY <2>6, <2>7, <2>8 DEF TxsOnWay, database
  <2>10. Feed' /\ BlocksOnWay' /\ Database'
    BY <2>8 DEF Feed, BlocksOnWay, Database, database, feed
  <2>11. QED
    BY <2>9, <2>10
<1>9. CASE WorkOnScids
  <2> USE <1>9 DEF WorkOnScids, Fault, StoreInvalidSCIDDeploys
  <2>1. PICK x : x = Head(scid_processing)
    OBVIOUS
  <2>2. /\ x \in Txs \ Counted /\ scid_processing' \in Seq(Txs \ Counted)
        /\ Len(scid_processing') <= QueueSize
    <3>1. /\ x \in Txs \ Counted /\ scid_processing' \in Seq(Txs \ Counted)
          /\ Len(scid_processing') = Len(scid_processing) - 1 /\ Len(scid_processing) \in Nat
      BY <2>1, Queues DEF TxsOnWay
    <3>2. QED
      BY <1>0, <3>1 DEF TxsOnWay
  <2>3. scid_db_queue' \in Seq(Valid) /\ Len(scid_db_queue') <= QueueSize
    <3>2. \/ UNCHANGED scid_db_queue
          \/ x \in Valid /\ Len(scid_db_queue) < QueueSize /\ scid_db_queue' = Append(scid_db_queue, x)
      BY <2>1
    <3>3. QED
      BY <3>2, SentTo DEF TxsOnWay
  <2>4. settled' \subseteq Txs /\ invalid' \subseteq Installs /\ faults' \in 0 .. MaxFaults
    BY <1>0, <2>1, <2>2 DEF TxsOnWay, Database, Feed
  <2>5. TxsOnWay'
    BY <2>2, <2>3, <2>4 DEF TxsOnWay, txWork
  <2>6. Feed' /\ BlocksOnWay' /\ Database'
    BY <2>4 DEF Feed, BlocksOnWay, Database, txWork, feed
  <2>7. QED
    BY <2>5, <2>6
<1>10. CASE WriterAdd
  <2> USE <1>10 DEF WriterAdd
  <2>1. PICK x : x = Head(scid_db_queue)
    OBVIOUS
  <2>2. x \in Valid /\ scid_db_queue' \in Seq(Valid) /\ Len(scid_db_queue') <= QueueSize
    <3>1. /\ x \in Valid /\ scid_db_queue' \in Seq(Valid)
          /\ Len(scid_db_queue') = Len(scid_db_queue) - 1 /\ Len(scid_db_queue) \in Nat
      BY <2>1, Queues DEF TxsOnWay
    <3>2. QED
      BY <1>0, <3>1 DEF TxsOnWay
  <2>3. indexed' \subseteq Valid /\ writer' \in [step : {"counts", "height"}, tx : indexed']
    BY <2>1, <2>2 DEF Database
  <2>4. TxsOnWay'
    BY <2>2, <2>3 DEF TxsOnWay, txWork
  <2>5. Feed' /\ BlocksOnWay' /\ Database'
    BY <2>3 DEF Feed, BlocksOnWay, Database, txWork, feed
  <2>6. QED
    BY <2>4, <2>5
<1>11. CASE WriterCounts
  <2> USE <1>11 DEF WriterCounts
  <2>1. writer \in [step : {"counts", "height"}, tx : indexed]
    BY DEF TxsOnWay, Idle
  <2>2. writer' \in [step : {"counts", "height"}, tx : indexed']
    BY <2>1
  <2>3. TxsOnWay'
    BY <2>2 DEF TxsOnWay, txWork
  <2>4. Feed' /\ BlocksOnWay' /\ Database'
    BY DEF Feed, BlocksOnWay, Database, txWork, feed
  <2>5. QED
    BY <2>3, <2>4
<1>12. CASE WriterHeight
  <2> USE <1>12 DEF WriterHeight
  <2>1. writer \in [step : {"counts", "height"}, tx : indexed]
    BY DEF TxsOnWay, Idle
  <2>2. writer.tx \in Txs /\ HeightOf(writer.tx) \in 0 .. Top
    <3>1. writer.tx \in Txs
      BY <2>1, PipelineAssumption DEF Database
    <3>2. QED
      BY <1>0, <3>1, HeightFacts DEF Heights
  <2>3. TxsOnWay'
    BY <2>2 DEF TxsOnWay, txWork
  <2>4. Feed' /\ BlocksOnWay' /\ Database'
    BY <2>2 DEF Feed, BlocksOnWay, Database, txWork, feed
  <2>5. QED
    BY <2>3, <2>4
<1>13. CASE Stop
  <2> USE <1>13 DEF Stop
  <2>1. Feed'
    <3>1. ResumeHeight \in 0 .. Top
      BY <1>0 DEF Database, ResumeHeight, Lesser
    <3>2. QED
      BY <1>0, <3>1, FS_EmptySet DEF Feed
  <2>2. BlocksOnWay'
    <3>1. /\ job' \in [TxWorkers -> Genuine \cup {NoBlock}]
          /\ pending' \in [TxWorkers -> SUBSET Nat] /\ \A w \in TxWorkers : pending'[w] = {}
      BY DEF NoJobs, NoBatches
    <3>2. QED
      BY <1>0, <3>1 DEF BlocksOnWay
  <2>3. TxsOnWay'
    <3>1. listener' \in [Heights -> Seq(Txs)] /\ \A h \in Heights : listener'[h] = <<>>
      BY DEF NothingHeard
    <3>2. \A h \in Heights : ToSet(listener'[h]) = {}
      BY <3>1 DEF ToSet
    <3>3. QED
      BY <1>0, <3>1, <3>2 DEF TxsOnWay
  <2>4. Database'
    BY DEF Database, database
  <2>5. QED
    BY <2>1, <2>2, <2>3, <2>4
<1>14. CASE UNCHANGED vars
  BY <1>14 DEF Feed, BlocksOnWay, TxsOnWay, Database, vars, feed, txWork, database
<1>15. QED
  BY <1>1, <1>2, <1>3, <1>4, <1>5, <1>6, <1>7, <1>8, <1>9, <1>10, <1>11, <1>12, <1>13, <1>14
  DEF Next, Run, Writer, TxWorker

-----------------------------------------------------------------------------
(* Where a transaction is                                                  *)

\* The places are counted by natural numbers.
Numbers(t) ==
    /\ NFetch(t) \in Nat /\ NBlock(t) \in Nat /\ NTx(t) \in Nat /\ NBatch(t) \in Nat
    /\ NHeard(t) \in Nat /\ NScid(t) \in Nat /\ NQueue(t) \in Nat /\ NWriter(t) \in Nat
    /\ NDone(t) \in Nat

\* A transaction is in finitely many places of each kind.
LEMMA NumbersHold == ASSUME StateInv, NEW t \in Txs PROVE Numbers(t) /\ IsFiniteSet(InBatch(t))
<1> USE DEF StateInv
<1>1. NBlock(t) \in Nat /\ NTx(t) \in Nat
  BY CountType DEF BlocksOnWay, NBlock, NTx
<1>2. NHeard(t) \in Nat
  <2>1. listener[HeightOf(t)] \in Seq(Txs)
    BY HeightFacts DEF TxsOnWay
  <2>2. QED
    BY <2>1, CountType DEF NHeard
<1>3. NScid(t) \in Nat /\ NQueue(t) \in Nat
  BY CountType DEF TxsOnWay, NScid, NQueue
<1>4. IsFiniteSet(InBatch(t)) /\ NBatch(t) \in Nat
  <2>1. IsFiniteSet(TxWorkers)
    BY PipelineAssumption, FS_Interval DEF TxWorkers
  <2>2. IsFiniteSet(InBatch(t))
    BY <2>1, FS_Subset DEF InBatch
  <2>3. QED
    BY <2>2, FS_CardinalityType DEF NBatch
<1>5. NFetch(t) \in Nat /\ NWriter(t) \in Nat /\ NDone(t) \in Nat
  BY DEF NFetch, NWriter, NDone, One
<1>6. QED
  BY <1>1, <1>2, <1>3, <1>4, <1>5 DEF Numbers

\* A place that a step leaves alone holds what it held.
LEMMA Unmoved ==
    ASSUME NEW t
    PROVE  /\ UNCHANGED fetching => NFetch(t)' = NFetch(t)
           /\ UNCHANGED block_processing => NBlock(t)' = NBlock(t)
           /\ UNCHANGED transaction_processing => NTx(t)' = NTx(t)
           /\ UNCHANGED <<job, pending>> => NBatch(t)' = NBatch(t)
           /\ UNCHANGED listener => NHeard(t)' = NHeard(t)
           /\ UNCHANGED scid_processing => NScid(t)' = NScid(t)
           /\ UNCHANGED scid_db_queue => NQueue(t)' = NQueue(t)
           /\ UNCHANGED writer => NWriter(t)' = NWriter(t)
           /\ UNCHANGED settled => NDone(t)' = NDone(t)
<1>1. UNCHANGED fetching => NFetch(t)' = NFetch(t)
  BY DEF NFetch
<1>2. UNCHANGED block_processing => NBlock(t)' = NBlock(t)
  BY DEF NBlock
<1>3. UNCHANGED transaction_processing => NTx(t)' = NTx(t)
  BY DEF NTx
<1>4. UNCHANGED <<job, pending>> => NBatch(t)' = NBatch(t)
  BY DEF NBatch, InBatch
<1>5. UNCHANGED listener => NHeard(t)' = NHeard(t)
  BY DEF NHeard
<1>6. UNCHANGED scid_processing => NScid(t)' = NScid(t)
  BY DEF NScid
<1>7. UNCHANGED scid_db_queue => NQueue(t)' = NQueue(t)
  BY DEF NQueue
<1>8. UNCHANGED writer => NWriter(t)' = NWriter(t)
  BY DEF NWriter
<1>9. UNCHANGED settled => NDone(t)' = NDone(t)
  BY DEF NDone
<1>10. QED
  BY <1>1, <1>2, <1>3, <1>4, <1>5, <1>6, <1>7, <1>8, <1>9

\* A transaction that is settled was not settled before: it is in one place.
LEMMA Settling ==
    ASSUME NEW t, NEW x, t \notin settled \/ x # t, settled' = settled \cup {x}
    PROVE  NDone(t)' = NDone(t) + One(x \in {t})
  BY DEF NDone, One

\* The steps of handle_height_task and work_on_blocks.
LEMMA MovesBlocks ==
    ASSUME StateInv, NEW t \in Txs, (\E h \in Heights : HandOver(h)) \/ WorkOnBlocks
    PROVE  /\ Weight(t)' <= Weight(t) /\ (faults' = faults => Weight(t)' = Weight(t))
           /\ UNCHANGED <<base, next>> /\ faults' >= faults
<1> USE DEF StateInv
<1>1. Numbers(t) /\ faults \in Nat
  BY NumbersHold DEF Feed
<1>2. ASSUME NEW h \in Heights, HandOver(h)
      PROVE  /\ Weight(t)' <= Weight(t) /\ (faults' = faults => Weight(t)' = Weight(t))
             /\ UNCHANGED <<base, next>> /\ faults' >= faults
  <2> DEFINE here == One(HeightOf(t) = h)
  <2>1. PICK b \in Genuine :
           /\ block_processing' = Append(block_processing, b) /\ b.height = h
           /\ b.hashes = Block[h] \/ faults' # faults
    <3>1. CASE block_processing' = Append(block_processing, [height |-> h, hashes |-> Block[h]])
      BY <3>1, Blocks
    <3>2. CASE Fault /\ block_processing' = Append(block_processing, [height |-> h, hashes |-> <<>>])
      <4>1. faults' # faults
        BY <1>1, <3>2 DEF Fault
      <4>2. QED
        BY <3>2, <4>1, Blocks
    <3>3. QED
      BY <1>2, <3>1, <3>2 DEF HandOver
  <2>2. NFetch(t) = NFetch(t)' + here
    BY <1>2 DEF HandOver, NFetch, One
  <2>3. NBlock(t)' = NBlock(t) + One(b \in With(t))
    BY <2>1, CountAppend DEF NBlock, BlocksOnWay
  <2>4. One(b \in With(t)) \in Nat /\ One(b \in With(t)) <= here
    BY <2>1, GenuineFacts DEF With, One
  <2>5. faults' = faults => One(b \in With(t)) = here
    BY <2>1, GenuineFacts, HeightFacts DEF With, One
  <2>6. /\ NTx(t)' = NTx(t) /\ NBatch(t)' = NBatch(t) /\ NHeard(t)' = NHeard(t)
        /\ NScid(t)' = NScid(t) /\ NQueue(t)' = NQueue(t) /\ NWriter(t)' = NWriter(t)
        /\ NDone(t)' = NDone(t)
    BY <1>2, Unmoved DEF HandOver, txWork
  <2>7. here \in Nat
    BY DEF One
  <2>8. UNCHANGED <<base, next>> /\ faults' >= faults
    BY <1>1, <1>2 DEF HandOver, Fault
  <2>9. NFetch(t)' \in Nat
    BY DEF NFetch, One
  <2> HIDE DEF here
  <2>10. QED
    BY <1>1, <2>2, <2>3, <2>4, <2>5, <2>6, <2>7, <2>8, <2>9 DEF Weight, Numbers
<1>3. CASE WorkOnBlocks
  <2>1. PICK b : b = Head(block_processing)
    OBVIOUS
  <2>2. PICK rest : rest = Tail(block_processing)
    OBVIOUS
  <2>3. /\ b \in Genuine /\ rest \in Seq(Genuine)
        /\ Count(block_processing, With(t)) = One(b \in With(t)) + Count(rest, With(t))
    BY <1>3, <2>1, <2>2, CountTail DEF WorkOnBlocks, BlocksOnWay
  <2>4. NBlock(t) = One(b \in With(t)) + NBlock(t)' /\ NBlock(t)' \in Nat
    BY <1>3, <2>2, <2>3, CountType DEF WorkOnBlocks, NBlock
  <2>5. NTx(t)' = NTx(t) + One(b \in With(t))
    <3>1. CASE b.hashes = <<>>
      <4>1. b \notin With(t)
        BY <3>1 DEF With, ToSet
      <4>2. UNCHANGED transaction_processing
        BY <1>3, <2>1, <3>1 DEF WorkOnBlocks
      <4>3. QED
        BY <1>1, <4>1, <4>2, Unmoved DEF One, Numbers
    <3>2. CASE b.hashes # <<>>
      <4>1. transaction_processing' = Append(transaction_processing, b)
        BY <1>3, <2>1, <3>2 DEF WorkOnBlocks
      <4>2. QED
        BY <2>3, <4>1, CountAppend DEF NTx, BlocksOnWay
    <3>3. QED
      BY <3>1, <3>2
  <2>6. /\ NFetch(t)' = NFetch(t) /\ NBatch(t)' = NBatch(t) /\ NHeard(t)' = NHeard(t)
        /\ NScid(t)' = NScid(t) /\ NQueue(t)' = NQueue(t) /\ NWriter(t)' = NWriter(t)
        /\ NDone(t)' = NDone(t)
    BY <1>3, Unmoved DEF WorkOnBlocks, txWork, feed
  <2>7. One(b \in With(t)) \in Nat
    BY DEF One
  <2>8. UNCHANGED <<base, next>> /\ faults' >= faults
    BY <1>1, <1>3 DEF WorkOnBlocks, feed
  <2>9. QED
    BY <1>1, <2>4, <2>5, <2>6, <2>7, <2>8 DEF Weight, Numbers
<1>4. QED
  BY <1>2, <1>3

\* A tx worker has t in a batch if an unanswered batch of its block has it.
LEMMA BatchHolder ==
    ASSUME NEW t
    PROVE  /\ \A v \in TxWorkers : v \in InBatch(t) <=>
                 \E b \in pending[v] : t \in ToSet(BatchHashes(job[v].hashes, b))
           /\ \A v \in TxWorkers : v \in InBatch(t)' <=>
                 \E b \in pending'[v] : t \in ToSet(BatchHashes(job'[v].hashes, b))
           /\ InBatch(t) \subseteq TxWorkers /\ InBatch(t)' \subseteq TxWorkers
  BY DEF InBatch

\* The steps of a tx worker.  Only the last batch of a block has transactions,
\* and if the block is no longer than a batch it has all of them.
LEMMA MovesBatches ==
    ASSUME StateInv, NEW t \in Txs, NEW w \in TxWorkers, TxWorker(w)
    PROVE  /\ Weight(t)' <= Weight(t)
           /\ SmallBlocks /\ faults' = faults => Weight(t)' = Weight(t)
           /\ UNCHANGED <<base, next>> /\ faults' >= faults
<1> USE DEF StateInv
<1> DEFINE Goal == /\ Weight(t)' <= Weight(t)
                   /\ SmallBlocks /\ faults' = faults => Weight(t)' = Weight(t)
                   /\ UNCHANGED <<base, next>> /\ faults' >= faults
<1>1. Numbers(t) /\ faults \in Nat /\ IsFiniteSet(InBatch(t))
  BY NumbersHold DEF Feed
<1>2. CASE Operate(w)
  <2>1. PICK b : b = Head(transaction_processing)
    OBVIOUS
  <2>2. PICK rest : rest = Tail(transaction_processing)
    OBVIOUS
  <2>3. /\ b \in Genuine /\ rest \in Seq(Genuine)
        /\ Count(transaction_processing, With(t)) = One(b \in With(t)) + Count(rest, With(t))
    BY <1>2, <2>1, <2>2, CountTail DEF Operate, BlocksOnWay
  <2>4. NTx(t) = One(b \in With(t)) + NTx(t)' /\ NTx(t)' \in Nat
    BY <1>2, <2>2, <2>3, CountType DEF Operate, NTx
  <2>5. /\ job'[w] = b /\ pending'[w] = 0 .. BatchCount(b.hashes) - 1
        /\ \A v \in TxWorkers \ {w} : job'[v] = job[v] /\ pending'[v] = pending[v]
    BY <1>2, <2>1 DEF Operate, BlocksOnWay
  <2>6. pending[w] = {}
    <3>1. pending[w] \subseteq 0 .. 0 - 1
      BY <1>2, Blocks DEF Operate, BlocksOnWay
    <3>2. QED
      BY <3>1
  <2>7. w \notin InBatch(t) /\ InBatch(t)' \ {w} = InBatch(t)
    BY <2>5, <2>6, BatchHolder
  <2>8. NBatch(t)' = NBatch(t) + One(w \in InBatch(t)')
    <3>1. CASE w \in InBatch(t)'
      <4>1. InBatch(t)' = InBatch(t) \cup {w}
        BY <2>7, <3>1
      <4>2. Cardinality(InBatch(t) \cup {w}) = Cardinality(InBatch(t)) + 1
        BY <1>1, <2>7, FS_AddElement
      <4>3. QED
        BY <3>1, <4>1, <4>2 DEF NBatch, One
    <3>2. CASE w \notin InBatch(t)'
      <4>1. InBatch(t)' = InBatch(t)
        BY <2>7, <3>2
      <4>2. QED
        BY <1>1, <3>2, <4>1 DEF NBatch, One, Numbers
    <3>3. QED
      BY <3>1, <3>2
  <2>9. w \in InBatch(t)' => b \in With(t)
    <3>1. ASSUME w \in InBatch(t)' PROVE b \in With(t)
      <4>1. PICK k \in 0 .. BatchCount(b.hashes) - 1 : t \in ToSet(BatchHashes(b.hashes, k))
        BY <2>5, <3>1, BatchHolder
      <4>2. t \in ToSet(b.hashes)
        BY <2>3, <4>1, BatchFacts
      <4>3. QED
        BY <2>3, <4>2 DEF With, Genuine
    <3>2. QED
      BY <3>1
  <2>10. SmallBlocks /\ b \in With(t) => w \in InBatch(t)'
    <3>1. ASSUME SmallBlocks, b \in With(t) PROVE w \in InBatch(t)'
      <4>1. t \in ToSet(b.hashes) /\ b.hashes # <<>>
        BY <3>1 DEF With, ToSet
      <4>2. b.hashes \in Seq(Txs) /\ Len(b.hashes) <= batch_size
        BY <2>3, <3>1, <4>1, GenuineFacts DEF Genuine, SmallBlocks
      <4>3. BatchCount(b.hashes) = 1
        BY <4>1, <4>2, BatchCountFacts
      <4>4. 0 \in 0 .. BatchCount(b.hashes) - 1
        BY <4>3
      <4>5. BatchHashes(b.hashes, 0) = b.hashes
        BY <2>3, <4>2, <4>4, BatchFacts
      <4>6. QED
        BY <2>5, <4>1, <4>4, <4>5, BatchHolder
    <3>2. QED
      BY <3>1
  <2>11. /\ NFetch(t)' = NFetch(t) /\ NBlock(t)' = NBlock(t) /\ NHeard(t)' = NHeard(t)
         /\ NScid(t)' = NScid(t) /\ NQueue(t)' = NQueue(t) /\ NWriter(t)' = NWriter(t)
         /\ NDone(t)' = NDone(t) /\ UNCHANGED <<base, next>> /\ faults' = faults
    BY <1>2, Unmoved DEF Operate, feed
  <2>12. /\ One(w \in InBatch(t)') \in Nat /\ One(b \in With(t)) \in Nat
         /\ One(w \in InBatch(t)') <= One(b \in With(t))
         /\ SmallBlocks => One(w \in InBatch(t)') = One(b \in With(t))
    BY <2>9, <2>10 DEF One
  <2>13. QED
    BY <1>1, <2>4, <2>8, <2>11, <2>12 DEF Weight, Numbers
<1>3. ASSUME NEW batch \in pending[w], Batching(w, batch) PROVE Goal
  <2>1. job[w] \in Genuine /\ pending[w] \subseteq 0 .. BatchCount(job[w].hashes) - 1
    BY <1>3, Blocks DEF BlocksOnWay
  <2>2. PICK b \in Genuine : b = job[w]
    BY <2>1
  <2>3. PICK part : part = BatchHashes(b.hashes, batch)
    OBVIOUS
  <2>4. /\ part \in Seq(Txs) /\ ToSet(part) \subseteq ToSet(b.hashes)
        /\ Count(part, {t}) = One(t \in ToSet(part))
        /\ \A k \in pending[w] : k # BatchCount(b.hashes) - 1 => ToSet(BatchHashes(b.hashes, k)) = {}
    BY <2>1, <2>2, <2>3, BatchFacts
  <2>5. /\ job' = job /\ pending'[w] = pending[w] \ {batch}
        /\ \A v \in TxWorkers \ {w} : pending'[v] = pending[v]
    BY <1>3 DEF Batching, BlocksOnWay
  <2>6. InBatch(t)' \ {w} = InBatch(t) \ {w}
    BY <2>5, BatchHolder
  <2>7. t \in ToSet(part) => w \in InBatch(t) /\ w \notin InBatch(t)'
    <3>1. ASSUME t \in ToSet(part) PROVE w \in InBatch(t) /\ w \notin InBatch(t)'
      <4>1. batch = BatchCount(b.hashes) - 1
        BY <2>3, <2>4, <3>1
      <4>2. \A k \in pending[w] \ {batch} : t \notin ToSet(BatchHashes(b.hashes, k))
        BY <2>4, <4>1
      <4>3. QED
        BY <2>2, <2>3, <2>5, <3>1, <4>2, BatchHolder
    <3>2. QED
      BY <3>1
  <2>8. t \notin ToSet(part) => (w \in InBatch(t)' <=> w \in InBatch(t))
    BY <2>2, <2>3, <2>5, BatchHolder
  <2>9. NBatch(t) = NBatch(t)' + One(t \in ToSet(part)) /\ NBatch(t)' \in Nat
    <3>1. CASE t \in ToSet(part)
      <4>1. InBatch(t)' = InBatch(t) \ {w} /\ w \in InBatch(t)
        BY <2>6, <2>7, <3>1
      <4>2. Cardinality(InBatch(t) \ {w}) = Cardinality(InBatch(t)) - 1
        BY <1>1, <4>1, FS_RemoveElement
      <4>3. IsFiniteSet(InBatch(t) \ {w})
        BY <1>1, FS_Subset
      <4>4. Cardinality(InBatch(t) \ {w}) \in Nat
        BY <4>3, FS_CardinalityType
      <4>5. QED
        BY <1>1, <3>1, <4>1, <4>2, <4>4 DEF NBatch, One, Numbers
    <3>2. CASE t \notin ToSet(part)
      <4>1. InBatch(t)' = InBatch(t)
        BY <2>6, <2>8, <3>2
      <4>2. QED
        BY <1>1, <3>2, <4>1 DEF NBatch, One, Numbers
    <3>3. QED
      BY <3>1, <3>2
  <2>10. /\ One(t \in ToSet(part)) \in Nat
         /\ NHeard(t)' = NHeard(t) + (IF faults' = faults THEN One(t \in ToSet(part)) ELSE 0)
    <3>1. CASE Fault /\ UNCHANGED listener
      <4>1. faults' # faults
        BY <1>1, <3>1 DEF Fault
      <4>2. QED
        BY <1>1, <3>1, <4>1, Unmoved DEF One, Numbers
    <3>2. CASE listener' = [listener EXCEPT ![b.height] = @ \o part] /\ UNCHANGED faults
      <4>1. b.height \in Heights /\ HeightOf(t) \in Heights
        BY GenuineFacts, HeightFacts
      <4>2. PICK q \in Seq(Txs) : q = listener[b.height]
        BY <4>1 DEF TxsOnWay
      <4>3. CASE HeightOf(t) = b.height
        <5>1. listener'[HeightOf(t)] = q \o part
          BY <3>2, <4>1, <4>2, <4>3 DEF TxsOnWay
        <5>2. Count(q \o part, {t}) = Count(q, {t}) + Count(part, {t})
          BY <2>4, CountConcat
        <5>3. NHeard(t)' = NHeard(t) + One(t \in ToSet(part))
          BY <2>4, <4>2, <4>3, <5>1, <5>2 DEF NHeard
        <5>4. QED
          BY <3>2, <5>3 DEF One
      <4>4. CASE HeightOf(t) # b.height
        <5>1. t \notin ToSet(part)
          BY <2>4, <4>4, GenuineFacts
        <5>2. listener'[HeightOf(t)] = listener[HeightOf(t)]
          BY <3>2, <4>1, <4>4 DEF TxsOnWay
        <5>3. NHeard(t)' = NHeard(t)
          BY <5>2 DEF NHeard
        <5>4. QED
          BY <1>1, <5>1, <5>3 DEF One, Numbers
      <4>5. QED
        BY <4>3, <4>4
    <3>3. QED
      BY <1>3, <2>2, <2>3, <3>1, <3>2 DEF Batching
  <2>11. /\ NFetch(t)' = NFetch(t) /\ NBlock(t)' = NBlock(t) /\ NTx(t)' = NTx(t)
         /\ NScid(t)' = NScid(t) /\ NQueue(t)' = NQueue(t) /\ NWriter(t)' = NWriter(t)
         /\ NDone(t)' = NDone(t) /\ UNCHANGED <<base, next>>
    BY <1>3, Unmoved DEF Batching, feed
  <2>12. faults' >= faults
    <3>1. faults' = faults \/ faults' = faults + 1
      BY <1>3 DEF Batching, Fault
    <3>2. QED
      BY <1>1, <3>1
  <2>13. QED
    BY <1>1, <2>9, <2>10, <2>11, <2>12 DEF Weight, Numbers
<1>4. CASE Operated(w)
  <2>1. pending' = pending /\ pending[w] = {} /\ \A v \in TxWorkers \ {w} : job'[v] = job[v]
    BY <1>4 DEF Operated, BlocksOnWay
  <2>2. InBatch(t)' = InBatch(t)
    <3>1. \A v \in TxWorkers : v \in InBatch(t)' <=> v \in InBatch(t)
      BY <2>1, BatchHolder
    <3>2. QED
      BY <3>1, BatchHolder
  <2>3. NBatch(t)' = NBatch(t)
    BY <2>2 DEF NBatch
  <2>4. /\ NFetch(t)' = NFetch(t) /\ NBlock(t)' = NBlock(t) /\ NTx(t)' = NTx(t)
        /\ NHeard(t)' = NHeard(t) /\ NScid(t)' = NScid(t) /\ NQueue(t)' = NQueue(t)
        /\ NWriter(t)' = NWriter(t) /\ NDone(t)' = NDone(t)
        /\ UNCHANGED <<base, next>> /\ faults' = faults
    BY <1>4, Unmoved DEF Operated, feed
  <2>5. QED
    BY <1>1, <2>3, <2>4 DEF Weight, Numbers
<1>5. QED
  BY <1>2, <1>3, <1>4 DEF TxWorker

\* A transaction with a place in the pipeline is not settled.
LEMMA NotSettled ==
    ASSUME NEW t, Numbers(t), Weight(t) <= 1,
           NHeard(t) >= 1 \/ NScid(t) >= 1 \/ NWriter(t) >= 1
    PROVE  t \notin settled
<1>1. NDone(t) = 0
  <2>1. CASE NHeard(t) >= 1
    BY <2>1 DEF Weight, Numbers
  <2>2. CASE NScid(t) >= 1
    BY <2>2 DEF Weight, Numbers
  <2>3. CASE NWriter(t) >= 1
    BY <2>3 DEF Weight, Numbers
  <2>4. QED
    BY <2>1, <2>2, <2>3
<1>2. QED
  BY <1>1 DEF NDone, One

\* What the head of a listener's queue says about the places of t.
LEMMA HeadOfListener ==
    ASSUME StateInv, NEW t \in Txs, NEW h \in Heights, listener[h] # <<>>,
           listener' = [listener EXCEPT ![h] = Tail(@)]
    PROVE  /\ Head(listener[h]) \in Txs
           /\ NHeard(t) = One(Head(listener[h]) \in {t}) + NHeard(t)' /\ NHeard(t)' \in Nat
<1> USE DEF StateInv
<1>1. PICK q \in Seq(Txs) : q = listener[h] /\ q # <<>>
  BY DEF TxsOnWay
<1>2. PICK rest : rest = Tail(q)
  OBVIOUS
<1>3. PICK x : x = Head(q)
  OBVIOUS
<1>4. /\ x \in Txs /\ rest \in Seq(Txs) /\ Count(q, {t}) = One(x \in {t}) + Count(rest, {t})
  BY <1>1, <1>2, <1>3, CountTail
<1>5. listener' = [listener EXCEPT ![h] = rest] /\ HeightOf(t) \in Heights
  BY <1>1, <1>2, HeightFacts
<1>6. CASE HeightOf(t) = h
  <2>1. listener'[HeightOf(t)] = rest
    BY <1>5, <1>6 DEF TxsOnWay
  <2>2. NHeard(t)' = Count(rest, {t}) /\ NHeard(t) = Count(q, {t})
    BY <1>1, <1>6, <2>1 DEF NHeard
  <2>3. Count(rest, {t}) \in Nat
    BY <1>4, CountType
  <2>4. QED
    BY <1>1, <1>3, <1>4, <2>2, <2>3
<1>7. CASE HeightOf(t) # h
  <2>1. x # t
    <3>1. x = q[1] /\ 1 \in 1 .. Len(q)
      BY <1>1, <1>3, HeadTailProperties, EmptySeq, LenProperties
    <3>2. x \in ToSet(Block[h])
      BY <1>1, <3>1 DEF ToSet, TxsOnWay
    <3>3. QED
      BY <1>7, <3>2, HeightFacts
  <2>2. listener'[HeightOf(t)] = listener[HeightOf(t)]
    BY <1>5, <1>7 DEF TxsOnWay
  <2>3. NHeard(t)' = NHeard(t) /\ NHeard(t) \in Nat
    BY <2>2, NumbersHold DEF NHeard, Numbers
  <2>4. QED
    BY <1>1, <1>3, <1>4, <2>1, <2>3 DEF One
<1>8. QED
  BY <1>6, <1>7

\* The steps of handle_tx_task, work_on_scids and the writer.
LEMMA MovesTxs ==
    ASSUME StateInv, NEW t \in Txs, Weight(t) <= 1,
           (\E h \in Heights : HandleTx(h)) \/ WorkOnScids \/ Writer
    PROVE  /\ Weight(t)' <= Weight(t) /\ (faults' = faults => Weight(t)' = Weight(t))
           /\ UNCHANGED <<base, next>> /\ faults' >= faults
<1> USE DEF StateInv
<1> DEFINE Goal == /\ Weight(t)' <= Weight(t) /\ (faults' = faults => Weight(t)' = Weight(t))
                   /\ UNCHANGED <<base, next>> /\ faults' >= faults
<1>1. Numbers(t) /\ faults \in Nat
  BY NumbersHold DEF Feed
<1>2. ASSUME NEW h \in Heights, HandleTx(h) PROVE Goal
  <2>1. PICK x : x = Head(listener[h])
    OBVIOUS
  <2>2. x \in Txs /\ NHeard(t) = One(x \in {t}) + NHeard(t)' /\ NHeard(t)' \in Nat
    BY <1>2, <2>1, HeadOfListener DEF HandleTx
  <2>3. One(x \in {t}) \in Nat /\ (x = t => One(x \in {t}) = 1)
    BY DEF One
  <2>4. x = t => t \notin settled
    BY <1>1, <2>2, <2>3, NotSettled DEF Numbers
  <2>5. NScid(t)' + NDone(t)' = NScid(t) + NDone(t) + One(x \in {t})
    <3>1. CASE x \in Counted \cup Ignored
      <4>1. UNCHANGED scid_processing /\ settled' = settled \cup {x}
        BY <1>2, <2>1, <3>1, Sorts DEF HandleTx
      <4>2. NScid(t)' = NScid(t) /\ NDone(t)' = NDone(t) + One(x \in {t})
        BY <2>4, <4>1, Unmoved, Settling
      <4>3. QED
        BY <1>1, <2>3, <4>2 DEF Numbers
    <3>2. CASE x \notin Counted \cup Ignored
      <4>1. UNCHANGED settled /\ scid_processing' = Append(scid_processing, x) /\ x \in Txs \ Counted
        BY <1>2, <2>1, <2>2, <3>2 DEF HandleTx
      <4>2. Count(Append(scid_processing, x), {t}) = Count(scid_processing, {t}) + One(x \in {t})
        BY <4>1, CountAppend DEF TxsOnWay
      <4>3. NScid(t)' = NScid(t) + One(x \in {t}) /\ NDone(t)' = NDone(t)
        BY <4>1, <4>2, Unmoved DEF NScid
      <4>4. QED
        BY <1>1, <2>3, <4>3 DEF Numbers
    <3>3. QED
      BY <3>1, <3>2
  <2>6. /\ NFetch(t)' = NFetch(t) /\ NBlock(t)' = NBlock(t) /\ NTx(t)' = NTx(t)
        /\ NBatch(t)' = NBatch(t) /\ NQueue(t)' = NQueue(t) /\ NWriter(t)' = NWriter(t)
        /\ UNCHANGED <<base, next>> /\ faults' = faults
    BY <1>2, Unmoved DEF HandleTx, feed
  <2>7. NScid(t)' \in Int /\ NDone(t)' \in Int
    <3>1. NDone(t)' \in Int
      BY DEF NDone, One
    <3>2. StateInv'
      BY <1>2, StateStep DEF Next, Run
    <3>3. scid_processing' \in Seq(Txs \ Counted)
      BY <3>2 DEF TxsOnWay
    <3>4. Count(scid_processing', {t}) \in Nat
      BY <3>3, CountType
    <3>5. QED
      BY <3>1, <3>4 DEF NScid
  <2>8. QED
    BY <1>1, <2>2, <2>3, <2>5, <2>6, <2>7 DEF Weight, Numbers
<1>3. CASE WorkOnScids
  <2>1. PICK x : x = Head(scid_processing)
    OBVIOUS
  <2>2. PICK rest : rest = Tail(scid_processing)
    OBVIOUS
  <2>3. /\ x \in Txs \ Counted /\ rest \in Seq(Txs \ Counted)
        /\ Count(scid_processing, {t}) = One(x \in {t}) + Count(rest, {t})
    BY <1>3, <2>1, <2>2, CountTail DEF WorkOnScids, TxsOnWay
  <2>4. NScid(t) = One(x \in {t}) + NScid(t)' /\ NScid(t)' \in Nat
    BY <1>3, <2>2, <2>3, CountType DEF WorkOnScids, NScid
  <2>5. One(x \in {t}) \in Nat /\ (x = t => One(x \in {t}) = 1)
    BY DEF One
  <2>6. x = t => t \notin settled
    BY <1>1, <2>4, <2>5, NotSettled DEF Numbers
  <2>7. /\ NQueue(t)' \in Nat /\ NDone(t)' \in Nat
        /\ NQueue(t)' + NDone(t)' = NQueue(t) + NDone(t) + One(x \in {t})
    <3>1. NDone(t)' \in Nat
      BY DEF NDone, One
    <3>2. CASE UNCHANGED scid_db_queue /\ settled' = settled \cup {x}
      <4>1. NQueue(t)' = NQueue(t) /\ NDone(t)' = NDone(t) + One(x \in {t})
        BY <2>6, <3>2, Unmoved, Settling
      <4>2. QED
        BY <1>1, <2>5, <3>1, <4>1 DEF Numbers
    <3>3. CASE x \in Valid /\ UNCHANGED settled /\ scid_db_queue' = Append(scid_db_queue, x)
      <4>1. Count(Append(scid_db_queue, x), {t}) = Count(scid_db_queue, {t}) + One(x \in {t})
        BY <3>3, CountAppend DEF TxsOnWay
      <4>2. NQueue(t)' = NQueue(t) + One(x \in {t}) /\ NDone(t)' = NDone(t)
        BY <3>3, <4>1, Unmoved DEF NQueue
      <4>3. QED
        BY <1>1, <2>5, <3>1, <4>2 DEF Numbers
    <3>4. QED
      BY <1>3, <2>1, <3>2, <3>3 DEF WorkOnScids
  <2>8. /\ NFetch(t)' = NFetch(t) /\ NBlock(t)' = NBlock(t) /\ NTx(t)' = NTx(t)
        /\ NBatch(t)' = NBatch(t) /\ NHeard(t)' = NHeard(t) /\ NWriter(t)' = NWriter(t)
        /\ UNCHANGED <<base, next>>
    BY <1>3, Unmoved DEF WorkOnScids, feed, txWork
  <2>9. faults' >= faults
    <3>1. faults' = faults \/ faults' = faults + 1
      BY <1>3 DEF WorkOnScids, Fault
    <3>2. QED
      BY <1>1, <3>1
  <2>10. QED
    BY <1>1, <2>4, <2>5, <2>7, <2>8, <2>9 DEF Weight, Numbers
<1>4. CASE WriterAdd
  <2>1. PICK x : x = Head(scid_db_queue)
    OBVIOUS
  <2>2. PICK rest : rest = Tail(scid_db_queue)
    OBVIOUS
  <2>3. rest \in Seq(Valid) /\ Count(scid_db_queue, {t}) = One(x \in {t}) + Count(rest, {t})
    BY <1>4, <2>1, <2>2, CountTail DEF WriterAdd, TxsOnWay
  <2>4. NQueue(t) = One(x \in {t}) + NQueue(t)' /\ NQueue(t)' \in Nat /\ One(x \in {t}) \in Nat
    BY <1>4, <2>2, <2>3, CountType DEF WriterAdd, NQueue, One
  <2>5. NWriter(t) = 0 /\ NWriter(t)' = One(x \in {t})
    <3>1. writer = Idle /\ writer' # Idle /\ writer'.tx = x
      BY <1>4, <2>1 DEF WriterAdd, Idle
    <3>2. QED
      BY <3>1 DEF NWriter, One
  <2>6. /\ NFetch(t)' = NFetch(t) /\ NBlock(t)' = NBlock(t) /\ NTx(t)' = NTx(t)
        /\ NBatch(t)' = NBatch(t) /\ NHeard(t)' = NHeard(t) /\ NScid(t)' = NScid(t)
        /\ NDone(t)' = NDone(t) /\ UNCHANGED <<base, next>> /\ faults' = faults
    BY <1>4, Unmoved DEF WriterAdd, feed, txWork
  <2>7. QED
    BY <1>1, <2>4, <2>5, <2>6 DEF Weight, Numbers
<1>5. CASE WriterCounts
  <2>1. writer # Idle /\ writer' # Idle /\ writer'.tx = writer.tx
    BY <1>5 DEF WriterCounts, Idle, TxsOnWay
  <2>2. NWriter(t)' = NWriter(t)
    BY <2>1 DEF NWriter, One
  <2>3. /\ NFetch(t)' = NFetch(t) /\ NBlock(t)' = NBlock(t) /\ NTx(t)' = NTx(t)
        /\ NBatch(t)' = NBatch(t) /\ NHeard(t)' = NHeard(t) /\ NScid(t)' = NScid(t)
        /\ NQueue(t)' = NQueue(t) /\ NDone(t)' = NDone(t) /\ UNCHANGED <<base, next>> /\ faults' = faults
    BY <1>5, Unmoved DEF WriterCounts, feed, txWork
  <2>4. QED
    BY <1>1, <2>2, <2>3 DEF Weight, Numbers
<1>6. CASE WriterHeight
  <2>1. PICK x : x = writer.tx
    OBVIOUS
  <2>2. writer # Idle /\ writer' = Idle /\ settled' = settled \cup {x}
    BY <1>6, <2>1 DEF WriterHeight, Idle
  <2>3. NWriter(t) = One(x \in {t}) /\ NWriter(t)' = 0 /\ (x = t => NWriter(t) = 1)
    BY <2>1, <2>2 DEF NWriter, One
  <2>4. x = t => t \notin settled
    BY <1>1, <2>3, NotSettled DEF Numbers
  <2>5. NDone(t)' = NDone(t) + One(x \in {t}) /\ One(x \in {t}) \in Nat
    BY <2>2, <2>4, Settling DEF One
  <2>6. /\ NFetch(t)' = NFetch(t) /\ NBlock(t)' = NBlock(t) /\ NTx(t)' = NTx(t)
        /\ NBatch(t)' = NBatch(t) /\ NHeard(t)' = NHeard(t) /\ NScid(t)' = NScid(t)
        /\ NQueue(t)' = NQueue(t) /\ UNCHANGED <<base, next>> /\ faults' = faults
    BY <1>6, Unmoved DEF WriterHeight, feed, txWork
  <2>7. QED
    BY <1>1, <2>3, <2>5, <2>6 DEF Weight, Numbers
<1>7. QED
  BY <1>2, <1>3, <1>4, <1>5, <1>6 DEF Writer

\* A process starts with nothing in its channels.
LEMMA InitWeight == Init => WeightInv
<1> SUFFICES ASSUME Init, NEW t \in Txs
             PROVE  Weight(t) = 0 /\ ~Handed(t)
  BY DEF WeightInv, One
<1> USE DEF Init
<1>1. HeightOf(t) \in Heights /\ listener[HeightOf(t)] = <<>>
  BY HeightFacts DEF NothingHeard
<1>2. InBatch(t) = {}
  BY BatchHolder DEF NoBatches
<1>3. /\ NBlock(t) = 0 /\ NTx(t) = 0 /\ NHeard(t) = 0 /\ NScid(t) = 0 /\ NQueue(t) = 0
  BY <1>1, CountEmpty DEF NBlock, NTx, NHeard, NScid, NQueue
<1>4. NBatch(t) = 0
  BY <1>2, FS_EmptySet DEF NBatch
<1>5. NFetch(t) = 0 /\ NWriter(t) = 0 /\ NDone(t) = 0
  BY DEF NFetch, NWriter, NDone, One
<1>6. ~Handed(t)
  BY <1>1, PipelineAssumption DEF Handed, Heights
<1>7. QED
  BY <1>3, <1>4, <1>5, <1>6 DEF Weight

\* Every step keeps each transaction in its one place, or moves it to another.
LEMMA WeightStep == StateInv /\ WeightInv /\ [Next]_vars => WeightInv'
<1> SUFFICES ASSUME StateInv, WeightInv, [Next]_vars, NEW t \in Txs
             PROVE  /\ Weight(t)' <= One(Handed(t)')
                    /\ SmallBlocks /\ faults' = 0 /\ Handed(t)' => Weight(t)' = 1
  BY DEF WeightInv
<1> DEFINE Goal == /\ Weight(t)' <= One(Handed(t)')
                   /\ SmallBlocks /\ faults' = 0 /\ Handed(t)' => Weight(t)' = 1
<1>1. /\ Numbers(t) /\ Weight(t) <= One(Handed(t)) /\ One(Handed(t)) <= 1
      /\ SmallBlocks /\ faults = 0 /\ Handed(t) => Weight(t) = 1
  BY NumbersHold DEF WeightInv, One
<1>2. /\ Weight(t) \in Nat /\ Weight(t) <= 1 /\ One(Handed(t)) \in Nat /\ faults \in Nat
      /\ HeightOf(t) \in Heights /\ HeightOf(t) \in Nat /\ next \in Nat /\ base \in Nat
  <2>1. Weight(t) \in Nat /\ One(Handed(t)) \in Nat
    BY <1>1 DEF Weight, Numbers, One
  <2>2. Weight(t) <= 1
    BY <1>1, <2>1
  <2>3. HeightOf(t) \in Heights /\ HeightOf(t) \in Nat
    BY HeightFacts DEF Heights
  <2>4. QED
    BY <2>1, <2>2, <2>3 DEF StateInv, Feed
<1>3. ASSUME Weight(t)' <= Weight(t), UNCHANGED <<base, next>>, faults' >= faults,
             SmallBlocks /\ faults' = faults => Weight(t)' = Weight(t), faults' \in Nat,
             Weight(t)' \in Int
      PROVE  Goal
  <2>1. Handed(t)' <=> Handed(t)
    BY <1>3 DEF Handed
  <2>2. One(Handed(t)') = One(Handed(t))
    BY <2>1 DEF One
  <2>3. faults' = 0 => faults = 0
    BY <1>2, <1>3
  <2>4. Weight(t)' <= One(Handed(t)')
    BY <1>1, <1>2, <1>3, <2>2
  <2>5. ASSUME SmallBlocks, faults' = 0, Handed(t)' PROVE Weight(t)' = 1
    BY <1>1, <1>3, <2>1, <2>3, <2>5
  <2>6. QED
    BY <2>4, <2>5
<1>4. /\ faults' \in Nat /\ Weight(t)' \in Int
  <2>1. StateInv'
    BY StateStep
  <2>2. Numbers(t)'
    <3>1. NBlock(t)' \in Nat /\ NTx(t)' \in Nat
      BY <2>1, CountType DEF StateInv, BlocksOnWay, NBlock, NTx
    <3>2. NHeard(t)' \in Nat
      <4>1. listener'[HeightOf(t)] \in Seq(Txs)
        BY <2>1, HeightFacts DEF StateInv, TxsOnWay
      <4>2. QED
        BY <4>1, CountType DEF NHeard
    <3>3. NScid(t)' \in Nat /\ NQueue(t)' \in Nat
      BY <2>1, CountType DEF StateInv, TxsOnWay, NScid, NQueue
    <3>4. NBatch(t)' \in Nat
      <4>1. IsFiniteSet(TxWorkers)
        BY PipelineAssumption, FS_Interval DEF TxWorkers
      <4>2. IsFiniteSet(InBatch(t)')
        BY <4>1, FS_Subset, BatchHolder
      <4>3. Cardinality(InBatch(t)') \in Nat
        BY <4>2, FS_CardinalityType
      <4>4. QED
        BY <4>3 DEF NBatch
    <3>5. NFetch(t)' \in Nat /\ NWriter(t)' \in Nat /\ NDone(t)' \in Nat
      BY DEF NFetch, NWriter, NDone, One
    <3>6. QED
      BY <3>1, <3>2, <3>3, <3>4, <3>5 DEF Numbers
  <2>3. QED
    BY <2>1, <2>2 DEF Weight, Numbers, StateInv, Feed
<1> SUFFICES Goal
  OBVIOUS
<1> HIDE DEF Goal
<1>5. CASE (\E h \in Heights : HandOver(h)) \/ WorkOnBlocks
  BY <1>3, <1>4, <1>5, MovesBlocks
<1>6. CASE \E w \in TxWorkers : TxWorker(w)
  BY <1>3, <1>4, <1>6, MovesBatches
<1>7. CASE (\E h \in Heights : HandleTx(h)) \/ WorkOnScids \/ Writer
  BY <1>2, <1>3, <1>4, <1>7, MovesTxs
<1>8. CASE StoreAchieved \/ UNCHANGED vars
  <2>1. /\ NFetch(t)' = NFetch(t) /\ NBlock(t)' = NBlock(t) /\ NTx(t)' = NTx(t)
        /\ NBatch(t)' = NBatch(t) /\ NHeard(t)' = NHeard(t) /\ NScid(t)' = NScid(t)
        /\ NQueue(t)' = NQueue(t) /\ NWriter(t)' = NWriter(t) /\ NDone(t)' = NDone(t)
        /\ UNCHANGED <<base, next>> /\ faults' = faults
    BY <1>8, Unmoved DEF StoreAchieved, vars, feed, txWork
  <2>2. Weight(t)' = Weight(t)
    BY <2>1 DEF Weight
  <2>3. Weight(t)' <= Weight(t) /\ faults' >= faults
    BY <1>2, <2>1, <2>2
  <2>4. QED
    BY <1>3, <1>4, <2>1, <2>2, <2>3
<1>9. CASE Fetch
  <2> USE DEF Goal
  <2>1. /\ NBlock(t)' = NBlock(t) /\ NTx(t)' = NTx(t)
        /\ NBatch(t)' = NBatch(t) /\ NHeard(t)' = NHeard(t) /\ NScid(t)' = NScid(t)
        /\ NQueue(t)' = NQueue(t) /\ NWriter(t)' = NWriter(t) /\ NDone(t)' = NDone(t)
        /\ faults' = faults
    BY <1>9, Unmoved DEF Fetch, txWork
  <2>2. base' = base /\ next' = next + 1 /\ base <= next /\ fetching' = fetching \cup {next}
    BY <1>9 DEF Fetch, StateInv, Feed
  <2>3. CASE HeightOf(t) = next
    <3>1. ~Handed(t) /\ Handed(t)'
      BY <1>2, <2>2, <2>3 DEF Handed
    <3>2. Weight(t) = 0
      BY <1>1, <1>2, <3>1 DEF One
    <3>3. NFetch(t) = 0
      BY <1>2, <2>3 DEF NFetch, One, StateInv, Feed
    <3>4. NFetch(t)' = 1
      BY <2>2, <2>3 DEF NFetch, One
    <3>5. Weight(t)' = Weight(t) + 1
      BY <1>1, <2>1, <3>3, <3>4 DEF Weight, Numbers
    <3>6. QED
      BY <3>1, <3>2, <3>5 DEF One
  <2>4. CASE HeightOf(t) # next
    <3>1. NFetch(t)' = NFetch(t)
      BY <2>2, <2>4 DEF NFetch, One
    <3>2. Weight(t)' = Weight(t)
      BY <2>1, <3>1 DEF Weight
    <3>3. Handed(t)' <=> Handed(t)
      BY <1>2, <2>2, <2>4 DEF Handed
    <3>4. One(Handed(t)') = One(Handed(t))
      BY <3>3 DEF One
    <3>5. QED
      BY <1>1, <1>2, <2>1, <3>2, <3>3, <3>4
  <2>5. QED
    BY <2>3, <2>4
<1>10. CASE Stop
  <2> USE <1>10 DEF Stop
  <2>1. listener'[HeightOf(t)] = <<>>
    BY <1>2 DEF NothingHeard
  <2>2. InBatch(t)' = {}
    BY BatchHolder DEF NoBatches
  <2>3. /\ NBlock(t)' = 0 /\ NTx(t)' = 0 /\ NHeard(t)' = 0 /\ NScid(t)' = 0 /\ NQueue(t)' = 0
    BY <2>1, CountEmpty DEF NBlock, NTx, NHeard, NScid, NQueue
  <2>4. NBatch(t)' = 0
    BY <2>2, FS_EmptySet DEF NBatch
  <2>5. NFetch(t)' = 0 /\ NWriter(t)' = 0 /\ NDone(t)' = 0
    BY DEF NFetch, NWriter, NDone, One
  <2>6. ~Handed(t)'
    <3>1. ResumeHeight \in Int /\ base' = ResumeHeight /\ next' = ResumeHeight
      BY PipelineAssumption DEF StateInv, Database, ResumeHeight, Lesser
    <3>2. QED
      BY <1>2, <3>1 DEF Handed
  <2>7. Weight(t)' = 0
    BY <2>3, <2>4, <2>5 DEF Weight
  <2>8. QED
    BY <2>6, <2>7 DEF One, Goal
<1>11. QED
  BY <1>5, <1>6, <1>7, <1>8, <1>9, <1>10 DEF Next, Run

-----------------------------------------------------------------------------
(* What was done for a settled transaction                                 *)

\* Nothing is settled at first.
LEMMA InitSettled == Init => SettledInv
<1>1. IsFiniteSet({}) /\ Cardinality({}) = 0
  BY FS_EmptySet
<1>2. QED
  BY <1>1 DEF Init, SettledInv

\* Every step that settles a transaction has done what its kind asks for.
LEMMA SettledStep == StateInv /\ WeightInv /\ SettledInv /\ [Next]_vars => SettledInv'
<1> SUFFICES ASSUME StateInv, WeightInv, SettledInv, [Next]_vars PROVE SettledInv'
  OBVIOUS
<1> DEFINE gone == settled \cap Counted
<1>1. /\ faults \in Nat /\ stops \in Nat /\ holding_queue \in Nat
      /\ IsFiniteSet(gone) /\ Cardinality(gone) \in Nat
      /\ \A t \in Txs : Numbers(t) /\ Weight(t) <= 1
  <2>1. faults \in Nat /\ stops \in Nat /\ holding_queue \in Nat
    BY DEF StateInv, Feed, Database
  <2>2. IsFiniteSet(gone) /\ Cardinality(gone) \in Nat
    BY FS_CardinalityType DEF SettledInv
  <2>3. ASSUME NEW t \in Txs PROVE Numbers(t) /\ Weight(t) <= 1
    <3>1. CASE Handed(t)
      BY <3>1, NumbersHold DEF WeightInv, One
    <3>2. CASE ~Handed(t)
      <4>1. Numbers(t) /\ Weight(t) <= 0
        BY <3>2, NumbersHold DEF WeightInv, One
      <4>2. Weight(t) \in Int
        BY <4>1 DEF Weight, Numbers
      <4>3. QED
        BY <4>1, <4>2
    <3>3. QED
      BY <3>1, <3>2
  <2>4. QED
    BY <2>1, <2>2, <2>3
<1>2. ASSUME UNCHANGED <<settled, indexed, invalid, holding_queue, stops, base>>,
             faults' = faults \/ faults' = faults + 1
      PROVE  SettledInv'
  BY <1>1, <1>2 DEF SettledInv
<1>3. CASE Fetch \/ StoreAchieved \/ WorkOnBlocks \/ WriterCounts \/ UNCHANGED vars
  BY <1>2, <1>3
  DEF Fetch, StoreAchieved, WorkOnBlocks, WriterCounts, vars, feed, database
<1>4. ASSUME NEW h \in Heights, HandOver(h) PROVE SettledInv'
  BY <1>2, <1>4 DEF HandOver, Fault, database
<1>5. ASSUME NEW w \in TxWorkers, TxWorker(w) PROVE SettledInv'
  <2>1. CASE Operate(w) \/ Operated(w)
    BY <1>2, <2>1 DEF Operate, Operated, feed, database
  <2>2. ASSUME NEW batch \in pending[w], Batching(w, batch) PROVE SettledInv'
    BY <1>2, <2>2 DEF Batching, Fault, feed, database
  <2>3. QED
    BY <1>5, <2>1, <2>2 DEF TxWorker
<1>6. ASSUME NEW h \in Heights, HandleTx(h) PROVE SettledInv'
  <2>1. PICK x : x = Head(listener[h])
    OBVIOUS
  <2>2. CASE UNCHANGED <<settled, holding_queue>>
    BY <1>2, <1>6, <2>2 DEF HandleTx, feed, database
  <2>3. CASE x \in Counted
    <3>1. /\ holding_queue' = holding_queue + 1 /\ settled' = settled \cup {x}
          /\ UNCHANGED <<base, indexed, invalid, stops, faults>>
      BY <1>6, <2>1, <2>3, Sorts DEF HandleTx, feed, database
    <3>2. x \in Txs /\ x \notin Valid /\ x \notin Installs
      BY <2>3, PipelineAssumption
    <3>3. x \notin settled
      <4>1. NHeard(x) = One(Head(listener[h]) \in {x}) + NHeard(x)' /\ NHeard(x)' \in Nat
        BY <1>6, <3>2, HeadOfListener DEF HandleTx
      <4>2. NHeard(x) >= 1
        BY <2>1, <4>1 DEF One
      <4>3. QED
        BY <1>1, <3>2, <4>2, NotSettled
    <3>4. settled' \cap Counted = gone \cup {x} /\ x \notin gone
      BY <2>3, <3>1, <3>3
    <3>5. IsFiniteSet(gone \cup {x}) /\ Cardinality(gone \cup {x}) = Cardinality(gone) + 1
      BY <1>1, <3>4, FS_AddElement
    <3>6. QED
      BY <1>1, <3>1, <3>2, <3>4, <3>5 DEF SettledInv
  <2>4. CASE x \in Ignored
    <3>1. settled' = settled \cup {x} /\ UNCHANGED <<base, indexed, invalid, stops, faults, holding_queue>>
      BY <1>6, <2>1, <2>4, Sorts DEF HandleTx, feed, database
    <3>2. x \notin Valid /\ x \notin Installs /\ settled' \cap Counted = gone
      BY <2>4, <3>1, Sorts
    <3>3. QED
      BY <1>1, <3>1, <3>2 DEF SettledInv
  <2>5. QED
    BY <1>6, <2>1, <2>2, <2>3, <2>4 DEF HandleTx
<1>7. CASE WorkOnScids
  <2>1. PICK x : x = Head(scid_processing)
    OBVIOUS
  <2>2. x \in Txs \ Counted
    BY <1>7, <2>1, Queues DEF WorkOnScids, StateInv, TxsOnWay
  <2>3. UNCHANGED <<base, holding_queue, indexed, stops>>
    BY <1>7 DEF WorkOnScids, feed
  <2>4. CASE UNCHANGED <<invalid, settled, faults>>
    BY <1>2, <2>3, <2>4
  <2>5. CASE /\ IF x \in Valid THEN Fault ELSE UNCHANGED faults
             /\ IF x \in Installs THEN invalid' = invalid \cup {x} ELSE UNCHANGED invalid
             /\ settled' = settled \cup {x}
    <3>1. settled' \cap Counted = gone
      BY <2>2, <2>5
    <3>2. CASE x \in Valid
      <4>1. faults' > 0
        BY <1>1, <2>5, <3>2 DEF Fault
      <4>2. \A t \in settled' : t \in Installs \ Valid => t \in invalid'
        BY <2>5, <3>2 DEF SettledInv
      <4>3. QED
        BY <1>1, <2>3, <3>1, <4>1, <4>2 DEF SettledInv
    <3>3. CASE x \notin Valid
      <4>1. faults' = faults
        BY <2>5, <3>3
      <4>2. \A t \in settled' : t \in Installs \ Valid => t \in invalid'
        BY <2>5, <3>3 DEF SettledInv
      <4>3. \A t \in settled' : t \in Valid => t \in indexed' \/ faults' > 0
        BY <2>3, <2>5, <3>3, <4>1 DEF SettledInv
      <4>4. faults' = 0 => invalid' \cap Valid = {}
        BY <2>5, <3>3, <4>1 DEF SettledInv
      <4>5. QED
        BY <1>1, <2>3, <3>1, <4>2, <4>3, <4>4 DEF SettledInv
    <3>4. QED
      BY <3>2, <3>3
  <2>6. QED
    BY <1>7, <2>1, <2>4, <2>5 DEF WorkOnScids, StoreInvalidSCIDDeploys
<1>8. CASE WriterAdd
  <2>1. /\ UNCHANGED <<settled, invalid, holding_queue, stops, base, faults>>
        /\ indexed \subseteq indexed'
    BY <1>8 DEF WriterAdd, feed
  <2>2. QED
    BY <2>1 DEF SettledInv
<1>9. CASE WriterHeight
  <2>1. PICK x : x = writer.tx
    OBVIOUS
  <2>2. /\ settled' = settled \cup {x}
        /\ UNCHANGED <<indexed, invalid, holding_queue, stops, base, faults>>
    BY <1>9, <2>1 DEF WriterHeight, feed
  <2>3. x \in indexed /\ x \in Valid /\ x \notin Counted
    <3>1. writer \in [step : {"counts", "height"}, tx : indexed]
      BY <1>9 DEF WriterHeight, Idle, StateInv, TxsOnWay
    <3>2. QED
      BY <2>1, <3>1, PipelineAssumption DEF StateInv, Database
  <2>4. settled' \cap Counted = gone
    BY <2>2, <2>3
  <2>5. QED
    BY <1>1, <2>2, <2>3, <2>4 DEF SettledInv
<1>10. CASE Stop
  <2>1. settled' = {} /\ stops' # 0 /\ UNCHANGED <<invalid, faults>>
    BY <1>1, <1>10 DEF Stop, database
  <2>2. IsFiniteSet(settled' \cap Counted)
    BY <2>1, FS_EmptySet
  <2>3. QED
    BY <2>1, <2>2 DEF SettledInv
<1>11. QED
  BY <1>3, <1>4, <1>5, <1>6, <1>7, <1>8, <1>9, <1>10 DEF Next, Run, Writer

-----------------------------------------------------------------------------
(* Theorems                                                                *)

\* The invariant holds in every state of the pipeline.
THEOREM Invariance == Spec => []IndInv
<1>1. Init => IndInv
  BY InitState, InitWeight, InitSettled DEF IndInv
<1>2. IndInv /\ [Next]_vars => IndInv'
  BY StateStep, WeightStep, SettledStep DEF IndInv
<1>3. QED
  BY <1>1, <1>2, PTL DEF Spec

\* Every variable keeps its type and every channel its capacity, in every
\* order of the goroutines and after every restart.
THEOREM TypeCorrect == Spec => []TypeOK
<1>1. IndInv => TypeOK
  <2> SUFFICES ASSUME StateInv PROVE TypeOK
    BY DEF IndInv
  <2> USE DEF StateInv
  <2>1. Genuine \subseteq BlockType
    BY DEF Genuine
  <2>2. block_processing \in Seq(BlockType) /\ transaction_processing \in Seq(BlockType)
    BY <2>1, SeqMonotonic DEF BlocksOnWay
  <2>3. \A w \in TxWorkers : job[w] \in BlockType \cup {NoBlock}
    BY <2>1 DEF BlocksOnWay
  <2>4. \A w \in TxWorkers : pending[w] \subseteq 0 .. Len(job[w].hashes)
    <3>1. ASSUME NEW w \in TxWorkers PROVE job[w].hashes \in Seq(Txs)
      <4>1. <<>> \in Seq(Txs)
        OBVIOUS
      <4>2. CASE job[w] \in BlockType
        BY <4>2 DEF BlockType
      <4>3. CASE job[w] = NoBlock
        BY <4>1, <4>3, Blocks
      <4>4. QED
        BY <2>3, <4>2, <4>3
    <3>2. QED
      BY <3>1, BatchCountFacts DEF BlocksOnWay
  <2>5. scid_processing \in Seq(Txs) /\ scid_db_queue \in Seq(Txs)
    BY PipelineAssumption, SeqMonotonic DEF TxsOnWay
  <2>6. fetching \subseteq Heights
    BY PipelineAssumption DEF Feed, Heights
  <2>7. writer.step \in {"idle", "counts", "height"}
    BY DEF TxsOnWay, Idle
  <2>8. QED
    BY <2>2, <2>3, <2>4, <2>5, <2>6, <2>7
    DEF TypeOK, Feed, BlocksOnWay, TxsOnWay, Database
<1>2. QED
  BY <1>1, Invariance, PTL

\* A queue's places under their names are as many as the places.
LEMMA Tagged ==
    ASSUME NEW tag, NEW S, IsFiniteSet(S)
    PROVE  /\ IsFiniteSet({<<tag, i>> : i \in S})
           /\ Cardinality({<<tag, i>> : i \in S}) = Cardinality(S)
<1> DEFINE T == {<<tag, i>> : i \in S}
           f == [i \in S |-> <<tag, i>>]
<1>1. f \in [S -> T]
  OBVIOUS
<1>2. \A i, j \in S : f[i] = f[j] => i = j
  OBVIOUS
<1>3. \A p \in T : \E i \in S : f[i] = p
  OBVIOUS
<1>4. f \in Bijection(S, T)
  BY <1>1, <1>2, <1>3 DEF Bijection, Injection, Surjection, IsInjective
<1>5. QED
  BY <1>4, FS_Bijection DEF ExistsBijection

\* A place that holds one thing under its name.
LEMMA TaggedOne ==
    ASSUME NEW tag, NEW S, NEW p \in BOOLEAN, p <=> S # {}
    PROVE  /\ IsFiniteSet({tag : s \in S})
           /\ Cardinality({tag : s \in S}) = One(p)
<1>1. {tag : s \in S} = IF p THEN {tag} ELSE {}
  OBVIOUS
<1>2. CASE p
  <2>1. {tag : s \in S} = {tag} /\ One(p) = 1
    BY <1>1, <1>2 DEF One
  <2>2. QED
    BY <2>1, FS_Singleton
<1>3. CASE ~p
  <2>1. {tag : s \in S} = {} /\ One(p) = 0
    BY <1>1, <1>3 DEF One
  <2>2. QED
    BY <2>1, FS_EmptySet
<1>4. QED
  BY <1>2, <1>3

\* Two finite sets together have no more members than both.
LEMMA Together ==
    ASSUME NEW A, NEW B, NEW m \in Nat, NEW n \in Nat, IsFiniteSet(A), IsFiniteSet(B),
           Cardinality(A) <= m, Cardinality(B) <= n
    PROVE  IsFiniteSet(A \cup B) /\ Cardinality(A \cup B) <= m + n
<1>1. /\ IsFiniteSet(A \cup B) /\ IsFiniteSet(A \cap B)
      /\ Cardinality(A \cup B) = Cardinality(A) + Cardinality(B) - Cardinality(A \cap B)
  BY FS_Union, FS_Subset
<1>2. /\ Cardinality(A) \in Nat /\ Cardinality(B) \in Nat /\ Cardinality(A \cap B) \in Nat
  BY <1>1, FS_CardinalityType
<1>3. QED
  BY <1>1, <1>2

\* The places of t are as many as its weight, or fewer, and not none.
LEMMA HoldersWeight ==
    ASSUME StateInv, NEW t \in Txs
    PROVE  /\ IsFiniteSet(Holders(t)) /\ Cardinality(Holders(t)) <= Weight(t)
           /\ Holders(t) = {} => Weight(t) = 0
<1> USE DEF StateInv
<1> DEFINE h == HeightOf(t)
           A1 == {"fetching" : f \in fetching \cap {h}}
           A2 == {<<"block", i>> : i \in {j \in 1 .. Len(block_processing) :
                     t \in ToSet(block_processing[j].hashes)}}
           A3 == {<<"transaction", i>> : i \in {j \in 1 .. Len(transaction_processing) :
                     t \in ToSet(transaction_processing[j].hashes)}}
           A4 == {<<"batch", w>> : w \in {v \in TxWorkers : \E b \in pending[v] :
                     t \in ToSet(BatchHashes(job[v].hashes, b))}}
           A5 == {<<"listener", i>> : i \in {j \in 1 .. Len(listener[h]) : listener[h][j] = t}}
           A6 == {<<"scid", i>> : i \in {j \in 1 .. Len(scid_processing) : scid_processing[j] = t}}
           A7 == {<<"db", i>> : i \in {j \in 1 .. Len(scid_db_queue) : scid_db_queue[j] = t}}
           A8 == {"writer" : s \in {writer.step} \cap {"counts", "height"} \cap
                     (IF writer.tx = t THEN {"counts", "height"} ELSE {})}
           A9 == {"settled" : s \in settled \cap {t}}
<1>1. Numbers(t) /\ IsFiniteSet(InBatch(t))
  BY NumbersHold
<1>2. IsFiniteSet(A1) /\ Cardinality(A1) = NFetch(t)
  <2> DEFINE S == fetching \cap {h}
             p == h \in fetching
  <2>1. (p <=> S # {}) /\ p \in BOOLEAN
    OBVIOUS
  <2> HIDE DEF S, p
  <2>2. \A tag : IsFiniteSet({tag : s \in S}) /\ Cardinality({tag : s \in S}) = One(p)
    BY <2>1, TaggedOne
  <2>3. QED
    BY <2>2 DEF NFetch, S, p
<1>3. IsFiniteSet(A2) /\ Cardinality(A2) = NBlock(t)
  <2> DEFINE S == {j \in 1 .. Len(block_processing) : t \in ToSet(block_processing[j].hashes)}
  <2>1. S = At(block_processing, With(t))
    <3>1. \A j \in 1 .. Len(block_processing) : block_processing[j] \in BlockType
      BY ElementOfSeq DEF BlocksOnWay, Genuine
    <3>2. QED
      BY <3>1 DEF At, With
  <2>2. IsFiniteSet(At(block_processing, With(t)))
    BY CountType DEF BlocksOnWay
  <2> HIDE DEF S
  <2>3. \A tag : /\ IsFiniteSet({<<tag, i>> : i \in S})
                 /\ Cardinality({<<tag, i>> : i \in S}) = Cardinality(S)
    BY <2>1, <2>2, Tagged
  <2>4. Cardinality(S) = NBlock(t)
    BY <2>1 DEF NBlock, Count
  <2>5. QED
    BY <2>3, <2>4 DEF S
<1>4. IsFiniteSet(A3) /\ Cardinality(A3) = NTx(t)
  <2> DEFINE S == {j \in 1 .. Len(transaction_processing) : t \in ToSet(transaction_processing[j].hashes)}
  <2>1. S = At(transaction_processing, With(t))
    <3>1. \A j \in 1 .. Len(transaction_processing) : transaction_processing[j] \in BlockType
      BY ElementOfSeq DEF BlocksOnWay, Genuine
    <3>2. QED
      BY <3>1 DEF At, With
  <2>2. IsFiniteSet(At(transaction_processing, With(t)))
    BY CountType DEF BlocksOnWay
  <2> HIDE DEF S
  <2>3. \A tag : /\ IsFiniteSet({<<tag, i>> : i \in S})
                 /\ Cardinality({<<tag, i>> : i \in S}) = Cardinality(S)
    BY <2>1, <2>2, Tagged
  <2>4. Cardinality(S) = NTx(t)
    BY <2>1 DEF NTx, Count
  <2>5. QED
    BY <2>3, <2>4 DEF S
<1>5. IsFiniteSet(A4) /\ Cardinality(A4) = NBatch(t)
  <2>1. \A tag : /\ IsFiniteSet({<<tag, i>> : i \in InBatch(t)})
                 /\ Cardinality({<<tag, i>> : i \in InBatch(t)}) = Cardinality(InBatch(t))
    BY <1>1, Tagged
  <2>2. A4 = {<<"batch", i>> : i \in InBatch(t)}
    BY DEF InBatch
  <2>3. QED
    BY <2>1, <2>2 DEF NBatch
<1>6. IsFiniteSet(A5) /\ Cardinality(A5) = NHeard(t)
  <2>1. {j \in 1 .. Len(listener[h]) : listener[h][j] = t} = At(listener[h], {t})
    BY DEF At
  <2>2. IsFiniteSet(At(listener[h], {t}))
    BY HeightFacts, CountType DEF TxsOnWay
  <2>3. QED
    BY <2>1, <2>2, Tagged DEF NHeard, Count
<1>7. IsFiniteSet(A6) /\ Cardinality(A6) = NScid(t)
  <2>1. {j \in 1 .. Len(scid_processing) : scid_processing[j] = t} = At(scid_processing, {t})
    BY DEF At
  <2>2. IsFiniteSet(At(scid_processing, {t}))
    BY CountType DEF TxsOnWay
  <2>3. QED
    BY <2>1, <2>2, Tagged DEF NScid, Count
<1>8. IsFiniteSet(A7) /\ Cardinality(A7) = NQueue(t)
  <2>1. {j \in 1 .. Len(scid_db_queue) : scid_db_queue[j] = t} = At(scid_db_queue, {t})
    BY DEF At
  <2>2. IsFiniteSet(At(scid_db_queue, {t}))
    BY CountType DEF TxsOnWay
  <2>3. QED
    BY <2>1, <2>2, Tagged DEF NQueue, Count
<1>9. IsFiniteSet(A8) /\ Cardinality(A8) = NWriter(t)
  <2> DEFINE S == {writer.step} \cap {"counts", "height"} \cap
                    (IF writer.tx = t THEN {"counts", "height"} ELSE {})
             p == writer # Idle /\ writer.tx = t
  <2>1. p <=> S # {}
    <3>1. CASE writer = Idle
      <4>1. ~p /\ writer.step \notin {"counts", "height"}
        BY <3>1 DEF Idle
      <4>2. QED
        BY <4>1
    <3>2. CASE writer \in [step : {"counts", "height"}, tx : indexed]
      <4>1. writer.step \in {"counts", "height"} /\ writer # Idle
        BY <3>2 DEF Idle
      <4>2. QED
        BY <4>1
    <3>3. QED
      BY <3>1, <3>2 DEF TxsOnWay
  <2>2. p \in BOOLEAN
    OBVIOUS
  <2> HIDE DEF S, p
  <2>3. IsFiniteSet({"writer" : s \in S}) /\ Cardinality({"writer" : s \in S}) = One(p)
    BY <2>1, <2>2, TaggedOne
  <2>4. QED
    BY <2>3 DEF NWriter, S, p
<1>10. IsFiniteSet(A9) /\ Cardinality(A9) = NDone(t)
  <2> DEFINE S == settled \cap {t}
             p == t \in settled
  <2>1. (p <=> S # {}) /\ p \in BOOLEAN
    OBVIOUS
  <2> HIDE DEF S, p
  <2>2. \A tag : IsFiniteSet({tag : s \in S}) /\ Cardinality({tag : s \in S}) = One(p)
    BY <2>1, TaggedOne
  <2>3. QED
    BY <2>2 DEF NDone, S, p
<1>11. Holders(t) = A1 \cup A2 \cup A3 \cup A4 \cup A5 \cup A6 \cup A7 \cup A8 \cup A9
  BY DEF Holders
<1> HIDE DEF A1, A2, A3, A4, A5, A6, A7, A8, A9
<1>12. IsFiniteSet(Holders(t)) /\ Cardinality(Holders(t)) <= Weight(t)
  <2> DEFINE M2 == NFetch(t) + NBlock(t)
             M3 == M2 + NTx(t)
             M4 == M3 + NBatch(t)
             M5 == M4 + NHeard(t)
             M6 == M5 + NScid(t)
             M7 == M6 + NQueue(t)
             M8 == M7 + NWriter(t)
             M9 == M8 + NDone(t)
  <2>1. /\ NFetch(t) \in Nat /\ NBlock(t) \in Nat /\ NTx(t) \in Nat /\ NBatch(t) \in Nat
        /\ NHeard(t) \in Nat /\ NScid(t) \in Nat /\ NQueue(t) \in Nat /\ NWriter(t) \in Nat
        /\ NDone(t) \in Nat
        /\ M2 \in Nat /\ M3 \in Nat /\ M4 \in Nat /\ M5 \in Nat /\ M6 \in Nat /\ M7 \in Nat
        /\ M8 \in Nat
    BY <1>1 DEF Numbers
  <2>2. Weight(t) = M9
    BY DEF Weight
  <2>3. /\ Cardinality(A1) <= NFetch(t) /\ Cardinality(A2) <= NBlock(t)
        /\ Cardinality(A3) <= NTx(t) /\ Cardinality(A4) <= NBatch(t)
        /\ Cardinality(A5) <= NHeard(t) /\ Cardinality(A6) <= NScid(t)
        /\ Cardinality(A7) <= NQueue(t) /\ Cardinality(A8) <= NWriter(t)
        /\ Cardinality(A9) <= NDone(t)
    BY <1>2, <1>3, <1>4, <1>5, <1>6, <1>7, <1>8, <1>9, <1>10, <2>1
  <2> DEFINE B2 == A1 \cup A2
             B3 == B2 \cup A3
             B4 == B3 \cup A4
             B5 == B4 \cup A5
             B6 == B5 \cup A6
             B7 == B6 \cup A7
             B8 == B7 \cup A8
             B9 == B8 \cup A9
  <2>4. Holders(t) = B9
    BY <1>11
  <2>5. IsFiniteSet(B2) /\ Cardinality(B2) <= M2
    BY <1>2, <1>3, <2>1, <2>3, Together
  <2> HIDE DEF B2, M2
  <2>6. IsFiniteSet(B3) /\ Cardinality(B3) <= M3
    BY <1>4, <2>1, <2>3, <2>5, Together
  <2> HIDE DEF B3, M3
  <2>7. IsFiniteSet(B4) /\ Cardinality(B4) <= M4
    BY <1>5, <2>1, <2>3, <2>6, Together
  <2> HIDE DEF B4, M4
  <2>8. IsFiniteSet(B5) /\ Cardinality(B5) <= M5
    BY <1>6, <2>1, <2>3, <2>7, Together
  <2> HIDE DEF B5, M5
  <2>9. IsFiniteSet(B6) /\ Cardinality(B6) <= M6
    BY <1>7, <2>1, <2>3, <2>8, Together
  <2> HIDE DEF B6, M6
  <2>10. IsFiniteSet(B7) /\ Cardinality(B7) <= M7
    BY <1>8, <2>1, <2>3, <2>9, Together
  <2> HIDE DEF B7, M7
  <2>11. IsFiniteSet(B8) /\ Cardinality(B8) <= M8
    BY <1>9, <2>1, <2>3, <2>10, Together
  <2> HIDE DEF B8, M8
  <2>12. IsFiniteSet(B9) /\ Cardinality(B9) <= M9
    BY <1>10, <2>1, <2>3, <2>11, Together
  <2>13. QED
    BY <2>2, <2>4, <2>12
<1>13. ASSUME Holders(t) = {} PROVE Weight(t) = 0
  <2>1. A1 = {} /\ A2 = {} /\ A3 = {} /\ A4 = {} /\ A5 = {} /\ A6 = {} /\ A7 = {} /\ A8 = {} /\ A9 = {}
    BY <1>11, <1>13
  <2>2. Cardinality({}) = 0
    BY FS_EmptySet
  <2>3. /\ NFetch(t) = 0 /\ NBlock(t) = 0 /\ NTx(t) = 0 /\ NBatch(t) = 0
        /\ NHeard(t) = 0 /\ NScid(t) = 0 /\ NQueue(t) = 0 /\ NWriter(t) = 0
        /\ NDone(t) = 0
    BY <1>2, <1>3, <1>4, <1>5, <1>6, <1>7, <1>8, <1>9, <1>10, <2>1, <2>2
  <2>4. QED
    BY <2>3 DEF Weight
<1>14. QED
  BY <1>12, <1>13

\* The first half of Conservation: no transaction is in two places of the
\* pipeline, and none of a height that was not handed out is in any.
InOnePlace == \A t \in Txs : Cardinality(Holders(t)) <= One(Handed(t))

\* No transaction is duplicated, for every chain and whatever fails.
THEOREM NeverTwice == Spec => []InOnePlace
<1>1. IndInv => InOnePlace
  <2> SUFFICES ASSUME IndInv, NEW t \in Txs
               PROVE  Cardinality(Holders(t)) <= One(Handed(t))
    BY DEF InOnePlace
  <2>1. /\ IsFiniteSet(Holders(t)) /\ Cardinality(Holders(t)) <= Weight(t)
        /\ Weight(t) <= One(Handed(t)) /\ Numbers(t)
    BY HoldersWeight, NumbersHold DEF IndInv, WeightInv
  <2>2. Cardinality(Holders(t)) \in Nat /\ Weight(t) \in Nat /\ One(Handed(t)) \in Nat
    <3>1. Cardinality(Holders(t)) \in Nat
      BY <2>1, FS_CardinalityType
    <3>2. Weight(t) \in Nat
      BY <2>1 DEF Weight, Numbers
    <3>3. One(Handed(t)) \in Nat
      BY DEF One
    <3>4. QED
      BY <3>1, <3>2, <3>3
  <2>3. QED
    BY <2>1, <2>2
<1>2. QED
  BY <1>1, Invariance, PTL

\* If no block is longer than a batch, none is lost either.
THEOREM ConservationHolds == ASSUME SmallBlocks PROVE Spec => []Conservation
<1>1. IndInv => Conservation
  <2> SUFFICES ASSUME IndInv, NEW t \in Txs
               PROVE  /\ Cardinality(Holders(t)) <= One(Handed(t))
                      /\ Handed(t) /\ faults = 0 => Cardinality(Holders(t)) = 1
    BY DEF Conservation, Handed, One
  <2>1. /\ IsFiniteSet(Holders(t)) /\ Cardinality(Holders(t)) <= Weight(t)
        /\ Weight(t) <= One(Handed(t)) /\ Numbers(t)
    BY HoldersWeight, NumbersHold DEF IndInv, WeightInv
  <2>2. Cardinality(Holders(t)) \in Nat /\ Weight(t) \in Nat /\ One(Handed(t)) \in Nat
    <3>1. Cardinality(Holders(t)) \in Nat
      BY <2>1, FS_CardinalityType
    <3>2. Weight(t) \in Nat
      BY <2>1 DEF Weight, Numbers
    <3>3. One(Handed(t)) \in Nat
      BY DEF One
    <3>4. QED
      BY <3>1, <3>2, <3>3
  <2>3. ASSUME Handed(t), faults = 0 PROVE Cardinality(Holders(t)) = 1
    <3>1. Weight(t) = 1
      BY <2>3 DEF IndInv, WeightInv
    <3>2. Holders(t) # {}
      BY <3>1, HoldersWeight DEF IndInv
    <3>3. Cardinality(Holders(t)) # 0
      BY <2>1, <3>2, FS_EmptySet
    <3>4. QED
      BY <2>1, <2>2, <3>1, <3>3
  <2>4. QED
    BY <2>1, <2>2, <2>3
<1>2. QED
  BY <1>1, Invariance, PTL

\* If no block is longer than a batch, the undisturbed indexer that has caught
\* up has every valid SC transaction in its index, every invalid deploy
\* recorded, and has counted the others.
THEOREM AllAccountedHolds == ASSUME SmallBlocks PROVE Spec => []AllAccounted
<1>1. IndInv => AllAccounted
  <2> SUFFICES ASSUME IndInv, Quiescent, Undisturbed
               PROVE  /\ indexed = Valid /\ invalid = Installs \ Valid
                      /\ holding_queue = Cardinality(Counted)
    BY DEF AllAccounted
  <2>1. Txs \subseteq settled
    <3> SUFFICES ASSUME NEW t \in Txs PROVE t \in settled
      OBVIOUS
    <3>1. HeightOf(t) \in Heights /\ listener[HeightOf(t)] = <<>>
      BY HeightFacts DEF Quiescent
    <3>2. Handed(t)
      BY <3>1, PipelineAssumption
      DEF Handed, IndInv, SettledInv, Undisturbed, Quiescent, Heights
    <3>3. Weight(t) = 1
      BY <3>2 DEF IndInv, WeightInv, Undisturbed
    <3>4. \A w \in TxWorkers : pending[w] = {}
      <4>1. \A w \in TxWorkers : pending[w] \subseteq 0 .. 0 - 1
        BY Blocks DEF IndInv, StateInv, BlocksOnWay, Quiescent
      <4>2. QED
        BY <4>1
    <3>5. InBatch(t) = {}
      BY <3>4, BatchHolder
    <3>6. NBatch(t) = 0
      BY <3>5, FS_EmptySet DEF NBatch
    <3>7. NBlock(t) = 0 /\ NTx(t) = 0 /\ NHeard(t) = 0 /\ NScid(t) = 0 /\ NQueue(t) = 0
      BY <3>1, CountEmpty DEF Quiescent, NBlock, NTx, NHeard, NScid, NQueue
    <3>8. NFetch(t) = 0 /\ NWriter(t) = 0
      BY DEF Quiescent, NFetch, NWriter, One
    <3>9. NDone(t) \in Nat
      BY DEF NDone, One
    <3>10. NDone(t) = 1
      BY <3>3, <3>6, <3>7, <3>8, <3>9 DEF Weight
    <3>11. QED
      BY <3>10 DEF NDone, One
  <2>2. /\ Counted \subseteq Txs /\ Valid \subseteq Txs /\ Installs \subseteq Txs
    BY PipelineAssumption
  <2>3. stops = 0 /\ faults = 0
    BY DEF Undisturbed
  <2>4. indexed = Valid
    BY <2>1, <2>2, <2>3 DEF IndInv, SettledInv, StateInv, Database
  <2>5. invalid = Installs \ Valid
    BY <2>1, <2>2, <2>3 DEF IndInv, SettledInv, StateInv, Database
  <2>6. settled \cap Counted = Counted
    BY <2>1, <2>2
  <2>7. QED
    BY <2>3, <2>4, <2>5, <2>6 DEF IndInv, SettledInv
<1>2. QED
  BY <1>1, Invariance, PTL

-----------------------------------------------------------------------------
(* The pipeline implements the abstract index                              *)

\* A transaction in a queue is one that this process has still to do.
LEMMA StillTodo ==
    ASSUME IndInv, NEW t \in Txs, NHeard(t) >= 1 \/ NScid(t) >= 1 \/ NQueue(t) >= 1
    PROVE  t \in Todo
<1>1. Numbers(t) /\ Weight(t) <= One(Handed(t))
  BY NumbersHold DEF IndInv, WeightInv
<1>2. One(Handed(t)) \in {0, 1}
  BY DEF One
<1>3. NHeard(t) + NScid(t) + NQueue(t) >= 1
  BY <1>1 DEF Numbers
<1>4. NDone(t) = 0 /\ NWriter(t) = 0 /\ One(Handed(t)) = 1
  <2>1. Weight(t) >= (NHeard(t) + NScid(t) + NQueue(t)) + NDone(t) + NWriter(t)
    BY <1>1 DEF Weight, Numbers
  <2>2. NDone(t) \in Nat /\ NWriter(t) \in Nat /\ Weight(t) \in Nat
        /\ NHeard(t) + NScid(t) + NQueue(t) \in Nat
    BY <1>1 DEF Weight, Numbers
  <2> DEFINE m == NHeard(t) + NScid(t) + NQueue(t)
             n == One(Handed(t))
  <2> HIDE DEF m, n
  <2>3. NDone(t) = 0 /\ NWriter(t) = 0 /\ n = 1
    BY <1>1, <1>2, <1>3, <2>1, <2>2 DEF m, n
  <2>4. QED
    BY <2>3 DEF n
<1>5. t \notin settled /\ (writer = Idle \/ writer.tx # t) /\ Handed(t)
  BY <1>4 DEF NDone, NWriter, One
<1>6. QED
  BY <1>5 DEF Todo, Handed

\* Behind its goroutines and channels the pipeline handles a transaction at
\* most once per process, by what its kind asks for, and restarts keep and
\* resume from what was stored: it implements module Index.
THEOREM RefinesIndex == Spec => ImplementsIndex
<1>1. Init => Abstract!Init
  <2> SUFFICES ASSUME Init PROVE Abstract!Init
    OBVIOUS
  <2>1. \A t \in Txs : 0 <= HeightOf(t)
    BY HeightFacts DEF Heights
  <2>2. Todo = Txs
    BY <2>1 DEF Init, Todo
  <2>3. QED
    BY <2>2 DEF Init, Abstract!Init
<1>2. IndInv /\ [Next]_vars => [Abstract!Next]_(Abstract!indexVars)
  <2> SUFFICES ASSUME IndInv, [Next]_vars PROVE Abstract!Next \/ UNCHANGED Abstract!indexVars
    OBVIOUS
  <2>1. ASSUME UNCHANGED <<base, settled, writer, indexed, invalid, holding_queue, txCount,
                           LastIndexHeight>>,
               faults' = faults \/ faults' = faults + 1
        PROVE  Abstract!Next \/ UNCHANGED Abstract!indexVars
    <3>1. Todo' = Todo
      BY <2>1 DEF Todo
    <3>2. QED
      BY <2>1, <3>1 DEF Abstract!Next, Abstract!Fail, Abstract!indexVars
  <2>2. CASE Fetch \/ WorkOnBlocks \/ UNCHANGED vars
    BY <2>1, <2>2 DEF Fetch, WorkOnBlocks, vars, feed, database
  <2>3. ASSUME NEW h \in Heights, HandOver(h)
        PROVE  Abstract!Next \/ UNCHANGED Abstract!indexVars
    BY <2>1, <2>3 DEF HandOver, Fault, database
  <2>4. ASSUME NEW w \in TxWorkers, TxWorker(w)
        PROVE  Abstract!Next \/ UNCHANGED Abstract!indexVars
    <3>1. CASE Operate(w) \/ Operated(w)
      BY <2>1, <3>1 DEF Operate, Operated, feed, database
    <3>2. ASSUME NEW batch \in pending[w], Batching(w, batch)
          PROVE  Abstract!Next \/ UNCHANGED Abstract!indexVars
      BY <2>1, <3>2 DEF Batching, Fault, feed, database
    <3>3. QED
      BY <2>4, <3>1, <3>2 DEF TxWorker
  <2>5. CASE StoreAchieved
    <3>1. /\ UNCHANGED <<base, settled, writer, indexed, invalid, holding_queue, txCount, faults>>
          /\ LastIndexHeight' = Top
      BY <2>5 DEF StoreAchieved, feed
    <3>2. Todo' = Todo
      BY <3>1 DEF Todo
    <3>3. QED
      BY <3>1, <3>2 DEF Abstract!Next, Abstract!Mark
  <2>6. ASSUME NEW h \in Heights, HandleTx(h)
        PROVE  Abstract!Next \/ UNCHANGED Abstract!indexVars
    <3>1. PICK x : x = Head(listener[h])
      OBVIOUS
    <3>2. CASE UNCHANGED <<settled, holding_queue>>
      BY <2>1, <2>6, <3>2 DEF HandleTx, feed, database
    <3>3. CASE x \in Counted \cup Ignored
      <4>1. x \in Txs
        BY <3>3, Sorts
      <4>2. NHeard(x) = One(Head(listener[h]) \in {x}) + NHeard(x)' /\ NHeard(x)' \in Nat
        BY <2>6, <4>1, HeadOfListener DEF HandleTx, IndInv
      <4>3. NHeard(x) >= 1
        BY <3>1, <4>2 DEF One
      <4>4. x \in Todo
        BY <4>1, <4>3, StillTodo
      <4>5. /\ UNCHANGED <<base, writer, indexed, invalid, txCount, LastIndexHeight, faults>>
            /\ settled' = settled \cup {x}
            /\ x \in Counted => holding_queue' = holding_queue + 1
            /\ x \in Ignored => holding_queue' = holding_queue
        BY <2>6, <3>1, <3>3, Sorts DEF HandleTx, feed, database
      <4>6. Todo' = Todo \ {x}
        BY <4>5 DEF Todo
      <4>7. x \in Counted => Abstract!Count(x)
        BY <4>4, <4>5, <4>6 DEF Abstract!Count
      <4>8. x \in Ignored => Abstract!Reject(x)
        BY <4>4, <4>5, <4>6, Sorts DEF Abstract!Reject
      <4>9. QED
        BY <3>3, <4>4, <4>7, <4>8 DEF Abstract!Next
    <3>4. QED
      BY <2>6, <3>1, <3>2, <3>3 DEF HandleTx
  <2>7. CASE WorkOnScids
    <3>1. PICK x : x = Head(scid_processing)
      OBVIOUS
    <3>2. UNCHANGED <<base, writer, holding_queue, indexed, txCount, LastIndexHeight>>
      BY <2>7 DEF WorkOnScids, feed
    <3>3. CASE UNCHANGED <<invalid, settled, faults>>
      BY <2>1, <3>2, <3>3
    <3>4. CASE /\ IF x \in Valid THEN Fault ELSE UNCHANGED faults
               /\ IF x \in Installs THEN invalid' = invalid \cup {x} ELSE UNCHANGED invalid
               /\ settled' = settled \cup {x}
      <4>1. PICK rest : rest = Tail(scid_processing)
        OBVIOUS
      <4>2. /\ x \in Txs \ Counted /\ rest \in Seq(Txs \ Counted)
            /\ Count(scid_processing, {x}) = One(x \in {x}) + Count(rest, {x})
        BY <2>7, <3>1, <4>1, CountTail DEF WorkOnScids, IndInv, StateInv, TxsOnWay
      <4>3. Count(rest, {x}) \in Nat
        BY <4>2, CountType
      <4>4. NScid(x) >= 1
        BY <4>2, <4>3 DEF NScid, One
      <4>5. x \in Todo
        BY <4>2, <4>4, StillTodo
      <4>6. Todo' = Todo \ {x}
        BY <3>2, <3>4 DEF Todo
      <4>7. faults' = IF x \in Valid THEN faults + 1 ELSE faults
        BY <3>4 DEF Fault
      <4>8. invalid' = IF x \in Installs THEN invalid \cup {x} ELSE invalid
        BY <3>4
      <4>9. Abstract!Reject(x)
        BY <3>2, <4>2, <4>5, <4>6, <4>7, <4>8 DEF Abstract!Reject
      <4>10. QED
        BY <4>5, <4>9 DEF Abstract!Next
    <3>5. QED
      BY <2>7, <3>1, <3>3, <3>4 DEF WorkOnScids, StoreInvalidSCIDDeploys
  <2>8. CASE WriterAdd
    <3>1. PICK x : x = Head(scid_db_queue)
      OBVIOUS
    <3>2. PICK rest : rest = Tail(scid_db_queue)
      OBVIOUS
    <3>3. /\ x \in Valid /\ rest \in Seq(Valid)
          /\ Count(scid_db_queue, {x}) = One(x \in {x}) + Count(rest, {x})
      BY <2>8, <3>1, <3>2, CountTail DEF WriterAdd, IndInv, StateInv, TxsOnWay
    <3>4. Count(rest, {x}) \in Nat /\ x \in Txs
      BY <3>3, CountType, PipelineAssumption
    <3>5. NQueue(x) >= 1
      BY <3>3, <3>4 DEF NQueue, One
    <3>6. x \in Todo
      BY <3>4, <3>5, StillTodo
    <3>7. /\ UNCHANGED <<base, settled, invalid, holding_queue, txCount, LastIndexHeight, faults>>
          /\ writer = Idle /\ writer' # Idle /\ writer'.tx = x /\ indexed' = indexed \cup {x}
      BY <2>8, <3>1 DEF WriterAdd, Idle, feed
    <3>8. Todo' = Todo \ {x}
      BY <3>7 DEF Todo
    <3>9. Abstract!Enter(x)
      BY <3>3, <3>6, <3>7, <3>8 DEF Abstract!Enter
    <3>10. QED
      BY <3>6, <3>9 DEF Abstract!Next
  <2>9. CASE WriterCounts
    <3>1. /\ UNCHANGED <<base, settled, indexed, invalid, holding_queue, LastIndexHeight, faults>>
          /\ txCount' = holding_queue
      BY <2>9 DEF WriterCounts, feed
    <3>2. writer # Idle /\ writer' # Idle /\ writer'.tx = writer.tx
      BY <2>9 DEF WriterCounts, Idle, IndInv, StateInv, TxsOnWay
    <3>3. Todo' = Todo
      BY <3>1, <3>2 DEF Todo
    <3>4. QED
      BY <3>1, <3>3 DEF Abstract!Next, Abstract!Keep
  <2>10. CASE WriterHeight
    <3>1. PICK x : x = writer.tx
      OBVIOUS
    <3>2. /\ UNCHANGED <<base, indexed, invalid, holding_queue, txCount, faults>>
          /\ LastIndexHeight' = HeightOf(x) /\ settled' = settled \cup {x}
          /\ writer # Idle /\ writer' = Idle
      BY <2>10, <3>1 DEF WriterHeight, Idle, feed
    <3>3. x \in indexed
      BY <3>1, <3>2 DEF IndInv, StateInv, TxsOnWay
    <3>4. Todo' = Todo
      BY <3>1, <3>2 DEF Todo
    <3>5. QED
      BY <3>2, <3>3, <3>4 DEF Abstract!Next, Abstract!Mark
  <2>11. CASE Stop
    <3>1. ResumeHeight = LastIndexHeight
      BY PipelineAssumption DEF ResumeHeight, Lesser, IndInv, StateInv, Database
    <3>2. /\ base' = LastIndexHeight /\ settled' = {} /\ writer' = Idle
          /\ holding_queue' = txCount /\ UNCHANGED <<indexed, invalid, txCount, LastIndexHeight, faults>>
      BY <2>11, <3>1 DEF Stop, database
    <3>3. Todo' = {t \in Txs : LastIndexHeight <= HeightOf(t)}
      BY <3>2 DEF Todo
    <3>4. QED
      BY <3>2, <3>3 DEF Abstract!Next, Abstract!Resume
  <2>12. QED
    BY <2>2, <2>3, <2>4, <2>5, <2>6, <2>7, <2>8, <2>9, <2>10, <2>11 DEF Next, Run, Writer
<1>3. QED
  BY <1>1, <1>2, Invariance, PTL DEF Spec, ImplementsIndex, Abstract!Spec
=============================================================================
