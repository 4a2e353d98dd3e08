------------------------------ MODULE Pipeline ------------------------------
(***************************************************************************)
(* The indexing pipeline between the height scheduler and the database:    *)
(*                                                                         *)
(*   work_on_heights -> block_processing -> block_handling ->              *)
(*   transaction_processing -> work_on_txs (batches, one listener per      *)
(*   block) -> scid_processing -> scid_handling -> scid_db_queue ->        *)
(*   scid_db_writer -> database                                            *)
(*                                                                         *)
(* with the two things that survive a restart beside the index itself: the *)
(* height stored by storeHeight and the transaction count.  A pass of the  *)
(* scheduler is reduced to a cursor here (module HeightHandling has it in  *)
(* full) and one call of AddSCIDToIndex to one step (module Store).  The   *)
(* three counters of holding_queue are treated alike, so one stands for    *)
(* them.  Stop is the end of the process, by a crash, by the log.Fatal of  *)
(* a failed call or by the interrupt handler, which waits for the current  *)
(* AddSCIDToIndex only; it is followed by a restart.                       *)
(***************************************************************************)
EXTENDS Integers, Sequences, FiniteSets

CONSTANTS
    Top,              \* topoheight of the chain; heights are 0 .. Top-1
    Block,            \* the transactions of each height, a sequence
    Counted,          \* transactions that are only counted
    Ignored,          \* those that are not even that: coinbase, premine, not decoded
    Valid,            \* SC transactions whose contract has code and variables
    Installs,         \* SC transactions that install a contract
    parallel_blocks,  \* number of work_on_heights goroutines
    GOMAXPROCS,       \* processors that Go uses
    batch_size,
    QueueSize,        \* capacity of the channels (100_000 in the code)
    MaxStops,         \* bound: number of restarts
    MaxFaults         \* bound: number of answers that fail validation

Heights == 0 .. Top - 1
Txs == UNION {{Block[h][i] : i \in 1 .. Len(Block[h])} : h \in Heights}
HeightOf(t) == CHOOSE h \in Heights : \E i \in 1 .. Len(Block[h]) : Block[h][i] = t

\* The work_on_txs goroutines that tx_handling starts.
TxWorkers == 1 .. GOMAXPROCS - 2

ASSUME PipelineAssumption ==
    /\ Top \in Nat \ {0} /\ Block \in [Heights -> Seq(Txs)]
    /\ \A h, k \in Heights : \A i \in 1 .. Len(Block[h]), j \in 1 .. Len(Block[k]) :
          Block[h][i] = Block[k][j] => h = k /\ i = j
    /\ Counted \cup Ignored \cup Valid \cup Installs \subseteq Txs
    /\ Counted \cap (Valid \cup Installs) = {}
    /\ Ignored \cap (Counted \cup Valid \cup Installs) = {}
    /\ parallel_blocks \in Nat \ {0} /\ batch_size \in Nat \ {0}
    /\ GOMAXPROCS \in Nat \ {0}
    /\ QueueSize \in Nat \ {0} /\ MaxStops \in Nat /\ MaxFaults \in Nat

VARIABLES
    next,                    \* the next height to hand to a height worker
    base,                    \* where this process started
    fetching,                \* heights the height workers are fetching
    block_processing,        \* blocks fetched: height and transaction hashes
    transaction_processing,  \* blocks with transactions
    job,                     \* the block each tx worker is operating on
    pending,                 \* its batches that have not been answered
    listener,                \* per height, what handle_tx_task has to handle
    scid_processing, scid_db_queue,
    writer,                  \* scid_db_writer: its transaction and step
    holding_queue,           \* the counter in memory
    LastIndexHeight, txCount, indexed, invalid,   \* the database
    settled,                 \* transactions this process is done with
    stops, faults

database == <<LastIndexHeight, txCount, indexed, invalid>>
feed     == <<next, base, fetching>>
txWork   == <<job, pending, listener>>
vars     == <<feed, block_processing, transaction_processing, txWork,
              scid_processing, scid_db_queue, writer, holding_queue, database,
              settled, stops, faults>>

NoBlock == [height |-> -1, hashes |-> <<>>]
Idle    == [step |-> "idle", tx |-> 0]

Lesser(a, b) == IF a < b THEN a ELSE b
ToSet(s) == {s[i] : i \in 1 .. Len(s)}

BlockType == [height : Heights, hashes : Seq(Txs)]

TypeOK ==
    /\ next \in 0 .. Top /\ base \in 0 .. next
    /\ fetching \subseteq Heights /\ Cardinality(fetching) <= parallel_blocks
    /\ block_processing \in Seq(BlockType) /\ Len(block_processing) <= QueueSize
    /\ transaction_processing \in Seq(BlockType)
    /\ Len(transaction_processing) <= QueueSize
    /\ \A w \in TxWorkers : job[w] \in BlockType \cup {NoBlock}
    /\ \A w \in TxWorkers : pending[w] \subseteq 0 .. Len(job[w].hashes)
    /\ listener \in [Heights -> Seq(Txs)]
    /\ scid_processing \in Seq(Txs) /\ Len(scid_processing) <= QueueSize
    /\ scid_db_queue \in Seq(Txs) /\ Len(scid_db_queue) <= QueueSize
    /\ writer.step \in {"idle", "counts", "height"}
    /\ holding_queue \in Nat /\ txCount \in Nat /\ LastIndexHeight \in 0 .. Top
    /\ indexed \subseteq Valid /\ invalid \subseteq Installs
    /\ settled \subseteq Txs
    /\ stops \in 0 .. MaxStops /\ faults \in 0 .. MaxFaults

NoJobs == [w \in TxWorkers |-> NoBlock]
NoBatches == [w \in TxWorkers |-> {}]
NothingHeard == [h \in Heights |-> <<>>]

\* The first start, with a new database.
Init ==
    /\ LastIndexHeight = 0 /\ txCount = 0 /\ indexed = {} /\ invalid = {}
    /\ next = 0 /\ base = 0 /\ fetching = {}
    /\ block_processing = <<>> /\ transaction_processing = <<>>
    /\ job = NoJobs /\ pending = NoBatches /\ listener = NothingHeard
    /\ scid_processing = <<>> /\ scid_db_queue = <<>> /\ writer = Idle
    /\ holding_queue = 0 /\ settled = {}
    /\ stops = 0 /\ faults = 0

\* An answer fails validation five times and callRPC returns the zero value.
Fault == faults < MaxFaults /\ faults' = faults + 1

-----------------------------------------------------------------------------
(* height workers                                                          *)

\* Mutated: "height <= now" in the loop of height_handling.
FetchTooFar ==
    /\ next <= Top
    /\ Cardinality(fetching) < parallel_blocks
    /\ fetching' = fetching \cup {next}
    /\ next' = next + 1
    /\ UNCHANGED <<base, block_processing, transaction_processing, txWork,
                   scid_processing, scid_db_queue, writer, holding_queue,
                   database, settled, stops, faults>>

\* height_handling sends the next height and a worker receives it.
Fetch ==
    /\ next < Top
    /\ Cardinality(fetching) < parallel_blocks
    /\ fetching' = fetching \cup {next}
    /\ next' = next + 1
    /\ UNCHANGED <<base, block_processing, transaction_processing, txWork,
                   scid_processing, scid_db_queue, writer, holding_queue,
                   database, settled, stops, faults>>

\* handle_height_task sends the answer, or the zero block.
HandOver(h) ==
    /\ h \in fetching
    /\ Len(block_processing) < QueueSize
    /\ fetching' = fetching \ {h}
    /\ \/ /\ block_processing' =
                 Append(block_processing, [height |-> h, hashes |-> Block[h]])
          /\ UNCHANGED faults
       \/ /\ Fault
          /\ block_processing' =
                 Append(block_processing, [height |-> h, hashes |-> <<>>])
    /\ UNCHANGED <<next, base, transaction_processing, txWork, scid_processing,
                   scid_db_queue, writer, holding_queue, database, settled, stops>>

\* The head of height_handling's loop after a pass that reached the top.
StoreAchieved ==
    /\ next = Top /\ fetching = {}
    /\ LastIndexHeight' = Top
    /\ UNCHANGED <<feed, block_processing, transaction_processing, txWork,
                   scid_processing, scid_db_queue, writer, holding_queue,
                   txCount, indexed, invalid, settled, stops, faults>>

-----------------------------------------------------------------------------
(* block_handling and the tx workers                                       *)

\* work_on_blocks: a block without transactions ends here.
WorkOnBlocks ==
    /\ block_processing # <<>>
    /\ LET staged == Head(block_processing) IN
         IF staged.hashes = <<>>
         THEN UNCHANGED transaction_processing
         ELSE /\ Len(transaction_processing) < QueueSize
              /\ transaction_processing' = Append(transaction_processing, staged)
    /\ block_processing' = Tail(block_processing)
    /\ UNCHANGED <<feed, txWork, scid_processing, scid_db_queue, writer,
                   holding_queue, database, settled, stops, faults>>

\* math.Ceil(tx_count / batch_size)
BatchCount(hashes) == (Len(hashes) + batch_size - 1) \div batch_size

\* Mutated: the last batch is cut short like the others.
BatchHashesShort(hashes, batch) ==
    SubSeq(hashes, batch_size * batch + 1, batch_size * batch)

\* The slice hashes[batch_size*batch : end] of batching, which is empty for
\* every batch but the last.
BatchHashes(hashes, batch) ==
    LET end == IF batch = BatchCount(hashes) - 1 THEN Len(hashes)
               ELSE batch_size * batch
    IN  SubSeq(hashes, batch_size * batch + 1, end)

\* operate_on_staged_tx starts the listener and one goroutine per batch.
Operate(w) ==
    /\ job[w] = NoBlock
    /\ transaction_processing # <<>>
    /\ LET staged == Head(transaction_processing) IN
         /\ job' = [job EXCEPT ![w] = staged]
         /\ pending' = [pending EXCEPT ![w] = 0 .. BatchCount(staged.hashes) - 1]
    /\ transaction_processing' = Tail(transaction_processing)
    /\ UNCHANGED <<feed, block_processing, listener, scid_processing,
                   scid_db_queue, writer, holding_queue, database, settled,
                   stops, faults>>

\* One batch is answered; batch_processing has room for all of them.
Batching(w, batch) ==
    /\ batch \in pending[w]
    /\ pending' = [pending EXCEPT ![w] = @ \ {batch}]
    /\ \/ /\ listener' = [listener EXCEPT ![job[w].height] =
                              @ \o BatchHashes(job[w].hashes, batch)]
          /\ UNCHANGED faults
       \/ /\ Fault
          /\ UNCHANGED listener
    /\ UNCHANGED <<feed, block_processing, transaction_processing, job,
                   scid_processing, scid_db_queue, writer, holding_queue,
                   database, settled, stops>>

\* batchgroup.Wait returns and the worker is free, the listener may not be.
Operated(w) ==
    /\ job[w] # NoBlock
    /\ pending[w] = {}
    /\ job' = [job EXCEPT ![w] = NoBlock]
    /\ UNCHANGED <<feed, block_processing, transaction_processing, pending,
                   listener, scid_processing, scid_db_queue, writer,
                   holding_queue, database, settled, stops, faults>>

\* Mutated: the counter is stored back from a value read earlier.
HandleTxUncounted(h) ==
    /\ listener[h] # <<>>
    /\ LET tx == Head(listener[h]) IN
         \/ /\ tx \in Counted
            /\ holding_queue' \in {holding_queue, holding_queue + 1}
            /\ settled' = settled \cup {tx}
            /\ UNCHANGED scid_processing
         \/ /\ tx \in Ignored
            /\ settled' = settled \cup {tx}
            /\ UNCHANGED <<scid_processing, holding_queue>>
         \/ /\ tx \notin Counted \cup Ignored /\ Len(scid_processing) < QueueSize
            /\ scid_processing' = Append(scid_processing, tx)
            /\ UNCHANGED <<holding_queue, settled>>
    /\ listener' = [listener EXCEPT ![h] = Tail(@)]
    /\ UNCHANGED <<feed, block_processing, transaction_processing, job, pending,
                   scid_db_queue, writer, database, stops, faults>>

\* handle_tx: count the transaction, pass it on, or leave it (continue): one that is
\* not decoded, and those of the types PREMINE and COINBASE.
HandleTx(h) ==
    /\ listener[h] # <<>>
    /\ LET tx == Head(listener[h]) IN
         \/ /\ tx \in Counted
            /\ holding_queue' = holding_queue + 1
            /\ settled' = settled \cup {tx}
            /\ UNCHANGED scid_processing
         \/ /\ tx \in Ignored
            /\ settled' = settled \cup {tx}
            /\ UNCHANGED <<scid_processing, holding_queue>>
         \/ /\ tx \notin Counted \cup Ignored /\ Len(scid_processing) < QueueSize
            /\ scid_processing' = Append(scid_processing, tx)
            /\ UNCHANGED <<holding_queue, settled>>
    /\ listener' = [listener EXCEPT ![h] = Tail(@)]
    /\ UNCHANGED <<feed, block_processing, transaction_processing, job, pending,
                   scid_db_queue, writer, database, stops, faults>>

-----------------------------------------------------------------------------
(* scid_handling and scid_db_writer                                        *)

\* The map of invalid deploys gets one entry per contract.
StoreInvalidSCIDDeploys(tx) == invalid' = invalid \cup {tx}

\* work_on_scids: stage the transaction, or record an invalid deploy, or
\* leave it (no contract, no variables, filtered out).
WorkOnScids ==
    /\ scid_processing # <<>>
    /\ LET tx == Head(scid_processing) IN
         \/ /\ tx \in Valid
            /\ Len(scid_db_queue) < QueueSize
            /\ scid_db_queue' = Append(scid_db_queue, tx)
            /\ UNCHANGED <<invalid, settled, faults>>
         \/ /\ IF tx \in Valid THEN Fault ELSE UNCHANGED faults
            /\ IF tx \in Installs THEN StoreInvalidSCIDDeploys(tx)
               ELSE UNCHANGED invalid
            /\ settled' = settled \cup {tx}
            /\ UNCHANGED scid_db_queue
    /\ scid_processing' = Tail(scid_processing)
    /\ UNCHANGED <<feed, block_processing, transaction_processing, txWork,
                   writer, holding_queue, LastIndexHeight, txCount, indexed, stops>>

\* scid_db_writer: AddSCIDToIndex ...
WriterAdd ==
    /\ writer = Idle
    /\ scid_db_queue # <<>>
    /\ indexed' = indexed \cup {Head(scid_db_queue)}
    /\ writer' = [step |-> "counts", tx |-> Head(scid_db_queue)]
    /\ scid_db_queue' = Tail(scid_db_queue)
    /\ UNCHANGED <<feed, block_processing, transaction_processing, txWork,
                   scid_processing, holding_queue, LastIndexHeight, txCount,
                   invalid, settled, stops, faults>>

\* ... then StoreTxCount ...
WriterCounts ==
    /\ writer.step = "counts"
    /\ txCount' = holding_queue
    /\ writer' = [writer EXCEPT !.step = "height"]
    /\ UNCHANGED <<feed, block_processing, transaction_processing, txWork,
                   scid_processing, scid_db_queue, holding_queue,
                   LastIndexHeight, indexed, invalid, settled, stops, faults>>

\* Mutated: the writer leaves its loop after an error and does not go on.
WriterStops ==
    /\ writer.step = "height"
    /\ LastIndexHeight' = HeightOf(writer.tx)
    /\ settled' = settled \cup {writer.tx}
    /\ writer' = [writer EXCEPT !.step = "counts"]
    /\ UNCHANGED <<feed, block_processing, transaction_processing, txWork,
                   scid_processing, scid_db_queue, holding_queue, txCount,
                   indexed, invalid, stops, faults>>

\* ... then storeHeight, with the height of this transaction.
WriterHeight ==
    /\ writer.step = "height"
    /\ LastIndexHeight' = HeightOf(writer.tx)
    /\ settled' = settled \cup {writer.tx}
    /\ writer' = Idle
    /\ UNCHANGED <<feed, block_processing, transaction_processing, txWork,
                   scid_processing, scid_db_queue, holding_queue, txCount,
                   indexed, invalid, stops, faults>>

-----------------------------------------------------------------------------
\* Mutated: the process resumes at the block after the stored height.
ResumeAfter == Lesser(Top, LastIndexHeight + 1)

\* lowest_height of a process that finds LastIndexHeight in its database.
ResumeHeight == Lesser(Top, LastIndexHeight)

\* The process ends and is started again: the channels are empty, the cursor
\* is at the stored height and the count is read back by tx_handling.
Stop ==
    /\ stops < MaxStops
    /\ stops' = stops + 1
    /\ next' = ResumeHeight /\ base' = next' /\ fetching' = {}
    /\ block_processing' = <<>> /\ transaction_processing' = <<>>
    /\ job' = NoJobs /\ pending' = NoBatches /\ listener' = NothingHeard
    /\ scid_processing' = <<>> /\ scid_db_queue' = <<>> /\ writer' = Idle
    /\ holding_queue' = txCount /\ settled' = {}
    /\ UNCHANGED <<database, faults>>

TxWorker(w) == Operate(w) \/ Operated(w)
               \/ \E batch \in pending[w] : Batching(w, batch)

Writer == WriterAdd \/ WriterCounts \/ WriterHeight

Run ==
    \/ Fetch \/ StoreAchieved \/ WorkOnBlocks \/ WorkOnScids \/ Writer
    \/ \E h \in Heights : HandOver(h) \/ HandleTx(h)
    \/ \E w \in TxWorkers : TxWorker(w)

Next == Run \/ Stop

Spec == Init /\ [][Next]_vars

\* Every goroutine that can run does; nothing forces the process to stop.
Fairness ==
    /\ WF_vars(Fetch) /\ WF_vars(WorkOnBlocks) /\ WF_vars(WorkOnScids)
    /\ WF_vars(Writer)
    /\ \A h \in Heights : WF_vars(HandOver(h)) /\ WF_vars(HandleTx(h))
    /\ \A w \in TxWorkers : WF_vars(TxWorker(w))

FairSpec == Spec /\ Fairness

-----------------------------------------------------------------------------
(* Properties                                                              *)

\* Where transaction t is at the moment.
Holders(t) ==
    LET h == HeightOf(t) IN
    {"fetching" : f \in fetching \cap {h}}
    \cup {<<"block", i>> : i \in {j \in 1 .. Len(block_processing) :
              t \in ToSet(block_processing[j].hashes)}}
    \cup {<<"transaction", i>> : i \in {j \in 1 .. Len(transaction_processing) :
              t \in ToSet(transaction_processing[j].hashes)}}
    \cup {<<"batch", w>> : w \in {v \in TxWorkers : \E b \in pending[v] :
              t \in ToSet(BatchHashes(job[v].hashes, b))}}
    \cup {<<"listener", i>> : i \in {j \in 1 .. Len(listener[h]) : listener[h][j] = t}}
    \cup {<<"scid", i>> : i \in {j \in 1 .. Len(scid_processing) : scid_processing[j] = t}}
    \cup {<<"db", i>> : i \in {j \in 1 .. Len(scid_db_queue) : scid_db_queue[j] = t}}
    \cup {"writer" : s \in {writer.step} \cap {"counts", "height"} \cap
              (IF writer.tx = t THEN {"counts", "height"} ELSE {})}
    \cup {"settled" : s \in settled \cap {t}}

\* Conservation: a transaction is never in two places of the pipeline, and
\* while the daemon's answers are valid a transaction of a height that was
\* handed out is in one place or settled, and one of a height not handed out
\* is nowhere.  Nothing is lost or duplicated between the goroutines, whatever
\* the order they run in, however full the channels are, after a restart too.
Conservation ==
    \A t \in Txs :
        LET handed == base <= HeightOf(t) /\ HeightOf(t) < next
            held   == Cardinality(Holders(t))
        IN  /\ held <= IF handed THEN 1 ELSE 0
            /\ handed /\ faults = 0 => held = 1

\* All that can be done for the blocks the daemon has is done.
Quiescent ==
    /\ next = Top /\ fetching = {}
    /\ block_processing = <<>> /\ transaction_processing = <<>>
    /\ \A w \in TxWorkers : job[w] = NoBlock
    /\ \A h \in Heights : listener[h] = <<>>
    /\ scid_processing = <<>> /\ scid_db_queue = <<>> /\ writer = Idle

\* The process has run since the database was created and every answer was
\* valid.
Undisturbed == stops = 0 /\ faults = 0

\* Once an undisturbed indexer has caught up and its channels are empty, every
\* valid SC transaction is in the index, every invalid deploy is recorded, and
\* the counter is the number of those to be counted (bbolt.go:257 "Stores
\* bbolt's txcount by a given txType").
AllAccounted ==
    Quiescent /\ Undisturbed =>
        /\ indexed = Valid
        /\ invalid = Installs \ Valid
        /\ holding_queue = Cardinality(Counted)

\* The undisturbed indexer gets through the whole chain with channels of any
\* size: no goroutine waits forever for room in a full channel.
EventuallyIndexed == <>(Undisturbed => Quiescent /\ Valid \subseteq indexed)

\* The transactions this process has not handled; one in the writer's hands
\* is in the index already.
Todo == {t \in Txs : base <= HeightOf(t)}
        \ (settled \cup (IF writer = Idle THEN {} ELSE {writer.tx}))

Abstract == INSTANCE Index
    WITH todo <- Todo, index <- indexed, rejected <- invalid,
         counted <- holding_queue, kept <- txCount, mark <- LastIndexHeight,
         failed <- faults

\* The pipeline implements the abstract index: behind all its goroutines and
\* channels a transaction is handled at most once per process, by what its kind
\* asks for, and what restarts keep and resume from is what was stored.
ImplementsIndex == Abstract!Spec

\* README.md:4 "It parses each block of DEROHE's blockchain, and aggregates
\* results into various indexes": once the indexer has caught up and its
\* channels are empty, every valid SC transaction is in the index.
AllIndexed == Quiescent => Valid \subseteq indexed
=============================================================================
