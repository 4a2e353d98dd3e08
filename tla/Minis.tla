------------------------------- MODULE Minis -------------------------------
(***************************************************************************)
(* Miniblock accounting (flag --enable-miniblock-lookup): block_handling   *)
(* puts every block on mini_queue, the process_minis goroutines move it to *)
(* mini_db_queue in any order, and mini_db_writer stores the miners of the *)
(* block under its hash and then the new total of each miner, one Update   *)
(* at a time.  After a restart blocks come again; the writer skips those   *)
(* whose details it read from the database when it started.                *)
(***************************************************************************)
EXTENDS Integers, Sequences, FiniteSets

CONSTANTS
    Blocks,      \* block hashes
    Miners,      \* addresses
    MinersOf,    \* MinersOf[b]: the miners of block b's miniblocks, in order
    MaxStops     \* bound: number of restarts

ASSUME MinisAssumption ==
    /\ IsFiniteSet(Blocks) /\ MinersOf \in [Blocks -> Seq(Miners)]
    /\ MaxStops \in Nat

VARIABLES
    offered,         \* blocks that block_handling has seen in this process
    mini_queue,      \* blocks on mini_queue or with a process_minis goroutine
    mini_db_queue,
    all_details,     \* hashes read by mini_db_writer when it started
    miner_map,       \* the writer's totals
    todo,            \* miners of the current block still to be counted
    miniblocks,      \* bucket miniblocks: hashes with details
    blockcount,      \* bucket blockcount: total of each miner
    stops

vars == <<offered, mini_queue, mini_db_queue, all_details, miner_map, todo,
          miniblocks, blockcount, stops>>

\* Number of miniblocks of miner m in the blocks of a set.
Total(bs, m) ==
    Cardinality(UNION {{<<b, i>> : i \in {j \in 1 .. Len(MinersOf[b]) :
                                            MinersOf[b][j] = m}} : b \in bs})

TypeOK ==
    /\ offered \subseteq Blocks /\ mini_queue \subseteq offered
    /\ mini_db_queue \in Seq(Blocks) /\ Len(mini_db_queue) <= Cardinality(Blocks)
    /\ all_details \subseteq miniblocks /\ miniblocks \subseteq Blocks
    /\ miner_map \in [Miners -> Nat] /\ blockcount \in [Miners -> Nat]
    /\ todo \in Seq(Miners)
    /\ stops \in 0 .. MaxStops

Init ==
    /\ offered = {} /\ mini_queue = {} /\ mini_db_queue = <<>>
    /\ all_details = {} /\ miner_map = [m \in Miners |-> 0] /\ todo = <<>>
    /\ miniblocks = {} /\ blockcount = [m \in Miners |-> 0]
    /\ stops = 0

\* work_on_blocks: a process sees no height twice (HeightHandling, OneOwner).
Offer(b) ==
    /\ b \notin offered
    /\ offered' = offered \cup {b}
    /\ mini_queue' = mini_queue \cup {b}
    /\ UNCHANGED <<mini_db_queue, all_details, miner_map, todo, miniblocks,
                   blockcount, stops>>

\* Mutated: the block stays on mini_queue.
WorkOnMinisAgain(b) ==
    /\ b \in mini_queue
    /\ mini_db_queue' = Append(mini_db_queue, b)
    /\ UNCHANGED <<offered, mini_queue, all_details, miner_map, todo, miniblocks,
                   blockcount, stops>>

\* work_on_minis
WorkOnMinis(b) ==
    /\ b \in mini_queue
    /\ mini_queue' = mini_queue \ {b}
    /\ mini_db_queue' = Append(mini_db_queue, b)
    /\ UNCHANGED <<offered, all_details, miner_map, todo, miniblocks,
                   blockcount, stops>>

\* Mutated: no look at the details that were stored before the restart.
StoreDetailsAlways ==
    /\ todo = <<>> /\ mini_db_queue # <<>>
    /\ mini_db_queue' = Tail(mini_db_queue)
    /\ LET b == Head(mini_db_queue) IN
         /\ miniblocks' = miniblocks \cup {b}
         /\ todo' = MinersOf[b]
    /\ UNCHANGED <<offered, mini_queue, all_details, miner_map, blockcount, stops>>

\* work, first part: skip a known block, else store its details.
StoreDetails ==
    /\ todo = <<>> /\ mini_db_queue # <<>>
    /\ mini_db_queue' = Tail(mini_db_queue)
    /\ LET b == Head(mini_db_queue) IN
         IF b \in all_details
         THEN UNCHANGED <<miniblocks, todo>>
         ELSE /\ miniblocks' = miniblocks \cup {b}
              /\ todo' = MinersOf[b]
    /\ UNCHANGED <<offered, mini_queue, all_details, miner_map, blockcount, stops>>

\* work, second part: one miniblock.
StoreCount ==
    /\ todo # <<>>
    /\ LET m == Head(todo) IN
         /\ miner_map' = [miner_map EXCEPT ![m] = @ + 1]
         /\ blockcount' = [blockcount EXCEPT ![m] = miner_map[m] + 1]
    /\ todo' = Tail(todo)
    /\ UNCHANGED <<offered, mini_queue, mini_db_queue, all_details, miniblocks,
                   stops>>

\* Mutated: the totals are not recomputed from the details at startup.
StopForgetting ==
    /\ stops < MaxStops
    /\ stops' = stops + 1
    /\ offered' = {} /\ mini_queue' = {} /\ mini_db_queue' = <<>> /\ todo' = <<>>
    /\ all_details' = {}
    /\ miner_map' = [m \in Miners |-> 0]
    /\ UNCHANGED <<miniblocks, blockcount>>

\* The process ends and mini_db_writer starts again from the database.
Stop ==
    /\ stops < MaxStops
    /\ stops' = stops + 1
    /\ offered' = {} /\ mini_queue' = {} /\ mini_db_queue' = <<>> /\ todo' = <<>>
    /\ all_details' = miniblocks
    /\ miner_map' = [m \in Miners |-> Total(miniblocks, m)]
    /\ UNCHANGED <<miniblocks, blockcount>>

Next ==
    \/ \E b \in Blocks : Offer(b) \/ WorkOnMinis(b)
    \/ StoreDetails \/ StoreCount
    \/ Stop

Spec == Init /\ [][Next]_vars

-----------------------------------------------------------------------------
(* Properties                                                              *)

\* Miniblocks of m in the current block that are not counted yet.
Uncounted(m) == Cardinality({i \in 1 .. Len(todo) : todo[i] = m})

\* The writer's totals are the details in the database minus what it has yet
\* to count, after any number of restarts at any point: no miniblock is
\* counted twice and none is missed.
TotalsMatchDetails ==
    \A m \in Miners : miner_map[m] + Uncounted(m) = Total(miniblocks, m)

\* A stored total never exceeds the miniblocks that the stored details show.
CountNeverAhead == \A m \in Miners : blockcount[m] <= Total(miniblocks, m)

=============================================================================
