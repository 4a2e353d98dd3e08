---------------------------- MODULE HeightHandling ----------------------------
(***************************************************************************)
(* The height scheduler of the indexer: height_handling hands every block  *)
(* height between lowest_height and now to a pool of work_on_heights       *)
(* goroutines, which fetch the block and put it on block_processing, while *)
(* start_printer keeps refreshing the shared variable now from the daemon. *)
(*                                                                         *)
(* Heights enter the channel height_processing in increasing order from    *)
(* one sender and leave it in the same order, so the channel is the        *)
(* interval next .. height-1 and needs no sequence.                        *)
(*                                                                         *)
(* Every access of height_handling to the unsynchronised variables now,    *)
(* lowest_height and achieved_current_height is a step of its own, so      *)
(* start_printer can act between any two of them.                          *)
(***************************************************************************)
EXTENDS Integers

CONSTANTS
    Workers,          \* the goroutines of one pass, parallel_blocks of them
    InitialTopo,      \* topoheight of the daemon when the indexer starts
    MaxTopo,          \* bound: the chain stops growing at this topoheight
    StoredHeight,     \* lastindexedheight found in the database at startup
    starting_height,  \* flag --start-topoheight, 0 when absent
    ending_height,    \* flag --ending-topoheight, 0 when absent
    ZeroAnswers       \* TRUE when Get_TopoHeight may fail validation

\* Start_gnomon_indexer gives up when the daemon answers topoheight 0 and
\* raises parallel_blocks to at least one.
ASSUME HeightAssumption ==
    /\ Workers # {}
    /\ InitialTopo \in Nat \ {0}
    /\ MaxTopo \in Nat /\ InitialTopo <= MaxTopo
    /\ StoredHeight \in Nat
    /\ starting_height \in Int
    /\ ending_height \in Int
    /\ ZeroAnswers \in BOOLEAN

NoHeight == -1

VARIABLES
    topo,                     \* topoheight of the daemon
    RUNNING,                  \* cleared by the interrupt handler
    now, lowest_height, achieved_current_height,
    LastIndexHeight,          \* lastindexedheight of the main database
    pc,                       \* where height_handling is
    height,                   \* its loop variable, one past the last height sent
    next,                     \* the height at the head of height_processing
    capacity,                 \* cap(height_processing)
    fetching,                 \* the height each worker is fetching
    exited,                   \* workers that called wg.Done
    handed,                   \* heights put on block_processing
    polled                    \* answer start_printer received and not yet stored

shared == <<now, lowest_height, achieved_current_height, LastIndexHeight>>
pool   == <<height, next, capacity, fetching, exited, handed>>
vars   == <<topo, RUNNING, shared, pc, pool, polled>>

Lesser(a, b) == IF a < b THEN a ELSE b

Steps == {"loop", "clamp", "start", "count", "send", "wait", "achieve",
          "lower", "returned", "panicked"}

TypeOK ==
    /\ topo \in InitialTopo .. MaxTopo
    /\ RUNNING \in BOOLEAN
    /\ now \in Nat /\ lowest_height \in Nat
    /\ achieved_current_height \in Nat
    /\ LastIndexHeight \in Nat
    /\ pc \in Steps
    /\ height \in Nat /\ next \in Nat /\ capacity \in Nat
    /\ fetching \in [Workers -> Nat \cup {NoHeight}]
    /\ exited \subseteq Workers
    /\ handed \subseteq Nat
    /\ polled \in Nat \cup {NoHeight}

\* What a caller of Get_TopoHeight gets: the topoheight of the daemon, or 0
\* when every attempt failed validation, the error being ignored.
TopoAnswer == {topo} \cup (IF ZeroAnswers THEN {0} ELSE {})

\* Mutated: a database without a stored height counts as -1.
InitBelowZero ==
    /\ topo = InitialTopo
    /\ RUNNING = TRUE
    /\ now = InitialTopo
    /\ lowest_height = Lesser(InitialTopo, StoredHeight) - 1
    /\ achieved_current_height = 0
    /\ LastIndexHeight = StoredHeight
    /\ pc = "loop"
    /\ height = lowest_height /\ next = lowest_height /\ capacity = 0
    /\ fetching = [w \in Workers |-> NoHeight]
    /\ exited = Workers
    /\ handed = {}
    /\ polled = NoHeight

\* Start_gnomon_indexer up to "go height_handling(ctx)", without fastsync.
Init ==
    /\ topo = InitialTopo
    /\ RUNNING = TRUE
    /\ now \in TopoAnswer
    /\ \E upper \in TopoAnswer : lowest_height = Lesser(upper, StoredHeight)
    /\ achieved_current_height = 0
    /\ LastIndexHeight = StoredHeight
    /\ pc = "loop"
    /\ height = lowest_height /\ next = lowest_height /\ capacity = 0
    /\ fetching = [w \in Workers |-> NoHeight]
    /\ exited = Workers
    /\ handed = {}
    /\ polled = NoHeight

\* A panic ends the process; afterwards nothing but the daemon moves.
Alive == pc # "panicked"

-----------------------------------------------------------------------------
(* height_handling                                                         *)

\* The head of the loop: stop, or record the achieved height and go on.
LoopHead ==
    /\ pc = "loop"
    /\ pc' = IF RUNNING THEN "clamp" ELSE "returned"
    /\ LastIndexHeight' = IF RUNNING /\ achieved_current_height # 0
                          THEN achieved_current_height ELSE LastIndexHeight
    /\ UNCHANGED <<topo, RUNNING, now, lowest_height, achieved_current_height,
                   pool, polled>>

Clamp ==
    /\ pc = "clamp"
    /\ pc' = "start"
    /\ now' = IF ending_height > 0 THEN Lesser(ending_height, now) ELSE now
    /\ UNCHANGED <<topo, RUNNING, lowest_height, achieved_current_height,
                   LastIndexHeight, pool, polled>>

StartHeight ==
    /\ pc = "start"
    /\ pc' = "count"
    /\ lowest_height' = IF /\ starting_height < now
                           /\ starting_height > 0
                           /\ achieved_current_height = 0
                        THEN starting_height ELSE lowest_height
    /\ UNCHANGED <<topo, RUNNING, now, achieved_current_height, LastIndexHeight,
                   pool, polled>>

\* result := now - lowest_height; a pass is started unless it is zero, and
\* make(chan int64, result) panics when it is negative.
Count ==
    /\ pc = "count"
    /\ LET result == now - lowest_height IN
         /\ pc' = IF result = 0 THEN "achieve"
                  ELSE IF result < 0 THEN "panicked" ELSE "send"
         /\ capacity' = IF result > 0 THEN result ELSE capacity
         /\ exited' = IF result > 0 THEN {} ELSE exited
    /\ height' = lowest_height
    /\ next' = lowest_height
    /\ UNCHANGED <<topo, RUNNING, shared, fetching, handed, polled>>

\* One iteration of "for height := lowest_height; height < now; height++".
\* The send blocks while the channel is full.
SendHeight ==
    /\ pc = "send"
    /\ height < now
    /\ IF RUNNING
       THEN /\ height - next < capacity
            /\ height' = height + 1
            /\ pc' = pc
       ELSE pc' = "returned" /\ height' = height
    /\ UNCHANGED <<topo, RUNNING, shared, next, capacity, fetching, exited,
                   handed, polled>>

\* Mutated: close the channel and do not wait for the workers.
CloseNoWait ==
    /\ pc = "send"
    /\ height >= now
    /\ pc' = "achieve"
    /\ UNCHANGED <<topo, RUNNING, shared, pool, polled>>

CloseHeights ==
    /\ pc = "send"
    /\ height >= now
    /\ pc' = "wait"
    /\ UNCHANGED <<topo, RUNNING, shared, pool, polled>>

\* wg.Wait returns once every worker has left.
WaitWorkers ==
    /\ pc = "wait"
    /\ exited = Workers
    /\ pc' = "achieve"
    /\ UNCHANGED <<topo, RUNNING, shared, pool, polled>>

\* achieved_current_height is a fresh topoheight of the daemon.
Achieve ==
    /\ pc = "achieve"
    /\ pc' = "lower"
    /\ achieved_current_height' \in TopoAnswer
    /\ UNCHANGED <<topo, RUNNING, now, lowest_height, LastIndexHeight, pool,
                   polled>>

\* Mutated: the next pass starts one block too low.
LowerOneBlock ==
    /\ pc = "lower"
    /\ pc' = "loop"
    /\ lowest_height' = Lesser(now, achieved_current_height) - 1
    /\ UNCHANGED <<topo, RUNNING, now, achieved_current_height, LastIndexHeight,
                   pool, polled>>

\* Mutated: the greater of the two heights.
LowerGreater ==
    /\ pc = "lower"
    /\ pc' = "loop"
    /\ lowest_height' = IF now < achieved_current_height
                        THEN achieved_current_height ELSE now
    /\ UNCHANGED <<topo, RUNNING, now, achieved_current_height, LastIndexHeight,
                   pool, polled>>

\* lowest_height = min(now, achieved_current_height), with the now of this
\* moment and not the one that ended the loop.
Lower ==
    /\ pc = "lower"
    /\ pc' = "loop"
    /\ lowest_height' = Lesser(now, achieved_current_height)
    /\ UNCHANGED <<topo, RUNNING, now, achieved_current_height, LastIndexHeight,
                   pool, polled>>

-----------------------------------------------------------------------------
(* work_on_heights: receive, fetch and hand over, leave                    *)

Receive(w) ==
    /\ Alive
    /\ w \notin exited
    /\ fetching[w] = NoHeight
    /\ next < height
    /\ next' = next + 1
    /\ IF RUNNING
       THEN fetching' = [fetching EXCEPT ![w] = next] /\ exited' = exited
       ELSE exited' = exited \cup {w} /\ fetching' = fetching
    /\ UNCHANGED <<topo, RUNNING, shared, pc, height, capacity, handed, polled>>

\* Mutated: a block whose answer is not valid is not handed over.
HandOverDropped(w) ==
    /\ Alive
    /\ fetching[w] # NoHeight
    /\ handed' \in {handed, handed \cup {fetching[w]}}
    /\ fetching' = [fetching EXCEPT ![w] = NoHeight]
    /\ UNCHANGED <<topo, RUNNING, shared, pc, height, next, capacity, exited,
                   polled>>

\* handle_height_task: the answer of GetBlockInfo, valid or not, goes to
\* block_processing.
HandOver(w) ==
    /\ Alive
    /\ fetching[w] # NoHeight
    /\ handed' = handed \cup {fetching[w]}
    /\ fetching' = [fetching EXCEPT ![w] = NoHeight]
    /\ UNCHANGED <<topo, RUNNING, shared, pc, height, next, capacity, exited,
                   polled>>

\* Mutated: the worker returns without wg.Done.
LeaveWithoutDone(w) ==
    /\ pc = "wait"
    /\ w \notin exited
    /\ fetching[w] = NoHeight
    /\ next = height
    /\ UNCHANGED vars

\* The range loop ends when the channel is closed and empty.
Leave(w) ==
    /\ pc = "wait"
    /\ w \notin exited
    /\ fetching[w] = NoHeight
    /\ next = height
    /\ exited' = exited \cup {w}
    /\ UNCHANGED <<topo, RUNNING, shared, pc, height, next, capacity, fetching,
                   handed, polled>>

-----------------------------------------------------------------------------
(* start_printer, the interrupt handler and the daemon                     *)

\* The ticker case: ask the daemon ...
Poll ==
    /\ Alive /\ RUNNING
    /\ polled = NoHeight
    /\ polled' \in TopoAnswer \ {now}
    /\ UNCHANGED <<topo, RUNNING, shared, pc, pool>>

\* ... and store the answer, whatever height_handling is doing with now.
Publish ==
    /\ Alive
    /\ polled # NoHeight
    /\ now' = polled
    /\ polled' = NoHeight
    /\ UNCHANGED <<topo, RUNNING, lowest_height, achieved_current_height,
                   LastIndexHeight, pc, pool>>

Interrupt ==
    /\ Alive /\ RUNNING
    /\ RUNNING' = FALSE
    /\ UNCHANGED <<topo, shared, pc, pool, polled>>

NewBlock ==
    /\ topo < MaxTopo
    /\ topo' = topo + 1
    /\ UNCHANGED <<RUNNING, shared, pc, pool, polled>>

-----------------------------------------------------------------------------
HeightStep == LoopHead \/ Clamp \/ StartHeight \/ Count \/ SendHeight
              \/ CloseHeights \/ WaitWorkers \/ Achieve \/ Lower

WorkerStep(w) == Receive(w) \/ HandOver(w) \/ Leave(w)

PrinterStep == Poll \/ Publish

Next ==
    \/ HeightStep
    \/ \E w \in Workers : WorkerStep(w)
    \/ PrinterStep
    \/ Interrupt
    \/ NewBlock

Spec == Init /\ [][Next]_vars

\* The Go scheduler runs every goroutine that can run, timers fire, and the
\* daemon answers; nothing forces a new block or an interrupt.
Fairness ==
    /\ WF_vars(HeightStep)
    /\ \A w \in Workers : WF_vars(WorkerStep(w))
    /\ WF_vars(PrinterStep)

FairSpec == Spec /\ Fairness

-----------------------------------------------------------------------------
(* Properties                                                              *)

\* No height has two owners: a height waiting in height_processing, one that
\* a worker is fetching and one already put on block_processing are three
\* different heights.  So within a process no block is indexed twice, across
\* passes too, however start_printer moves now during a pass, as long as the
\* daemon answers its topoheight.
OneOwner ==
    /\ \A h \in next .. height - 1 : h \notin handed
    /\ \A w \in Workers : fetching[w] # NoHeight =>
         /\ fetching[w] \notin handed
         /\ fetching[w] \notin next .. height - 1
         /\ \A v \in Workers \ {w} : fetching[v] # fetching[w]

\* When height_handling comes out of wg.Wait in a process that was not
\* interrupted, every height of the pass is on block_processing, those that
\* start_printer added to the pass by raising now included.
PassHandsOver ==
    pc \in {"achieve", "lower"} /\ RUNNING =>
        \A h \in lowest_height .. height - 1 : h \in handed

\* Without --ending-topoheight, and with a daemon that answers its topoheight,
\* the size of height_processing is never
\* negative: lowest_height has not overtaken now, although start_printer and
\* height_handling write and read both without a lock.
NoPanic == pc # "panicked"

\* The height that the first pass starts from.
FirstHeight ==
    IF starting_height > 0 /\ starting_height < InitialTopo
    THEN starting_height ELSE Lesser(InitialTopo, StoredHeight)

\* Every height that existed when the indexer started, from the first one on,
\* is handed over, unless the user interrupts it.
InitialRangeHandled ==
    \A h \in FirstHeight .. InitialTopo - 1 :
        <>(h \in handed \/ ~RUNNING)

\* When the chain stops growing, the indexer catches up with it and stays
\* there, unless the user interrupts it.
CatchesUp == <>[](lowest_height = topo \/ ~RUNNING)

\* README.md:4 "It parses each block of DEROHE's blockchain": when a pass
\* starts, every height below it has been handed over by this process or was
\* indexed before it started.
NoBlockSkipped ==
    pc = "loop" /\ RUNNING =>
        \A h \in FirstHeight .. lowest_height - 1 : h \in handed

===============================================================================
