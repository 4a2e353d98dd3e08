------------------------------ MODULE FastSync ------------------------------
(***************************************************************************)
(* The fast sync: fastsync_handling reads the registry contract, sends the *)
(* contracts it lists from lowest_height on, in order of their registered  *)
(* heights, to a pool of workers; each asks the daemon for the transaction *)
(* (callRPC with its attempts) and puts it on scid_processing, from where  *)
(* scid_handling and scid_db_writer bring it to the database.  The writer  *)
(* announces each install on staged_for_writing, which start_printer reads *)
(* only after the fast sync has returned.  The chain and the registry grow *)
(* all the while.                                                          *)
(*                                                                         *)
(* The process may end at any point: by a signal, or by the panic and the  *)
(* log.Fatal of a worker whose answer stays invalid.  It starts again from *)
(* the stored height.  The passes that follow are modelled by              *)
(* HeightHandling and Pipeline.                                            *)
(***************************************************************************)
EXTENDS Integers, Sequences, FiniteSets

CONSTANTS
    Contracts,       \* the contracts the registry comes to list
    ListedAt,        \* the topoheight from which it lists each
    Registered,      \* the height it states for each, whatever that is
    Block_Height,    \* the height of its block
    Skipped,         \* the two contracts task() returns for
    Outcome,         \* what work_on_scids does: "stage", "invalid" or "drop"
    starting_height,
    FirstTopo, MaxTopo,  \* the daemon's topoheight at first; bound: at last
    Quarter,         \* day_of_blocks / 4
    Workers,         \* GOMAXPROCS import workers
    Retries,         \* repeated calls of callRPC
    ImportSize, QueueSize, StagedSize,  \* capacities of the channels
    MaxStops,        \* bound: ends of the process
    MaxBad           \* bound: answers that fail validation

None == "none"

ASSUME FastSyncAssumption ==
    /\ IsFiniteSet(Contracts) /\ None \notin Contracts /\ Skipped \subseteq Contracts
    /\ Registered \in [Contracts -> Nat] /\ ListedAt \in [Contracts -> Nat]
    /\ Block_Height \in [Contracts -> 0 .. MaxTopo]
    /\ Outcome \in [Contracts -> {"stage", "invalid", "drop"}]
    /\ {starting_height, FirstTopo, MaxTopo, Quarter, Retries, MaxStops, MaxBad} \subseteq Nat
    /\ FirstTopo <= MaxTopo
    /\ {ImportSize, QueueSize, StagedSize} \subseteq Nat \ {0}
    /\ Workers # {}

VARIABLES
    pc,         \* where fastsync_handling is
    todo,       \* importables not yet sent
    imports, closed,
    worker,     \* what each import worker does, with which import, after how many tries
    scid_processing,
    scid,       \* what scid_handling has in hand
    deploys,    \* the invalid deploys it read, and whether two commits came since
    scid_db_queue,
    writer,     \* what scid_db_writer does, and with which contract
    staged_for_writing,  \* the number of installs announced and not read
    index, invalid,      \* the owner bucket and the invalid deploys
    LastIndexHeight, lowest_height,
    asked,      \* what this process read from the registry and asks the daemon for
    missed,     \* what the registry did not list yet when it read it
    overtaken,  \* an import was handed on before one registered earlier
    reused,     \* the bytes of deploys may have been overwritten before they were used
    topo,       \* the daemon's topoheight
    stops, bad

main    == <<pc, todo, imports, closed, lowest_height>>
scids   == <<scid_processing, scid, deploys>>
writing == <<scid_db_queue, writer, staged_for_writing>>
stored  == <<index, invalid, LastIndexHeight>>
outside == <<topo, stops, bad>>
history == <<asked, missed, overtaken, reused>>
vars    == <<main, worker, scids, writing, stored, history, outside>>

Idle == [at |-> "range", item |-> None, tries |-> 0]
Free == [at |-> "receive", item |-> None]
Unread == [viewed |-> FALSE, bytes |-> {}, stale |-> FALSE]

TypeOK ==
    /\ pc \in {"read", "send", "queues", "wait", "done"}
    /\ todo \subseteq Contracts /\ closed \in BOOLEAN
    /\ imports \in Seq(Contracts) /\ Len(imports) <= ImportSize
    /\ worker \in [Workers -> [at : {"range", "call", "push", "left"},
                               item : Contracts \cup {None}, tries : 0 .. Retries + 1]]
    /\ scid_processing \in Seq(Contracts) /\ Len(scid_processing) <= QueueSize
    /\ scid_db_queue \in Seq(Contracts) /\ Len(scid_db_queue) <= QueueSize
    /\ scid \in Contracts \cup {None}
    /\ deploys \in [viewed : BOOLEAN, bytes : SUBSET Contracts, stale : BOOLEAN]
    /\ writer \in [at : {"receive", "announce", "add", "height"}, item : Contracts \cup {None}]
    /\ staged_for_writing \in 0 .. StagedSize
    /\ index \subseteq Contracts /\ invalid \subseteq Contracts
    /\ {LastIndexHeight, lowest_height} \subseteq 0 .. MaxTopo
    /\ topo \in FirstTopo .. MaxTopo
    /\ asked \subseteq Contracts /\ missed \subseteq Contracts
    /\ {overtaken, reused} \subseteq BOOLEAN
    /\ stops \in 0 .. MaxStops /\ bad \in 0 .. MaxBad

\* Get_TopoHeight; its error is ignored, and the height then 0.
TopoHeights == {0, topo}

\* The fast sync runs when the stored height is behind by more than a quarter
\* of a day.
FirstSteps(height) ==
    {IF now - height > Quarter THEN "read" ELSE "done" : now \in TopoHeights}

Init ==
    /\ topo = FirstTopo
    /\ LastIndexHeight = 0 /\ lowest_height = 0 /\ pc \in FirstSteps(0)
    /\ todo = {} /\ imports = <<>> /\ closed = FALSE /\ asked = {} /\ missed = {}
    /\ worker = [w \in Workers |-> Idle]
    /\ scid_processing = <<>> /\ scid = None /\ deploys = Unread
    /\ scid_db_queue = <<>> /\ writer = Free /\ staged_for_writing = 0
    /\ index = {} /\ invalid = {} /\ overtaken = FALSE /\ reused = FALSE
    /\ stops = 0 /\ bad = 0

-----------------------------------------------------------------------------
(* fastsync_handling                                                       *)

\* What the registry lists now.
Listed == {c \in Contracts : ListedAt[c] <= topo}

Importables == {c \in Listed : Registered[c] >= lowest_height}

\* Mutated: in whatever order the map is iterated.
AnyOrder(S) == S

\* sort.Slice by the registered height: the next one is a lowest one, and equal
\* heights come in any order.
Sorted(S) == {c \in S : \A d \in S : Registered[c] <= Registered[d]}

ReadRegistry ==
    /\ pc = "read"
    /\ todo' = Importables /\ asked' = Importables /\ missed' = Contracts \ Listed
    /\ pc' = "send"
    /\ UNCHANGED <<imports, closed, lowest_height, worker, scids, writing,
                   stored, overtaken, reused, outside>>

SendImport ==
    /\ pc = "send" /\ Len(imports) < ImportSize
    /\ \E c \in Sorted(todo) :
         /\ imports' = Append(imports, c)
         /\ todo' = todo \ {c}
    /\ UNCHANGED <<pc, closed, lowest_height, worker, scids, writing, stored,
                   history, outside>>

CloseImports ==
    /\ pc = "send" /\ todo = {}
    /\ closed' = TRUE
    /\ pc' = "queues"
    /\ UNCHANGED <<todo, imports, lowest_height, worker, scids, writing,
                   stored, history, outside>>

\* Mutated: it waits for the announcements, which nobody reads yet, too.
WaitForStaged ==
    /\ pc = "queues"
    /\ scid_processing = <<>> /\ scid_db_queue = <<>> /\ staged_for_writing = 0
    /\ pc' = "wait"
    /\ UNCHANGED <<todo, imports, closed, lowest_height, worker, scids, writing,
                   stored, history, outside>>

\* The channels are empty at one moment; the workers may still fill them.
waitForAllQueues ==
    /\ pc = "queues"
    /\ scid_processing = <<>> /\ scid_db_queue = <<>>
    /\ pc' = "wait"
    /\ UNCHANGED <<todo, imports, closed, lowest_height, worker, scids, writing,
                   stored, history, outside>>

\* Mutated: no wg.Wait after waitForAllQueues.
DoneAtOnce ==
    /\ pc = "wait"
    /\ lowest_height' \in TopoHeights
    /\ pc' = "done"
    /\ UNCHANGED <<todo, imports, closed, worker, scids, writing, stored,
                   history, outside>>

\* Mutated: they start at the block after the top.
DoneAfterTop ==
    /\ pc = "wait"
    /\ \A w \in Workers : worker[w].at = "left"
    /\ lowest_height' = topo + 1
    /\ pc' = "done"
    /\ UNCHANGED <<todo, imports, closed, worker, scids, writing, stored,
                   history, outside>>

\* wg.Wait; the passes start at the topoheight that the daemon gives now.
Done ==
    /\ pc = "wait"
    /\ \A w \in Workers : worker[w].at = "left"
    /\ lowest_height' \in TopoHeights
    /\ pc' = "done"
    /\ UNCHANGED <<todo, imports, closed, worker, scids, writing, stored,
                   history, outside>>

FastSyncStep == ReadRegistry \/ SendImport \/ CloseImports \/ waitForAllQueues \/ Done

-----------------------------------------------------------------------------
(* the import workers                                                      *)

Set(w, at, item, tries) ==
    worker' = [worker EXCEPT ![w] = [at |-> at, item |-> item, tries |-> tries]]

Receive(w) ==
    /\ worker[w].at = "range" /\ imports # <<>>
    /\ imports' = Tail(imports)
    /\ IF Head(imports) \in Skipped THEN UNCHANGED worker
       ELSE Set(w, "call", Head(imports), 0)
    /\ UNCHANGED <<pc, todo, closed, lowest_height, scids, writing, stored,
                   history, outside>>

Leave(w) ==
    /\ worker[w].at = "range" /\ imports = <<>> /\ closed
    /\ Set(w, "left", None, 0)
    /\ UNCHANGED <<main, scids, writing, stored, history, outside>>

Answer(w) ==
    /\ worker[w].at = "call" /\ worker[w].tries <= Retries
    /\ IF starting_height > Registered[worker[w].item] THEN Set(w, "range", None, 0)
       ELSE Set(w, "push", worker[w].item, 0)
    /\ UNCHANGED <<main, scids, writing, stored, history, outside>>

\* callRPC asks again, or gives up: in a process that may not end any more (a
\* bound) the last attempt succeeds.
BadAnswer(w) ==
    /\ worker[w].at = "call" /\ bad < MaxBad
    /\ worker[w].tries <= Retries /\ (worker[w].tries = Retries => stops < MaxStops)
    /\ Set(w, "call", worker[w].item, worker[w].tries + 1)
    /\ bad' = bad + 1
    /\ UNCHANGED <<main, scids, writing, stored, history, topo, stops>>

Push(w) ==
    /\ worker[w].at = "push" /\ Len(scid_processing) < QueueSize
    /\ scid_processing' = Append(scid_processing, worker[w].item)
    /\ Set(w, "range", None, 0)
    /\ overtaken' = (overtaken \/ \E v \in Workers :
                        /\ worker[v].at \in {"call", "push"}
                        /\ Registered[worker[v].item] < Registered[worker[w].item])
    /\ UNCHANGED <<main, scid, deploys, writing, stored, asked, missed, reused, outside>>

ImportStep(w) == Receive(w) \/ Leave(w) \/ Answer(w) \/ BadAnswer(w) \/ Push(w)

-----------------------------------------------------------------------------
(* scid_handling, scid_db_writer, start_printer                            *)

TakeScid ==
    /\ scid = None /\ scid_processing # <<>>
    /\ scid' = Head(scid_processing)
    /\ scid_processing' = Tail(scid_processing)
    /\ UNCHANGED <<main, worker, deploys, writing, stored, history, outside>>

\* A transaction without contract data, one that no search_filter matches, or a
\* daemon that knows no variables: nothing is stored.  All others are staged.
WorkOnScid ==
    /\ scid # None /\ scid' = None
    /\ \/ Outcome[scid] = "drop" /\ UNCHANGED scid_db_queue
       \/ /\ Outcome[scid] = "stage" /\ Len(scid_db_queue) < QueueSize
          /\ scid_db_queue' = Append(scid_db_queue, scid)
    /\ UNCHANGED <<main, worker, scid_processing, deploys, writer, staged_for_writing,
                   stored, history, outside>>

\* StoreInvalidSCIDDeploys reads the map in a View and keeps the bytes, which
\* belong to the database file.
ViewDeploys ==
    /\ scid # None /\ Outcome[scid] = "invalid" /\ ~ deploys.viewed
    /\ deploys' = [viewed |-> TRUE, bytes |-> invalid, stale |-> FALSE]
    /\ UNCHANGED <<main, worker, scid_processing, scid, writing, stored, history, outside>>

\* Mutated: the map is not decoded.
UpdateDeploysAlone ==
    /\ deploys.viewed
    /\ invalid' = {scid}
    /\ reused' = (reused \/ deploys.stale)
    /\ scid' = None /\ deploys' = Unread
    /\ UNCHANGED <<main, worker, scid_processing, writing, index, LastIndexHeight,
                   asked, missed, overtaken, outside>>

\* It decodes them in its Update.  After two commits of the writer any part of
\* the map may be gone; the error of json.Unmarshal is ignored.
UpdateDeploys ==
    /\ deploys.viewed
    /\ \E old \in IF deploys.stale THEN SUBSET deploys.bytes ELSE {deploys.bytes} :
         invalid' = old \cup {scid}
    /\ reused' = (reused \/ deploys.stale)
    /\ scid' = None /\ deploys' = Unread
    /\ UNCHANGED <<main, worker, scid_processing, writing, index, LastIndexHeight,
                   asked, missed, overtaken, outside>>

ScidHandling == TakeScid \/ WorkOnScid \/ ViewDeploys \/ UpdateDeploys

WriterTakes ==
    /\ writer.at = "receive" /\ scid_db_queue # <<>>
    /\ writer' = [at |-> "announce", item |-> Head(scid_db_queue)]
    /\ scid_db_queue' = Tail(scid_db_queue)
    /\ UNCHANGED <<main, worker, scids, staged_for_writing, stored, history, outside>>

\* The send blocks while staged_for_writing is full.
Announce ==
    /\ writer.at = "announce" /\ staged_for_writing < StagedSize
    /\ staged_for_writing' = staged_for_writing + 1
    /\ writer' = [writer EXCEPT !.at = "add"]
    /\ UNCHANGED <<main, worker, scids, scid_db_queue, stored, history, outside>>

\* Two or more transactions of the writer: the pages of deploys are given up by
\* the first and may be written to by the second.
Committed == deploys' = [deploys EXCEPT !.stale = deploys.viewed]

\* AddSCIDToIndex: the variables, then the owner.
AddToIndex ==
    /\ writer.at = "add"
    /\ index' = index \cup {writer.item}
    /\ writer' = [writer EXCEPT !.at = "height"]
    /\ Committed
    /\ UNCHANGED <<main, worker, scid_processing, scid, scid_db_queue, staged_for_writing,
                   invalid, LastIndexHeight, history, outside>>

\* The three counts, then the height.
StoreHeight ==
    /\ writer.at = "height"
    /\ LastIndexHeight' = Block_Height[writer.item]
    /\ writer' = Free
    /\ Committed
    /\ UNCHANGED <<main, worker, scid_processing, scid, scid_db_queue, staged_for_writing,
                   index, invalid, history, outside>>

WriterStep == WriterTakes \/ Announce \/ AddToIndex \/ StoreHeight

\* start_printer, which runs after the fast sync.
Printer ==
    /\ pc = "done" /\ staged_for_writing > 0
    /\ staged_for_writing' = staged_for_writing - 1
    /\ UNCHANGED <<main, worker, scids, scid_db_queue, writer, stored, history,
                   outside>>

-----------------------------------------------------------------------------

Restart ==
    /\ stops < MaxStops
    /\ stops' = stops + 1
    /\ UNCHANGED <<stored, overtaken, reused, topo, bad>>
    /\ lowest_height' \in {IF h < LastIndexHeight THEN h ELSE LastIndexHeight : h \in TopoHeights}
    /\ pc' \in FirstSteps(lowest_height')
    /\ todo' = {} /\ imports' = <<>> /\ closed' = FALSE /\ asked' = {} /\ missed' = {}
    /\ worker' = [w \in Workers |-> Idle]
    /\ scid_processing' = <<>> /\ scid' = None /\ deploys' = Unread
    /\ scid_db_queue' = <<>> /\ writer' = Free /\ staged_for_writing' = 0

\* A signal, log.Fatal on a transport error, or the machine.
Stop == Restart

\* The last attempt fails validation too: callRPC returns the zero value and
\* Txs_as_hex[0] panics.
Panic(w) ==
    /\ worker[w].at = "call" /\ worker[w].tries > Retries
    /\ Restart

\* The chain and, with it, the registry grow.
NewBlock ==
    /\ topo < MaxTopo
    /\ topo' = topo + 1
    /\ UNCHANGED <<main, worker, scids, writing, stored, history, stops, bad>>

Next ==
    \/ FastSyncStep \/ ScidHandling \/ WriterStep \/ Printer \/ Stop \/ NewBlock
    \/ \E w \in Workers : ImportStep(w) \/ Panic(w)

\* The goroutines run and the daemon answers; bad answers, ends of the process and
\* new blocks are owed by nobody.
Fairness ==
    /\ WF_vars(FastSyncStep) /\ WF_vars(ScidHandling) /\ WF_vars(WriterStep)
    /\ WF_vars(Printer) /\ \A w \in Workers : WF_vars(ImportStep(w) \/ Panic(w))

Spec == Init /\ [][Next]_vars /\ Fairness

-----------------------------------------------------------------------------
(* Properties                                                              *)

\* The contracts the fast sync is to bring to the database.
Wanted ==
    {c \in Contracts \ Skipped : Registered[c] >= starting_height /\ Outcome[c] # "drop"}
Elements(s) == {s[i] : i \in DOMAIN s}
InPipe == Elements(scid_processing) \cup Elements(scid_db_queue) \cup {scid, writer.item}
Accounted == index \cup invalid

\* When the fast sync returns, every contract it read from the registry has
\* left the workers: it is in the database, or in a channel or a hand behind
\* scid_processing, although waitForAllQueues may have returned before the last
\* workers pushed theirs.  (Unless an invalid deploy was lost: see InvalidKept.)
ImportsHandedOn ==
    (pc = "done" /\ ~ reused) => asked \cap Wanted \subseteq Accounted \cup InPipe

\* The heights that the registry states are no lower than those of the blocks,
\* in the same order, and in the order it comes to list the contracts.
HonestRegistry ==
    /\ \A c \in Contracts : Block_Height[c] <= Registered[c]
    /\ \A c, d \in Contracts :
          /\ Registered[c] <= Registered[d] => Block_Height[c] <= Block_Height[d]
          /\ Registered[c] < Registered[d] => ListedAt[c] <= ListedAt[d]

\* Where a contract is no longer, or not yet, the fast sync's business.
Settled == Accounted \cup InPipe \cup {c \in Contracts : Block_Height[c] >= lowest_height}

\* The process may end at any point and start again from the height the writer
\* stored last, while the chain and the registry grow: when its fast sync has
\* returned, or was not needed, a wanted contract is in the database, on its way
\* there, or in a block the passes will come to.  This is what importing in
\* sorted order is for.  Three things are taken for it.  No import overtook one
\* registered earlier and no invalid deploy was lost.  The heights the registry
\* states can be relied on as HonestRegistry says: the filter, the sort and the
\* start compare these, although the code's own comments do not trust them
\* (handling_fastsync.go:85, 134).  And the contract was listed when this process
\* read the registry: Done takes the topoheight of a later moment, and what was
\* installed in between may be in neither.
ResumesComplete ==
    (pc = "done" /\ ~ overtaken /\ ~ reused /\ HonestRegistry) => Wanted \ missed \subseteq Settled

\* No invalid deploy is forgotten, although the map is read in one transaction
\* and written in another while scid_db_writer commits its own, unless two or
\* more of those commits came in between.
InvalidKept == [][~ reused' => invalid \subseteq invalid']_vars

\* The fast sync returns, in the process that stays, if the installs it imports are at most one more than
\* staged_for_writing holds: nobody reads that channel yet, so the writer
\* stops at the first one that does not fit and waitForAllQueues only returns
\* if no second one waits behind it.
FastSyncEnds ==
    Cardinality({c \in Wanted : Outcome[c] = "stage"}) <= StagedSize + 1 => <>[](pc = "done")
=============================================================================
