# A TLA+ model of simple-gnomon

simple-gnomon indexes the DERO blockchain: it fetches every block from a
daemon, picks the smart-contract transactions out of it, and stores contracts,
calls, variables, miniblocks and ring members in a bbolt database that a
WebSocket server and an HTTP API query.  This directory models the parts that
are concurrent or durable, checks them with TLC on small instances and proves
the central invariants with TLAPS for every instance.

Source paths below are relative to the repository; `PROJECT.json` maps every
definition to its lines.

## Inventory

| part | state | operations | talks to |
|---|---|---|---|
| height scheduler, `pkg/handling_heights.go`, `start_printer` in `pkg/gnomon.go` | `now`, `lowest_height`, `achieved_current_height` (shared, no lock), `height_processing`, `RUNNING` | a pass over the new heights, its pool of workers, the 2s poll of `now`, interrupt | daemon, `block_processing`, the stored height, backup |
| pipeline, `pkg/handling_blocks.go`, `handling_txs.go`, `handling_scids.go`, `db_writer.go` | four bounded channels, one listener per block, `holding_queue` counters, stored height and counts | deserialise, batch, dispatch by type, stage a contract call, write | daemon, database |
| index writer, `AddSCIDToIndex` in `db/bbolt.go` | `Writing`, buckets for variables, owner, calls, heights | up to four bbolt transactions per call | `scid_db_writer`, backup goroutines |
| variable queries, `db/bbolt.go` | the snapshots per height, the interaction heights | merge up to a height, choose a height, by key, by value | WebSocket, API |
| miniblock accounting, `pkg/handling_blocks.go`, `db_writer.go` | two queues, `miner_map`, details and totals | store a block's miners, then each total | `block_handling`, database |
| normal transactions, `pkg/handling_txs.go`, `db/bbolt.go` | one list per address | read the list, write it longer | listeners, database |
| daemon calls, `connections/daemon_rpc.go` | `DOWNLOADS` | call, validate, repeat at most four times | daemon |
| backup, `BackUpDatabases`, `backup`, `find_lowest_height` | files, `established_backup` | snapshot, rename, compact | scheduler, writer |
| fast sync, `pkg/handling_fastsync.go` | `imports`, `lowest_height` | import the contracts that a registry contract lists | pipeline |
| classification, `work_on_scids`, `set_up_backend` | `indices`, exclusions | filter, class, tags, headers | pipeline |
| WebSocket server, `connections/ws_server.go` | sessions | read a request, query the database in one or several transactions, reply | database |
| HTTP API, `connections/api.go` | cached statistics, a timer | refresh the cache, read-only handlers | database |
| XSWD, certificates, flags | connections, settings | handshakes | wallet |

What is hard here:

* `now`, `lowest_height` and `achieved_current_height` are plain variables that
  two goroutines write, and a pass takes many steps over them;
* the stored height, the counts and the index are written at different
  moments by different goroutines, and blocks arrive in any order, so a stop at
  any point has to be survivable;
* `AddSCIDToIndex` is several transactions behind a flag that is tested and
  set without a lock; lists are read in one transaction and written in
  another;
* errors of the daemon calls are mostly dropped;
* the query code merges snapshots that were stored in any order, and puts
  answers together from several transactions while the writers go on;
* a backup copies, renames and removes files that other goroutines have open,
  and the process may end in the middle of it;
* the fast sync fills channels whose last reader is not started yet.

What makes each part correct: a height is handed out exactly once and none is
skipped; a transaction is never lost or duplicated on its way to the database;
what the database lists is backed by the records it points to after any crash;
a query about a height answers the state of that height; counts match details;
a finished backup holds what was indexed, and there is always a complete one; a
fast sync ends and leaves no listed contract behind; every request is answered.

## Modules

| module | models | correspondence |
|---|---|---|
| `HeightHandling` | the scheduler | `pc` is the place in the loop of `height_handling`; each access to a shared variable is a step (`LoopHead`, `Clamp`, `StartHeight`, `Count`, `SendHeight`, `CloseHeights`, `WaitWorkers`, `Achieve`, `Lower`); `Receive`, `HandOver`, `Leave` are a worker; `Poll`, `Publish` are the two halves of the ticker case; `TopoAnswer` is a `Get_TopoHeight` whose error is ignored |
| `Store` | `AddSCIDToIndex` | one step per bbolt transaction, `Test` and `Set` for the flag, `Return` for the deferred reset, `Crash` for the end of the process at any point (an error is a `log.Fatal`) |
| `Pipeline` | everything from a height to the database | one action per receive of a goroutine; `Batching` is one batch goroutine, `HandleTx` one transaction of a listener, which counts it, passes it on, or leaves it; `WriterAdd`, `WriterCounts`, `WriterHeight` are the three parts of the writer; `Stop` is exit and restart; `Fault` an answer that failed validation |
| `VariableHistory` | the queries about a contract's variables | `chain` is the true history, `snapshots` and `heights` the buckets; the readers are operators with the names of the Go methods |
| `Minis` | miniblock accounting | one step per bbolt transaction of `mini_db_writer`'s `work`; `Stop` re-reads the details |
| `NormalTxIndex` | `StoreNormalTxWithSCIDByAddr` | `View` and `Update` are its two transactions, one process per listener; an entry is a transaction with the contract of one payload |
| `Index` | what the pipeline promises | an abstract specification: a set of transactions to do, taken one at a time, each at most once per process; `Pipeline.ImplementsIndex` maps `Pipeline` to it |
| `Backup` | full and incremental backups | `bpc` is the place in `BackUpDatabases`; the files `.bak`, `.bak.tmp`, `.snapshot` are records, `handle` is the file `backup_database` has open; `Pass`, `Achieve`, `Decide`, `Launch` are what a pass of `height_handling` does about it; `Fail` is an error that is printed and returned on, `Panic` what follows a `bbolt.Open` whose error is dropped (a nil database, the deferred removal, the end of the process), `Cleanup` the deferred removal, `Crash` a restart |
| `FastSync` | `fastsync_handling` up to the database | `pc` is its place; `NewBlock` lets chain and registry grow, `ReadRegistry` takes what is listed then (`missed` is the rest), `Done` reads the topoheight again; `Receive` to `Push` are an import worker, `BadAnswer` and `Panic` the attempts of `callRPC` and what follows the last; `ViewDeploys`, `UpdateDeploys` the two transactions of `StoreInvalidSCIDDeploys`; `WriterTakes` to `StoreHeight` the writer; `Printer` is `start_printer` |
| `Classify` | class, tags and search filter of `work_on_scids` | operators; a code is the set of terms it contains; `HasPart` is `strings.Contains` on values that are not spelled out, the matches being given by the instance |
| `Queries` | a WebSocket session and the statistics of the API, over `Classify` and `NormalTxIndex` | one step per `View` transaction of a method; a request names a part of a class, a tag or an address, as the code matches parts; `WriterStep` and `ListenerStep` are the writers; `collectStats` the timer |
| `HeightHandling_proofs`, `Store_proofs`, `Pipeline_proofs`, `Backup_proofs`, `Minis_proofs`, `Queries_proofs`, `FastSync_proofs`, `VariableHistory_proofs` | theorems about the module of that name, `Queries_proofs` about `NormalTxIndex` too | |
| `MC...` | instances for TLC | constants only, no definition is replaced |

How they fit: `HeightHandling` hands over the heights that `Pipeline` starts
from (there a pass is a cursor; that a height comes once is `OneOwner`);
`Pipeline.WriterAdd` is a whole call of `Store`; the heights of `Store` reach
`VariableHistory` in any order because `Pipeline` keeps none; `Minis.Offer`
takes a block once per process because of `OneOwner`.  `FastSync` runs before
the first pass and leaves `lowest_height` to it; `Backup` follows a pass.
`Queries` composes the listeners of `NormalTxIndex`, the writer and the readers
in one specification.

Each `Mutated:` operator in a module is a plausible bug of the operator below
it; every property of a passing run is refuted by one of them.

## Runs

| run | instance | shows |
|---|---|---|
| `heights` | two workers, chain growing from 3 to 5, `--start-topoheight=1` | `TypeOK`; `OneOwner`; `PassHandsOver`; `NoPanic`; live: `InitialRangeHandled`, `CatchesUp` |
| `heights_skip` | two workers, chain growing from 2 to 3 | refutes `NoBlockSkipped` |
| `store` | two callers, one contract with an install and three calls, crashes | `TypeOK`; `CrashConsistent`; `NoRepeatedHeight`; `DoneRecorded`; `HeightKept`; live: `AddReturns` |
| `pipeline` | three blocks, five transactions, one of them a coinbase, channels of capacity 1, one restart, one failed answer | `TypeOK`; `Conservation`; `AllAccounted`; live: `EventuallyIndexed`; refines: `ImplementsIndex` |
| `pipeline_lost` | two blocks, one restart | refutes `AllIndexed` |
| `history` | three variables, two with keys that become one float64, three heights, with and without `--fastsync`, deposits under -1 | `TypeOK`; `NoFutureValues`; `ExistingVariablesExact`; `NewestQueryExact` |
| `history_key` | two variables, four heights, no deposits | refutes `ValuesByKeyAtHeight` |
| `minis` | three blocks, two miners, two restarts | `TypeOK`; `TotalsMatchDetails`; `CountNeverAhead` |
| `queries` | two listeners with a ring member in common, a writer of three jobs, sessions of two requests with every method, the statistics timer, a restart | `QTypeOK`; `ListedOnce`; `ClassAnswerExact`; `AddrAnswerBounded`; steps: `ClassTagsAgree`; live: `KnownAnswered`, `StatsCatchUp` |
| `backup` | a chain of two or three blocks, two backup goroutines, failing file operations, one crash or panic | `TypeOK`; `BackupCovers`; `ProtectedCopy`; live: `BackupReturns` |
| `backup_incremental` | one backup goroutine, no failures | refutes `IncrementalsKept` |
| `fastsync` | six listed contracts and a seventh in the next block, two import workers, channels of capacity 1, one restart, one failed answer | `TypeOK`; `ImportsHandedOn`; `ResumesComplete`; steps: `InvalidKept`; live: `FastSyncEnds` |

The refuting runs record where the code and its own words part:

* `heights_skip`: `lowest_height = min(now, achieved_current_height)` reads a
  `now` that `start_printer` may have raised after the loop ended.  The blocks
  in between are never fetched (README: "It parses each block").
* `pipeline_lost`: the achieved height is stored while blocks are in the
  channels, which exit drops.
* `history_key`: `GetInteractionIndex` keeps looping after the right height and
  returns the lowest.
* `backup_incremental`: `BackUpDatabases` renames the file that
  `backup_database` has open and removes it at the end; the "incremental
  backups" of the rest of the process go to a file without a name.

Properties that hold under a condition state it; what lies outside the
condition is a known limit of the code:

* `OneOwner`, `NoPanic` and `CatchesUp` need a daemon that answers its
  topoheight (`ZeroAnswers = FALSE`): a validation failure is taken as height
  0.  `NoPanic` also needs `--ending-topoheight` to be absent: the clamp of
  `now` is undone by the next tick, so heights above it are indexed and
  `make(chan int64, result)` may get a negative size (no run uses
  the flag).
* `EventuallyIndexed` needs a transaction worker: with one or two processors
  `tx_handling` starts none.  `Conservation`, `AllAccounted` and `AllIndexed` are
  checked on blocks of one batch: `batching` asks for an empty slice of hashes
  for every batch but the last, so of a larger block only the last batch is
  indexed.
* A transaction that fails to decode and a `PREMINE` or `COINBASE` one is neither
  indexed nor counted (`Ignored`); the code means to leave the latter.
* `HeightKept` excepts two callers that pass `for bbs.Writing` together, as the
  goroutines that write `backup_database` may: both view the same list, and the
  second drops the first one's height.  The main database has a single caller.
* `BackupCovers` excludes what workers held when `waitForAllQueues` found the
  channels empty, a copy during which the database was written to (nothing
  keeps writers out), and a failed operation, after which
  `established_backup` is set all the same.
* `ProtectedCopy` is good for one crash between rename and compact: the restart
  does not look at `.bak.tmp` and the next rename overwrites it.  It
  excludes failed operations, which delete the protected copy (the
  deferred removal does not ask how `bbolt.Compact` ended; a `bbolt.Open` whose
  error is dropped panics and removes it too), and a copy that commits
  overlapped.
* `establishing_backup` is tested and set in one step (`Begin`), though the code
  does it in two without a lock: the goroutines are started by passes that are at
  least a quarter of a day of blocks apart, the two statements follow each other.
* `ResumesComplete` excludes imports that overtake one registered earlier: the
  writer may then store the later height, and a restart skips the earlier
  contract. It also excludes a lost invalid deploy, a contract that was not
  listed yet when this process read the registry (the topoheight is read again
  after the import, and blocks that came in between are parsed by nobody), and a
  registry that `HonestRegistry` does not describe: stated heights below those
  of the blocks, or in another order. The comments at `handling_fastsync.go:85`
  and `:134` say not to rely on the stated heights, while the filter, the sort
  and the restart do.
* Contracts that `work_on_scids` drops (no contract data, no match of
  `--search-filter`, no variables) are not missed by `ResumesComplete`.
* `FastSyncEnds` holds up to one install more than `staged_for_writing` has
  room for; with two more, `scid_db_writer` and the fast sync wait for good.
* `InvalidKept` excludes two commits of the writer between the `View` and the
  `Update` of `StoreInvalidSCIDDeploys`: the bytes it kept belong to pages that
  may have been overwritten.
* `KnownAnswered` is about known methods: an unknown one is neither answered
  nor does it end the session, whatever `errDisconnected` says.
* With `--search-filter` every call is dropped, since the code is asked for at
  installs only (`Dropped`).
* `AllAccounted` and `EventuallyIndexed` are about an undisturbed process.  A
  restart counts transactions again, a failed answer loses its transactions,
  and the writer stores the height of whichever transaction came last.
* `DoneRecorded` asks for a record under a call's key: two calls whose
  abbreviated keys agree leave one record.
* `NoFutureValues` excludes the deposit under height -1, which is newer than
  the heights it sorts before, and, like `ExistingVariablesExact`, the flag
  `--fastsync`, under which every snapshot is of the moment it was taken.
  Keys and values from 2^53 on are answered rounded; of two keys that round to
  one, one is hidden.  `ExistingVariablesExact` is about variables that
  exist: the merge keeps deleted ones.  `NewestQueryExact` needs one call: a
  contract that was only installed has no interaction height and answers
  nothing by key.  `GetSCIDValuesByKey` and its like read the
  heights and the snapshots in two transactions, which are one state here; what is
  stored between the two for another height is not seen.
* `OwnListed` (proved, in no run) is about addresses of one block: two listeners
  that share a ring member read its list together and the second to write drops
  the first one's entry. For the same reason `AddrAnswerBounded` allows, for an
  address two listeners share, an answer with a contract that was listed at its
  beginning and is not at its end; for every other address an answer is within
  what the database holds at its end. The list of an address names one contract
  per transaction: duplicates are found by `Txid` alone, and the contract of a
  second payload is dropped.
* `ClassAnswerExact` is about the part of a class or tag that was asked for: the
  code looks for it with `strings.Contains`, so a request for `A` gets the
  contracts of every class with an A in it, and an empty one gets all.  The tags
  are matched one by one, so a part that spans two tags at their comma is not
  modelled.
* `CountNeverAhead` is an inequality: a crash between details and counts
  leaves the stored count short until the miner's next block.

### Bounds

Three to five heights are enough for a pass that grows while it runs, a second
pass after it and a block that arrives in between.  Channels of capacity 1 make
every send block; two workers of a kind give every reordering of two blocks
(three blocks let one overtake two).  Two callers reach every conflict of a
test-and-set flag and of a read-modify-write pair; the proofs cover any number.
Three variables with two values over an install and two calls give changed,
kept, deleted and restored variables, and heights before, between and after
calls; a mantissa of 2 bits makes 5 and 7 the numbers that 2^53 + 1 and
2^54 - 1 are for 53 bits, and 7 is `MaxNumber`.  Restarts
and faults are counted (`MaxStops`, `MaxFaults`) and the chain is bounded by
`MaxTopo`, `Top` and `MaxHeight`.  `batch_size` is 2 in `pipeline`, which no
block of the instance exceeds.

In `backup` a day is one block, so that the trigger is reached at once; one
transaction is enough to be in a channel, in a worker's hands or in a file, and
two goroutines to start a backup during another; `MaxCrashes` bounds crashes and
panics together.  In `fastsync` every channel holds one element; of seven
contracts two are installs that are wanted, one more than `staged_for_writing`
holds (the bound of `FastSyncEnds`), two are invalid, one each is dropped, skipped
and below `--start-topoheight`.  The last install is registered a block late and
listed only in the block that arrives during the sync, so a restart finds it in
the registry.  `Retries = 0` makes the failed answer the last one.
In `store` a caller has an install or a call; a stage without a method, as the
name service's, writes its variables and returns, and is left to the proofs.
In `queries` two contracts of different classes, both asked for by one part, are
installed against their height order, two blocks share a ring member, one address
is part of a signer's name, and a second session follows the first.

The symmetry of the workers is used in `heights_skip` only: they run the same
code.  The runs of `HeightHandling` and `Minis` may end (`CHECK_DEADLOCK FALSE`): after an interrupt,
or when every block is stored and no restart is left; so may those of `FastSync`,
when all is stored.  The other runs check deadlock.

### Fairness

Weak fairness of each goroutine: the Go scheduler runs what can run, timers
fire, and the daemon answers, a transport error being the end of the process.
An import worker is fair in all it may do, the panic after its last attempt
included.
No fairness for blocks, interrupts, crashes, restarts or failed answers.  A
caller that spins on `Writing` gets no strong fairness, since it may find the
flag raised at each wake-up.

## Proofs

`HeightHandling_proofs` (any pool, chain, stored height and flags):

* `TypeCorrect`, `PassHandsOverHolds`: for any answers of the daemon;
* `OneOwnerHolds`: assuming `~ZeroAnswers`;
* `NoPanicHolds`: assuming `~ZeroAnswers` and `ending_height <= 0`.

None of these is inductive.  `IndInv` adds: `now`, `achieved_current_height` and
an answer in flight are at most the daemon's height and in order (`ClockInv`);
outside a pass the workers are gone (`IdleInv`); the head of the channel
separates what was received from what was not (`CursorInv`); the next pass
starts at or above that head, and `--start-topoheight` may move it only while
nothing was handed over (`PassStartInv`); what was received is handed over or in
a worker's hands, and no worker leaves before the channel is closed and empty
(`CoverInv`).  The point of the argument is `PassStartInv`: at `Lower` the last
height sent is at most both `now` and `achieved_current_height`, because both
only grow within a pass, so their minimum cannot fall below it.

`Store_proofs` (any callers, contracts and stages):

* `TypeCorrect`, `CrashConsistentHolds`, `NoRepeatedHeightHolds`,
  `DoneRecordedHolds`: any number of callers, crashes anywhere;
* `HeightKeptHolds`: the same, for the lists of interaction heights;
* `WriterKeepsHeights`: with one caller, which is how the main database is used,
  no height is lost at all.

`IndInv` adds what is committed at each place of a call (`MethodInv`,
`SnapshotInv`, `RecordInv`) and that the list a caller viewed, however stale,
is one that may be written back (`ListInv`): buckets only grow, so a stale list
is still backed.  As long as no two callers passed the test of `Writing` together,
one at most is past it and the flag is up while it is inside (`FlagInv`), so what
it viewed is current (`ViewInv`).

`Pipeline_proofs` (any chain, any number of workers and listeners, any sizes of
the channels and batches, any faults and restarts):

* `TypeCorrect`, which bounds every channel by its capacity;
* `NeverTwice`: no transaction is in two places, or handled twice by a process;
* `ConservationHolds`, `AllAccountedHolds`: assuming `SmallBlocks`, that no
  block is longer than `batch_size`.  The hypothesis is the code's: of a larger
  block `batching` keeps the last batch only, and `Conservation` is then false;
* `RefinesIndex`: the steps of `Pipeline` are steps of `Index` or change nothing
  of it.  A transaction is to do while it is in a place, so the mapping rests on
  `NeverTwice`: a receive takes it from one place to the next, which `Index`
  does not see, and what takes it out of the last is its step.

A transaction that is left (`Ignored`) is a step of `Index` like that of one that
is no valid call: it is through and nothing is recorded (`Reject`).

`IndInv` has three parts.  `StateInv` says what can be in each channel: blocks
carry their own transactions or none, a listener hears of its height only.
`WeightInv` counts, for each transaction, in how many places it is: at most one
if its height was handed out, none if not, and exactly one while no answer has
failed and blocks are small.  Counting is needed because the same block might
be twice in one channel, which a set of places does not show; each action takes
one from one count and gives it to another.  `SettledInv` says what was done for
the transactions the process is through with.

`Backup_proofs` (any number of backup goroutines, failures and crashes):
`TypeCorrect`, `BackupCoversHolds`, `ProtectedCopyHolds`.  `IndInv` adds that
`establishing_backup` lets one goroutine through at a time (`OneBackup`), that
what a backup is to save is in the database, then in the snapshot, then in
`.bak` (`GivenInv`, `WantInv`), that a copy no write overlapped is readable
(`SoundInv`), and under which name the sound copy is at each place and after
each crash (`CopyInv`, `CutsInv`).  A panic is a crash that has removed
`.bak.tmp`, which counts as a failed operation.

`Minis_proofs` (any blocks, miners and restarts): `TypeCorrect`,
`TotalsMatchDetailsHolds`, `CountNeverAheadHolds`.  The totals are counted over
the stored blocks (`Mined`); that a block is added once needs `OnePlace`: a block
of this process is on `mini_queue`, on `mini_db_queue` once, or stored.

`Queries_proofs` (any listeners, contracts, requests and restarts):
`ListedOnceHolds` and `OwnListedHolds` of `NormalTxIndex`; for the whole of
`Queries`, `ListsHold` (the same two), `TypeCorrect`, `ClassAnswerExactHolds`,
`AddrAnswerBoundedHolds` and `StatsExactHolds`.  A list that was viewed repeats
nothing, and is current where no other listener writes (`NormalInv`).  An answer
in the making is bounded by what was there when it was begun (`ByClassInv`,
`ByAddrInv`).  By class it is exact because owners and classes only grow, whatever
part is asked for (the theorem is for any relation `Containing`).  By address the
answer is also compared with what is there when it is sent: for an address of one
listener's block the lists only grow (`NormalScidsGrow`), for a shared one what
was listed at the beginning may be lost and is allowed for.

`FastSync_proofs` (any registry, workers and sizes of the channels):
`TypeCorrect`, `ImportsHandedOnHolds`, `ResumesCompleteHolds`, and the action
property `InvalidKeptHolds`.  `HandedInv` says that what was read from the
registry is in one of the places between `imports` and the database.  As long as
no import overtook another, the order of the registry is kept in each of these
places (`OrderInv`), so what lies below the stored height is stored
(`HeightInv`) and a restart begins early enough (`StartInv`).  The chain and the
registry grow at any step.  `ResumesComplete` is an implication, and the theorem
is one: from `HonestRegistry`, no overtaking, no deploy lost to reused pages, and
the contract listed when this process read the registry.

`VariableHistory_proofs` (any chain, keys, values, mantissa and order of
indexing): `TypeCorrect`, `NoFutureValuesHolds`, `ExistingVariablesExactHolds`,
`NewestQueryExactHolds`.  Three arguments meet:

* what the recursive definitions compute, by induction over the numbers (a set
  that has 0 and with each number the next is `Nat`): the powers of two, and the
  loop of the readers, which answers each decoded key with its values in the
  last of the merged snapshots that has it (`MergeResult`);
* the conversion to float64: it doubles a number at most, is the identity below
  2^`Mantissa`, and changes nothing the second time (`FloatFacts`).  The last is
  needed because a value is decoded when it is stored and again when it is read;
  the rounding may carry into the next exponent;
* `IndInv`: the variables change with calls only (`CallsInv`), and a snapshot is
  of its height, or of a later one with the flag or as a deposit
  (`SnapshotInv`).  So the last event before a height has the state of that
  height, and no other snapshot comes in between (`LastEvent`).

The proofs use the assumptions that the modules make of their constants
(`HeightAssumption`, `StageAssumption`, `PipelineAssumption`, ...) and the
hypotheses named above, and nothing else.  The assumptions are what the code
takes for granted: sizes and heights are natural numbers, a transaction is in
one block and there once, a contract's height is not above the chain's.

Model-checked only: all liveness (`InitialRangeHandled`, `CatchesUp`,
`AddReturns`, `EventuallyIndexed`, `KnownAnswered`, `StatsCatchUp`,
`BackupReturns`, `FastSyncEnds`), since fairness is beyond the prover; and
`ClassTagsAgree`, over the folds of `Classify`.  Of `Conservation` the half that
says nothing is lost is proved for blocks of one batch only, where it is true.

## Not modelled

* The headers of a contract (name, description, image): text taken from its
  variables.  Strings are values of their own in the database; only numbers go
  through a lossy conversion, which `VariableHistory` models.  Numbers from
  2^64 - 2^10 on, whose conversion back to `uint64` Go leaves undefined.
* The getters that are one `View` each, and the API's read-only handlers over
  them: `GetAllSCIDs` stands for a query of one transaction.
* Accepting connections, the XSWD handshake, certificates and the parsing of
  flags: I/O and settings.  Flags appear as constants.
* A daemon call that never returns (the contexts with timeouts are not passed
  to the client), and blocks replaced by a reorganisation: the code has no
  handling for either.

## Plan

Every invariant that a passing run checks is a theorem.  Left: `ClassTagsAgree`, once
the folds of `Classify` are written so that what they compute can be stated;
and the steps between modules that the text above argues informally, such as
that the calls `Pipeline` makes of the writer are those `Store` and
`VariableHistory` start from.
