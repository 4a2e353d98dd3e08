------------------------------- MODULE Backup -------------------------------
(***************************************************************************)
(* The backup database: the trigger at the end of a pass of                *)
(* height_handling (find_lowest_height, waitForAllQueues, go backup()),    *)
(* the full backup of BackUpDatabases with its snapshot, rename, compact   *)
(* and deferred removals, the incremental backups of scid_db_writer, and   *)
(* the end of the process at any point.                                    *)
(*                                                                         *)
(* A transaction, named by its height, stands for what a block adds.  The   *)
(* pipeline is reduced to what waitForAllQueues can see (transactions in a *)
(* channel) and what it cannot (those in a worker's hands).  A database    *)
(* file is its transactions, its stored height and whether it is sound: a  *)
(* finished copy that bbolt can read.  backup_database is a handle opened  *)
(* at the start: it follows its file through a rename and past a removal.  *)
(***************************************************************************)
EXTENDS Integers, FiniteSets

CONSTANTS
    MaxTopo,        \* bound: the chain stops growing at this topoheight
    Txs,            \* the heights with a transaction to index
    day_of_blocks,
    Goroutines,     \* bound: backup() goroutines at a time
    MaxCrashes,     \* bound: number of restarts
    Errors          \* TRUE if a file operation may fail

ASSUME BackupAssumption ==
    /\ MaxTopo \in Nat \ {0} /\ Txs \subseteq 0 .. MaxTopo - 1
    /\ day_of_blocks \in Nat /\ MaxCrashes \in Nat
    /\ Errors \in BOOLEAN

VARIABLES
    topo,        \* the daemon's topoheight, which start_printer copies to now
    lowest_height, achieved_current_height,
    hpc,         \* where height_handling is
    queued,      \* transactions in a channel
    held,        \* transactions a worker is busy with
    main,        \* the file of database
    bak, tmp,    \* the files named .bak and .bak.tmp
    gone,        \* a file without a name that backup_database still has open
    handle,      \* the file backup_database has open: "bak", "tmp" or "gone"
    incremental, \* goroutines of scid_db_writer that write backup_database
    bpc,         \* where each backup() goroutine is
    snapshot,    \* the file .snapshot
    committed,   \* database was written to since the copy began
    establishing_backup, established_backup,
    given,       \* what this process found indexed or handed to the pipeline
    want,        \* what each backup was launched to save
    promised,    \* what the backup that set established_backup was to save
    reported,    \* incremental backups that returned in this process
    had,         \* there has been a sound backup
    cuts,        \* crashes between rename and compact since then
    spoiled,     \* a file operation failed or a copy overlapped a write
    crashes

pass    == <<topo, lowest_height, achieved_current_height, hpc>>
work    == <<queued, held, incremental, reported, given>>
files   == <<bak, tmp, gone, handle>>
flags   == <<establishing_backup, established_backup, promised>>
history == <<had, cuts, spoiled, crashes>>
vars    == <<pass, work, main, files, bpc, snapshot, committed, flags, want,
             history>>

Empty == [items |-> {}, height |-> 0, sound |-> FALSE]
Lesser(a, b) == IF a < b THEN a ELSE b

Below(a, b) == {t \in Txs : a <= t /\ t < b}
FileType == [items : SUBSET Txs, height : 0 .. MaxTopo, sound : BOOLEAN]
Steps == {"off", "launched", "copying", "copied", "renamed", "compacting",
          "cleanup", "finish"}

TypeOK ==
    /\ topo \in 1 .. MaxTopo /\ lowest_height \in 0 .. topo
    /\ achieved_current_height \in 0 .. topo
    /\ hpc \in {"head", "achieve", "decide", "wait"}
    /\ queued \subseteq Txs /\ held \subseteq Txs /\ incremental \subseteq Txs
    /\ {main, bak, tmp, gone, snapshot} \subseteq FileType
    /\ handle \in {"bak", "tmp", "gone"} /\ bpc \in [Goroutines -> Steps]
    /\ {committed, establishing_backup, established_backup, had, spoiled} \subseteq BOOLEAN
    /\ want \in [Goroutines -> SUBSET Txs] /\ reported \subseteq Txs
    /\ given \subseteq Txs /\ promised \subseteq Txs
    /\ cuts \in Nat /\ crashes \in 0 .. MaxCrashes

\* A first start, or one with a database and a backup that agree at some height.
Init ==
    /\ topo = MaxTopo - 1 /\ topo > 0
    /\ \E h \in 0 .. topo :
         /\ main = [items |-> Below(0, h), height |-> h, sound |-> TRUE]
         /\ lowest_height = h
         /\ bak = IF h = 0 THEN Empty ELSE main
         /\ had = bak.sound
    /\ achieved_current_height = 0 /\ hpc = "head"
    /\ queued = {} /\ held = {} /\ incremental = {} /\ reported = {}
    /\ given = main.items /\ promised = {}
    /\ tmp = Empty /\ gone = Empty /\ handle = "bak"
    /\ bpc = [g \in Goroutines |-> "off"] /\ want = [g \in Goroutines |-> {}]
    /\ snapshot = Empty /\ committed = FALSE
    /\ establishing_backup = FALSE /\ established_backup = FALSE
    /\ cuts = 0 /\ spoiled = FALSE /\ crashes = 0

-----------------------------------------------------------------------------
(* backup_database, wherever its file is                                   *)

Live == CASE handle = "bak" -> bak [] handle = "tmp" -> tmp [] OTHER -> gone

WriteLive(f) ==
    /\ bak'  = IF handle = "bak"  THEN f ELSE bak
    /\ tmp'  = IF handle = "tmp"  THEN f ELSE tmp
    /\ gone' = IF handle = "gone" THEN f ELSE gone
    /\ UNCHANGED handle

\* GetLastIndexHeight of backup_database against a day of blocks.
find_lowest_height ==
    LET lowest == Lesser(topo, Live.height)
        condition == achieved_current_height - day_of_blocks
    IN  (IF condition < 0 THEN 1 ELSE condition) > lowest

-----------------------------------------------------------------------------
(* height_handling                                                         *)

\* The head of the loop stores the achieved height in both databases; the pass
\* hands its heights to the pipeline.
Pass ==
    /\ hpc = "head"
    /\ IF achieved_current_height # 0
       THEN /\ main' = [main EXCEPT !.height = achieved_current_height]
            /\ committed' = TRUE
            /\ WriteLive([Live EXCEPT !.height = achieved_current_height])
       ELSE UNCHANGED <<main, committed, files>>
    /\ queued' = queued \cup Below(lowest_height, topo)
    /\ given' = given \cup Below(lowest_height, topo)
    /\ lowest_height' = topo
    /\ hpc' = "achieve"
    /\ UNCHANGED <<topo, achieved_current_height, held, incremental, reported,
                   bpc, snapshot, flags, want, history>>

\* Mutated: the height of the next block.
AchieveNext ==
    /\ hpc = "achieve"
    /\ achieved_current_height' = topo + 1
    /\ hpc' = "decide"
    /\ UNCHANGED <<topo, lowest_height, work, main, files, bpc, snapshot,
                   committed, flags, want, history>>

Achieve ==
    /\ hpc = "achieve"
    /\ achieved_current_height' = topo
    /\ hpc' = "decide"
    /\ UNCHANGED <<topo, lowest_height, work, main, files, bpc, snapshot,
                   committed, flags, want, history>>

Decide ==
    /\ hpc = "decide"
    /\ hpc' = IF achieved_current_height > 0 /\ ~ established_backup
                    /\ find_lowest_height
              THEN "wait" ELSE "head"
    /\ UNCHANGED <<topo, lowest_height, achieved_current_height, work, main,
                   files, bpc, snapshot, committed, flags, want, history>>

\* Mutated: go backup() without the wait.
LaunchAtOnce ==
    /\ hpc = "wait"
    /\ \E g \in Goroutines :
         /\ bpc[g] = "off"
         /\ bpc' = [bpc EXCEPT ![g] = "launched"]
         /\ want' = [want EXCEPT ![g] = given \ held]
    /\ hpc' = "head"
    /\ UNCHANGED <<topo, lowest_height, achieved_current_height, work, main,
                   files, snapshot, committed, flags, history>>

\* waitForAllQueues returns when the channels are empty, whatever the workers
\* hold; then go backup().
Launch ==
    /\ hpc = "wait"
    /\ queued = {}
    /\ \E g \in Goroutines :
         /\ bpc[g] = "off"
         /\ bpc' = [bpc EXCEPT ![g] = "launched"]
         /\ want' = [want EXCEPT ![g] = given \ held]
    /\ hpc' = "head"
    /\ UNCHANGED <<topo, lowest_height, achieved_current_height, work, main,
                   files, snapshot, committed, flags, history>>

HeightStep == Pass \/ Achieve \/ Decide \/ Launch

-----------------------------------------------------------------------------
(* the pipeline                                                            *)

Take(t) ==
    /\ t \in queued
    /\ queued' = queued \ {t} /\ held' = held \cup {t}
    /\ UNCHANGED <<pass, main, incremental, reported, given, files, bpc, snapshot,
                   committed, flags, want, history>>

\* scid_db_writer: the main database, and a goroutine for the backup.
Write(t) ==
    /\ t \in held
    /\ held' = held \ {t}
    /\ main' = [main EXCEPT !.items = @ \cup {t}, !.height = t]
    /\ committed' = TRUE
    /\ incremental' = IF achieved_current_height > 0 THEN incremental \cup {t}
                      ELSE incremental
    /\ UNCHANGED <<pass, queued, reported, given, files, bpc, snapshot, flags, want,
                   history>>

Incremental(t) ==
    /\ t \in incremental
    /\ incremental' = incremental \ {t}
    /\ WriteLive([Live EXCEPT !.items = @ \cup {t}, !.height = t])
    /\ reported' = reported \cup {t}
    /\ UNCHANGED <<pass, queued, held, given, main, bpc, snapshot, committed, flags,
                   want, history>>

\* A block arrives; start_printer stores the daemon's info in the database.
NewBlock ==
    /\ topo < MaxTopo
    /\ topo' = topo + 1
    /\ committed' = TRUE
    /\ UNCHANGED <<lowest_height, achieved_current_height, hpc, work, main,
                   files, bpc, snapshot, flags, want, history>>

-----------------------------------------------------------------------------
(* backup() and BackUpDatabases                                            *)

Go(g, step) == bpc' = [bpc EXCEPT ![g] = step]

\* Mutated: no test of establishing_backup.
BeginAlways(g) ==
    /\ bpc[g] = "launched"
    /\ Go(g, "copying")
    /\ establishing_backup' = TRUE
    /\ snapshot' = main /\ committed' = FALSE
    /\ UNCHANGED <<pass, work, main, files, established_backup, promised, want,
                   history>>

\* The test and the assignment of establishing_backup are one step: two calls
\* are a pass and its pause of Target/4 seconds apart.
Begin(g) ==
    /\ bpc[g] = "launched"
    /\ IF establishing_backup
       THEN Go(g, "off") /\ UNCHANGED <<establishing_backup, snapshot, committed>>
       ELSE /\ Go(g, "copying")
            /\ establishing_backup' = TRUE
            /\ snapshot' = main /\ committed' = FALSE
    /\ UNCHANGED <<pass, work, main, files, established_backup, promised, want,
                   history>>

\* io.Copy of a file that bbolt may be writing: a commit in between leaves the
\* old pages, the new ones, or a mixture bbolt cannot read.
CopyEnd(g) ==
    /\ bpc[g] = "copying"
    /\ Go(g, "copied")
    /\ snapshot' \in IF committed THEN {snapshot, main, [snapshot EXCEPT !.sound = FALSE]}
                     ELSE {snapshot}
    /\ spoiled' = (spoiled \/ committed)
    /\ UNCHANGED <<pass, work, main, files, committed, flags, want, had, cuts,
                   crashes>>

\* "move this file to protect it": the handle moves along, and a file that
\* was .bak.tmp before loses its name.
Rename(g) ==
    /\ bpc[g] = "copied"
    /\ Go(g, "renamed")
    /\ tmp' = bak /\ bak' = Empty
    /\ gone' = IF handle = "tmp" THEN tmp ELSE gone
    /\ handle' = IF handle = "bak" THEN "tmp" ELSE "gone"
    /\ UNCHANGED <<pass, work, main, snapshot, committed, flags, want, history>>

\* bbolt.Open creates .bak, bbolt.Compact fills it: until it returns, .bak is
\* empty or incomplete.
CompactBegin(g) ==
    /\ bpc[g] = "renamed"
    /\ Go(g, "compacting")
    /\ bak' \in {Empty, [snapshot EXCEPT !.sound = FALSE]}
    /\ UNCHANGED <<pass, work, main, tmp, gone, handle, snapshot, committed,
                   flags, want, history>>

CompactEnd(g) ==
    /\ bpc[g] = "compacting"
    /\ Go(g, "cleanup")
    /\ bak' = snapshot
    /\ had' = (had \/ snapshot.sound)
    /\ cuts' = IF snapshot.sound THEN 0 ELSE cuts
    /\ UNCHANGED <<pass, work, main, tmp, gone, handle, snapshot, committed,
                   flags, want, spoiled, crashes>>

\* What can go wrong: a file operation, and reading what io.Copy mixed up.
Failing(g) == Errors \/ (bpc[g] = "compacting" /\ ~ snapshot.sound)

\* The error of Sync, os.Open, os.Create, io.Copy, os.Rename or Compact is
\* printed and the function returns through its deferred calls.
Fail(g) ==
    /\ Failing(g)
    /\ bpc[g] \in {"copying", "copied", "compacting"}
    /\ Go(g, IF bpc[g] = "copying" THEN "finish" ELSE "cleanup")
    /\ spoiled' = TRUE
    /\ UNCHANGED <<pass, work, main, files, snapshot, committed, flags, want,
                   had, cuts, crashes>>

\* The deferred os.Remove(tmp_backup); bbolt keeps the open file.
Cleanup(g) ==
    /\ bpc[g] = "cleanup"
    /\ Go(g, "finish")
    /\ tmp' = Empty
    /\ gone' = IF handle = "tmp" THEN tmp ELSE gone
    /\ handle' = IF handle = "tmp" THEN "gone" ELSE handle
    /\ UNCHANGED <<pass, work, main, bak, snapshot, committed, flags, want,
                   history>>

\* Mutated: a backup that failed returns without lowering its flag.
FinishOnSuccess(g) ==
    /\ bpc[g] = "finish"
    /\ Go(g, "off")
    /\ IF spoiled THEN UNCHANGED flags
       ELSE /\ established_backup' = TRUE /\ establishing_backup' = FALSE
            /\ promised' = want[g]
    /\ want' = [want EXCEPT ![g] = {}]
    /\ UNCHANGED <<pass, work, main, files, snapshot, committed, history>>

\* established_backup is set whatever happened.
Finish(g) ==
    /\ bpc[g] = "finish"
    /\ Go(g, "off")
    /\ established_backup' = TRUE /\ establishing_backup' = FALSE
    /\ promised' = want[g]
    /\ want' = [want EXCEPT ![g] = {}]
    /\ UNCHANGED <<pass, work, main, files, snapshot, committed, history>>

BackupStep(g) ==
    \/ Begin(g) \/ CopyEnd(g) \/ Rename(g) \/ CompactBegin(g) \/ CompactEnd(g)
    \/ Fail(g) \/ Cleanup(g) \/ Finish(g)

-----------------------------------------------------------------------------
(* The process ends at any point and starts again: the files keep their    *)
(* names, and NewBBoltDB opens, or creates, .bak.                          *)

InWindow == \E g \in Goroutines : bpc[g] \in {"renamed", "compacting"}

ProcessEnds ==
    /\ crashes < MaxCrashes
    /\ crashes' = crashes + 1
    /\ cuts' = IF InWindow THEN cuts + 1 ELSE cuts
    /\ lowest_height' = Lesser(topo, main.height)
    /\ achieved_current_height' = 0 /\ hpc' = "head"
    /\ queued' = {} /\ held' = {} /\ incremental' = {} /\ reported' = {}
    /\ given' = main.items /\ promised' = {}
    /\ gone' = Empty /\ handle' = "bak"
    /\ bpc' = [g \in Goroutines |-> "off"] /\ want' = [g \in Goroutines |-> {}]
    /\ snapshot' = Empty /\ committed' = FALSE
    /\ establishing_backup' = FALSE /\ established_backup' = FALSE
    /\ UNCHANGED <<topo, main, bak, had>>

Crash == ProcessEnds /\ UNCHANGED <<tmp, spoiled>>

\* The errors of bbolt.Open are dropped: with a nil snapshot or a nil .bak the
\* function goes on to Compact, or to its deferred Close, and panics there.  The
\* deferred os.Remove(tmp_backup) still runs before the process ends.
Panic(g) ==
    /\ Failing(g)
    /\ bpc[g] \in {"copied", "renamed", "compacting"}
    /\ tmp' = Empty /\ spoiled' = TRUE
    /\ ProcessEnds

Next ==
    \/ HeightStep \/ NewBlock \/ Crash
    \/ \E t \in Txs : Take(t) \/ Write(t) \/ Incremental(t)
    \/ \E g \in Goroutines : BackupStep(g) \/ Panic(g)

\* Every goroutine runs; the daemon and the crashes owe nothing.
Fairness ==
    /\ WF_vars(HeightStep)
    /\ \A t \in Txs : WF_vars(Take(t)) /\ WF_vars(Write(t)) /\ WF_vars(Incremental(t))
    /\ \A g \in Goroutines : WF_vars(BackupStep(g))

Spec == Init /\ [][Next]_vars /\ Fairness

-----------------------------------------------------------------------------
(* Properties                                                              *)

\* Once backup() has set established_backup, and no later one is at work, the
\* file .bak holds all that was indexed before the process started and all
\* that the passes had handed over when waitForAllQueues returned, except what
\* workers held at that moment; unless an operation failed or the database was
\* written to during the copy.
BackupCovers ==
    (established_backup /\ ~ spoiled /\ ~ establishing_backup) =>
        promised \subseteq bak.items

\* Once there has been a full backup, a complete one exists under .bak or
\* .bak.tmp, at every point of the next one and after a crash anywhere in it,
\* as long as no file operation failed and no copy overlapped a write.  The
\* protection is good for one such crash: the restart does not look at
\* .bak.tmp and the next rename overwrites it.
ProtectedCopy ==
    (had /\ ~ spoiled /\ (cuts = 0 \/ (cuts = 1 /\ ~ InWindow))) =>
        bak.sound \/ tmp.sound

\* A pass that decides for a backup gets it established, although it waits for
\* queues that others empty and although the goroutine it starts gives way to
\* one already at work; unless the process ends first.
BackupReturns ==
    \A n \in 0 .. MaxCrashes :
        (hpc = "wait" /\ crashes = n) ~> (established_backup \/ crashes > n)

\* scid_db_writer does "incremental backups" once the indexer has reached the
\* top: what such a goroutine has written is in the backup file when no full
\* backup is at work and none was disturbed.
IncrementalsKept ==
    (~ establishing_backup /\ ~ spoiled) => reported \subseteq bak.items
=============================================================================
