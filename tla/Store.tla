------------------------------- MODULE Store -------------------------------
(***************************************************************************)
(* BboltStore.AddSCIDToIndex: the write path of one database.  Each        *)
(* DB.Update is one durable, atomic step; between two of them another      *)
(* caller may run or the process may die.  The main database has one       *)
(* caller at a time (scid_db_writer); backup_database has one goroutine    *)
(* per staged transaction.                                                 *)
(*                                                                         *)
(* A staged transaction is a record: id names the transaction, brief is    *)
(* what StoreInvokeDetails keeps of its identity in a key (signer, three   *)
(* leading and three trailing characters of the txid, entrypoint).  Any    *)
(* error of an Update makes the caller call log.Fatal, which is a Crash.   *)
(***************************************************************************)
EXTENDS Integers, Sequences

CONSTANTS
    Callers,   \* goroutines that call AddSCIDToIndex
    SCIDs,     \* contracts
    Stages     \* the SCIDToIndexStage values the chain yields

Methods == {"install", "invoke", ""}

ASSUME StageAssumption ==
    /\ \A s \in Stages : s.scid \in SCIDs /\ s.height \in Int
    /\ \A s \in Stages : s.method \in Methods

\* The bucket key of an invocation, within the bucket named by the scid.
InvokeKey(s) == <<s.scid, s.brief, s.height>>

VARIABLES
    Writing,   \* bbs.Writing
    vars,      \* bucket <scid>vars: the heights that have a snapshot
    owner,     \* buckets owner, headers, class, tags, height
    invokes,   \* bucket <scid>: invocation records
    heights,   \* bucket <scid>heights: the list of interaction heights
    pc,        \* where each caller is in AddSCIDToIndex
    staged,    \* the argument of the call
    curr,      \* the list StoreSCIDInteractionHeight has viewed
    offered,   \* stages given to a caller since the process started
    done,      \* stages whose call has returned nil
    raced      \* two callers have passed the test before either raised the flag

durable  == <<vars, owner, invokes, heights>>
caller   == <<pc, staged, curr>>
storeVars == <<Writing, durable, caller, offered, done, raced>>

Steps == {"idle", "test", "set", "vars", "owner", "invoke", "view", "put",
          "return"}

Heights == {s.height : s \in Stages}

Contains(list, h) == \E i \in 1 .. Len(list) : list[i] = h

TypeOK ==
    /\ Writing \in BOOLEAN
    /\ vars \subseteq SCIDs \X Int
    /\ owner \subseteq SCIDs
    /\ invokes \subseteq Stages
    /\ heights \in [SCIDs -> Seq(Int)]
    /\ pc \in [Callers -> Steps]
    /\ \A c \in Callers : pc[c] # "idle" => staged[c] \in Stages
    /\ DOMAIN staged = Callers
    /\ curr \in [Callers -> Seq(Int)]
    /\ offered \subseteq Stages
    /\ done \subseteq Stages
    /\ raced \in BOOLEAN

NoStage == <<>>

\* A new database.
Init ==
    /\ Writing = FALSE
    /\ vars = {} /\ owner = {} /\ invokes = {}
    /\ heights = [x \in SCIDs |-> <<>>]
    /\ pc = [c \in Callers |-> "idle"]
    /\ staged = [c \in Callers |-> NoStage]
    /\ curr = [c \in Callers |-> <<>>]
    /\ offered = {} /\ done = {} /\ raced = FALSE

Goto(c, step) == pc' = [pc EXCEPT ![c] = step]

-----------------------------------------------------------------------------
\* A queue or an RPC answer gives the caller its next stage, once.
Call(c, s) ==
    /\ pc[c] = "idle"
    /\ s \notin offered
    /\ offered' = offered \cup {s}
    /\ staged' = [staged EXCEPT ![c] = s]
    /\ Goto(c, "test")
    /\ UNCHANGED <<Writing, durable, curr, done, raced>>

\* "for bbs.Writing" falls through ...
Test(c) ==
    /\ pc[c] = "test"
    /\ ~Writing
    /\ Goto(c, "set")
    /\ raced' = (raced \/ \E d \in Callers : pc[d] = "set")
    /\ UNCHANGED <<Writing, durable, staged, curr, offered, done>>

\* Mutated: the flag stays as it is.
SetNothing(c) ==
    /\ pc[c] = "set"
    /\ Goto(c, "vars")
    /\ UNCHANGED <<Writing, durable, staged, curr, offered, done, raced>>

\* ... and only then is the flag raised.
Set(c) ==
    /\ pc[c] = "set"
    /\ Writing' = TRUE
    /\ Goto(c, "vars")
    /\ UNCHANGED <<durable, staged, curr, offered, done, raced>>

\* Mutated: variables are stored at install only.
StoreVarsAtInstall(c) ==
    /\ pc[c] = "vars"
    /\ vars' = IF staged[c].method = "invoke" THEN vars
               ELSE vars \cup {<<staged[c].scid, staged[c].height>>}
    /\ Goto(c, CASE staged[c].method = "install" -> "owner"
                 [] staged[c].method = "invoke" -> "invoke"
                 [] OTHER -> "return")
    /\ UNCHANGED <<Writing, owner, invokes, heights, staged, curr, offered, done, raced>>

\* StoreSCIDVariableDetails, then the switch on the method.
StoreSCIDVariableDetails(c) ==
    /\ pc[c] = "vars"
    /\ vars' = vars \cup {<<staged[c].scid, staged[c].height>>}
    /\ Goto(c, CASE staged[c].method = "install" -> "owner"
                 [] staged[c].method = "invoke" -> "invoke"
                 [] OTHER -> "return")
    /\ UNCHANGED <<Writing, owner, invokes, heights, staged, curr, offered, done, raced>>

\* Mutated: the owner is stored only when the contract has no variables yet.
StoreOwnerOnce(c) ==
    /\ pc[c] = "owner"
    /\ owner' = IF \E h \in Heights : <<staged[c].scid, h>> \in vars
                THEN owner ELSE owner \cup {staged[c].scid}
    /\ Goto(c, "return")
    /\ UNCHANGED <<Writing, vars, invokes, heights, staged, curr, offered, done, raced>>

\* One Update writes all five buckets.
StoreOwner(c) ==
    /\ pc[c] = "owner"
    /\ owner' = owner \cup {staged[c].scid}
    /\ Goto(c, "return")
    /\ UNCHANGED <<Writing, vars, invokes, heights, staged, curr, offered, done, raced>>

\* Mutated: the details are stored without their height.
StoreInvokeNoHeight(c) ==
    /\ pc[c] = "invoke"
    /\ invokes' = {i \in invokes : InvokeKey(i) # InvokeKey(staged[c])}
                  \cup {[staged[c] EXCEPT !.height = 0]}
    /\ Goto(c, "view")
    /\ UNCHANGED <<Writing, vars, owner, heights, staged, curr, offered, done, raced>>

\* A record with the same key is overwritten.
StoreInvokeDetails(c) ==
    /\ pc[c] = "invoke"
    /\ invokes' = {i \in invokes : InvokeKey(i) # InvokeKey(staged[c])}
                  \cup {staged[c]}
    /\ Goto(c, "view")
    /\ UNCHANGED <<Writing, vars, owner, heights, staged, curr, offered, done, raced>>

\* StoreSCIDInteractionHeight copies the list inside DB.View ...
ViewHeights(c) ==
    /\ pc[c] = "view"
    /\ curr' = [curr EXCEPT ![c] = heights[staged[c].scid]]
    /\ Goto(c, "put")
    /\ UNCHANGED <<Writing, durable, staged, offered, done, raced>>

\* Mutated: the height is appended without looking for it.
PutHeightsAgain(c) ==
    /\ pc[c] = "put"
    /\ heights' = [heights EXCEPT ![staged[c].scid] =
                       Append(curr[c], staged[c].height)]
    /\ Goto(c, "return")
    /\ UNCHANGED <<Writing, vars, owner, invokes, staged, curr, offered, done, raced>>

\* ... and writes the copy back inside a later DB.Update, with the height at
\* its end unless the copy contains it.
PutHeights(c) ==
    /\ pc[c] = "put"
    /\ heights' = IF Contains(curr[c], staged[c].height) THEN heights
                  ELSE [heights EXCEPT ![staged[c].scid] =
                            Append(curr[c], staged[c].height)]
    /\ Goto(c, "return")
    /\ UNCHANGED <<Writing, vars, owner, invokes, staged, curr, offered, done, raced>>

\* Mutated: no deferred function clears the flag.
ReturnWriting(c) ==
    /\ pc[c] = "return"
    /\ done' = done \cup {staged[c]}
    /\ Goto(c, "idle")
    /\ UNCHANGED <<Writing, durable, staged, curr, offered, raced>>

\* The deferred function clears the flag, whoever raised it last.
Return(c) ==
    /\ pc[c] = "return"
    /\ Writing' = FALSE
    /\ done' = done \cup {staged[c]}
    /\ Goto(c, "idle")
    /\ UNCHANGED <<durable, staged, curr, offered, raced>>

\* The process dies and restarts: what was committed stays, and the indexer
\* may offer the same transactions again.
Crash ==
    /\ Writing' = FALSE
    /\ pc' = [c \in Callers |-> "idle"]
    /\ staged' = [c \in Callers |-> NoStage]
    /\ curr' = [c \in Callers |-> <<>>]
    /\ offered' = {}
    /\ UNCHANGED <<durable, done, raced>>

-----------------------------------------------------------------------------
Add(c) ==
    \/ Test(c) \/ Set(c) \/ StoreSCIDVariableDetails(c) \/ StoreOwner(c)
    \/ StoreInvokeDetails(c) \/ ViewHeights(c) \/ PutHeights(c) \/ Return(c)

Offer == \E c \in Callers, s \in Stages : Call(c, s)

Next == Offer \/ (\E c \in Callers : Add(c)) \/ Crash

Spec == Init /\ [][Next]_storeVars

\* A goroutine inside AddSCIDToIndex keeps running while the process lives.
\* The spinning caller wakes every 10ms but may find the flag raised each
\* time, so nothing stronger than weak fairness is assumed.
FairSpec == Spec /\ \A c \in Callers : WF_storeVars(Add(c))

-----------------------------------------------------------------------------
(* Properties                                                              *)

\* There is an invocation record of contract x at height h.
Recorded(x, h) == \E r \in invokes : r.scid = x /\ r.height = h

\* Every height of a list has a snapshot and an invocation record of x.
Backed(x, list) ==
    \A i \in 1 .. Len(list) : <<x, list[i]>> \in vars /\ Recorded(x, list[i])

NoRepetition(list) ==
    \A i, j \in 1 .. Len(list) : list[i] = list[j] => i = j

\* Crash consistency of the read path: a height that the interaction list of
\* a contract names has a snapshot of its variables and an invocation record,
\* and an owned contract has a snapshot, at every moment, any number of
\* callers and crashes between any two transactions included.
\* GetSCIDVariableDetailsAtTopoheight and the queries by key rely on it.
CrashConsistent ==
    /\ \A x \in SCIDs : Backed(x, heights[x])
    /\ \A x \in owner : \E h \in Heights : <<x, h>> \in vars

\* Indexing a transaction again after a crash, or two transactions of one
\* block calling the same contract, leave one entry per height.
NoRepeatedHeight == \A x \in SCIDs : NoRepetition(heights[x])

\* What AddSCIDToIndex reported as stored is there, in every bucket that its
\* method writes except the list of interaction heights.
DoneRecorded ==
    \A s \in done :
        /\ <<s.scid, s.height>> \in vars
        /\ s.method = "install" => s.scid \in owner
        /\ s.method = "invoke" =>
               \E r \in invokes : InvokeKey(r) = InvokeKey(s)

\* An invocation that AddSCIDToIndex reported as stored is in the list of
\* interaction heights of its contract.
Listed == \A s \in done : s.method = "invoke" => Contains(heights[s.scid], s.height)

\* bbolt.go:1247 "Stores SC interaction height and detail": an interaction height
\* stays listed, although the list is viewed in one transaction and written in
\* another, whatever the number of callers and crashes, unless two callers
\* passed the test of Writing before either of them set it.  That gap is the only
\* way to lose a height: once raised, the flag keeps all others out until the
\* call returns, though any caller may clear it.
HeightKept == raced \/ Listed

\* A call never waits forever for the flag Writing: with every way out of the
\* function clearing it, each call that starts returns or dies with the
\* process.
AddReturns == \A c \in Callers : []<>(pc[c] = "idle")
=============================================================================
