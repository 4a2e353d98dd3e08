-------------------------------- MODULE Index --------------------------------
(***************************************************************************)
(* What the indexing pipeline promises, without its goroutines, channels   *)
(* and batches: a process has the transactions from its starting height on *)
(* to do; it takes them one at a time, in any order, each at most once,    *)
(* and does what the kind of the transaction asks for.  A restart keeps    *)
(* what was stored and resumes at the stored height.  Module Pipeline      *)
(* implements this specification.                                          *)
(***************************************************************************)
EXTENDS Integers

CONSTANTS
    Txs, Counted, Valid, Installs,
    Top,            \* topoheight of the chain
    HeightOf(_)     \* the height of each transaction

VARIABLES
    todo,       \* transactions this process has not handled
    index,      \* transactions in the index
    rejected,   \* recorded invalid deploys
    counted,    \* the counter in memory
    kept,       \* the counter in the database
    mark,       \* the stored height
    failed      \* answers of the daemon that failed

indexVars == <<todo, index, rejected, counted, kept, mark, failed>>

Init ==
    /\ todo = Txs /\ index = {} /\ rejected = {}
    /\ counted = 0 /\ kept = 0 /\ mark = 0 /\ failed = 0

\* A transaction of a valid contract enters the index.
Enter(t) ==
    /\ t \in todo \cap Valid
    /\ todo' = todo \ {t} /\ index' = index \cup {t}
    /\ UNCHANGED <<rejected, counted, kept, mark, failed>>

\* Any other transaction is left out, an install is recorded as invalid;
\* a valid one is left out only when the daemon failed to answer.
Reject(t) ==
    /\ t \in todo \ Counted
    /\ todo' = todo \ {t}
    /\ rejected' = IF t \in Installs THEN rejected \cup {t} ELSE rejected
    /\ failed' = IF t \in Valid THEN failed + 1 ELSE failed
    /\ UNCHANGED <<index, counted, kept, mark>>

Count(t) ==
    /\ t \in todo \cap Counted
    /\ todo' = todo \ {t} /\ counted' = counted + 1
    /\ UNCHANGED <<index, rejected, kept, mark, failed>>

\* An answer fails; what it was about stays to do.
Fail == failed' = failed + 1 /\ UNCHANGED <<todo, index, rejected, counted, kept, mark>>

\* The counter is stored.
Keep == kept' = counted /\ UNCHANGED <<todo, index, rejected, counted, mark, failed>>

\* The stored height is the top of the chain or that of an indexed transaction.
Mark ==
    /\ mark' \in {Top} \cup {HeightOf(t) : t \in index}
    /\ UNCHANGED <<todo, index, rejected, counted, kept, failed>>

\* A restart: the transactions from the stored height on are to do again.
Resume ==
    /\ todo' = {t \in Txs : mark <= HeightOf(t)} /\ counted' = kept
    /\ UNCHANGED <<index, rejected, kept, mark, failed>>

Next == (\E t \in todo : Enter(t) \/ Reject(t) \/ Count(t))
        \/ Fail \/ Keep \/ Mark \/ Resume

Spec == Init /\ [][Next]_indexVars
=============================================================================
