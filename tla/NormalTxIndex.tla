---------------------------- MODULE NormalTxIndex ----------------------------
(***************************************************************************)
(* The index of normal transactions by ring member.  The handle_tx_task    *)
(* goroutine of each block calls StoreNormalTxWithSCIDByAddr for every     *)
(* ring member of every payload that names a contract; the call reads the  *)
(* list of the address inside DB.View and writes it back, longer by one,   *)
(* inside a later DB.Update.  Goroutines of several blocks run at a time.  *)
(* A transaction with several payloads may name several contracts.         *)
(***************************************************************************)
EXTENDS Integers, Sequences

CONSTANTS
    Listeners,   \* handle_tx_task goroutines
    Addresses, Txids, Scids,
    Writes       \* Writes[l]: what l stores, one ring member of one payload each, in order

ASSUME NormalAssumption ==
    \A l \in Listeners : Writes[l] \in Seq([addr : Addresses, txid : Txids, scid : Scids])

VARIABLES
    normaltxwithscid,   \* the bucket: the list of each address
    at,                 \* the write each goroutine is on
    step,               \* "view" or "update"
    curr                \* the list it has read

vars == <<normaltxwithscid, at, step, curr>>

\* NormalTXWithSCIDParse, as far as it matters here.
Entries == [txid : Txids, scid : Scids]
Entry(w) == [txid |-> w.txid, scid |-> w.scid]

Lists(list, t) == \E i \in 1 .. Len(list) : list[i].txid = t

TypeOK ==
    /\ normaltxwithscid \in [Addresses -> Seq(Entries)]
    /\ at \in [Listeners -> Nat] /\ \A l \in Listeners : at[l] \in 1 .. Len(Writes[l]) + 1
    /\ step \in [Listeners -> {"view", "update"}]
    /\ curr \in [Listeners -> Seq(Entries)]

Init ==
    /\ normaltxwithscid = [a \in Addresses |-> <<>>]
    /\ at = [l \in Listeners |-> 1]
    /\ step = [l \in Listeners |-> "view"]
    /\ curr = [l \in Listeners |-> <<>>]

Active(l) == at[l] <= Len(Writes[l])

View(l) ==
    /\ Active(l) /\ step[l] = "view"
    /\ curr' = [curr EXCEPT ![l] = normaltxwithscid[Writes[l][at[l]].addr]]
    /\ step' = [step EXCEPT ![l] = "update"]
    /\ UNCHANGED <<normaltxwithscid, at>>

\* Mutated: no look for the txid in the list.
UpdateAgain(l) ==
    /\ Active(l) /\ step[l] = "update"
    /\ LET w == Writes[l][at[l]]
       IN  normaltxwithscid' = [normaltxwithscid EXCEPT ![w.addr] = Append(curr[l], Entry(w))]
    /\ at' = [at EXCEPT ![l] = @ + 1]
    /\ step' = [step EXCEPT ![l] = "view"]
    /\ UNCHANGED curr

\* Mutated: the address is put on the list in the place of the txid.
UpdateSwapped(l) ==
    /\ Active(l) /\ step[l] = "update"
    /\ LET w == Writes[l][at[l]]
       IN  normaltxwithscid' = IF Lists(curr[l], w.txid) THEN normaltxwithscid
                               ELSE [normaltxwithscid EXCEPT ![w.addr] =
                                       Append(curr[l], [Entry(w) EXCEPT !.txid = w.addr])]
    /\ at' = [at EXCEPT ![l] = @ + 1]
    /\ step' = [step EXCEPT ![l] = "view"]
    /\ UNCHANGED curr

\* The list read, and this entry at its end unless the transaction is on it:
\* the contract of a second payload is dropped.
Update(l) ==
    /\ Active(l) /\ step[l] = "update"
    /\ LET w == Writes[l][at[l]]
       IN  normaltxwithscid' = IF Lists(curr[l], w.txid) THEN normaltxwithscid
                               ELSE [normaltxwithscid EXCEPT ![w.addr] = Append(curr[l], Entry(w))]
    /\ at' = [at EXCEPT ![l] = @ + 1]
    /\ step' = [step EXCEPT ![l] = "view"]
    /\ UNCHANGED curr

\* The process ends and a restart goes through the blocks again.
Stop ==
    /\ \E l \in Listeners : at[l] # 1 \/ step[l] # "view"
    /\ at' = [l \in Listeners |-> 1]
    /\ step' = [l \in Listeners |-> "view"]
    /\ curr' = [l \in Listeners |-> <<>>]
    /\ UNCHANGED normaltxwithscid

Next == (\E l \in Listeners : View(l) \/ Update(l)) \/ Stop

Spec == Init /\ [][Next]_vars

-----------------------------------------------------------------------------
(* Properties                                                              *)

\* A transaction is listed once per address although it names the address in
\* several payloads, or is stored again after a restart.
ListedOnce ==
    \A a \in Addresses : LET list == normaltxwithscid[a] IN
        \A i, j \in 1 .. Len(list) : list[i].txid = list[j].txid => i = j

\* Address a is a ring member in the block of goroutine l and of no other one.
OnlyIn(a, l) ==
    \A m \in Listeners \ {l} : \A i \in 1 .. Len(Writes[m]) : Writes[m][i].addr # a

\* What a goroutine has stored for an address that no concurrent block has in
\* its rings stays listed, whatever the others write elsewhere and however often
\* the process restarts.  (An address of two concurrent blocks may lose entries.)
OwnListed ==
    \A l \in Listeners : \A i \in 1 .. at[l] - 1 :
        OnlyIn(Writes[l][i].addr, l) =>
            Lists(normaltxwithscid[Writes[l][i].addr], Writes[l][i].txid)

=============================================================================
