--------------------------- MODULE Queries_proofs ---------------------------
(***************************************************************************)
(* Proofs about NormalTxIndex and about Queries, which composes it with    *)
(* the other writer and the readers: for every set of listeners, addresses *)
(* and contracts, whatever is written and asked.                           *)
(***************************************************************************)
EXTENDS Queries, FiniteSetTheorems, SequenceTheorems, TLAPS

NoRepetition(list) == \A i, j \in 1 .. Len(list) : list[i] = list[j] => i = j

\* What Append does to a list.
LEMMA AppendFacts ==
    ASSUME NEW S, NEW list \in Seq(S), NEW x \in S
    PROVE  /\ Append(list, x) \in Seq(S)
           /\ Len(list) \in Nat
           /\ Len(Append(list, x)) = Len(list) + 1
           /\ \A i \in 1 .. Len(list) : Append(list, x)[i] = list[i]
           /\ Append(list, x)[Len(list) + 1] = x
  OBVIOUS

\* No transaction is twice on a list of entries.
OnceByTxid(list) == \A i, j \in 1 .. Len(list) : list[i].txid = list[j].txid => i = j

\* Appending an entry keeps what is there and lists its transaction; if the
\* transaction is not on the list, none is on it twice.
LEMMA AppendLists ==
    ASSUME NEW list \in Seq(Entries), NEW e \in Entries
    PROVE  /\ Lists(Append(list, e), e.txid)
           /\ \A y : Lists(list, y) => Lists(Append(list, e), y)
           /\ OnceByTxid(list) /\ ~ Lists(list, e.txid) => OnceByTxid(Append(list, e))
<1> DEFINE new == Append(list, e)
<1>1. /\ Len(list) \in Nat /\ Len(new) = Len(list) + 1
      /\ \A i \in 1 .. Len(list) : new[i] = list[i]
      /\ new[Len(list) + 1] = e
  BY AppendFacts
<1> HIDE DEF new
<1>2. Len(list) + 1 \in 1 .. Len(new)
  BY <1>1
<1>3. Lists(new, e.txid)
  BY <1>1, <1>2 DEF Lists
<1>4. ASSUME NEW y, Lists(list, y) PROVE Lists(new, y)
  BY <1>1, <1>4 DEF Lists
<1>5. ASSUME OnceByTxid(list), ~ Lists(list, e.txid) PROVE OnceByTxid(new)
  <2>1. \A i \in 1 .. Len(list) : list[i].txid # e.txid
    BY <1>5 DEF Lists
  <2>2. \A i \in 1 .. Len(new) : i \in 1 .. Len(list) \/ i = Len(list) + 1
    BY <1>1
  <2>3. QED
    BY <1>1, <1>5, <2>1, <2>2 DEF OnceByTxid
<1>6. QED
  BY <1>3, <1>4, <1>5 DEF new

-----------------------------------------------------------------------------
(* NormalTxIndex                                                           *)

\* The address and the entry of the write a goroutine is on.
Addr(l) == Writes[l][at[l]].addr
Written(l) == Entry(Writes[l][at[l]])

\* No list that may be written back repeats a transaction.
ViewedOnce == \A l \in Listeners : OnceByTxid(curr[l])

\* The list viewed of an address that no other block has is the stored one.
ViewedCurrent ==
    \A l \in Listeners :
        Active(l) /\ step[l] = "update" /\ OnlyIn(Addr(l), l) =>
            curr[l] = normaltxwithscid[Addr(l)]

NormalInv ==
    /\ TypeOK
    /\ ListedOnce
    /\ ViewedOnce
    /\ ViewedCurrent
    /\ OwnListed

\* The write of an active goroutine has an address and an entry.
LEMMA WriteType ==
    ASSUME TypeOK, NEW l \in Listeners, Active(l)
    PROVE  /\ at[l] \in 1 .. Len(Writes[l]) /\ Addr(l) \in Addresses /\ Written(l) \in Entries
           /\ Len(Writes[l]) \in Nat /\ Written(l).txid = Writes[l][at[l]].txid
<1>1. at[l] \in 1 .. Len(Writes[l]) /\ Len(Writes[l]) \in Nat
  BY NormalAssumption DEF TypeOK, Active
<1>2. Writes[l][at[l]] \in [addr : Addresses, txid : Txids, scid : Scids]
  BY <1>1, NormalAssumption, ElementOfSeq
<1>3. QED
  BY <1>1, <1>2 DEF Addr, Written, Entry, Entries

\* The listeners start with empty lists.
LEMMA InitNormalInv == Init => NormalInv
  BY NormalAssumption DEF Init, NormalInv, TypeOK, ListedOnce, ViewedOnce, ViewedCurrent,
     OwnListed, OnceByTxid

\* Every step of a listener and every restart keep the invariant.
LEMMA NextNormalInv == NormalInv /\ [Next]_vars => NormalInv'
<1> SUFFICES ASSUME NormalInv, [Next]_vars PROVE NormalInv'
  OBVIOUS
<1> USE DEF NormalInv
<1>1. ASSUME NEW l \in Listeners, View(l) PROVE NormalInv'
  <2>1. /\ Active(l) /\ Addr(l) \in Addresses
        /\ curr' = [curr EXCEPT ![l] = normaltxwithscid[Addr(l)]]
        /\ step' = [step EXCEPT ![l] = "update"]
        /\ UNCHANGED <<normaltxwithscid, at>>
    BY <1>1, WriteType DEF View, Addr
  <2>2. TypeOK' /\ ListedOnce'
    BY <2>1 DEF TypeOK, ListedOnce
  <2>3. ViewedOnce'
    BY <2>1 DEF TypeOK, ListedOnce, ViewedOnce, OnceByTxid
  <2>4. ViewedCurrent' /\ OwnListed'
    BY <2>1 DEF TypeOK, ViewedCurrent, OwnListed, Active, Addr
  <2>5. QED
    BY <2>2, <2>3, <2>4
<1>2. ASSUME NEW l \in Listeners, Update(l) PROVE NormalInv'
  <2> DEFINE a == Addr(l)
             e == Written(l)
  <2>1. /\ Active(l) /\ a \in Addresses /\ e \in Entries /\ at[l] \in 1 .. Len(Writes[l])
        /\ Len(Writes[l]) \in Nat /\ step[l] = "update" /\ curr[l] \in Seq(Entries)
    BY <1>2, WriteType DEF Update, TypeOK
  <2>2. /\ normaltxwithscid' = IF Lists(curr[l], e.txid) THEN normaltxwithscid
                               ELSE [normaltxwithscid EXCEPT ![a] = Append(curr[l], e)]
        /\ at' = [at EXCEPT ![l] = @ + 1] /\ step' = [step EXCEPT ![l] = "view"]
        /\ UNCHANGED curr
    BY <1>2, WriteType, <2>1 DEF Update, Addr, Written
  <2>3. /\ Append(curr[l], e) \in Seq(Entries) /\ Lists(Append(curr[l], e), e.txid)
        /\ \A y : Lists(curr[l], y) => Lists(Append(curr[l], e), y)
        /\ ~ Lists(curr[l], e.txid) => OnceByTxid(Append(curr[l], e))
    BY <2>1, AppendFacts, AppendLists DEF ViewedOnce
  <2> HIDE DEF a, e
  <2>4. TypeOK'
    BY <2>1, <2>2, <2>3 DEF TypeOK
  <2>5. ListedOnce' /\ ViewedOnce'
    BY <2>1, <2>2, <2>3 DEF TypeOK, ListedOnce, ViewedOnce, OnceByTxid
  <2>6. ViewedCurrent'
    <3> SUFFICES ASSUME NEW m \in Listeners, Active(m)', step'[m] = "update",
                        OnlyIn(Addr(m), m)'
                 PROVE  curr'[m] = normaltxwithscid'[Addr(m)']
      BY DEF ViewedCurrent
    <3>1. m # l /\ at'[m] = at[m] /\ step[m] = "update" /\ curr'[m] = curr[m]
      BY <2>1, <2>2 DEF TypeOK
    <3>2. Addr(m)' = Addr(m) /\ Active(m) /\ OnlyIn(Addr(m), m)
      BY <3>1 DEF Addr, Active, OnlyIn
    <3>3. Addr(m) # a
      BY <2>1, <3>1, <3>2 DEF OnlyIn, Addr, a
    <3>4. curr[m] = normaltxwithscid[Addr(m)]
      BY <3>1, <3>2 DEF ViewedCurrent
    <3>5. QED
      BY <2>2, <3>1, <3>2, <3>3, <3>4 DEF TypeOK
  <2>7. OwnListed'
    <3> SUFFICES ASSUME NEW m \in Listeners, NEW i \in 1 .. at'[m] - 1,
                        OnlyIn(Writes[m][i].addr, m)
                 PROVE  Lists(normaltxwithscid'[Writes[m][i].addr], Writes[m][i].txid)
      BY DEF OwnListed, OnlyIn
    <3>1. CASE m # l \/ i < at[l]
      <4>1. i \in 1 .. at[m] - 1
        BY <2>1, <2>2, <3>1 DEF TypeOK
      <4>2. Lists(normaltxwithscid[Writes[m][i].addr], Writes[m][i].txid)
        BY <4>1 DEF OwnListed
      <4>3. CASE Writes[m][i].addr # a
        BY <2>2, <4>2, <4>3 DEF TypeOK
      <4>4. CASE Writes[m][i].addr = a
        <5>1. m = l
          BY <2>1, <4>4 DEF OnlyIn, a, Addr
        <5>2. curr[l] = normaltxwithscid[a]
          BY <2>1, <4>4, <5>1 DEF ViewedCurrent, a, Addr
        <5>3. QED
          BY <2>1, <2>2, <2>3, <4>2, <4>4, <5>2 DEF TypeOK
      <4>5. QED
        BY <4>3, <4>4
    <3>2. CASE m = l /\ i = at[l]
      <4>1. Writes[m][i].addr = a /\ Writes[m][i].txid = e.txid
        BY <2>1, <3>2, WriteType DEF a, e, Addr
      <4>2. curr[l] = normaltxwithscid[a]
        BY <2>1, <3>2, <4>1 DEF ViewedCurrent, a
      <4>3. QED
        BY <2>1, <2>2, <2>3, <4>1, <4>2 DEF TypeOK
    <3>3. QED
      BY <2>1, <2>2, <3>1, <3>2 DEF TypeOK
  <2>8. QED
    BY <2>4, <2>5, <2>6, <2>7
<1>3. CASE Stop
  <2>1. TypeOK'
    BY <1>3, NormalAssumption DEF Stop, TypeOK
  <2>2. ListedOnce' /\ ViewedOnce' /\ ViewedCurrent' /\ OwnListed'
    BY <1>3 DEF Stop, ListedOnce, ViewedOnce, ViewedCurrent, OwnListed, OnceByTxid
  <2>3. QED
    BY <2>1, <2>2
<1>4. CASE UNCHANGED vars
  BY <1>4 DEF vars, TypeOK, ListedOnce, ViewedOnce, ViewedCurrent, OwnListed, Active, Addr
<1>5. QED
  BY <1>1, <1>2, <1>3, <1>4 DEF Next

\* A transaction is listed once per address, for any number of listeners and
\* of restarts, whatever the goroutines write.
THEOREM ListedOnceHolds == Spec => []ListedOnce
<1>1. Init => NormalInv
  BY InitNormalInv
<1>2. NormalInv /\ [Next]_vars => NormalInv'
  BY NextNormalInv
<1>3. NormalInv => ListedOnce
  BY DEF NormalInv
<1>4. QED
  BY <1>1, <1>2, <1>3, PTL DEF Spec

\* What a goroutine has stored for an address of its block alone stays listed.
THEOREM OwnListedHolds == Spec => []OwnListed
<1>1. Init => NormalInv
  BY InitNormalInv
<1>2. NormalInv /\ [Next]_vars => NormalInv'
  BY NextNormalInv
<1>3. NormalInv => OwnListed
  BY DEF NormalInv
<1>4. QED
  BY <1>1, <1>2, <1>3, PTL DEF Spec

\* The contracts of an address of one listener's block only grow.
LEMMA NormalScidsGrow ==
    ASSUME NormalInv, [Next]_vars, NEW arg, Unshared(arg)
    PROVE  NormalScids(arg) \subseteq NormalScids(arg)'
<1> DEFINE L == normaltxwithscid[arg]
<1>1. CASE arg \notin Addresses
  BY <1>1 DEF NormalScids, GetAllNormalTxWithSCIDByAddr, ToSet
<1>2. CASE normaltxwithscid' = normaltxwithscid
  BY <1>2 DEF NormalScids, GetAllNormalTxWithSCIDByAddr
<1>3. ASSUME NEW l \in Listeners, Update(l), arg \in Addresses,
             normaltxwithscid' # normaltxwithscid
      PROVE  NormalScids(arg) \subseteq NormalScids(arg)'
  <2>1. PICK a, e : a = Addr(l) /\ e = Written(l)
    OBVIOUS
  <2>2. /\ Active(l) /\ step[l] = "update" /\ e \in Entries /\ a \in Addresses
        /\ at[l] \in 1 .. Len(Writes[l]) /\ curr[l] \in Seq(Entries)
    BY <1>3, <2>1, WriteType DEF Update, NormalInv, TypeOK
  <2>3. normaltxwithscid' = [normaltxwithscid EXCEPT ![a] = Append(curr[l], e)]
    BY <1>3, <2>1 DEF Update, Addr, Written
  <2>4. CASE a # arg
    BY <1>3, <2>3, <2>4 DEF NormalInv, TypeOK, NormalScids, GetAllNormalTxWithSCIDByAddr
  <2>5. CASE a = arg
    <3>1. OnlyIn(arg, l)
      BY <2>1, <2>2, <2>5 DEF Unshared, OnlyIn, Addr
    <3>2. curr[l] = L
      BY <2>1, <2>2, <2>5, <3>1 DEF NormalInv, ViewedCurrent
    <3>3. normaltxwithscid'[arg] = Append(L, e)
      BY <1>3, <2>3, <2>5, <3>2 DEF NormalInv, TypeOK
    <3>4. L \in Seq(Entries)
      BY <2>2, <3>2
    <3> HIDE DEF L
    <3>5. ToSet(L) \subseteq ToSet(Append(L, e))
      BY <2>2, <3>4, AppendFacts DEF ToSet
    <3>6. /\ NormalScids(arg) = {x.scid : x \in ToSet(L)}
          /\ NormalScids(arg)' = {x.scid : x \in ToSet(Append(L, e))}
      BY <1>3, <3>3 DEF NormalScids, GetAllNormalTxWithSCIDByAddr, L
    <3>7. QED
      BY <3>5, <3>6
  <2>6. QED
    BY <2>4, <2>5
<1>4. QED
  BY <1>1, <1>2, <1>3 DEF Next, View, Stop, vars

-----------------------------------------------------------------------------
(* Queries                                                                 *)

\* The requests the handler has yet to answer.
Known(r) == r.method # "other"
Waiting == (IF handler.at = "read" THEN 0 ELSE 1)
           + (IF pending # <<>> /\ Known(Head(pending)) THEN 1 ELSE 0)

\* Every request with a known method is answered or waits for its answer.
CountInv ==
    /\ pending \in Seq(Requests) /\ Len(pending) <= 1
    /\ sent \in 0 .. MaxRequests /\ asked \in 0 .. sent /\ replies \in Nat
    /\ asked = replies + Waiting

HandlerType ==
    [at : {"read", "second", "owners", "each"}, req : Requests \cup {None},
     todo : SUBSET Scids, found : Seq(Scids), before : SUBSET Scids]

StoreType ==
    /\ owner \subseteq Scids /\ job \in 1 .. Len(Jobs) + 1
    /\ timer \in BOOLEAN /\ stops \in 0 .. MaxStops

\* A list by class or by tag in the making: the contracts found match still.
ByClassInv ==
    handler.at = "second" =>
        /\ handler.req.method \in {"class", "tag"}
        /\ handler.todo = handler.before
        /\ handler.before \subseteq Matching(handler.req)

\* A list by address in the making: nothing is on it twice, nothing that does
\* not belong there, and what was there at the beginning is on it or to come.
Coming == {s \in handler.todo : GetAllSCIDInvokeDetailsBySigner(s, handler.req.arg) # {}}

ByAddrInv ==
    handler.at \in {"owners", "each"} =>
        /\ handler.req.method = "addr"
        /\ NoRepetition(handler.found)
        /\ ToSet(handler.found) \subseteq handler.before \cup CalledScids(handler.req.arg)
        /\ handler.at = "owners" =>
             handler.before \subseteq ToSet(handler.found) \cup CalledScids(handler.req.arg)
        /\ handler.at = "each" =>
             /\ handler.before \subseteq ToSet(handler.found) \cup Coming
             /\ handler.todo \subseteq owner \ {NAMESERVICE}

\* What the database had for an unshared address it has still.
BeforeStays ==
    handler.at \in {"owners", "each"} /\ Unshared(handler.req.arg) =>
        handler.before \subseteq NormalScids(handler.req.arg) \cup CalledScids(handler.req.arg)

QueryInv ==
    /\ NormalInv
    /\ StoreType
    /\ StatsExact
    /\ CountInv
    /\ handler \in HandlerType
    /\ ByClassInv
    /\ ByAddrInv
    /\ BeforeStays
    /\ ClassAnswerExact
    /\ AddrAnswerBounded

-----------------------------------------------------------------------------
\* The sequences of the members of a finite set list each member once.
LEMMA SetToSeqsFacts ==
    ASSUME NEW S, IsFiniteSet(S), NEW s \in SetToSeqs(S)
    PROVE  s \in Seq(S) /\ ToSet(s) = S /\ NoRepetition(s)
<1> DEFINE n == Cardinality(S)
<1>1. n \in Nat
  BY FS_CardinalityType
<1>2. s \in [1 .. n -> S] /\ \A i, j \in 1 .. n : i # j => s[i] # s[j]
  BY DEF SetToSeqs
<1> HIDE DEF n
<1>3. s \in Seq(S) /\ Len(s) = n /\ DOMAIN s = 1 .. n
  BY <1>1, <1>2
<1>4. s \in Injection(1 .. n, S)
  BY <1>2 DEF Injection, IsInjective
<1>5. Cardinality(1 .. n) = n
  BY <1>1, FS_Interval
<1>6. s \in Surjection(1 .. n, S)
  BY <1>4, <1>5, FS_Injection DEF n
<1>7. ToSet(s) = S
  BY <1>2, <1>3, <1>6 DEF Surjection, ToSet
<1>8. QED
  BY <1>2, <1>3, <1>7 DEF NoRepetition

\* A list without repetition has as many elements as positions.
LEMMA NoRepetitionLength ==
    ASSUME NEW S, NEW s \in Seq(S), NoRepetition(s)
    PROVE  Len(s) = Cardinality(ToSet(s))
<1> DEFINE n == Len(s)
<1>1. n \in Nat /\ DOMAIN s = 1 .. n /\ s \in [1 .. n -> S]
  OBVIOUS
<1>2. IsFiniteSet(1 .. n) /\ Cardinality(1 .. n) = n
  BY <1>1, FS_Interval
<1>3. s \in [1 .. n -> ToSet(s)]
  BY <1>1 DEF ToSet
<1>4. s \in Injection(1 .. n, ToSet(s))
  BY <1>1, <1>3 DEF Injection, IsInjective, NoRepetition
<1>5. s \in Surjection(1 .. n, ToSet(s))
  BY <1>1, <1>3 DEF Surjection, ToSet
<1>6. QED
  BY <1>2, <1>4, <1>5, FS_Surjection

\* Every step of the composition is a step of NormalTxIndex or leaves it alone.
LEMMA QueriesNormal == [QNext]_qvars => [Next]_vars
  BY DEF QNext, qvars, WriterStep, ListenerStep, HandlerStep, GetAllSCIDs, ByClassFirst,
     ByClassSecond, ByAddrFirst, ByAddrOwners, ByAddrEach, ByAddrReply, Unknown, Reads,
     Send, Disconnect, collectStats, QStop, Next

\* The stored contracts and calls only grow, and with them what queries find.
Grows == owner \subseteq owner' /\ calls \subseteq calls'

\* What grows in the database grows in the answers.
LEMMA GrowsQueries ==
    ASSUME Grows, NEW arg, NEW req
    PROVE  /\ Matching(req) \subseteq Matching(req)'
           /\ CalledScids(arg) \subseteq CalledScids(arg)'
           /\ \A k : GetAllSCIDInvokeDetailsBySigner(k, arg)
                        \subseteq GetAllSCIDInvokeDetailsBySigner(k, arg)'
  BY DEF Grows, Matching, GetAllSCIDsByClass, GetAllSCIDsByTag, CalledScids,
     GetAllSCIDInvokeDetailsBySigner

\* What queries find is among the contracts.
LEMMA QueryTypes ==
    ASSUME QueryInv, NEW arg, NEW req
    PROVE  /\ Matching(req) \subseteq owner
           /\ CalledScids(arg) \subseteq owner \ {NAMESERVICE}
           /\ NormalScids(arg) \subseteq Scids
           /\ IsFiniteSet(Scids) /\ IsFiniteSet(owner) /\ IsFiniteSet(NormalScids(arg))
<1>1. Matching(req) \subseteq owner /\ CalledScids(arg) \subseteq owner \ {NAMESERVICE}
  BY DEF Matching, GetAllSCIDsByClass, GetAllSCIDsByTag, CalledScids
<1>2. NormalScids(arg) \subseteq Scids
  <2>1. GetAllNormalTxWithSCIDByAddr(arg) \in Seq(Entries)
    BY DEF QueryInv, NormalInv, TypeOK, GetAllNormalTxWithSCIDByAddr
  <2>2. ToSet(GetAllNormalTxWithSCIDByAddr(arg)) \subseteq Entries
    BY <2>1 DEF ToSet
  <2>3. QED
    BY <2>2 DEF NormalScids, Entries
<1>3. QED
  BY <1>1, <1>2, QueriesAssumption, FS_Subset DEF QueryInv, StoreType

\* What holds of an unshared address while its contracts are collected goes on
\* to hold.
LEMMA StaysKept ==
    ASSUME QueryInv, [Next]_vars, Grows, handler'.req = handler.req,
           handler'.before = handler.before,
           handler'.at \in {"owners", "each"} => handler.at \in {"owners", "each"}
    PROVE  BeforeStays'
<1>1. PICK arg : arg = handler.req.arg
  OBVIOUS
<1>2. NormalInv /\ BeforeStays
  BY DEF QueryInv
<1>3. CalledScids(arg) \subseteq CalledScids(arg)'
  BY GrowsQueries
<1>4. Unshared(arg) => NormalScids(arg) \subseteq NormalScids(arg)'
  BY <1>2, NormalScidsGrow
<1>5. /\ NormalScids(handler.req.arg)' = NormalScids(arg)'
      /\ CalledScids(handler.req.arg)' = CalledScids(arg)'
      /\ Unshared(handler.req.arg)' = Unshared(arg)
  BY <1>1 DEF NormalScids, GetAllNormalTxWithSCIDByAddr, CalledScids,
     GetAllSCIDInvokeDetailsBySigner, Unshared
<1>6. QED
  BY <1>1, <1>2, <1>3, <1>4, <1>5 DEF BeforeStays

\* A step that leaves the session alone keeps what is said about it.
LEMMA SessionKept ==
    ASSUME QueryInv, [Next]_vars, Grows, UNCHANGED session
    PROVE  /\ CountInv' /\ handler' \in HandlerType /\ ByClassInv' /\ ByAddrInv' /\ BeforeStays'
           /\ ClassAnswerExact' /\ AddrAnswerBounded'
<1> USE DEF QueryInv, session
<1>1. CountInv' /\ handler' \in HandlerType /\ ClassAnswerExact' /\ AddrAnswerBounded'
  BY DEF CountInv, Waiting, ClassAnswerExact, AddrAnswerBounded
<1>2. ByClassInv'
  BY GrowsQueries DEF ByClassInv
<1>3. ByAddrInv'
  <2>1. CalledScids(handler.req.arg) \subseteq CalledScids(handler.req.arg)'
    BY GrowsQueries
  <2>2. Coming \subseteq Coming'
    BY GrowsQueries DEF Coming
  <2>3. owner \subseteq owner'
    BY DEF Grows
  <2>4. QED
    BY <2>1, <2>2, <2>3 DEF ByAddrInv
<1>4. BeforeStays'
  BY StaysKept
<1>5. QED
  BY <1>1, <1>2, <1>3, <1>4

\* What a reply does to the counts and the handler.
LEMMA ReplyFacts ==
    ASSUME NEW r, NEW a, NEW b, NEW n, Reply(r, a, b, n)
    PROVE  /\ replies' = replies + 1 /\ handler' = Free
           /\ last'.req = r /\ last'.answer = a /\ last'.before = b /\ last'.now = n
  BY DEF Reply

\* The handler between two requests.
LEMMA FreeFacts ==
    Free \in HandlerType /\ Free.at = "read" /\ Free.req = None /\ None.method = "none"
    /\ NoReply.req = None
  BY DEF Free, None, HandlerType, NoReply

\* The request that is read is a request and leaves no other one behind.
LEMMA ReadsFacts ==
    ASSUME QueryInv, NEW m, Reads(m)
    PROVE  /\ Head(pending) \in Requests /\ Head(pending).method = m
           /\ pending' = <<>> /\ handler.at = "read" /\ pending # <<>>
           /\ pending' \in Seq(Requests) /\ Len(pending') <= 1
           /\ UNCHANGED <<vars, owner, calls, job, sent, asked, stats, timer, stops>>
<1>1. pending \in Seq(Requests) /\ pending # <<>> /\ Len(pending) <= 1
  BY DEF QueryInv, CountInv, Reads
<1>2. Head(pending) \in Requests /\ Len(Tail(pending)) = 0 /\ Tail(pending) \in Seq(Requests)
  BY <1>1
<1>3. Tail(pending) = <<>>
  BY <1>2, EmptySeq
<1>4. QED
  BY <1>2, <1>3 DEF Reads, store, cache

\* What looking at one more contract does to the list by address.
LEMMA AddFoundFacts ==
    ASSUME handler \in HandlerType, NEW k \in handler.todo, NoRepetition(handler.found)
    PROVE  /\ AddFound(k) \in Seq(Scids) /\ NoRepetition(AddFound(k))
           /\ ToSet(AddFound(k)) = ToSet(handler.found) \cup
                {s \in {k} : GetAllSCIDInvokeDetailsBySigner(k, handler.req.arg) # {}}
<1> DEFINE list == handler.found
           new  == Append(list, k)
<1>1. list \in Seq(Scids) /\ k \in Scids
  BY DEF HandlerType
<1>2. /\ new \in Seq(Scids) /\ Len(list) \in Nat /\ Len(new) = Len(list) + 1
      /\ \A i \in 1 .. Len(list) : new[i] = list[i]
      /\ new[Len(list) + 1] = k
  BY <1>1, AppendFacts
<1> HIDE DEF new, list
<1>3. DOMAIN list = 1 .. Len(list) /\ DOMAIN new = 1 .. Len(list) + 1
  BY <1>1, <1>2
<1>4. ToSet(new) = ToSet(list) \cup {k}
  <2>1. ToSet(new) \subseteq ToSet(list) \cup {k}
    BY <1>2, <1>3 DEF ToSet
  <2>2. ToSet(list) \subseteq ToSet(new)
    BY <1>2, <1>3 DEF ToSet
  <2>3. k \in ToSet(new)
    BY <1>2, <1>3 DEF ToSet
  <2>4. QED
    BY <2>1, <2>2, <2>3
<1>5. ASSUME k \notin ToSet(list) PROVE NoRepetition(new)
  <2>1. \A i \in 1 .. Len(list) : list[i] # k
    BY <1>3, <1>5 DEF ToSet
  <2>2. NoRepetition(list)
    BY DEF list
  <2>3. QED
    BY <1>2, <2>1, <2>2 DEF NoRepetition
<1>6. QED
  BY <1>1, <1>2, <1>4, <1>5 DEF AddFound, list, new

\* The invariant holds initially.
LEMMA InitQueryInv == QInit => QueryInv
<1> SUFFICES ASSUME QInit PROVE QueryInv
  OBVIOUS
<1>1. NormalInv
  BY InitNormalInv DEF QInit
<1>2. StoreType /\ StatsExact
  BY QueriesAssumption, FS_EmptySet DEF QInit, StoreType, StatsExact
<1>3. CountInv
  BY FreeFacts, QueriesAssumption DEF QInit, CountInv, Waiting
<1>4. /\ handler \in HandlerType /\ ByClassInv /\ ByAddrInv /\ BeforeStays
      /\ ClassAnswerExact /\ AddrAnswerBounded
  BY FreeFacts DEF QInit, ByClassInv, ByAddrInv, BeforeStays, ClassAnswerExact, AddrAnswerBounded
<1>5. QED
  BY <1>1, <1>2, <1>3, <1>4 DEF QueryInv

\* Every step keeps it.
LEMMA NextQueryInv == QueryInv /\ [QNext]_qvars => QueryInv'
<1> SUFFICES ASSUME QueryInv, [QNext]_qvars PROVE QueryInv'
  OBVIOUS
<1>1. NormalInv' /\ [Next]_vars
  BY QueriesNormal, NextNormalInv DEF QueryInv
<1>2. CASE WriterStep
  <2>1. Grows /\ UNCHANGED <<session, stats, timer, stops>>
    BY <1>2 DEF WriterStep, Grows, cache
  <2>2. StoreType'
    <3>1. Len(Jobs) \in Nat /\ job \in 1 .. Len(Jobs)
      BY <1>2, QueriesAssumption DEF WriterStep, QueryInv, StoreType
    <3>2. Jobs[job].scid \in Scids
      <4>1. Jobs[job] \in [method : {"install", "invoke"}, scid : Scids, signer : STRING]
        BY <3>1, QueriesAssumption, ElementOfSeq
      <4>2. QED
        BY <4>1
    <3>3. QED
      BY <1>2, <3>1, <3>2 DEF WriterStep, QueryInv, StoreType, cache
  <2>3. StatsExact'
    BY <2>1 DEF QueryInv, StatsExact, Grows
  <2>4. QED
    BY <1>1, <2>1, <2>2, <2>3, SessionKept DEF QueryInv
<1>3. ASSUME NEW l \in Listeners, ListenerStep(l) PROVE QueryInv'
  <2>1. Grows /\ UNCHANGED <<session, store, stats, timer, stops>>
    BY <1>3 DEF ListenerStep, Grows, store, cache
  <2>2. StoreType' /\ StatsExact'
    BY <2>1 DEF QueryInv, StoreType, StatsExact, store
  <2>3. QED
    BY <1>1, <2>1, <2>2, SessionKept DEF QueryInv
<1>4. CASE collectStats
  <2>1. Grows /\ UNCHANGED <<session, store, stops>> /\ timer' = TRUE /\ stats' = Collected
    BY <1>4 DEF collectStats, Grows, store
  <2>2. StoreType' /\ StatsExact'
    BY <2>1 DEF QueryInv, StoreType, StatsExact, store, Collected, GetAllOwnersAndSCIDs
  <2>3. QED
    BY <1>1, <2>1, <2>2, SessionKept DEF QueryInv
<1>5. ASSUME NEW r \in Requests, Send(r) PROVE QueryInv'
  <2>1. /\ pending = <<>> /\ pending' = Append(pending, r) /\ sent < MaxRequests
        /\ sent' = sent + 1 /\ asked' = IF Known(r) THEN asked + 1 ELSE asked
        /\ UNCHANGED <<store, handler, replies, stats, timer, stops>> /\ last' = NoReply
    BY <1>5 DEF Send, cache, Known
  <2>2. pending' \in Seq(Requests) /\ Len(pending') = 1 /\ pending' # <<>> /\ Head(pending') = r
    BY <2>1
  <2>3. CountInv'
    BY <2>1, <2>2, QueriesAssumption DEF QueryInv, CountInv, Waiting
  <2>4. StoreType' /\ StatsExact' /\ handler' \in HandlerType
    BY <2>1 DEF QueryInv, StoreType, StatsExact, store
  <2>5. ByClassInv' /\ ByAddrInv'
    BY <2>1 DEF QueryInv, store, ByClassInv, ByAddrInv, Coming, CalledScids, Matching,
       GetAllSCIDsByClass, GetAllSCIDsByTag, GetAllSCIDInvokeDetailsBySigner
  <2>6. BeforeStays' /\ ClassAnswerExact' /\ AddrAnswerBounded'
    BY <1>1, <2>1, StaysKept, FreeFacts DEF store, Grows, ClassAnswerExact, AddrAnswerBounded
  <2>7. QED
    BY <1>1, <2>3, <2>4, <2>5, <2>6 DEF QueryInv
<1>6. CASE GetAllSCIDs
  <2>1. Reads("one") /\ Known(Head(pending))
    BY <1>6, ReadsFacts DEF GetAllSCIDs, Known
  <2>2. PICK s : Reply(Head(pending), s, owner, owner)
    BY <1>6 DEF GetAllSCIDs
  <2>3. /\ handler.at = "read" /\ handler' = Free /\ replies' = replies + 1
        /\ pending # <<>> /\ pending' = <<>>
        /\ UNCHANGED <<owner, calls, job, sent, asked, stats, timer, stops>>
        /\ last'.req.method = "one"
    BY <2>1, <2>2, ReadsFacts, ReplyFacts
  <2>4. CountInv'
    BY <2>1, <2>3, FreeFacts DEF QueryInv, CountInv, Waiting
  <2>5. handler' \in HandlerType /\ StoreType' /\ StatsExact'
    BY <2>3, FreeFacts DEF QueryInv, StoreType, StatsExact
  <2>6. ByClassInv' /\ ByAddrInv' /\ BeforeStays' /\ ClassAnswerExact' /\ AddrAnswerBounded'
    BY <2>3, FreeFacts DEF ByClassInv, ByAddrInv, BeforeStays, ClassAnswerExact, AddrAnswerBounded
  <2>7. QED
    BY <1>1, <2>4, <2>5, <2>6 DEF QueryInv
<1>7. CASE ByClassFirst
  <2> DEFINE found == Matching(Head(pending))
  <2>1. PICK m \in {"class", "tag"} : Reads(m) /\ Known(Head(pending))
    BY <1>7, ReadsFacts DEF ByClassFirst, Known
  <2>2. /\ handler' = [at |-> "second", req |-> Head(pending), todo |-> found,
                       found |-> <<>>, before |-> found]
        /\ last' = NoReply /\ replies' = replies
    BY <1>7 DEF ByClassFirst
  <2>3. found \subseteq Scids
    BY QueryTypes DEF QueryInv, StoreType
  <2>4. handler' \in HandlerType
    BY <2>1, <2>2, <2>3, ReadsFacts DEF HandlerType
  <2>5. CountInv' /\ StoreType' /\ StatsExact'
    <3>1. Waiting = 1
      BY <2>1, ReadsFacts DEF Waiting
    <3>2. Waiting' = 1
      BY <2>1, <2>2, ReadsFacts DEF Waiting
    <3>3. CountInv'
      BY <2>1, <2>2, <3>1, <3>2, ReadsFacts DEF QueryInv, CountInv
    <3>4. QED
      BY <2>1, <3>3, ReadsFacts DEF QueryInv, StoreType, StatsExact
  <2>6. ByClassInv'
    BY <2>1, <2>2, ReadsFacts DEF ByClassInv, Matching, GetAllSCIDsByClass, GetAllSCIDsByTag
  <2>7. ByAddrInv' /\ BeforeStays' /\ ClassAnswerExact' /\ AddrAnswerBounded'
    BY <2>2, FreeFacts DEF ByAddrInv, BeforeStays, ClassAnswerExact, AddrAnswerBounded
  <2>8. QED
    BY <1>1, <2>4, <2>5, <2>6, <2>7 DEF QueryInv
<1>8. CASE ByClassSecond
  <2>1. /\ handler.at = "second" /\ Grows
        /\ UNCHANGED <<owner, calls, job, pending, sent, asked, stats, timer, stops>>
    BY <1>8 DEF ByClassSecond, store, cache, Grows
  <2>2. PICK s \in InHeightOrder(owner \cap handler.todo) :
          Reply(handler.req, s, handler.before, Matching(handler.req))
    BY <1>8 DEF ByClassSecond
  <2>3. /\ handler.todo = handler.before /\ handler.before \subseteq owner
        /\ handler.before \subseteq Matching(handler.req)
    BY <2>1, QueryTypes DEF QueryInv, ByClassInv
  <2>4. IsFiniteSet(owner \cap handler.todo) /\ owner \cap handler.todo = handler.before
    BY <2>3, QueryTypes, FS_Subset
  <2>5. /\ ToSet(s) = handler.before
        /\ \A i, j \in DOMAIN s : i < j => Height[s[i]] <= Height[s[j]]
    BY <2>2, <2>4, SetToSeqsFacts DEF InHeightOrder
  <2>6. ClassAnswerExact'
    BY <2>2, <2>3, <2>5, ReplyFacts DEF ClassAnswerExact
  <2>7. AddrAnswerBounded'
    BY <2>1, <2>2, ReplyFacts DEF AddrAnswerBounded, QueryInv, ByClassInv
  <2>8. CountInv' /\ handler' \in HandlerType /\ StoreType' /\ StatsExact'
    BY <2>1, <2>2, ReplyFacts, FreeFacts DEF QueryInv, CountInv, Waiting, StoreType, StatsExact
  <2>9. ByClassInv' /\ ByAddrInv' /\ BeforeStays'
    BY <2>2, ReplyFacts, FreeFacts DEF ByClassInv, ByAddrInv, BeforeStays
  <2>10. QED
    BY <1>1, <2>6, <2>7, <2>8, <2>9 DEF QueryInv
<1>9. CASE ByAddrFirst
  <2>1. Reads("addr") /\ Known(Head(pending))
    BY <1>9, ReadsFacts DEF ByAddrFirst, Known
  <2>2. PICK arg, req : arg = Head(pending).arg /\ req = Head(pending)
    OBVIOUS
  <2> DEFINE before == NormalScids(arg) \cup CalledScids(arg)
  <2>3. PICK s, b :
          /\ s \in SetToSeqs(NormalScids(arg)) /\ b = before
          /\ handler' = [at |-> "owners", req |-> req, todo |-> {}, found |-> s, before |-> b]
    BY <1>9, <2>2 DEF ByAddrFirst
  <2>4. last' = NoReply /\ replies' = replies
    BY <1>9 DEF ByAddrFirst
  <2>5. s \in Seq(NormalScids(arg)) /\ ToSet(s) = NormalScids(arg) /\ NoRepetition(s)
    BY <2>3, QueryTypes, SetToSeqsFacts
  <2>6. s \in Seq(Scids) /\ b \subseteq Scids
    BY <2>3, <2>5, QueryTypes DEF QueryInv, StoreType
  <2>7. /\ handler'.at = "owners" /\ handler'.req = req /\ handler'.found = s
        /\ handler'.before = b /\ req.arg = arg /\ req.method = "addr" /\ req \in Requests
    BY <2>1, <2>2, <2>3, ReadsFacts
  <2>8. handler' \in HandlerType
    BY <2>3, <2>6, <2>7 DEF HandlerType
  <2>9. CountInv' /\ StoreType' /\ StatsExact'
    <3>1. Waiting = 1
      BY <2>1, ReadsFacts DEF Waiting
    <3>2. Waiting' = 1
      BY <2>1, <2>7, ReadsFacts DEF Waiting
    <3>3. CountInv'
      BY <2>1, <2>4, <3>1, <3>2, ReadsFacts DEF QueryInv, CountInv
    <3>4. QED
      BY <2>1, <3>3, ReadsFacts DEF QueryInv, StoreType, StatsExact
  <2>10. CalledScids(handler.req.arg)' = CalledScids(arg)
    BY <2>1, <2>7, ReadsFacts DEF CalledScids, GetAllSCIDInvokeDetailsBySigner
  <2>11. ToSet(handler.found)' = NormalScids(arg) /\ NoRepetition(handler.found)'
    BY <2>5, <2>7
  <2>12. ByAddrInv' /\ BeforeStays'
    <3>1. NormalScids(handler.req.arg)' = NormalScids(arg)
      BY <2>1, <2>7, ReadsFacts DEF NormalScids, GetAllNormalTxWithSCIDByAddr, vars
    <3>2. QED
      BY <2>3, <2>7, <2>10, <2>11, <3>1 DEF ByAddrInv, BeforeStays
  <2>13. ByClassInv' /\ ClassAnswerExact' /\ AddrAnswerBounded'
    BY <2>4, <2>7, FreeFacts DEF ByClassInv, ClassAnswerExact, AddrAnswerBounded
  <2>14. QED
    BY <1>1, <2>8, <2>9, <2>12, <2>13 DEF QueryInv
<1>10. CASE ByAddrOwners
  <2>1. PICK arg : arg = handler.req.arg
    OBVIOUS
  <2>2. /\ handler.at = "owners" /\ Grows
        /\ UNCHANGED <<owner, calls, job, pending, sent, asked, replies, last, stats, timer, stops>>
    BY <1>10 DEF ByAddrOwners, store, cache, Grows
  <2>3. /\ handler' \in HandlerType /\ handler'.at = "each" /\ handler'.req = handler.req
        /\ handler'.found = handler.found /\ handler'.before = handler.before
        /\ handler'.todo = owner \ {NAMESERVICE}
    BY <1>10 DEF ByAddrOwners, GetAllOwnersAndSCIDs, QueryInv, StoreType, HandlerType
  <2>4. /\ NoRepetition(handler.found) /\ handler.req.method = "addr"
        /\ ToSet(handler.found) \subseteq handler.before \cup CalledScids(arg)
        /\ handler.before \subseteq ToSet(handler.found) \cup CalledScids(arg)
    BY <2>1, <2>2 DEF QueryInv, ByAddrInv
  <2>5. CalledScids(arg)' = CalledScids(arg)
    BY <2>2 DEF CalledScids, GetAllSCIDInvokeDetailsBySigner
  <2>6. Coming' = CalledScids(arg)
    BY <2>1, <2>2, <2>3 DEF Coming, CalledScids, GetAllSCIDInvokeDetailsBySigner
  <2>7. ByAddrInv'
    <3>1. CalledScids(handler.req.arg)' = CalledScids(arg)
      BY <2>1, <2>3, <2>5
    <3>2. QED
      BY <2>2, <2>3, <2>4, <2>6, <3>1 DEF ByAddrInv
  <2>8. CountInv' /\ StoreType' /\ StatsExact' /\ ByClassInv'
    BY <2>2, <2>3 DEF QueryInv, CountInv, Waiting, StoreType, StatsExact, ByClassInv
  <2>9. BeforeStays' /\ ClassAnswerExact' /\ AddrAnswerBounded'
    BY <1>1, <2>2, <2>3, StaysKept DEF QueryInv, ClassAnswerExact, AddrAnswerBounded
  <2>10. QED
    BY <1>1, <2>3, <2>7, <2>8, <2>9 DEF QueryInv
<1>11. CASE ByAddrEach
  <2>1. PICK arg : arg = handler.req.arg
    OBVIOUS
  <2>2. /\ handler.at = "each" /\ Grows
        /\ UNCHANGED <<owner, calls, job, pending, sent, asked, replies, last, stats, timer, stops>>
    BY <1>11 DEF ByAddrEach, store, cache, Grows
  <2>3. PICK k \in handler.todo :
          handler' = [handler EXCEPT !.todo = @ \ {k}, !.found = AddFound(k)]
    BY <1>11 DEF ByAddrEach
  <2>4. /\ NoRepetition(handler.found) /\ handler.req.method = "addr"
        /\ ToSet(handler.found) \subseteq handler.before \cup CalledScids(arg)
        /\ handler.before \subseteq ToSet(handler.found) \cup Coming
        /\ handler.todo \subseteq owner \ {NAMESERVICE}
    BY <2>1, <2>2 DEF QueryInv, ByAddrInv
  <2> DEFINE calls_k == GetAllSCIDInvokeDetailsBySigner(k, arg)
             found   == AddFound(k)
  <2>5. /\ found \in Seq(Scids) /\ NoRepetition(found)
        /\ ToSet(found) = ToSet(handler.found) \cup {s \in {k} : calls_k # {}}
    BY <2>1, <2>4, AddFoundFacts DEF QueryInv
  <2> HIDE DEF found
  <2>6. /\ handler' \in HandlerType /\ handler'.at = "each" /\ handler'.req = handler.req
        /\ handler'.found = found /\ handler'.before = handler.before
        /\ handler'.todo = handler.todo \ {k}
    BY <2>2, <2>3, <2>5 DEF QueryInv, HandlerType, found
  <2>7. CalledScids(handler.req.arg)' = CalledScids(arg)
    BY <2>1, <2>2, <2>6 DEF CalledScids, GetAllSCIDInvokeDetailsBySigner
  <2>8. Coming' = Coming \ {k}
    BY <2>1, <2>2, <2>6 DEF Coming, GetAllSCIDInvokeDetailsBySigner
  <2>9. calls_k # {} => k \in CalledScids(arg)
    BY <2>4 DEF CalledScids
  <2>10. k \in Coming => calls_k # {}
    BY <2>1 DEF Coming
  <2>11. ByAddrInv'
    BY <2>2, <2>4, <2>5, <2>6, <2>7, <2>8, <2>9, <2>10 DEF ByAddrInv
  <2>12. CountInv' /\ StoreType' /\ StatsExact' /\ ByClassInv'
    BY <2>2, <2>6 DEF QueryInv, CountInv, Waiting, StoreType, StatsExact, ByClassInv
  <2>13. BeforeStays' /\ ClassAnswerExact' /\ AddrAnswerBounded'
    BY <1>1, <2>2, <2>6, StaysKept DEF QueryInv, ClassAnswerExact, AddrAnswerBounded
  <2>14. QED
    BY <1>1, <2>6, <2>11, <2>12, <2>13 DEF QueryInv
<1>12. CASE ByAddrReply
  <2>1. /\ handler.at = "each" /\ handler.todo = {}
        /\ UNCHANGED <<owner, calls, job, pending, sent, asked, stats, timer, stops>>
    BY <1>12 DEF ByAddrReply, store, cache
  <2>2. Reply(handler.req, handler.found, handler.before,
              NormalScids(handler.req.arg) \cup CalledScids(handler.req.arg))
    BY <1>12 DEF ByAddrReply
  <2>3. /\ NoRepetition(handler.found) /\ handler.req.method = "addr"
        /\ ToSet(handler.found) \subseteq handler.before \cup CalledScids(handler.req.arg)
        /\ handler.before \subseteq ToSet(handler.found)
        /\ Unshared(handler.req.arg) => handler.before \subseteq
             NormalScids(handler.req.arg) \cup CalledScids(handler.req.arg)
    BY <2>1 DEF QueryInv, ByAddrInv, BeforeStays, Coming
  <2>4. Len(handler.found) = Cardinality(ToSet(handler.found))
    BY <2>3, NoRepetitionLength DEF QueryInv, HandlerType
  <2>5. AddrAnswerBounded'
    <3>1. Unshared(last'.req.arg) = Unshared(handler.req.arg)
      BY <2>2, ReplyFacts
    <3>2. QED
      BY <2>2, <2>3, <2>4, <3>1, ReplyFacts DEF AddrAnswerBounded, Unshared
  <2>6. ClassAnswerExact'
    BY <2>2, <2>3, ReplyFacts DEF ClassAnswerExact
  <2>7. handler' = Free /\ replies' = replies + 1
    BY <2>2, ReplyFacts
  <2>8. CountInv'
    BY <2>1, <2>7, FreeFacts DEF QueryInv, CountInv, Waiting
  <2>9. handler' \in HandlerType /\ StoreType' /\ StatsExact'
    BY <2>1, <2>7, FreeFacts DEF QueryInv, StoreType, StatsExact
  <2>10. ByClassInv' /\ ByAddrInv' /\ BeforeStays'
    BY <2>7, FreeFacts DEF ByClassInv, ByAddrInv, BeforeStays
  <2>11. QED
    BY <1>1, <2>5, <2>6, <2>8, <2>9, <2>10 DEF QueryInv
<1>13. CASE Unknown
  <2>1. Reads("other") /\ ~ Known(Head(pending))
    BY <1>13, ReadsFacts DEF Unknown, Known
  <2>2. last' = NoReply /\ UNCHANGED <<handler, replies>>
    BY <1>13 DEF Unknown
  <2>3. CountInv'
    <3>1. Waiting = 0 /\ Waiting' = 0
      BY <2>1, <2>2, ReadsFacts DEF Waiting
    <3>2. QED
      BY <2>1, <2>2, <3>1, ReadsFacts DEF QueryInv, CountInv
  <2>4. handler' \in HandlerType /\ StoreType' /\ StatsExact'
    BY <2>1, <2>2, ReadsFacts DEF QueryInv, StoreType, StatsExact
  <2>5. ByClassInv' /\ ByAddrInv' /\ BeforeStays' /\ ClassAnswerExact' /\ AddrAnswerBounded'
    BY <2>1, <2>2, ReadsFacts, FreeFacts
       DEF ByClassInv, ByAddrInv, BeforeStays, ClassAnswerExact, AddrAnswerBounded
  <2>6. QED
    BY <1>1, <2>3, <2>4, <2>5 DEF QueryInv
<1>14. CASE Disconnect \/ QStop
  <2>1. /\ pending' = <<>> /\ handler' = Free /\ last' = NoReply
        /\ sent' = 0 /\ asked' = 0 /\ replies' = 0 /\ UNCHANGED owner
    BY <1>14 DEF Disconnect, QStop, NewSession, store
  <2>2. CountInv' /\ handler' \in HandlerType
    BY <2>1, FreeFacts, QueriesAssumption DEF CountInv, Waiting
  <2>3. StoreType' /\ StatsExact'
    <3>1. CASE Disconnect
      BY <3>1 DEF Disconnect, QueryInv, StoreType, StatsExact, store, cache
    <3>2. CASE QStop
      <4>1. /\ stops' = stops + 1 /\ stops < MaxStops /\ job' = 1 /\ timer' = TRUE
            /\ stats' = Collected /\ owner' = owner
        BY <3>2 DEF QStop
      <4>2. StoreType'
        BY <4>1, QueriesAssumption DEF QueryInv, StoreType
      <4>3. stats' = [indexedscs |-> owner, countSCs |-> Cardinality(owner)]
        BY <4>1 DEF Collected, GetAllOwnersAndSCIDs
      <4>4. QED
        BY <4>1, <4>2, <4>3 DEF StatsExact
    <3>3. QED
      BY <1>14, <3>1, <3>2
  <2>4. ByClassInv' /\ ByAddrInv' /\ BeforeStays' /\ ClassAnswerExact' /\ AddrAnswerBounded'
    BY <2>1, FreeFacts DEF ByClassInv, ByAddrInv, BeforeStays, ClassAnswerExact, AddrAnswerBounded
  <2>5. QED
    BY <1>1, <2>2, <2>3, <2>4 DEF QueryInv
<1>15. CASE UNCHANGED qvars
  <2>1. Grows /\ UNCHANGED <<session, store, cache, stops>>
    BY <1>15 DEF qvars, Grows, store
  <2>2. StoreType' /\ StatsExact'
    BY <2>1 DEF QueryInv, StoreType, StatsExact, store, cache
  <2>3. QED
    BY <1>1, <2>1, <2>2, SessionKept DEF QueryInv
<1>16. QED
  BY <1>2, <1>3, <1>4, <1>5, <1>6, <1>7, <1>8, <1>9, <1>10, <1>11, <1>12, <1>13, <1>14, <1>15
     DEF QNext, HandlerStep

\* The invariant holds in every reachable state.
THEOREM Invariance == QSpec => []QueryInv
<1>1. QInit => QueryInv
  BY InitQueryInv
<1>2. QueryInv /\ [QNext]_qvars => QueryInv'
  BY NextQueryInv
<1>3. QED
  BY <1>1, <1>2, PTL DEF QSpec

\* The variables keep their types; no more replies than requests are sent.
THEOREM TypeCorrect == QSpec => []QTypeOK
<1>1. QueryInv => QTypeOK
  <2> SUFFICES ASSUME QueryInv PROVE QTypeOK
    OBVIOUS
  <2>1. replies \in 0 .. asked
    BY DEF QueryInv, CountInv, Waiting
  <2>2. ToSet(handler.found) \cup handler.before \subseteq Scids
    BY DEF QueryInv, HandlerType, ToSet
  <2>3. stats.indexedscs \subseteq Scids /\ stats.countSCs \in 0 .. Cardinality(Scids)
    <3>1. stats.indexedscs \subseteq Scids /\ stats.countSCs = Cardinality(stats.indexedscs)
      BY DEF QueryInv, StatsExact, StoreType
    <3>2. QED
      BY <3>1, QueriesAssumption, FS_Subset, FS_CardinalityType
  <2>4. QED
    BY <2>1, <2>2, <2>3 DEF QueryInv, QTypeOK, NormalInv, StoreType, CountInv, HandlerType
<1>2. QED
  BY <1>1, Invariance, PTL

\* A list by class or by tag taken from two transactions is that of the first, of
\* every contract with the part asked for in its class or in one of its tags, in
\* height order, and all of them still have it when it is sent: for any
\* contracts, codes, parts and writers.
THEOREM ClassAnswerExactHolds == QSpec => []ClassAnswerExact
<1>1. QueryInv => ClassAnswerExact
  BY DEF QueryInv
<1>2. QED
  BY <1>1, Invariance, PTL

\* A list by address taken from any number of transactions has all that was in
\* the database for the address when it was begun and nothing that was there
\* neither then nor when it is sent, nothing that is not there then if no two
\* listeners share the address, and nothing twice.
THEOREM AddrAnswerBoundedHolds == QSpec => []AddrAnswerBounded
<1>1. QueryInv => AddrAnswerBounded
  BY DEF QueryInv
<1>2. QED
  BY <1>1, Invariance, PTL

\* The cached statistics count what they list and list what is there.
THEOREM StatsExactHolds == QSpec => []StatsExact
<1>1. QueryInv => StatsExact
  BY DEF QueryInv
<1>2. QED
  BY <1>1, Invariance, PTL

\* The readers, the writer and the timer beside the listeners disturb no list.
THEOREM ListsHold == QSpec => [](ListedOnce /\ OwnListed)
<1>1. QueryInv => ListedOnce /\ OwnListed
  BY DEF QueryInv, NormalInv
<1>2. QED
  BY <1>1, Invariance, PTL
=============================================================================
