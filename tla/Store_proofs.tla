---------------------------- MODULE Store_proofs ----------------------------
(***************************************************************************)
(* Proofs about Store for every set of callers, contracts and stages.      *)
(***************************************************************************)
EXTENDS Store, TLAPS

\* Where a caller is tells which method it is storing.
MethodInv ==
    \A c \in Callers :
        /\ pc[c] = "owner" => staged[c].method = "install"
        /\ pc[c] \in {"invoke", "view", "put"} => staged[c].method = "invoke"

\* Past StoreSCIDVariableDetails the snapshot is committed.
SnapshotInv ==
    \A c \in Callers :
        pc[c] \in {"owner", "invoke", "view", "put", "return"} =>
            <<staged[c].scid, staged[c].height>> \in vars

\* Past the Update of its method, so is the record.
RecordInv ==
    \A c \in Callers :
        /\ pc[c] = "return" /\ staged[c].method = "install" =>
               staged[c].scid \in owner
        /\ pc[c] \in {"view", "put", "return"} /\ staged[c].method = "invoke" =>
               \E r \in invokes : InvokeKey(r) = InvokeKey(staged[c])

\* The list a caller has viewed, however stale it is by now, is one that may
\* be written back.
ListInv ==
    \A c \in Callers : pc[c] = "put" =>
        Backed(staged[c].scid, curr[c]) /\ NoRepetition(curr[c])

IndInv ==
    /\ TypeOK
    /\ MethodInv
    /\ SnapshotInv
    /\ RecordInv
    /\ ListInv
    /\ CrashConsistent
    /\ NoRepeatedHeight
    /\ DoneRecorded

\* What Append does to a list of heights.
LEMMA AppendFacts ==
    ASSUME NEW list \in Seq(Int), NEW h \in Int
    PROVE  /\ Append(list, h) \in Seq(Int)
           /\ Len(list) \in Nat
           /\ Len(Append(list, h)) = Len(list) + 1
           /\ \A i \in 1 .. Len(list) : Append(list, h)[i] = list[i]
           /\ Append(list, h)[Len(list) + 1] = h
  OBVIOUS

\* The appended list has the old heights and the new one.
LEMMA AppendContains ==
    ASSUME NEW list \in Seq(Int), NEW h \in Int
    PROVE  /\ Contains(Append(list, h), h)
           /\ \A k : Contains(list, k) => Contains(Append(list, h), k)
<1> DEFINE new == Append(list, h)
<1>1. /\ Len(list) \in Nat /\ Len(new) = Len(list) + 1
      /\ \A i \in 1 .. Len(list) : new[i] = list[i]
      /\ new[Len(list) + 1] = h
  BY AppendFacts
<1> HIDE DEF new
<1>2. Len(list) + 1 \in 1 .. Len(new)
  BY <1>1
<1>3. Contains(new, h)
  BY <1>1, <1>2 DEF Contains
<1>4. ASSUME NEW k, Contains(list, k) PROVE Contains(new, k)
  BY <1>1, <1>4 DEF Contains
<1>5. QED
  BY <1>3, <1>4 DEF new

\* Appending a height the list does not contain repeats nothing.
LEMMA AppendNoRepetition ==
    ASSUME NEW list \in Seq(Int), NEW h \in Int,
           NoRepetition(list), ~Contains(list, h)
    PROVE  NoRepetition(Append(list, h))
<1> DEFINE new == Append(list, h)
<1>1. /\ Len(list) \in Nat /\ Len(new) = Len(list) + 1
      /\ \A i \in 1 .. Len(list) : new[i] = list[i]
      /\ new[Len(list) + 1] = h
  BY AppendFacts
<1> HIDE DEF new
<1>2. \A i \in 1 .. Len(list) : new[i] # h
  BY <1>1 DEF Contains
<1>3. NoRepetition(new)
  BY <1>1, <1>2 DEF NoRepetition
<1>4. QED
  BY <1>3 DEF new

\* Appending a height that is backed keeps the list backed.
LEMMA AppendBacked ==
    ASSUME NEW list \in Seq(Int), NEW h \in Int, NEW x,
           Backed(x, list), <<x, h>> \in vars, Recorded(x, h)
    PROVE  Backed(x, Append(list, h))
<1> DEFINE new == Append(list, h)
<1>1. /\ Len(list) \in Nat /\ Len(new) = Len(list) + 1
      /\ \A i \in 1 .. Len(list) : new[i] = list[i]
      /\ new[Len(list) + 1] = h
  BY AppendFacts
<1> HIDE DEF new
<1>2. ASSUME NEW i \in 1 .. Len(new)
      PROVE  <<x, new[i]>> \in vars /\ Recorded(x, new[i])
  BY <1>1 DEF Backed
<1>3. QED
  BY <1>2 DEF Backed, new

\* The buckets only grow; an invocation record may be replaced, but by one
\* with its key.
Grows ==
    /\ vars \subseteq vars'
    /\ owner \subseteq owner'
    /\ \A r \in invokes : \E q \in invokes' : InvokeKey(q) = InvokeKey(r)

\* What is recorded stays recorded when the buckets grow.
LEMMA GrowsRecorded ==
    ASSUME Grows, NEW x, NEW h, Recorded(x, h)
    PROVE  Recorded(x, h)'
  BY DEF Grows, Recorded, InvokeKey

\* So a backed list stays backed.
LEMMA GrowsBacked ==
    ASSUME Grows, NEW x, NEW list \in Seq(Int), Backed(x, list)
    PROVE  \A i \in 1 .. Len(list) :
               <<x, list[i]>> \in vars' /\ Recorded(x, list[i])'
  BY GrowsRecorded DEF Grows, Backed

\* No action removes anything.
LEMMA NextGrows == TypeOK /\ [Next]_storeVars => Grows
<1> SUFFICES ASSUME TypeOK, [Next]_storeVars PROVE Grows
  OBVIOUS
<1>1. CASE UNCHANGED durable
  BY <1>1 DEF durable, Grows
<1>2. ASSUME NEW c \in Callers, StoreSCIDVariableDetails(c) PROVE Grows
  BY <1>2 DEF StoreSCIDVariableDetails, Grows
<1>3. ASSUME NEW c \in Callers, StoreOwner(c) PROVE Grows
  BY <1>3 DEF StoreOwner, Grows
<1>4. ASSUME NEW c \in Callers, StoreInvokeDetails(c) PROVE Grows
  <2>1. ASSUME NEW r \in invokes
        PROVE  \E q \in invokes' : InvokeKey(q) = InvokeKey(r)
    BY <1>4, <2>1 DEF StoreInvokeDetails
  <2>2. QED
    BY <1>4, <2>1 DEF StoreInvokeDetails, Grows
<1>5. ASSUME NEW c \in Callers, PutHeights(c) PROVE Grows
  BY <1>5 DEF PutHeights, Grows
<1>6. QED
  BY <1>1, <1>2, <1>3, <1>4, <1>5 DEF Next, Offer, Add, Call, Test, Set,
     ViewHeights, Return, Crash, storeVars, durable

\* The initial state satisfies the invariant.
LEMMA InitIndInv == Init => IndInv
<1> SUFFICES ASSUME Init PROVE IndInv
  OBVIOUS
<1> USE DEF Init
<1>1. \A x \in SCIDs : heights[x] = <<>>
  OBVIOUS
<1>2. TypeOK
  <2>1. <<>> \in Seq(Int)
    OBVIOUS
  <2>2. heights \in [SCIDs -> Seq(Int)] /\ curr \in [Callers -> Seq(Int)]
    BY <2>1
  <2>3. pc \in [Callers -> Steps] /\ \A c \in Callers : pc[c] = "idle"
    BY DEF Steps
  <2>4. QED
    BY <2>2, <2>3 DEF TypeOK
<1>3. MethodInv /\ SnapshotInv /\ RecordInv /\ ListInv
  BY DEF MethodInv, SnapshotInv, RecordInv, ListInv
<1>4. CrashConsistent /\ NoRepeatedHeight
  BY <1>1 DEF CrashConsistent, NoRepeatedHeight, Backed, NoRepetition
<1>5. DoneRecorded
  BY DEF DoneRecorded
<1>6. QED
  BY <1>2, <1>3, <1>4, <1>5 DEF IndInv

\* Every step preserves the invariant.
LEMMA NextIndInv == IndInv /\ [Next]_storeVars => IndInv'
<1> SUFFICES ASSUME IndInv, [Next]_storeVars PROVE IndInv'
  OBVIOUS
<1> USE StageAssumption DEF IndInv, durable, caller, Goto
<1>g. Grows
  BY NextGrows
<1>1. ASSUME NEW c \in Callers, NEW s \in Stages, Call(c, s) PROVE IndInv'
  <2> USE <1>1 DEF Call
  <2>1. TypeOK'
    BY DEF TypeOK, Steps, NoStage
  <2>2. MethodInv'
    BY DEF MethodInv, TypeOK, Steps
  <2>3. SnapshotInv'
    BY <1>g DEF SnapshotInv, TypeOK, Steps, Grows
  <2>4. RecordInv'
    BY <1>g DEF RecordInv, TypeOK, Steps, Grows
  <2>5. ListInv'
    BY <1>g, GrowsBacked DEF ListInv, TypeOK, Backed, NoRepetition, CrashConsistent, NoRepeatedHeight
  <2>6. CrashConsistent'
    BY <1>g, GrowsBacked DEF CrashConsistent, Backed, TypeOK, Heights, SnapshotInv, Grows
  <2>7. NoRepeatedHeight'
    BY DEF NoRepeatedHeight, NoRepetition, TypeOK, ListInv
  <2>8. DoneRecorded'
    BY <1>g DEF DoneRecorded, TypeOK, SnapshotInv, RecordInv, Grows
  <2>9. QED
    BY <2>1, <2>2, <2>3, <2>4, <2>5, <2>6, <2>7, <2>8
<1>2. ASSUME NEW c \in Callers, Test(c) PROVE IndInv'
  <2> USE <1>2 DEF Test
  <2>1. TypeOK'
    BY DEF TypeOK, Steps, NoStage
  <2>2. MethodInv'
    BY DEF MethodInv, TypeOK, Steps
  <2>3. SnapshotInv'
    BY <1>g DEF SnapshotInv, TypeOK, Steps, Grows
  <2>4. RecordInv'
    BY <1>g DEF RecordInv, TypeOK, Steps, Grows
  <2>5. ListInv'
    BY <1>g, GrowsBacked DEF ListInv, TypeOK, Backed, NoRepetition, CrashConsistent, NoRepeatedHeight
  <2>6. CrashConsistent'
    BY <1>g, GrowsBacked DEF CrashConsistent, Backed, TypeOK, Heights, SnapshotInv, Grows
  <2>7. NoRepeatedHeight'
    BY DEF NoRepeatedHeight, NoRepetition, TypeOK, ListInv
  <2>8. DoneRecorded'
    BY <1>g DEF DoneRecorded, TypeOK, SnapshotInv, RecordInv, Grows
  <2>9. QED
    BY <2>1, <2>2, <2>3, <2>4, <2>5, <2>6, <2>7, <2>8
<1>3. ASSUME NEW c \in Callers, Set(c) PROVE IndInv'
  <2> USE <1>3 DEF Set
  <2>1. TypeOK'
    BY DEF TypeOK, Steps, NoStage
  <2>2. MethodInv'
    BY DEF MethodInv, TypeOK, Steps
  <2>3. SnapshotInv'
    BY <1>g DEF SnapshotInv, TypeOK, Steps, Grows
  <2>4. RecordInv'
    BY <1>g DEF RecordInv, TypeOK, Steps, Grows
  <2>5. ListInv'
    BY <1>g, GrowsBacked DEF ListInv, TypeOK, Backed, NoRepetition, CrashConsistent, NoRepeatedHeight
  <2>6. CrashConsistent'
    BY <1>g, GrowsBacked DEF CrashConsistent, Backed, TypeOK, Heights, SnapshotInv, Grows
  <2>7. NoRepeatedHeight'
    BY DEF NoRepeatedHeight, NoRepetition, TypeOK, ListInv
  <2>8. DoneRecorded'
    BY <1>g DEF DoneRecorded, TypeOK, SnapshotInv, RecordInv, Grows
  <2>9. QED
    BY <2>1, <2>2, <2>3, <2>4, <2>5, <2>6, <2>7, <2>8
<1>4. ASSUME NEW c \in Callers, StoreSCIDVariableDetails(c) PROVE IndInv'
  <2> USE <1>4 DEF StoreSCIDVariableDetails
  <2>1. TypeOK'
    BY DEF TypeOK, Steps, NoStage
  <2>2. MethodInv'
    BY DEF MethodInv, TypeOK, Steps
  <2>3. SnapshotInv'
    BY <1>g DEF SnapshotInv, TypeOK, Steps, Grows
  <2>4. RecordInv'
    BY <1>g DEF RecordInv, TypeOK, Steps, Grows
  <2>5. ListInv'
    BY <1>g, GrowsBacked DEF ListInv, TypeOK, Backed, NoRepetition, CrashConsistent, NoRepeatedHeight
  <2>6. CrashConsistent'
    BY <1>g, GrowsBacked DEF CrashConsistent, Backed, TypeOK, Heights, SnapshotInv, Grows
  <2>7. NoRepeatedHeight'
    BY DEF NoRepeatedHeight, NoRepetition, TypeOK, ListInv
  <2>8. DoneRecorded'
    BY <1>g DEF DoneRecorded, TypeOK, SnapshotInv, RecordInv, Grows
  <2>9. QED
    BY <2>1, <2>2, <2>3, <2>4, <2>5, <2>6, <2>7, <2>8
<1>5. ASSUME NEW c \in Callers, StoreOwner(c) PROVE IndInv'
  <2> USE <1>5 DEF StoreOwner
  <2>1. TypeOK'
    BY DEF TypeOK, Steps, NoStage
  <2>2. MethodInv'
    BY DEF MethodInv, TypeOK, Steps
  <2>3. SnapshotInv'
    BY <1>g DEF SnapshotInv, TypeOK, Steps, Grows
  <2>4. RecordInv'
    BY <1>g DEF RecordInv, MethodInv, TypeOK, Steps, Grows
  <2>5. ListInv'
    BY <1>g, GrowsBacked DEF ListInv, TypeOK, Backed, NoRepetition, CrashConsistent, NoRepeatedHeight
  <2>6. CrashConsistent'
    BY <1>g, GrowsBacked DEF CrashConsistent, Backed, TypeOK, Heights, SnapshotInv, Grows
  <2>7. NoRepeatedHeight'
    BY DEF NoRepeatedHeight, NoRepetition, TypeOK, ListInv
  <2>8. DoneRecorded'
    BY <1>g DEF DoneRecorded, TypeOK, SnapshotInv, RecordInv, Grows
  <2>9. QED
    BY <2>1, <2>2, <2>3, <2>4, <2>5, <2>6, <2>7, <2>8
<1>6. ASSUME NEW c \in Callers, StoreInvokeDetails(c) PROVE IndInv'
  <2> USE <1>6 DEF StoreInvokeDetails
  <2>1. TypeOK'
    BY DEF TypeOK, Steps, NoStage
  <2>2. MethodInv'
    BY DEF MethodInv, TypeOK, Steps
  <2>3. SnapshotInv'
    BY <1>g DEF SnapshotInv, TypeOK, Steps, Grows
  <2>4. RecordInv'
    <3>1. staged[c] \in invokes'
      BY DEF TypeOK
    <3>2. ASSUME NEW d \in Callers
          PROVE  /\ pc'[d] = "return" /\ staged[d].method = "install" =>
                        staged[d].scid \in owner'
                 /\ /\ pc'[d] \in {"view", "put", "return"}
                    /\ staged[d].method = "invoke"
                    => \E r \in invokes' : InvokeKey(r) = InvokeKey(staged[d])
      <4>1. CASE d = c
        BY <3>1, <4>1 DEF TypeOK, MethodInv
      <4>2. CASE d # c
        BY <1>g, <4>2 DEF RecordInv, TypeOK, Grows
      <4>3. QED
        BY <4>1, <4>2
    <3>3. QED
      BY <3>2 DEF RecordInv, InvokeKey
  <2>5. ListInv'
    BY <1>g, GrowsBacked DEF ListInv, TypeOK, Backed, NoRepetition, CrashConsistent, NoRepeatedHeight
  <2>6. CrashConsistent'
    BY <1>g, GrowsBacked DEF CrashConsistent, Backed, TypeOK, Heights, SnapshotInv, Grows
  <2>7. NoRepeatedHeight'
    BY DEF NoRepeatedHeight, NoRepetition, TypeOK, ListInv
  <2>8. DoneRecorded'
    BY <1>g DEF DoneRecorded, TypeOK, SnapshotInv, RecordInv, Grows
  <2>9. QED
    BY <2>1, <2>2, <2>3, <2>4, <2>5, <2>6, <2>7, <2>8
<1>7. ASSUME NEW c \in Callers, ViewHeights(c) PROVE IndInv'
  <2> USE <1>7 DEF ViewHeights
  <2>1. TypeOK'
    BY DEF TypeOK, Steps, NoStage
  <2>2. MethodInv'
    BY DEF MethodInv, TypeOK, Steps
  <2>3. SnapshotInv'
    BY <1>g DEF SnapshotInv, TypeOK, Steps, Grows
  <2>4. RecordInv'
    BY <1>g DEF RecordInv, TypeOK, Steps, Grows
  <2>5. ListInv'
    <3>1. \A x \in SCIDs : heights[x] \in Seq(Int)
      BY DEF TypeOK
    <3>2. staged[c].scid \in SCIDs
      BY DEF TypeOK
    <3>3. Backed(staged[c].scid, heights[staged[c].scid])
          /\ NoRepetition(heights[staged[c].scid])
      BY <3>2 DEF CrashConsistent, NoRepeatedHeight
    <3>4. QED
      BY <3>3 DEF ListInv, TypeOK, NoRepetition, Backed, Recorded
  <2>6. CrashConsistent'
    BY <1>g, GrowsBacked DEF CrashConsistent, Backed, TypeOK, Heights, SnapshotInv, Grows
  <2>7. NoRepeatedHeight'
    BY DEF NoRepeatedHeight, NoRepetition, TypeOK, ListInv
  <2>8. DoneRecorded'
    BY <1>g DEF DoneRecorded, TypeOK, SnapshotInv, RecordInv, Grows
  <2>9. QED
    BY <2>1, <2>2, <2>3, <2>4, <2>5, <2>6, <2>7, <2>8
<1>8. ASSUME NEW c \in Callers, PutHeights(c) PROVE IndInv'
  <2> USE <1>8 DEF PutHeights
  <2> DEFINE x == staged[c].scid
             h == staged[c].height
             new == Append(curr[c], h)
  <2>a. x \in SCIDs /\ h \in Int /\ curr[c] \in Seq(Int)
    BY DEF TypeOK
  <2>b. <<x, h>> \in vars /\ Recorded(x, h)
    BY DEF SnapshotInv, RecordInv, MethodInv, Recorded, InvokeKey
  <2>c. Backed(x, curr[c]) /\ NoRepetition(curr[c])
    BY DEF ListInv
  <2>1. TypeOK'
    BY DEF TypeOK, Steps, NoStage
  <2>2. MethodInv'
    BY DEF MethodInv, TypeOK, Steps
  <2>3. SnapshotInv'
    BY <1>g DEF SnapshotInv, TypeOK, Steps, Grows
  <2>4. RecordInv'
    BY <1>g DEF RecordInv, MethodInv, TypeOK, Steps, Grows
  <2>5. ListInv'
    BY <1>g, GrowsBacked DEF ListInv, TypeOK, Backed, NoRepetition, CrashConsistent, NoRepeatedHeight
  <2>6. CrashConsistent'
    <3>1. Backed(x, new)
      BY <2>a, <2>b, <2>c, AppendBacked
    <3>2. ASSUME NEW y \in SCIDs PROVE Backed(y, heights'[y])
      BY <3>1 DEF CrashConsistent, TypeOK
    <3>3. QED
      BY <3>2 DEF CrashConsistent, Backed, Recorded
  <2>7. NoRepeatedHeight'
    <3>1. ASSUME ~Contains(curr[c], h) PROVE NoRepetition(new)
      BY <2>a, <2>c, <3>1, AppendNoRepetition
    <3>2. ASSUME NEW y \in SCIDs PROVE NoRepetition(heights'[y])
      BY <3>1 DEF NoRepeatedHeight, TypeOK
    <3>3. QED
      BY <3>2 DEF NoRepeatedHeight, NoRepetition
  <2>8. DoneRecorded'
    BY <1>g DEF DoneRecorded, TypeOK, SnapshotInv, RecordInv, Grows
  <2>9. QED
    BY <2>1, <2>2, <2>3, <2>4, <2>5, <2>6, <2>7, <2>8
<1>9. ASSUME NEW c \in Callers, Return(c) PROVE IndInv'
  <2> USE <1>9 DEF Return
  <2>1. TypeOK'
    BY DEF TypeOK, Steps, NoStage
  <2>2. MethodInv'
    BY DEF MethodInv, TypeOK, Steps
  <2>3. SnapshotInv'
    BY <1>g DEF SnapshotInv, TypeOK, Steps, Grows
  <2>4. RecordInv'
    BY <1>g DEF RecordInv, TypeOK, Steps, Grows
  <2>5. ListInv'
    BY <1>g, GrowsBacked DEF ListInv, TypeOK, Backed, NoRepetition, CrashConsistent, NoRepeatedHeight
  <2>6. CrashConsistent'
    BY <1>g, GrowsBacked DEF CrashConsistent, Backed, TypeOK, Heights, SnapshotInv, Grows
  <2>7. NoRepeatedHeight'
    BY DEF NoRepeatedHeight, NoRepetition, TypeOK, ListInv
  <2>8. DoneRecorded'
    BY <1>g DEF DoneRecorded, TypeOK, SnapshotInv, RecordInv, Grows
  <2>9. QED
    BY <2>1, <2>2, <2>3, <2>4, <2>5, <2>6, <2>7, <2>8
<1>10. CASE Crash
  <2> USE <1>10 DEF Crash
  <2>1. TypeOK'
    <3>1. curr' \in [Callers -> Seq(Int)]
      <4>1. <<>> \in Seq(Int)
        OBVIOUS
      <4>2. QED
        BY <4>1
    <3>2. QED
      BY <3>1 DEF TypeOK, Steps
  <2>2. MethodInv'
    BY DEF MethodInv, TypeOK, Steps
  <2>3. SnapshotInv'
    BY <1>g DEF SnapshotInv, TypeOK, Steps, Grows
  <2>4. RecordInv'
    BY <1>g DEF RecordInv, TypeOK, Steps, Grows
  <2>5. ListInv'
    BY <1>g, GrowsBacked DEF ListInv, TypeOK, Backed, NoRepetition, CrashConsistent, NoRepeatedHeight
  <2>6. CrashConsistent'
    BY <1>g, GrowsBacked DEF CrashConsistent, Backed, TypeOK, Heights, SnapshotInv, Grows
  <2>7. NoRepeatedHeight'
    BY DEF NoRepeatedHeight, NoRepetition, TypeOK, ListInv
  <2>8. DoneRecorded'
    BY <1>g DEF DoneRecorded, TypeOK, SnapshotInv, RecordInv, Grows
  <2>9. QED
    BY <2>1, <2>2, <2>3, <2>4, <2>5, <2>6, <2>7, <2>8
<1>11. CASE UNCHANGED storeVars
  <2> USE <1>11 DEF storeVars
  <2>1. TypeOK' /\ MethodInv' /\ SnapshotInv'
    BY DEF TypeOK, MethodInv, SnapshotInv
  <2>2. RecordInv' /\ ListInv'
    BY DEF RecordInv, ListInv, Backed, NoRepetition, Recorded
  <2>3. CrashConsistent'
    BY DEF CrashConsistent, Backed, Recorded
  <2>4. NoRepeatedHeight'
    BY DEF NoRepeatedHeight, NoRepetition
  <2>5. DoneRecorded'
    BY DEF DoneRecorded
  <2>6. QED
    BY <2>1, <2>2, <2>3, <2>4, <2>5
<1>12. QED
  BY <1>1, <1>2, <1>3, <1>4, <1>5, <1>6, <1>7, <1>8, <1>9, <1>10, <1>11 DEF Next, Offer, Add

\* The invariant holds in every reachable state.
THEOREM Invariance == Spec => []IndInv
<1>1. Init => IndInv
  BY InitIndInv
<1>2. IndInv /\ [Next]_storeVars => IndInv'
  BY NextIndInv
<1>3. QED
  BY <1>1, <1>2, PTL DEF Spec

\* The variables keep their types.
THEOREM TypeCorrect == Spec => []TypeOK
<1>1. IndInv => TypeOK
  BY DEF IndInv
<1>2. QED
  BY <1>1, Invariance, PTL

\* Any number of concurrent callers, and a crash between any two of their
\* transactions, leave a database whose lists point at existing records.
THEOREM CrashConsistentHolds == Spec => []CrashConsistent
<1>1. IndInv => CrashConsistent
  BY DEF IndInv
<1>2. QED
  BY <1>1, Invariance, PTL

\* No list of interaction heights repeats a height.
THEOREM NoRepeatedHeightHolds == Spec => []NoRepeatedHeight
<1>1. IndInv => NoRepeatedHeight
  BY DEF IndInv
<1>2. QED
  BY <1>1, Invariance, PTL

\* What a call reported as stored stays recorded, concurrent callers and
\* crashes included.
THEOREM DoneRecordedHolds == Spec => []DoneRecorded
<1>1. IndInv => DoneRecorded
  BY DEF IndInv
<1>2. QED
  BY <1>1, Invariance, PTL

-----------------------------------------------------------------------------
\* Between raising the flag and clearing it.
Inside(c) == pc[c] \in {"vars", "owner", "invoke", "view", "put", "return"}

\* As long as no two callers passed the test together, one at most is past it, and
\* the flag is raised while it is inside: so what it viewed is current.
FlagInv ==
    /\ \A c, d \in Callers :
          (pc[c] = "set" \/ Inside(c)) /\ (pc[d] = "set" \/ Inside(d)) => c = d
    /\ \A c \in Callers : Inside(c) => Writing

ViewInv ==
    \A c \in Callers :
        /\ pc[c] = "put" => curr[c] = heights[staged[c].scid]
        /\ pc[c] = "return" /\ staged[c].method = "invoke" =>
               Contains(heights[staged[c].scid], staged[c].height)

KeptInv == raced \/ (FlagInv /\ ViewInv /\ Listed)

\* PutHeights only extends the list when the viewed copy is current.
LEMMA PutExtends ==
    ASSUME IndInv, NEW c \in Callers, PutHeights(c),
           curr[c] = heights[staged[c].scid]
    PROVE  /\ Contains(heights'[staged[c].scid], staged[c].height)
           /\ \A x \in SCIDs, h \in Int : Contains(heights[x], h) => Contains(heights'[x], h)
<1> DEFINE s == staged[c]
           new == Append(curr[c], s.height)
<1>1. /\ s.scid \in SCIDs /\ s.height \in Int /\ curr[c] \in Seq(Int)
      /\ heights \in [SCIDs -> Seq(Int)]
  BY StageAssumption DEF IndInv, TypeOK, PutHeights
<1>2. CASE Contains(curr[c], s.height)
  BY <1>1, <1>2 DEF PutHeights
<1>3. CASE ~Contains(curr[c], s.height)
  <2>1. heights' = [heights EXCEPT ![s.scid] = new]
    BY <1>3 DEF PutHeights
  <2>2. Contains(new, s.height)
    BY <1>1, AppendContains
  <2>3. \A h : Contains(curr[c], h) => Contains(new, h)
    BY <1>1, AppendContains
  <2>4. QED
    BY <1>1, <2>1, <2>2, <2>3
<1>4. QED
  BY <1>2, <1>3

\* Every step keeps it.
LEMMA KeptStep == IndInv /\ KeptInv /\ [Next]_storeVars => KeptInv'
<1> SUFFICES ASSUME IndInv, KeptInv, [Next]_storeVars, ~ raced' PROVE KeptInv'
  BY DEF KeptInv
<1>0. ~ raced /\ FlagInv /\ ViewInv /\ Listed
  <2>1. raced => raced'
    BY DEF Next, Offer, Add, Call, Test, Set, StoreSCIDVariableDetails, StoreOwner,
       StoreInvokeDetails, ViewHeights, PutHeights, Return, Crash, storeVars
  <2>2. QED
    BY <2>1 DEF KeptInv
<1> USE <1>0, StageAssumption DEF IndInv, durable, caller, Goto
<1> SUFFICES FlagInv' /\ ViewInv' /\ Listed'
  BY DEF KeptInv
<1>1. ASSUME NEW c \in Callers, NEW s \in Stages, Call(c, s) PROVE FlagInv' /\ ViewInv' /\ Listed'
  BY <1>1 DEF Call, TypeOK, FlagInv, Inside, ViewInv, Listed
<1>2. ASSUME NEW c \in Callers, Test(c) PROVE FlagInv' /\ ViewInv' /\ Listed'
  <2>1. \A d \in Callers : pc[d] # "set" /\ ~ Inside(d)
    BY <1>2 DEF Test, FlagInv
  <2>2. QED
    BY <1>2, <2>1 DEF Test, TypeOK, FlagInv, Inside, ViewInv, Listed
<1>3. ASSUME NEW c \in Callers, Set(c) PROVE FlagInv' /\ ViewInv' /\ Listed'
  BY <1>3 DEF Set, TypeOK, FlagInv, Inside, ViewInv, Listed
<1>4. ASSUME NEW c \in Callers, StoreSCIDVariableDetails(c) PROVE FlagInv' /\ ViewInv' /\ Listed'
  BY <1>4 DEF StoreSCIDVariableDetails, TypeOK, FlagInv, Inside, ViewInv, Listed
<1>5. ASSUME NEW c \in Callers, StoreOwner(c) PROVE FlagInv' /\ ViewInv' /\ Listed'
  BY <1>5 DEF StoreOwner, TypeOK, FlagInv, Inside, ViewInv, Listed, MethodInv
<1>6. ASSUME NEW c \in Callers, StoreInvokeDetails(c) PROVE FlagInv' /\ ViewInv' /\ Listed'
  BY <1>6 DEF StoreInvokeDetails, TypeOK, FlagInv, Inside, ViewInv, Listed
<1>7. ASSUME NEW c \in Callers, ViewHeights(c) PROVE FlagInv' /\ ViewInv' /\ Listed'
  BY <1>7 DEF ViewHeights, TypeOK, FlagInv, Inside, ViewInv, Listed
<1>8. ASSUME NEW c \in Callers, PutHeights(c) PROVE FlagInv' /\ ViewInv' /\ Listed'
  <2>1. pc[c] = "put" /\ curr[c] = heights[staged[c].scid] /\ staged[c] \in Stages
    BY <1>8 DEF PutHeights, ViewInv, TypeOK
  <2>2. /\ Contains(heights'[staged[c].scid], staged[c].height)
        /\ \A x \in SCIDs, h \in Int : Contains(heights[x], h) => Contains(heights'[x], h)
    BY <1>8, <2>1, PutExtends
  <2>3. pc' = [pc EXCEPT ![c] = "return"] /\ pc'[c] = "return" /\ staged' = staged
        /\ Writing' = Writing /\ done' = done
    BY <1>8 DEF PutHeights, TypeOK
  <2>4. \A d \in Callers \ {c} : ~ Inside(d) /\ pc'[d] = pc[d]
    BY <2>1, <2>3 DEF FlagInv, Inside, TypeOK
  <2>5. FlagInv'
    BY <2>1, <2>3 DEF FlagInv, Inside, TypeOK
  <2>6. ViewInv'
    BY <2>2, <2>3, <2>4 DEF ViewInv, Inside
  <2>7. ASSUME NEW s \in done, s.method = "invoke"
        PROVE  Contains(heights'[s.scid], s.height)
    <3>1. s.scid \in SCIDs /\ s.height \in Int /\ Contains(heights[s.scid], s.height)
      BY <2>7 DEF Listed, TypeOK
    <3>2. QED
      BY <2>2, <3>1
  <2>8. Listed'
    BY <2>3, <2>7 DEF Listed, Contains
  <2>9. QED
    BY <2>5, <2>6, <2>8
<1>9. ASSUME NEW c \in Callers, Return(c) PROVE FlagInv' /\ ViewInv' /\ Listed'
  BY <1>9 DEF Return, TypeOK, FlagInv, Inside, ViewInv, Listed
<1>10. CASE Crash
  BY <1>10 DEF Crash, TypeOK, FlagInv, Inside, ViewInv, Listed
<1>11. CASE UNCHANGED storeVars
  BY <1>11 DEF storeVars, FlagInv, Inside, ViewInv, Listed
<1>12. QED
  BY <1>1, <1>2, <1>3, <1>4, <1>5, <1>6, <1>7, <1>8, <1>9, <1>10, <1>11 DEF Next, Offer, Add

\* However many goroutines call AddSCIDToIndex, and wherever the process dies, the
\* only way to lose an interaction height is for two callers to pass the test of
\* Writing before either of them sets it.
THEOREM HeightKeptHolds == Spec => []HeightKept
<1>1. Init => KeptInv
  BY DEF Init, KeptInv, FlagInv, Inside, ViewInv, Listed
<1>2. KeptInv => HeightKept
  BY DEF KeptInv, HeightKept
<1>3. QED
  BY <1>1, <1>2, KeptStep, Invariance, PTL DEF Spec

\* The single writer of the main database cannot, so its lists keep every
\* invocation it has stored.
THEOREM WriterKeepsHeights ==
    ASSUME NEW writer, Callers = {writer}
    PROVE  Spec => []Listed
<1>1. Init => ~ raced
  BY DEF Init
<1>2. TypeOK /\ ~ raced /\ [Next]_storeVars => ~ raced'
  <2> SUFFICES ASSUME ~ raced, [Next]_storeVars PROVE ~ raced'
    OBVIOUS
  <2>1. ASSUME NEW c \in Callers, Test(c) PROVE ~ raced'
    BY <2>1, Callers = {writer} DEF Test
  <2>2. QED
    BY <2>1 DEF Next, Offer, Add, Call, Set, StoreSCIDVariableDetails, StoreOwner,
       StoreInvokeDetails, ViewHeights, PutHeights, Return, Crash, storeVars
<1>3. HeightKept /\ ~ raced => Listed
  BY DEF HeightKept
<1>4. QED
  BY <1>1, <1>2, <1>3, HeightKeptHolds, TypeCorrect, PTL DEF Spec
=============================================================================
