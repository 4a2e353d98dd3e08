---------------------------- MODULE Minis_proofs ----------------------------
(***************************************************************************)
(* Proofs about Minis: the totals of the miners are exact, for every chain *)
(* of blocks, every order in which the goroutines hand them on, and any    *)
(* number of restarts at any point.                                        *)
(***************************************************************************)
EXTENDS Minis, FiniteSetTheorems, SequenceTheorems, TLAPS

\* The miniblocks of miner m in a list of miners, and in the blocks of a set.
Places(list, m) == {i \in 1 .. Len(list) : list[i] = m}
Mined(bs, m) == UNION {{<<b, i>> : i \in Places(MinersOf[b], m)} : b \in bs}

\* The blocks on mini_db_queue.
Queued == {mini_db_queue[i] : i \in 1 .. Len(mini_db_queue)}

VarTypes ==
    /\ offered \subseteq Blocks /\ mini_queue \subseteq offered
    /\ mini_db_queue \in Seq(Blocks)
    /\ all_details \subseteq miniblocks /\ miniblocks \subseteq Blocks
    /\ miner_map \in [Miners -> Nat] /\ blockcount \in [Miners -> Nat]
    /\ todo \in Seq(Miners)
    /\ stops \in 0 .. MaxStops

\* A block of this process is in one place: on mini_queue, on mini_db_queue
\* once, or stored.  So the writer meets no block that it stored itself.
OnePlace ==
    /\ Queued \subseteq offered \ mini_queue
    /\ \A i, j \in 1 .. Len(mini_db_queue) : mini_db_queue[i] = mini_db_queue[j] => i = j
    /\ miniblocks \ all_details \subseteq offered \ (mini_queue \cup Queued)

\* What is counted is finite, and a stored total is one the writer had.
CountsBounded ==
    \A m \in Miners : IsFiniteSet(Mined(miniblocks, m)) /\ blockcount[m] <= miner_map[m]

IndInv == VarTypes /\ OnePlace /\ CountsBounded /\ TotalsMatchDetails

-----------------------------------------------------------------------------
(* Counting                                                                *)

\* The places of a miner in the list of a block are finitely many.
LEMMA PlacesFinite ==
    ASSUME NEW list \in Seq(Miners), NEW m
    PROVE  IsFiniteSet(Places(list, m)) /\ Cardinality(Places(list, m)) \in Nat
<1>1. IsFiniteSet(1 .. Len(list))
  BY FS_Interval
<1>2. IsFiniteSet(Places(list, m))
  BY <1>1, FS_Subset DEF Places
<1>3. QED
  BY <1>2, FS_CardinalityType

\* The first miner of a list has one place more than in the rest of the list,
\* every other miner has as many.
LEMMA PlacesTail ==
    ASSUME NEW list \in Seq(Miners), list # <<>>, NEW m
    PROVE  Cardinality(Places(list, m)) = Cardinality(Places(Tail(list), m))
                                          + (IF Head(list) = m THEN 1 ELSE 0)
<1> DEFINE rest == Places(Tail(list), m)
           shifted == {i \in Places(list, m) : i # 1}
<1>1. /\ Tail(list) \in Seq(Miners) /\ Len(Tail(list)) = Len(list) - 1
      /\ Len(list) \in Nat \ {0} /\ Head(list) = list[1]
      /\ \A i \in 1 .. Len(list) - 1 : Tail(list)[i] = list[i + 1]
  BY HeadTailProperties, EmptySeq
<1>2. IsFiniteSet(rest) /\ IsFiniteSet(Places(list, m))
  BY <1>1, PlacesFinite
<1>3. IsFiniteSet(shifted)
  BY <1>2, FS_Subset
<1>4. Cardinality(shifted) = Cardinality(rest)
  <2> DEFINE f == [i \in rest |-> i + 1]
  <2>1. \A i \in rest : i + 1 \in shifted
    BY <1>1 DEF Places
  <2>2. \A j \in shifted : j - 1 \in rest /\ (j - 1) + 1 = j
    BY <1>1 DEF Places
  <2>3. \A i, j \in rest : i + 1 = j + 1 => i = j
    BY DEF Places
  <2>4. f \in [rest -> shifted]
    BY <2>1
  <2>5. f \in Bijection(rest, shifted)
    BY <2>2, <2>3, <2>4 DEF Bijection, Injection, Surjection, IsInjective
  <2>6. QED
    BY <1>2, <2>5, FS_Bijection DEF ExistsBijection
<1>5. CASE Head(list) = m
  <2>1. Places(list, m) = shifted \cup {1} /\ 1 \notin shifted
    BY <1>1, <1>5 DEF Places
  <2>2. Cardinality(shifted \cup {1}) = Cardinality(shifted) + 1
    BY <1>3, <2>1, FS_AddElement
  <2>3. QED
    BY <1>4, <1>5, <2>1, <2>2
<1>6. CASE Head(list) # m
  <2>1. Places(list, m) = shifted
    BY <1>1, <1>6 DEF Places
  <2>2. Cardinality(rest) \in Nat
    BY <1>2, FS_CardinalityType
  <2> HIDE DEF rest, shifted
  <2>3. Cardinality(Places(list, m)) = Cardinality(rest) + 0
    BY <1>4, <2>1, <2>2
  <2>4. QED
    BY <1>6, <2>3 DEF rest
<1>7. QED
  BY <1>5, <1>6

\* A block that is added to a set of others adds its own miniblocks.
LEMMA MinedAdd ==
    ASSUME NEW bs \in SUBSET Blocks, NEW b \in Blocks \ bs, NEW m, IsFiniteSet(Mined(bs, m))
    PROVE  /\ IsFiniteSet(Mined(bs \cup {b}, m))
           /\ Cardinality(Mined(bs \cup {b}, m)) =
                Cardinality(Mined(bs, m)) + Cardinality(Places(MinersOf[b], m))
<1> DEFINE places == Places(MinersOf[b], m)
           own == {<<b, i>> : i \in places}
<1>1. IsFiniteSet(places)
  BY PlacesFinite, MinisAssumption
<1>2. IsFiniteSet(own) /\ Cardinality(own) = Cardinality(places)
  <2> DEFINE f == [i \in places |-> <<b, i>>]
  <2>1. f \in [places -> own]
    OBVIOUS
  <2>2. f \in Bijection(places, own)
    BY <2>1 DEF Bijection, Injection, Surjection, IsInjective
  <2>3. QED
    BY <1>1, <2>2, FS_Bijection DEF ExistsBijection
<1>3. Mined(bs \cup {b}, m) = Mined(bs, m) \cup own
  BY DEF Mined
<1>4. Mined(bs, m) \cap own = {}
  BY DEF Mined
<1>5. /\ IsFiniteSet(Mined(bs, m) \cup own)
      /\ Cardinality(Mined(bs, m) \cup own) =
           Cardinality(Mined(bs, m)) + Cardinality(own) - Cardinality(Mined(bs, m) \cap own)
  BY <1>2, FS_Union
<1>6. Cardinality(Mined(bs, m) \cap own) = 0
  BY <1>4, FS_EmptySet
<1>7. Cardinality(Mined(bs, m)) \in Nat /\ Cardinality(places) \in Nat
  BY <1>1, FS_CardinalityType
<1> HIDE DEF own, places
<1>8. Cardinality(Mined(bs, m) \cup own) = Cardinality(Mined(bs, m)) + Cardinality(places)
  BY <1>2, <1>5, <1>6, <1>7
<1>9. Cardinality(Mined(bs \cup {b}, m)) = Cardinality(Mined(bs, m)) + Cardinality(places)
  BY <1>3, <1>8
<1>10. QED
  BY <1>3, <1>5, <1>9 DEF places

\* The counts of the properties are these.
LEMMA CountsAre ==
    /\ \A m : Uncounted(m) = Cardinality(Places(todo, m))
    /\ \A bs, m : Total(bs, m) = Cardinality(Mined(bs, m))
  BY DEF Uncounted, Total, Places, Mined

-----------------------------------------------------------------------------
(* The invariant                                                           *)

\* The first process starts with the invariant.
LEMMA InitInv == Init => IndInv
<1> SUFFICES ASSUME Init PROVE IndInv
  OBVIOUS
<1>1. VarTypes /\ OnePlace
  BY MinisAssumption DEF Init, VarTypes, OnePlace, Queued
<1>2. \A m \in Miners : Mined(miniblocks, m) = {} /\ Places(todo, m) = {}
  BY DEF Init, Mined, Places
<1>3. CountsBounded
  BY <1>2, FS_EmptySet DEF Init, CountsBounded
<1>4. TotalsMatchDetails
  <2>1. \A m \in Miners : Uncounted(m) = 0 /\ Total(miniblocks, m) = 0
    BY <1>2, CountsAre, FS_EmptySet
  <2>2. QED
    BY <2>1 DEF Init, TotalsMatchDetails
<1>5. QED
  BY <1>1, <1>3, <1>4 DEF IndInv

\* Every step of block_handling and the writers, and every stop, keeps it.
LEMMA NextInv == IndInv /\ [Next]_vars => IndInv'
<1> SUFFICES ASSUME IndInv, [Next]_vars PROVE IndInv'
  OBVIOUS
<1>1. \A m \in Miners : /\ IsFiniteSet(Mined(miniblocks, m))
                        /\ Cardinality(Mined(miniblocks, m)) \in Nat
                        /\ Cardinality(Places(todo, m)) \in Nat
                        /\ blockcount[m] <= miner_map[m]
                        /\ miner_map[m] + Cardinality(Places(todo, m))
                             = Cardinality(Mined(miniblocks, m))
  BY PlacesFinite, FS_CardinalityType, CountsAre
     DEF IndInv, CountsBounded, TotalsMatchDetails, VarTypes
<1>2. ASSUME NEW b \in Blocks, Offer(b) PROVE IndInv'
  <2>1. VarTypes'
    BY <1>2 DEF Offer, IndInv, VarTypes
  <2>2. OnePlace'
    BY <1>2 DEF Offer, IndInv, OnePlace, VarTypes, Queued
  <2>3. CountsBounded' /\ TotalsMatchDetails'
    BY <1>2 DEF Offer, IndInv, CountsBounded, TotalsMatchDetails, Mined, Uncounted, Total
  <2>4. QED
    BY <2>1, <2>2, <2>3 DEF IndInv
<1>3. ASSUME NEW b \in Blocks, WorkOnMinis(b) PROVE IndInv'
  <2>1. /\ b \in mini_queue /\ mini_queue' = mini_queue \ {b} /\ b \notin Queued
        /\ UNCHANGED <<offered, all_details, miner_map, todo, miniblocks, blockcount, stops>>
    BY <1>3 DEF WorkOnMinis, IndInv, OnePlace
  <2>2. /\ mini_db_queue' \in Seq(Blocks) /\ Len(mini_db_queue) \in Nat
        /\ Len(mini_db_queue') = Len(mini_db_queue) + 1
        /\ \A i \in 1 .. Len(mini_db_queue) : mini_db_queue'[i] = mini_db_queue[i]
        /\ mini_db_queue'[Len(mini_db_queue) + 1] = b
    BY <1>3, AppendProperties DEF WorkOnMinis, IndInv, VarTypes
  <2>3. VarTypes'
    BY <2>1, <2>2 DEF IndInv, VarTypes
  <2>4. Queued' = Queued \cup {b}
    <3>1. Queued' \subseteq Queued \cup {b}
      BY <2>2 DEF Queued
    <3>2. Queued \subseteq Queued'
      BY <2>2 DEF Queued
    <3>3. b \in Queued'
      BY <2>2 DEF Queued
    <3>4. QED
      BY <3>1, <3>2, <3>3
  <2>5. OnePlace'
    <3>1. \A i \in 1 .. Len(mini_db_queue) : mini_db_queue[i] # b
      BY <2>1 DEF Queued
    <3>2. \A i, j \in 1 .. Len(mini_db_queue') : mini_db_queue'[i] = mini_db_queue'[j] => i = j
      BY <2>2, <3>1 DEF IndInv, OnePlace
    <3>3. QED
      BY <2>1, <2>4, <3>2 DEF IndInv, OnePlace, VarTypes
  <2>6. CountsBounded' /\ TotalsMatchDetails'
    BY <2>1 DEF IndInv, CountsBounded, TotalsMatchDetails, Mined, Uncounted, Total
  <2>7. QED
    BY <2>3, <2>5, <2>6 DEF IndInv
<1>4. CASE StoreDetails
  <2>1. PICK b : b = Head(mini_db_queue)
    OBVIOUS
  <2>2. /\ todo = <<>> /\ mini_db_queue # <<>> /\ mini_db_queue' = Tail(mini_db_queue)
        /\ UNCHANGED <<offered, mini_queue, all_details, miner_map, blockcount, stops>>
    BY <1>4 DEF StoreDetails
  <2>3. /\ mini_db_queue' \in Seq(Blocks) /\ Len(mini_db_queue) \in Nat \ {0}
        /\ Len(mini_db_queue') = Len(mini_db_queue) - 1
        /\ \A i \in 1 .. Len(mini_db_queue) - 1 : mini_db_queue'[i] = mini_db_queue[i + 1]
        /\ b = mini_db_queue[1] /\ b \in Blocks
    BY <2>1, <2>2, HeadTailProperties, EmptySeq DEF IndInv, VarTypes
  <2>4. b \in Queued /\ Queued' \subseteq Queued \ {b}
    <3>1. b \in Queued
      BY <2>3 DEF Queued
    <3>2. \A i \in 1 .. Len(mini_db_queue) - 1 :
            mini_db_queue[i + 1] # b /\ mini_db_queue[i + 1] \in Queued
      BY <2>3 DEF IndInv, OnePlace, Queued
    <3>3. QED
      BY <2>3, <3>1, <3>2 DEF Queued
  <2>5. \A i, j \in 1 .. Len(mini_db_queue') : mini_db_queue'[i] = mini_db_queue'[j] => i = j
    <3>1. ASSUME NEW i \in 1 .. Len(mini_db_queue'), NEW j \in 1 .. Len(mini_db_queue'),
                 mini_db_queue'[i] = mini_db_queue'[j]
          PROVE  i = j
      <4>1. mini_db_queue[i + 1] = mini_db_queue[j + 1]
        BY <2>3, <3>1
      <4>2. i + 1 = j + 1
        BY <2>3, <4>1 DEF IndInv, OnePlace
      <4>3. QED
        BY <4>2
    <3>2. QED
      BY <3>1
  <2>6. CASE b \in all_details
    <3>1. UNCHANGED <<miniblocks, todo>>
      BY <1>4, <2>1, <2>6 DEF StoreDetails
    <3>2. VarTypes' /\ OnePlace'
      BY <2>2, <2>3, <2>4, <2>5, <3>1 DEF IndInv, VarTypes, OnePlace
    <3>3. CountsBounded' /\ TotalsMatchDetails'
      BY <2>2, <3>1 DEF IndInv, CountsBounded, TotalsMatchDetails, Mined, Uncounted, Total
    <3>4. QED
      BY <3>2, <3>3 DEF IndInv
  <2>7. CASE b \notin all_details
    <3>1. miniblocks' = miniblocks \cup {b} /\ todo' = MinersOf[b]
      BY <1>4, <2>1, <2>7 DEF StoreDetails
    <3>2. b \notin miniblocks
      BY <2>4, <2>7 DEF IndInv, OnePlace
    <3>3. VarTypes'
      BY <2>2, <2>3, <3>1, MinisAssumption DEF IndInv, VarTypes
    <3>4. OnePlace'
      BY <2>2, <2>4, <2>5, <3>1 DEF IndInv, OnePlace
    <3>5. \A m \in Miners : /\ IsFiniteSet(Mined(miniblocks', m))
                            /\ Cardinality(Mined(miniblocks', m)) =
                                 Cardinality(Mined(miniblocks, m)) + Cardinality(Places(todo', m))
      <4>1. miniblocks \in SUBSET Blocks /\ b \in Blocks \ miniblocks
        BY <2>3, <3>2 DEF IndInv, VarTypes
      <4>2. QED
        BY <1>1, <3>1, <4>1, MinedAdd
    <3>6. \A m \in Miners : Cardinality(Places(todo, m)) = 0
      BY <2>2, FS_EmptySet DEF Places
    <3>7. CountsBounded'
      BY <1>1, <2>2, <3>5 DEF CountsBounded, Mined
    <3>8. TotalsMatchDetails'
      <4>1. \A m \in Miners : miner_map'[m] \in Nat /\ Cardinality(Places(todo', m)) \in Nat
        BY <3>3, PlacesFinite DEF VarTypes
      <4>2. \A m \in Miners : miner_map'[m] + Cardinality(Places(todo', m)) =
                                Cardinality(Mined(miniblocks', m))
        BY <1>1, <2>2, <3>5, <3>6, <4>1
      <4>3. QED
        BY <4>2 DEF TotalsMatchDetails, Uncounted, Total, Places, Mined
    <3>9. QED
      BY <3>3, <3>4, <3>7, <3>8 DEF IndInv
  <2>8. QED
    BY <2>6, <2>7
<1>5. CASE StoreCount
  <2>1. PICK n : n = Head(todo)
    OBVIOUS
  <2>2. /\ todo # <<>> /\ todo' = Tail(todo)
        /\ miner_map' = [miner_map EXCEPT ![n] = @ + 1]
        /\ blockcount' = [blockcount EXCEPT ![n] = miner_map[n] + 1]
        /\ UNCHANGED <<offered, mini_queue, mini_db_queue, all_details, miniblocks, stops>>
    BY <1>5, <2>1 DEF StoreCount
  <2>3. todo' \in Seq(Miners) /\ n \in Miners
    BY <2>1, <2>2, HeadTailProperties DEF IndInv, VarTypes
  <2>4. VarTypes' /\ OnePlace'
    <3>1. miner_map' \in [Miners -> Nat] /\ blockcount' \in [Miners -> Nat]
      BY <2>2, <2>3 DEF IndInv, VarTypes
    <3>2. VarTypes'
      BY <2>2, <2>3, <3>1 DEF IndInv, VarTypes
    <3>3. OnePlace'
      BY <2>2 DEF IndInv, OnePlace, Queued
    <3>4. QED
      BY <3>2, <3>3
  <2>5. \A m \in Miners : Cardinality(Places(todo, m)) =
                            Cardinality(Places(todo', m)) + (IF n = m THEN 1 ELSE 0)
    BY <2>1, <2>2, PlacesTail DEF IndInv, VarTypes
  <2>6. \A m \in Miners : /\ miner_map'[m] = miner_map[m] + (IF n = m THEN 1 ELSE 0)
                          /\ blockcount'[m] = (IF n = m THEN miner_map[m] + 1 ELSE blockcount[m])
                          /\ miner_map[m] \in Nat
    BY <2>2, <2>3 DEF IndInv, VarTypes
  <2>7. \A m \in Miners : Cardinality(Places(todo', m)) \in Nat
    BY <2>3, PlacesFinite
  <2>8. CountsBounded'
    BY <1>1, <2>2, <2>6 DEF CountsBounded, Mined
  <2>9. TotalsMatchDetails'
    <3>1. \A m \in Miners : miner_map'[m] + Cardinality(Places(todo', m)) =
                              Cardinality(Mined(miniblocks, m))
      BY <1>1, <2>5, <2>6, <2>7
    <3>2. QED
      BY <2>2, <3>1 DEF TotalsMatchDetails, Uncounted, Total, Places, Mined
  <2>10. QED
    BY <2>4, <2>8, <2>9 DEF IndInv
<1>6. CASE Stop
  <2>1. /\ stops < MaxStops /\ stops' = stops + 1
        /\ offered' = {} /\ mini_queue' = {} /\ mini_db_queue' = <<>> /\ todo' = <<>>
        /\ all_details' = miniblocks
        /\ miner_map' = [m \in Miners |-> Total(miniblocks, m)]
        /\ UNCHANGED <<miniblocks, blockcount>>
    BY <1>6 DEF Stop
  <2>2. \A m \in Miners : miner_map'[m] = Cardinality(Mined(miniblocks, m))
    BY <2>1, CountsAre
  <2>3. miner_map' \in [Miners -> Nat]
    BY <1>1, <2>1, CountsAre
  <2>4. VarTypes' /\ OnePlace'
    BY <2>1, <2>3, MinisAssumption DEF IndInv, VarTypes, OnePlace, Queued
  <2>5. CountsBounded'
    <3>1. \A m \in Miners : miner_map[m] \in Nat /\ blockcount[m] \in Nat
      BY DEF IndInv, VarTypes
    <3>2. \A m \in Miners : blockcount[m] <= miner_map'[m]
      BY <1>1, <2>2, <3>1
    <3>3. QED
      BY <1>1, <2>1, <3>2 DEF CountsBounded, Mined
  <2>6. \A m \in Miners : Cardinality(Places(todo', m)) = 0
    BY <2>1, FS_EmptySet DEF Places
  <2>7. TotalsMatchDetails'
    <3>1. \A m \in Miners : miner_map'[m] + Cardinality(Places(todo', m)) =
                              Cardinality(Mined(miniblocks, m))
      BY <1>1, <2>2, <2>6
    <3>2. QED
      BY <2>1, <3>1 DEF TotalsMatchDetails, Uncounted, Total, Places, Mined
  <2>8. QED
    BY <2>4, <2>5, <2>7 DEF IndInv
<1>7. CASE UNCHANGED vars
  BY <1>7 DEF vars, IndInv, VarTypes, OnePlace, Queued, CountsBounded, TotalsMatchDetails,
     Mined, Uncounted, Total
<1>8. QED
  BY <1>2, <1>3, <1>4, <1>5, <1>6, <1>7 DEF Next

\* The invariant holds in every reachable state.
THEOREM Invariance == Spec => []IndInv
<1>1. Init => IndInv
  BY InitInv
<1>2. IndInv /\ [Next]_vars => IndInv'
  BY NextInv
<1>3. QED
  BY <1>1, <1>2, PTL DEF Spec

\* The variables keep their types, and mini_db_queue never holds more than the
\* blocks there are.
THEOREM TypeCorrect == Spec => []TypeOK
<1>1. IndInv => TypeOK
  <2> SUFFICES ASSUME IndInv PROVE Len(mini_db_queue) <= Cardinality(Blocks)
    BY DEF IndInv, VarTypes, TypeOK
  <2>1. /\ Len(mini_db_queue) \in Nat
        /\ mini_db_queue \in [1 .. Len(mini_db_queue) -> Blocks]
    BY DEF IndInv, VarTypes
  <2>2. mini_db_queue \in Injection(1 .. Len(mini_db_queue), Blocks)
    BY <2>1 DEF IndInv, OnePlace, Injection, IsInjective
  <2>3. Cardinality(1 .. Len(mini_db_queue)) = Len(mini_db_queue)
    BY <2>1, FS_Interval
  <2>4. QED
    BY <2>2, <2>3, FS_Injection, MinisAssumption
<1>2. QED
  BY <1>1, Invariance, PTL

\* The totals of mini_db_writer are those of the stored details less what it
\* has yet to count: no miniblock is counted twice and none is missed.
THEOREM TotalsMatchDetailsHolds == Spec => []TotalsMatchDetails
<1>1. IndInv => TotalsMatchDetails
  BY DEF IndInv
<1>2. QED
  BY <1>1, Invariance, PTL

\* No stored total exceeds what the stored details show, even after a stop
\* between two of the Updates of a block.
THEOREM CountNeverAheadHolds == Spec => []CountNeverAhead
<1>1. IndInv => CountNeverAhead
  <2> SUFFICES ASSUME IndInv, NEW m \in Miners PROVE blockcount[m] <= Total(miniblocks, m)
    BY DEF CountNeverAhead
  <2>1. blockcount[m] <= miner_map[m] /\ miner_map[m] \in Nat /\ blockcount[m] \in Nat
    BY DEF IndInv, CountsBounded, VarTypes
  <2>2. Uncounted(m) \in Nat
    BY CountsAre, PlacesFinite DEF IndInv, VarTypes
  <2>3. miner_map[m] + Uncounted(m) = Total(miniblocks, m)
    BY DEF IndInv, TotalsMatchDetails
  <2>4. QED
    BY <2>1, <2>2, <2>3
<1>2. QED
  BY <1>1, Invariance, PTL
=============================================================================
