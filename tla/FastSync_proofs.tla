-------------------------- MODULE FastSync_proofs --------------------------
(***************************************************************************)
(* Proofs about FastSync: for any registry, any number of workers, any     *)
(* sizes of the channels, any number of ends of the process and any growth *)
(* of the chain and the registry, nothing that was read from the registry  *)
(* is lost on its way to the database, and the stored height lags behind   *)
(* what is stored as long as no import overtook an earlier one.            *)
(***************************************************************************)
EXTENDS FastSync, SequenceTheorems, TLAPS

\* Where a contract may be: in the database, or besides in the writer's hand,
\* on its queue, ... , on the channel of the imports.  Each contains the one
\* before, and a contract only moves towards the first.
WithWriter  == Accounted \cup {writer.item}
WithQueue   == WithWriter \cup Elements(scid_db_queue)
WithScid    == WithQueue \cup {scid}
WithPipe    == WithScid \cup Elements(scid_processing)
Items       == {worker[w].item : w \in Workers}
WithWorkers == WithPipe \cup Items
WithImports == WithWorkers \cup Elements(imports)

\* Every wanted contract registered before x is in S.
Before(x, S) ==
    \A c \in Wanted : x \in Contracts /\ Registered[c] < Registered[x] => c \in S

\* Every element of a queue comes after the wanted contracts registered before
\* it: they are in S or ahead of it on the queue.
First(q, i) == {q[j] : j \in 1 .. i - 1}
Ordered(q, S) == \A i \in 1 .. Len(q) : Before(q[i], S \cup First(q, i))

-----------------------------------------------------------------------------
(* The invariant                                                           *)

\* How the places of the goroutines agree with what they have in hand.
PlacesInv ==
    /\ pc = "read" => asked = {} /\ missed = {}
    /\ pc # "send" => todo = {}
    /\ todo \subseteq asked
    /\ \A c \in asked, d \in missed : ListedAt[c] < ListedAt[d]
    /\ closed => pc \in {"queues", "wait", "done"}
    /\ pc = "done" => asked = {} \/ \A w \in Workers : worker[w].at = "left"
    /\ \A w \in Workers :
         /\ worker[w].at \in {"call", "push"} => worker[w].item \in Contracts \ Skipped
         /\ worker[w].at \in {"range", "left"} => worker[w].item = None
         /\ worker[w].at = "left" => closed /\ imports = <<>>
    /\ IF writer.at = "receive" THEN writer.item = None ELSE writer.item \in Contracts
    /\ writer.at = "height" => writer.item \in index
    /\ deploys.viewed => scid \in Contracts /\ Outcome[scid] = "invalid" /\ deploys.bytes = invalid

\* Nothing that was read from the registry is lost.
HandedInv == ~ reused => asked \cap Wanted \subseteq WithImports \cup todo

\* The order of the registry is kept: what was registered before the contract
\* in hand, or before an element of a queue, is further on.
OrderInv ==
    /\ Before(writer.item, Accounted)
    /\ Ordered(scid_db_queue, WithWriter)
    /\ Before(scid, WithQueue)
    /\ Ordered(scid_processing, WithScid)
    /\ \A w \in Workers : Before(worker[w].item, WithWorkers)
    /\ Ordered(imports, WithWorkers)

\* What lies below the stored height is stored.
HeightInv == \A c \in Wanted : Block_Height[c] < LastIndexHeight => c \in Accounted

\* What this process did not read from the registry is stored, was not listed, or
\* the passes come to it.
StartInv ==
    \A c \in Wanted :
        \/ c \in Accounted \cup asked \cup missed
        \/ pc = "read" /\ Registered[c] >= lowest_height
        \/ pc = "done" /\ Block_Height[c] >= lowest_height

Sound == ~ overtaken /\ ~ reused /\ HonestRegistry

IndInv ==
    /\ TypeOK
    /\ PlacesInv
    /\ HandedInv
    /\ Sound => OrderInv /\ HeightInv /\ StartInv

-----------------------------------------------------------------------------
(* Queues                                                                  *)

\* What is left of a queue when its head is taken, and what was ahead of it.
LEMMA TailFacts ==
    ASSUME NEW S, NEW q \in Seq(S), q # <<>>
    PROVE  /\ Head(q) \in S /\ Tail(q) \in Seq(S) /\ Len(Tail(q)) = Len(q) - 1
           /\ Len(q) \in Nat \ {0} /\ Head(q) = q[1]
           /\ Elements(q) = {Head(q)} \cup Elements(Tail(q))
           /\ \A i \in 1 .. Len(Tail(q)) :
                 Tail(q)[i] = q[i + 1] /\ First(q, i + 1) = {Head(q)} \cup First(Tail(q), i)
<1>1. /\ Head(q) \in S /\ Tail(q) \in Seq(S) /\ Len(Tail(q)) = Len(q) - 1
      /\ Len(q) \in Nat \ {0} /\ Head(q) = q[1] /\ DOMAIN q = 1 .. Len(q)
      /\ DOMAIN Tail(q) = 1 .. Len(q) - 1
      /\ \A i \in 1 .. Len(q) - 1 : Tail(q)[i] = q[i + 1]
  BY HeadTailProperties, EmptySeq
<1>2. \A j \in 1 .. Len(q) : j = 1 \/ (j - 1 \in 1 .. Len(q) - 1 /\ q[j] = Tail(q)[j - 1])
  BY <1>1
<1>3. Elements(q) = {Head(q)} \cup Elements(Tail(q))
  <2>1. Elements(q) \subseteq {Head(q)} \cup Elements(Tail(q))
    <3>1. ASSUME NEW j \in 1 .. Len(q) PROVE q[j] \in {Head(q)} \cup Elements(Tail(q))
      <4>1. CASE j = 1
        BY <1>1, <4>1
      <4>2. CASE j # 1
        <5>1. j - 1 \in DOMAIN Tail(q) /\ q[j] = Tail(q)[j - 1]
          BY <1>1, <1>2, <4>2
        <5>2. QED
          BY <5>1 DEF Elements
      <4>3. QED
        BY <4>1, <4>2
    <3>2. QED
      BY <1>1, <3>1 DEF Elements
  <2>2. {Head(q)} \cup Elements(Tail(q)) \subseteq Elements(q)
    BY <1>1 DEF Elements
  <2>3. QED
    BY <2>1, <2>2
<1>4. ASSUME NEW i \in 1 .. Len(q) - 1
      PROVE  First(q, i + 1) = {Head(q)} \cup First(Tail(q), i)
  <2>1. First(q, i + 1) \subseteq {Head(q)} \cup First(Tail(q), i)
    BY <1>1, <1>2 DEF First
  <2>2. {Head(q)} \cup First(Tail(q), i) \subseteq First(q, i + 1)
    BY <1>1 DEF First
  <2>3. QED
    BY <2>1, <2>2
<1>5. QED
  BY <1>1, <1>3, <1>4

\* What a queue is when an element is put at its end, and what is ahead of it.
LEMMA AppendFacts ==
    ASSUME NEW S, NEW q \in Seq(S), NEW x \in S
    PROVE  /\ Append(q, x) \in Seq(S) /\ Len(q) \in Nat /\ Len(Append(q, x)) = Len(q) + 1
           /\ Append(q, x) # <<>>
           /\ Elements(Append(q, x)) = Elements(q) \cup {x}
           /\ \A i \in 1 .. Len(q) :
                 Append(q, x)[i] = q[i] /\ First(Append(q, x), i) = First(q, i)
           /\ Append(q, x)[Len(q) + 1] = x /\ First(Append(q, x), Len(q) + 1) = Elements(q)
<1> DEFINE r == Append(q, x)
<1>1. /\ r \in Seq(S) /\ Len(q) \in Nat /\ Len(r) = Len(q) + 1 /\ r # <<>>
      /\ DOMAIN q = 1 .. Len(q) /\ DOMAIN r = 1 .. Len(q) + 1
      /\ \A i \in 1 .. Len(q) : r[i] = q[i]
      /\ r[Len(q) + 1] = x
  BY AppendProperties, LenProperties
<1> HIDE DEF r
<1>2. Elements(r) = Elements(q) \cup {x}
  <2>1. Elements(r) \subseteq Elements(q) \cup {x}
    BY <1>1 DEF Elements
  <2>2. Elements(q) \subseteq Elements(r)
    BY <1>1 DEF Elements
  <2>3. x \in Elements(r)
    BY <1>1 DEF Elements
  <2>4. QED
    BY <2>1, <2>2, <2>3
<1>3. \A i \in 1 .. Len(q) : First(r, i) = First(q, i)
  BY <1>1 DEF First
<1>4. First(r, Len(q) + 1) = Elements(q)
  BY <1>1 DEF First, Elements
<1>5. QED
  BY <1>1, <1>2, <1>3, <1>4 DEF r

\* What is said about an order holds for more places as well.
LEMMA BeforeGrows ==
    ASSUME NEW x, NEW S, NEW T, Before(x, S), S \cap Wanted \subseteq T
    PROVE  Before(x, T)
  BY DEF Before

\* A queue stays in order when more contracts are further on.
LEMMA OrderedGrows ==
    ASSUME NEW q, NEW S, NEW T, Ordered(q, S), S \cap Wanted \subseteq T
    PROVE  Ordered(q, T)
  BY DEF Ordered, Before

\* Taking the head of a queue and putting a contract at its end.
LEMMA OrderedHead ==
    ASSUME NEW q \in Seq(Contracts), NEW S, Ordered(q, S), q # <<>>
    PROVE  Before(Head(q), S)
<1>1. 1 \in 1 .. Len(q) /\ q[1] = Head(q) /\ First(q, 1) = {}
  BY TailFacts DEF First
<1>2. QED
  BY <1>1 DEF Ordered, Before

\* The rest of a queue is in order once the head is further on.
LEMMA OrderedTail ==
    ASSUME NEW q \in Seq(Contracts), NEW S, NEW T, Ordered(q, S), q # <<>>,
           (S \cup {Head(q)}) \cap Wanted \subseteq T
    PROVE  Ordered(Tail(q), T)
<1> SUFFICES ASSUME NEW i \in 1 .. Len(Tail(q)) PROVE Before(Tail(q)[i], T \cup First(Tail(q), i))
  BY DEF Ordered
<1>1. /\ Tail(q)[i] = q[i + 1] /\ i + 1 \in 1 .. Len(q)
      /\ First(q, i + 1) = {Head(q)} \cup First(Tail(q), i)
  BY TailFacts
<1>2. Before(q[i + 1], S \cup First(q, i + 1))
  BY <1>1 DEF Ordered
<1>3. QED
  BY <1>1, <1>2 DEF Before

\* A contract whose predecessors are in the queue or further on may join it.
LEMMA OrderedAppend ==
    ASSUME NEW q \in Seq(Contracts), NEW x \in Contracts, NEW S, NEW T, Ordered(q, S),
           S \cap Wanted \subseteq T, Before(x, T \cup Elements(q))
    PROVE  Ordered(Append(q, x), T)
<1> DEFINE r == Append(q, x)
<1>1. /\ Len(q) \in Nat /\ Len(r) = Len(q) + 1
      /\ \A i \in 1 .. Len(q) : r[i] = q[i] /\ First(r, i) = First(q, i)
      /\ r[Len(q) + 1] = x /\ First(r, Len(q) + 1) = Elements(q)
  BY AppendFacts
<1> HIDE DEF r
<1>2. \A i \in 1 .. Len(q) : Before(r[i], T \cup First(r, i))
  BY <1>1 DEF Ordered, Before
<1>3. Before(r[Len(q) + 1], T \cup First(r, Len(q) + 1))
  BY <1>1
<1>4. Ordered(r, T)
  <2>1. \A i \in 1 .. Len(r) : i \in 1 .. Len(q) \/ i = Len(q) + 1
    BY <1>1
  <2>2. QED
    BY <1>2, <1>3, <2>1 DEF Ordered
<1>5. QED
  BY <1>4 DEF r

\* An empty queue and no contract are in order.
LEMMA NothingOrdered == \A S : Ordered(<<>>, S) /\ Before(None, S)
  BY FastSyncAssumption DEF Ordered, Before

-----------------------------------------------------------------------------
(* Types and places                                                        *)

WorkerType == [at : {"range", "call", "push", "left"},
               item : Contracts \cup {None}, tries : 0 .. Retries + 1]

\* The constants that bound the variables.
LEMMA Sizes ==
    /\ MaxTopo \in Nat /\ Retries \in Nat /\ MaxStops \in Nat /\ MaxBad \in Nat
    /\ FirstTopo \in Nat /\ FirstTopo <= MaxTopo /\ FirstTopo \in FirstTopo .. MaxTopo
    /\ StagedSize \in Nat /\ 0 \in 0 .. Retries + 1 /\ 0 \in 0 .. MaxTopo
  BY FastSyncAssumption

\* The empty channel is within every capacity.
LEMMA EmptyQueue ==
    <<>> \in Seq(Contracts) /\ Len(<<>>) <= ImportSize /\ Len(<<>>) <= QueueSize
  BY FastSyncAssumption, EmptySeq

\* What Set does.
LEMMA SetFacts ==
    ASSUME TypeOK, NEW w \in Workers, NEW a \in {"range", "call", "push", "left"},
           NEW x \in Contracts \cup {None}, NEW n \in 0 .. Retries + 1, Set(w, a, x, n)
    PROVE  /\ worker' \in [Workers -> WorkerType]
           /\ worker'[w].at = a /\ worker'[w].item = x /\ worker'[w].tries = n
           /\ \A v \in Workers : v # w => worker'[v] = worker[v]
  BY DEF TypeOK, Set, WorkerType

\* The records of workers, of the writer and of the deploys when nothing is in hand.
LEMMA EmptyHands ==
    /\ Idle \in WorkerType /\ Idle.at = "range" /\ Idle.item = None
    /\ Free \in [at : {"receive", "announce", "add", "height"}, item : Contracts \cup {None}]
    /\ Free.at = "receive" /\ Free.item = None
    /\ Unread \in [viewed : BOOLEAN, bytes : SUBSET Contracts, stale : BOOLEAN]
    /\ Unread.viewed = FALSE
  BY FastSyncAssumption DEF Idle, Free, Unread, WorkerType

\* A process begins with the registry or is through with the fast sync.
LEMMA FirstStepFacts ==
    ASSUME NEW h PROVE FirstSteps(h) \subseteq {"read", "done"}
  BY DEF FirstSteps

\* The heights the daemon gives are within the bound.
LEMMA TopoHeightFacts ==
    ASSUME topo \in FirstTopo .. MaxTopo PROVE TopoHeights \subseteq 0 .. MaxTopo
  BY Sizes DEF TopoHeights

\* A process starts at the stored height or below it.
LEMMA RestartFacts ==
    ASSUME TypeOK, Restart
    PROVE  lowest_height' \in 0 .. MaxTopo /\ lowest_height' <= LastIndexHeight
<1>1. /\ LastIndexHeight \in 0 .. MaxTopo /\ TopoHeights \subseteq 0 .. MaxTopo
      /\ MaxTopo \in Nat
  BY TopoHeightFacts, Sizes DEF TypeOK
<1>2. PICK h \in TopoHeights :
        lowest_height' = IF h < LastIndexHeight THEN h ELSE LastIndexHeight
  BY DEF Restart
<1>3. h \in 0 .. MaxTopo
  BY <1>1
<1>4. QED
  BY <1>1, <1>2, <1>3

\* The first process starts with the types and places of the invariant.
LEMMA InitPlaces == Init => TypeOK /\ PlacesInv
<1> SUFFICES ASSUME Init PROVE TypeOK /\ PlacesInv
  OBVIOUS
<1>1. worker \in [Workers -> WorkerType] /\ \A w \in Workers : worker[w] = Idle
  BY EmptyHands DEF Init
<1>2. TypeOK
  <2>1. /\ imports \in Seq(Contracts) /\ Len(imports) <= ImportSize
        /\ scid_processing \in Seq(Contracts) /\ Len(scid_processing) <= QueueSize
        /\ scid_db_queue \in Seq(Contracts) /\ Len(scid_db_queue) <= QueueSize
    BY EmptyQueue DEF Init
  <2>2. /\ staged_for_writing \in 0 .. StagedSize /\ stops \in 0 .. MaxStops
        /\ bad \in 0 .. MaxBad /\ {LastIndexHeight, lowest_height} \subseteq 0 .. MaxTopo
        /\ topo \in FirstTopo .. MaxTopo
    BY Sizes DEF Init
  <2>3. {overtaken, reused} \subseteq BOOLEAN /\ closed \in BOOLEAN
    BY DEF Init
  <2>4. QED
    BY <1>1, <2>1, <2>2, <2>3, EmptyHands, FirstStepFacts DEF Init, TypeOK, WorkerType
<1>3. PlacesInv
  BY <1>1, EmptyHands, FirstStepFacts DEF Init, PlacesInv
<1>4. QED
  BY <1>2, <1>3

\* Every step keeps the types and the places.
LEMMA NextPlaces == TypeOK /\ PlacesInv /\ [Next]_vars => TypeOK' /\ PlacesInv'
<1> SUFFICES ASSUME TypeOK, PlacesInv, [Next]_vars PROVE TypeOK' /\ PlacesInv'
  OBVIOUS
<1> USE DEF main, scids, writing, stored, outside, history
<1>1. CASE ReadRegistry
  <2>1. /\ todo' = Importables /\ asked' = Importables /\ missed' = Contracts \ Listed
        /\ pc = "read" /\ pc' = "send"
    BY <1>1 DEF ReadRegistry
  <2>2. ASSUME NEW c \in Listed, NEW d \in Contracts \ Listed PROVE ListedAt[c] < ListedAt[d]
    <3>1. ListedAt[c] \in Nat /\ ListedAt[d] \in Nat /\ topo \in FirstTopo .. MaxTopo
      BY FastSyncAssumption DEF Listed, TypeOK
    <3>2. topo \in Int /\ ListedAt[c] <= topo /\ ~ (ListedAt[d] <= topo)
      BY <3>1, Sizes DEF Listed
    <3>3. QED
      BY <3>1, <3>2
  <2>3. TypeOK'
    BY <1>1, <2>1 DEF ReadRegistry, Importables, Listed, TypeOK
  <2>4. PlacesInv'
    BY <1>1, <2>1, <2>2 DEF ReadRegistry, Importables, PlacesInv
  <2>5. QED
    BY <2>3, <2>4
<1>2. CASE SendImport
  <2>1. PICK c \in Sorted(todo) : imports' = Append(imports, c) /\ todo' = todo \ {c}
    BY <1>2 DEF SendImport
  <2>2. c \in Contracts
    BY DEF Sorted, TypeOK
  <2>3. imports' \in Seq(Contracts) /\ Len(imports') <= ImportSize
    BY <1>2, <2>1, <2>2, AppendFacts, FastSyncAssumption DEF SendImport, TypeOK
  <2>4. TypeOK'
    BY <1>2, <2>1, <2>3 DEF SendImport, TypeOK
  <2>5. PlacesInv'
    BY <1>2, <2>1 DEF SendImport, PlacesInv
  <2>6. QED
    BY <2>4, <2>5
<1>3. CASE CloseImports
  BY <1>3 DEF CloseImports, TypeOK, PlacesInv
<1>4. CASE waitForAllQueues
  BY <1>4 DEF waitForAllQueues, TypeOK, PlacesInv
<1>5. CASE Done
  BY <1>5, TopoHeightFacts DEF Done, TypeOK, PlacesInv
<1>6. ASSUME NEW w \in Workers, Receive(w) PROVE TypeOK' /\ PlacesInv'
  <2>1. imports \in Seq(Contracts) /\ imports # <<>> /\ imports' = Tail(imports)
    BY <1>6 DEF Receive, TypeOK
  <2>2. imports' \in Seq(Contracts) /\ Len(imports') <= ImportSize /\ Head(imports) \in Contracts
    BY <2>1, TailFacts, FastSyncAssumption DEF TypeOK
  <2>3. worker' \in [Workers -> WorkerType] /\ \A v \in Workers : v # w => worker'[v] = worker[v]
    <3>1. CASE worker' = worker
      BY <3>1 DEF TypeOK, WorkerType
    <3>2. CASE Set(w, "call", Head(imports), 0)
      BY <2>2, <3>2, SetFacts, Sizes
    <3>3. QED
      BY <1>6, <3>1, <3>2 DEF Receive
  <2>4. \/ worker' = worker
        \/ worker'[w].at = "call" /\ worker'[w].item \in Contracts \ Skipped
    BY <1>6, <2>2, SetFacts, Sizes DEF Receive
  <2>5. TypeOK'
    BY <1>6, <2>2, <2>3 DEF Receive, TypeOK, WorkerType
  <2>6. PlacesInv'
    BY <1>6, <2>1, <2>3, <2>4 DEF Receive, PlacesInv
  <2>7. QED
    BY <2>5, <2>6
<1>7. ASSUME NEW w \in Workers, Leave(w) PROVE TypeOK' /\ PlacesInv'
  <2>1. /\ worker' \in [Workers -> WorkerType]
        /\ worker'[w].at = "left" /\ worker'[w].item = None
        /\ \A v \in Workers : v # w => worker'[v] = worker[v]
    BY <1>7, SetFacts, Sizes DEF Leave
  <2>2. TypeOK'
    BY <1>7, <2>1 DEF Leave, TypeOK, WorkerType
  <2>3. PlacesInv'
    BY <1>7, <2>1 DEF Leave, PlacesInv
  <2>4. QED
    BY <2>2, <2>3
<1>8. ASSUME NEW w \in Workers, Answer(w) PROVE TypeOK' /\ PlacesInv'
  <2>1. worker[w].item \in Contracts \ Skipped /\ worker[w].at = "call"
    BY <1>8 DEF Answer, PlacesInv
  <2>2. /\ worker' \in [Workers -> WorkerType]
        /\ \A v \in Workers : v # w => worker'[v] = worker[v]
        /\ \/ worker'[w].at = "range" /\ worker'[w].item = None
           \/ worker'[w].at = "push" /\ worker'[w].item \in Contracts \ Skipped
    BY <1>8, <2>1, SetFacts, FastSyncAssumption DEF Answer
  <2>3. TypeOK'
    BY <1>8, <2>2 DEF Answer, TypeOK, WorkerType
  <2>4. PlacesInv'
    BY <1>8, <2>1, <2>2 DEF Answer, PlacesInv
  <2>5. QED
    BY <2>3, <2>4
<1>9. ASSUME NEW w \in Workers, BadAnswer(w) PROVE TypeOK' /\ PlacesInv'
  <2>1. worker[w].item \in Contracts \ Skipped /\ worker[w].at = "call"
    BY <1>9 DEF BadAnswer, PlacesInv
  <2>2. worker[w].tries + 1 \in 0 .. Retries + 1
    <3>1. worker[w].tries \in 0 .. Retries + 1
      BY DEF TypeOK
    <3>2. QED
      BY <1>9, <3>1, Sizes DEF BadAnswer
  <2>3. /\ worker' \in [Workers -> WorkerType]
        /\ \A v \in Workers : v # w => worker'[v] = worker[v]
        /\ worker'[w].at = "call" /\ worker'[w].item \in Contracts \ Skipped
    BY <1>9, <2>1, <2>2, SetFacts DEF BadAnswer
  <2>4. bad' \in 0 .. MaxBad
    <3>1. bad \in 0 .. MaxBad
      BY DEF TypeOK
    <3>2. bad < MaxBad /\ bad' = bad + 1
      BY <1>9 DEF BadAnswer
    <3>3. MaxBad \in Nat
      BY FastSyncAssumption
    <3>4. QED
      BY <3>1, <3>2, <3>3
  <2>5. TypeOK'
    BY <1>9, <2>3, <2>4 DEF BadAnswer, TypeOK, WorkerType
  <2>6. PlacesInv'
    BY <1>9, <2>1, <2>3 DEF BadAnswer, PlacesInv
  <2>7. QED
    BY <2>5, <2>6
<1>10. ASSUME NEW w \in Workers, Push(w) PROVE TypeOK' /\ PlacesInv'
  <2>1. worker[w].item \in Contracts /\ worker[w].at = "push"
    BY <1>10 DEF Push, PlacesInv
  <2>2. /\ worker' \in [Workers -> WorkerType]
        /\ \A v \in Workers : v # w => worker'[v] = worker[v]
        /\ worker'[w].at = "range" /\ worker'[w].item = None
    BY <1>10, SetFacts, Sizes DEF Push
  <2>3. scid_processing' \in Seq(Contracts) /\ Len(scid_processing') <= QueueSize
    <3>1. scid_processing \in Seq(Contracts)
      BY DEF TypeOK
    <3>2. Len(scid_processing) < QueueSize /\ scid_processing' = Append(scid_processing, worker[w].item)
      BY <1>10 DEF Push
    <3>3. QueueSize \in Nat
      BY FastSyncAssumption
    <3>4. QED
      BY <2>1, <3>1, <3>2, <3>3, AppendFacts
  <2>4. overtaken' \in BOOLEAN
    BY <1>10 DEF Push, TypeOK
  <2>5. TypeOK'
    BY <1>10, <2>2, <2>3, <2>4 DEF Push, TypeOK, WorkerType
  <2>6. PlacesInv'
    BY <1>10, <2>1, <2>2 DEF Push, PlacesInv
  <2>7. QED
    BY <2>5, <2>6
<1>11. CASE TakeScid
  <2>1. scid_processing \in Seq(Contracts) /\ scid_processing # <<>>
    BY <1>11 DEF TakeScid, TypeOK
  <2>2. /\ scid' \in Contracts /\ scid_processing' \in Seq(Contracts)
        /\ Len(scid_processing') <= QueueSize
    BY <1>11, <2>1, TailFacts, FastSyncAssumption DEF TakeScid, TypeOK
  <2>3. TypeOK'
    BY <1>11, <2>2 DEF TakeScid, TypeOK
  <2>4. PlacesInv'
    BY <1>11, <2>2, FastSyncAssumption DEF TakeScid, PlacesInv
  <2>5. QED
    BY <2>3, <2>4
<1>12. CASE WorkOnScid
  <2>1. scid \in Contracts
    BY <1>12 DEF WorkOnScid, TypeOK
  <2>2. scid_db_queue' \in Seq(Contracts) /\ Len(scid_db_queue') <= QueueSize
    <3>1. CASE scid_db_queue' = scid_db_queue
      BY <3>1 DEF TypeOK
    <3>2. CASE Len(scid_db_queue) < QueueSize /\ scid_db_queue' = Append(scid_db_queue, scid)
      BY <2>1, <3>2, AppendFacts, FastSyncAssumption DEF TypeOK
    <3>3. QED
      BY <1>12, <3>1, <3>2 DEF WorkOnScid
  <2>3. TypeOK'
    BY <1>12, <2>2 DEF WorkOnScid, TypeOK
  <2>4. PlacesInv'
    BY <1>12 DEF WorkOnScid, PlacesInv
  <2>5. QED
    BY <2>3, <2>4
<1>13. CASE ViewDeploys
  <2>1. /\ deploys' \in [viewed : BOOLEAN, bytes : SUBSET Contracts, stale : BOOLEAN]
        /\ deploys'.bytes = invalid /\ scid \in Contracts /\ Outcome[scid] = "invalid"
    BY <1>13 DEF ViewDeploys, TypeOK
  <2>2. TypeOK'
    BY <1>13, <2>1 DEF ViewDeploys, TypeOK
  <2>3. PlacesInv'
    BY <1>13, <2>1 DEF ViewDeploys, PlacesInv
  <2>4. QED
    BY <2>2, <2>3
<1>14. CASE UpdateDeploys
  <2>1. invalid' \subseteq Contracts
    BY <1>14 DEF UpdateDeploys, TypeOK, PlacesInv
  <2>2. reused' \in BOOLEAN
    BY <1>14 DEF UpdateDeploys, TypeOK
  <2>3. TypeOK'
    BY <1>14, <2>1, <2>2, EmptyHands DEF UpdateDeploys, TypeOK
  <2>4. PlacesInv'
    BY <1>14, EmptyHands DEF UpdateDeploys, PlacesInv
  <2>5. QED
    BY <2>3, <2>4
<1>15. CASE WriterTakes
  <2>1. scid_db_queue \in Seq(Contracts) /\ scid_db_queue # <<>>
    BY <1>15 DEF WriterTakes, TypeOK
  <2>2. /\ Head(scid_db_queue) \in Contracts /\ scid_db_queue' \in Seq(Contracts)
        /\ Len(scid_db_queue') <= QueueSize
    BY <1>15, <2>1, TailFacts, FastSyncAssumption DEF WriterTakes, TypeOK
  <2>3. TypeOK'
    BY <1>15, <2>2 DEF WriterTakes, TypeOK
  <2>4. PlacesInv'
    BY <1>15, <2>2 DEF WriterTakes, PlacesInv
  <2>5. QED
    BY <2>3, <2>4
<1>16. CASE Announce
  <2>1. staged_for_writing' \in 0 .. StagedSize
    BY <1>16, Sizes DEF Announce, TypeOK
  <2>2. /\ writer' \in [at : {"receive", "announce", "add", "height"}, item : Contracts \cup {None}]
        /\ writer'.at = "add" /\ writer'.item = writer.item /\ writer.item \in Contracts
    BY <1>16 DEF Announce, TypeOK, PlacesInv
  <2>3. TypeOK'
    BY <1>16, <2>1, <2>2 DEF Announce, TypeOK
  <2>4. PlacesInv'
    BY <1>16, <2>2 DEF Announce, PlacesInv
  <2>5. QED
    BY <2>3, <2>4
<1>17. ASSUME Committed
       PROVE  /\ deploys' \in [viewed : BOOLEAN, bytes : SUBSET Contracts, stale : BOOLEAN]
              /\ deploys'.viewed = deploys.viewed /\ deploys'.bytes = deploys.bytes
  BY <1>17 DEF Committed, TypeOK
<1>18. CASE AddToIndex
  <2>1. /\ writer' \in [at : {"receive", "announce", "add", "height"}, item : Contracts \cup {None}]
        /\ writer'.at = "height" /\ writer'.item = writer.item /\ writer.item \in Contracts
        /\ index' = index \cup {writer.item}
    BY <1>18 DEF AddToIndex, TypeOK, PlacesInv
  <2>2. TypeOK'
    BY <1>17, <1>18, <2>1 DEF AddToIndex, TypeOK
  <2>3. PlacesInv'
    BY <1>17, <1>18, <2>1 DEF AddToIndex, PlacesInv
  <2>4. QED
    BY <2>2, <2>3
<1>19. CASE StoreHeight
  <2>1. LastIndexHeight' \in 0 .. MaxTopo
    BY <1>19, FastSyncAssumption DEF StoreHeight, PlacesInv
  <2>2. TypeOK'
    BY <1>17, <1>19, <2>1, EmptyHands DEF StoreHeight, TypeOK
  <2>3. PlacesInv'
    BY <1>17, <1>19, EmptyHands DEF StoreHeight, PlacesInv
  <2>4. QED
    BY <2>2, <2>3
<1>20. CASE Printer
  <2>1. staged_for_writing' \in 0 .. StagedSize
    BY <1>20, Sizes DEF Printer, TypeOK
  <2>2. QED
    BY <1>20, <2>1 DEF Printer, TypeOK, PlacesInv
<1>21. CASE Restart
  <2>1. /\ worker' \in [Workers -> WorkerType] /\ \A w \in Workers : worker'[w] = Idle
        /\ stops' \in 0 .. MaxStops /\ pc' \in {"read", "done"}
        /\ lowest_height' \in 0 .. MaxTopo
    <3>1. worker' \in [Workers -> WorkerType] /\ \A w \in Workers : worker'[w] = Idle
      BY <1>21, EmptyHands DEF Restart
    <3>2. stops' \in 0 .. MaxStops
      BY <1>21, Sizes DEF Restart, TypeOK
    <3>3. pc' \in {"read", "done"}
      BY <1>21, FirstStepFacts DEF Restart
    <3>4. lowest_height' \in 0 .. MaxTopo
      BY <1>21, RestartFacts
    <3>5. QED
      BY <3>1, <3>2, <3>3, <3>4
  <2>2. TypeOK'
    <3>1. /\ imports' \in Seq(Contracts) /\ Len(imports') <= ImportSize
          /\ scid_processing' \in Seq(Contracts) /\ Len(scid_processing') <= QueueSize
          /\ scid_db_queue' \in Seq(Contracts) /\ Len(scid_db_queue') <= QueueSize
      BY <1>21, EmptyQueue DEF Restart
    <3>2. staged_for_writing' \in 0 .. StagedSize
      BY <1>21, Sizes DEF Restart
    <3>3. QED
      BY <1>21, <2>1, <3>1, <3>2, EmptyHands DEF Restart, TypeOK, WorkerType
  <2>3. PlacesInv'
    BY <1>21, <2>1, EmptyHands DEF Restart, PlacesInv
  <2>4. QED
    BY <2>2, <2>3
<1>22. CASE UNCHANGED vars
  BY <1>22 DEF vars, TypeOK, PlacesInv
<1>23. CASE NewBlock
  <2>1. topo' \in FirstTopo .. MaxTopo
    BY <1>23, Sizes DEF NewBlock, TypeOK
  <2>2. QED
    BY <1>23, <2>1 DEF NewBlock, TypeOK, PlacesInv
<1>24. QED
  BY <1>1, <1>2, <1>3, <1>4, <1>5, <1>6, <1>7, <1>8, <1>9, <1>10, <1>11, <1>12, <1>13, <1>14,
     <1>15, <1>16, <1>18, <1>19, <1>20, <1>21, <1>22, <1>23
     DEF Next, FastSyncStep, ScidHandling, WriterStep, Stop, ImportStep, Panic

-----------------------------------------------------------------------------
(* Movements                                                               *)

\* A contract only moves towards the database.
Moved ==
    /\ Accounted \cap Wanted \subseteq Accounted'
    /\ WithWriter \cap Wanted \subseteq WithWriter'
    /\ WithQueue \cap Wanted \subseteq WithQueue'
    /\ WithScid \cap Wanted \subseteq WithScid'
    /\ WithPipe \cap Wanted \subseteq WithPipe'
    /\ WithWorkers \cap Wanted \subseteq WithWorkers'
    /\ WithImports \cap Wanted \subseteq WithImports'

\* What the fast sync wants is listed and not older than its start.
LEMMA WantedFacts ==
    Wanted \subseteq Contracts \ Skipped /\ None \notin Wanted
    /\ \A c \in Wanted : Registered[c] >= starting_height
  BY FastSyncAssumption DEF Wanted

\* What is said about a place that is left alone stays true.
LEMMA OrderKept ==
    ASSUME OrderInv, Moved
    PROVE  /\ writer'.item = writer.item => Before(writer'.item, Accounted')
           /\ scid_db_queue' = scid_db_queue => Ordered(scid_db_queue', WithWriter')
           /\ scid' = scid => Before(scid', WithQueue')
           /\ scid_processing' = scid_processing => Ordered(scid_processing', WithScid')
           /\ \A w \in Workers : worker'[w].item = worker[w].item =>
                                   Before(worker'[w].item, WithWorkers')
           /\ imports' = imports => Ordered(imports', WithWorkers')
  BY BeforeGrows, OrderedGrows DEF OrderInv, Moved

\* The order of the registry, place by place.
LEMMA OrderBy ==
    ASSUME Before(writer'.item, Accounted'), Ordered(scid_db_queue', WithWriter'),
           Before(scid', WithQueue'), Ordered(scid_processing', WithScid'),
           \A w \in Workers : Before(worker'[w].item, WithWorkers'),
           Ordered(imports', WithWorkers')
    PROVE  OrderInv'
  BY DEF OrderInv, Before, Ordered, First, Wanted, Accounted, WithWriter, WithQueue, WithScid,
     WithPipe, WithWorkers, Items, Elements

\* The rest of the invariant when a step moves contracts and nothing else.
LEMMA RestKept ==
    ASSUME Moved, UNCHANGED <<asked, missed, lowest_height, pc>>, todo \subseteq todo' \cup WithImports'
    PROVE  /\ asked \cap Wanted \subseteq WithImports \cup todo =>
                asked' \cap Wanted \subseteq WithImports' \cup todo'
           /\ StartInv => StartInv'
           /\ HeightInv /\ LastIndexHeight' = LastIndexHeight => HeightInv'
  BY DEF Moved, StartInv, HeightInv, Wanted

\* What is left to prove of a step.
StepInv == HandedInv' /\ (Sound' => OrderInv' /\ HeightInv' /\ StartInv')

\* A step that only moves contracts on keeps what depends on where they are.
LEMMA StepBy ==
    ASSUME IndInv, reused => reused', overtaken => overtaken', ~ reused' => Moved,
           UNCHANGED <<asked, missed, lowest_height, pc, LastIndexHeight>>,
           todo \subseteq todo' \cup WithImports',
           Sound /\ Sound' /\ Moved => OrderInv'
    PROVE  StepInv
<1>1. Sound' => Sound
  BY DEF Sound, HonestRegistry
<1>2. HandedInv'
  <2> SUFFICES ASSUME ~ reused' PROVE asked' \cap Wanted \subseteq WithImports' \cup todo'
    BY DEF HandedInv, Wanted
  <2>1. asked \cap Wanted \subseteq WithImports \cup todo
    BY DEF IndInv, HandedInv
  <2>2. QED
    BY <2>1, RestKept
<1>3. ASSUME Sound' PROVE OrderInv' /\ HeightInv' /\ StartInv'
  <2>1. Moved /\ Sound
    BY <1>1, <1>3 DEF Sound
  <2>2. QED
    BY <1>3, <2>1, RestKept DEF IndInv
<1>4. QED
  BY <1>2, <1>3 DEF StepInv

\* Steps of fastsync_handling.
LEMMA FastSyncSteps == ASSUME IndInv, FastSyncStep PROVE StepInv
<1> USE DEF main, scids, writing, stored, outside, history
<1>1. UNCHANGED <<worker, scid_processing, scid, scid_db_queue, writer, index, invalid,
                  LastIndexHeight, overtaken, reused>>
  BY DEF FastSyncStep, ReadRegistry, SendImport, CloseImports, waitForAllQueues, Done
<1>2. /\ Accounted' = Accounted /\ WithWriter' = WithWriter /\ WithQueue' = WithQueue
      /\ WithScid' = WithScid /\ WithPipe' = WithPipe /\ WithWorkers' = WithWorkers
  BY <1>1 DEF Accounted, WithWriter, WithQueue, WithScid, WithPipe, WithWorkers, Items
<1>3. ASSUME imports' = imports PROVE Moved /\ (OrderInv => OrderInv')
  <2>1. WithImports' = WithImports
    BY <1>2, <1>3 DEF WithImports
  <2>2. Moved
    BY <1>2, <2>1 DEF Moved
  <2>3. QED
    BY <1>1, <1>3, <2>2, OrderKept, OrderBy
<1>4. Sound' = Sound
  BY <1>1 DEF Sound, HonestRegistry
<1>5. HeightInv => HeightInv'
  BY <1>1, <1>2 DEF HeightInv, Wanted
<1>6. CASE ReadRegistry
  <2>1. /\ pc = "read" /\ pc' = "send" /\ todo' = Importables /\ asked' = Importables
        /\ imports' = imports /\ asked = {} /\ missed = {} /\ missed' = Contracts \ Listed
    BY <1>6 DEF ReadRegistry, IndInv, PlacesInv
  <2>2. HandedInv'
    BY <2>1 DEF HandedInv
  <2>3. ASSUME StartInv PROVE StartInv'
    BY <1>2, <2>1, <2>3, WantedFacts DEF StartInv, Wanted, Importables
  <2>4. QED
    BY <1>3, <1>4, <1>5, <2>1, <2>2, <2>3 DEF StepInv, IndInv
<1>7. CASE SendImport
  <2>1. PICK c \in Sorted(todo) : imports' = Append(imports, c) /\ todo' = todo \ {c}
    BY <1>7 DEF SendImport
  <2>2. c \in Contracts /\ imports \in Seq(Contracts) /\ \A d \in todo : Registered[c] <= Registered[d]
    BY DEF Sorted, IndInv, TypeOK
  <2>3. Elements(imports') = Elements(imports) \cup {c}
    BY <2>1, <2>2, AppendFacts
  <2>4. WithImports' = WithImports \cup {c}
    BY <1>2, <2>3 DEF WithImports, Elements
  <2>5. Moved
    BY <1>2, <2>4 DEF Moved
  <2>6. ASSUME Sound, OrderInv, StartInv PROVE OrderInv'
    <3>1. Before(c, WithWorkers' \cup Elements(imports))
      <4>1. SUFFICES ASSUME NEW d \in Wanted, Registered[d] < Registered[c]
                     PROVE  d \in WithWorkers \cup Elements(imports)
        BY <1>2 DEF Before
      <4>2. d \in Accounted \cup asked
        <5>1. d \in Accounted \cup asked \cup missed
          BY <1>7, <2>6 DEF StartInv, SendImport
        <5>2. ListedAt[d] <= ListedAt[c]
          BY <2>2, <2>6, <4>1, WantedFacts DEF Sound, HonestRegistry
        <5>3. c \in asked
          BY DEF Sorted, IndInv, PlacesInv
        <5>4. d \notin missed
          <6>1. ListedAt[c] \in Nat /\ ListedAt[d] \in Nat
            BY <2>2, WantedFacts, FastSyncAssumption
          <6>2. QED
            BY <5>2, <5>3, <6>1 DEF IndInv, PlacesInv
        <5>5. QED
          BY <5>1, <5>4
      <4>3. d \in WithImports \cup todo
        BY <2>6, <4>2 DEF IndInv, HandedInv, Sound, WithImports, WithWorkers, WithPipe,
           WithScid, WithQueue, WithWriter
      <4>4. d \notin todo
        <5>1. Registered[d] \in Int /\ Registered[c] \in Int
          BY <2>2, WantedFacts, FastSyncAssumption
        <5>2. QED
          BY <2>2, <4>1, <5>1
      <4>5. QED
        BY <4>3, <4>4 DEF WithImports
    <3>2. Ordered(imports', WithWorkers')
      BY <1>2, <2>1, <2>2, <2>6, <3>1, OrderedAppend DEF OrderInv
    <3>3. QED
      BY <1>1, <2>5, <2>6, <3>2, OrderKept, OrderBy
  <2>7. UNCHANGED <<asked, missed, lowest_height, pc>> /\ todo \subseteq todo' \cup WithImports'
    BY <1>7, <2>1, <2>4 DEF SendImport
  <2>8. QED
    BY <1>1, <2>5, <2>6, <2>7, StepBy DEF IndInv
<1>8. CASE CloseImports \/ waitForAllQueues \/ Done
  <2>1. /\ pc # "read" /\ pc # "done" /\ imports' = imports /\ todo' = todo /\ asked' = asked
        /\ missed' = missed
    BY <1>8 DEF CloseImports, waitForAllQueues, Done
  <2>2. HandedInv'
    BY <1>1, <1>2, <2>1 DEF HandedInv, IndInv, WithImports, Wanted, Elements
  <2>3. ASSUME StartInv PROVE StartInv'
    BY <1>2, <2>1, <2>3 DEF StartInv, Wanted
  <2>4. QED
    BY <1>3, <1>4, <1>5, <2>1, <2>2, <2>3 DEF StepInv, IndInv
<1>9. QED
  BY <1>6, <1>7, <1>8 DEF FastSyncStep

\* Steps of an import worker.
LEMMA ImportSteps == ASSUME IndInv, NEW w \in Workers, ImportStep(w) PROVE StepInv
<1> USE DEF main, scids, writing, stored, outside, history
<1>1. /\ UNCHANGED <<pc, todo, closed, lowest_height, scid, deploys, scid_db_queue, writer,
                     index, invalid, LastIndexHeight, asked, missed, reused>>
      /\ overtaken => overtaken'
  <2>1. UNCHANGED <<pc, todo, closed, lowest_height, scid, deploys, scid_db_queue, writer,
                    index, invalid, LastIndexHeight, asked, missed, reused>>
    BY DEF ImportStep, Receive, Leave, Answer, BadAnswer, Push
  <2>2. CASE Push(w)
    BY <2>1, <2>2 DEF Push
  <2>3. CASE ~ Push(w)
    <3>1. overtaken' = overtaken
      BY <2>3 DEF ImportStep, Receive, Leave, Answer, BadAnswer
    <3>2. QED
      BY <2>1, <3>1
  <2>4. QED
    BY <2>2, <2>3
<1>2. /\ Accounted' = Accounted /\ WithWriter' = WithWriter /\ WithQueue' = WithQueue
      /\ WithScid' = WithScid
  BY <1>1 DEF Accounted, WithWriter, WithQueue, WithScid
<1>3. ASSUME Moved, OrderInv,
             Ordered(scid_processing', WithScid'), Ordered(imports', WithWorkers'),
             \A v \in Workers : Before(worker'[v].item, WithWorkers')
      PROVE  OrderInv'
  BY <1>1, <1>3, OrderKept, OrderBy
<1>4. TypeOK /\ PlacesInv
  BY DEF IndInv
<1>5. ASSUME Moved, Sound /\ Sound' => OrderInv' PROVE StepInv
  BY <1>1, <1>5, StepBy
\* What stays in the hands of the other workers.
<1>6. ASSUME \A v \in Workers : v # w => worker'[v] = worker[v],
             {worker[w].item} \cap Wanted \subseteq WithWorkers'
      PROVE  Items \cap Wanted \subseteq WithWorkers'
  BY <1>6 DEF Items, WithWorkers
<1>7. CASE Receive(w)
  <2>1. /\ imports \in Seq(Contracts) /\ imports # <<>> /\ imports' = Tail(imports)
        /\ worker[w].item = None /\ scid_processing' = scid_processing
    BY <1>4, <1>7 DEF Receive, TypeOK, PlacesInv
  <2>2. Head(imports) \in Contracts /\ Elements(imports) = {Head(imports)} \cup Elements(imports')
    BY <2>1, TailFacts
  <2>3. /\ \A v \in Workers : v # w => worker'[v] = worker[v]
        /\ \/ worker' = worker /\ Head(imports) \notin Wanted
           \/ worker'[w].item = Head(imports)
    BY <1>4, <1>7, <2>2, SetFacts, Sizes, WantedFacts DEF Receive
  <2>4. WithPipe' = WithPipe
    BY <1>2, <2>1 DEF WithPipe, Elements
  <2>5. (WithWorkers \cup {Head(imports)}) \cap Wanted \subseteq WithWorkers'
    <3>1. Items \cap Wanted \subseteq WithWorkers'
      BY <1>6, <2>1, <2>3, WantedFacts
    <3>2. Head(imports) \in Wanted => Head(imports) \in WithWorkers'
      BY <2>3 DEF WithWorkers, Items
    <3>3. WithPipe \subseteq WithWorkers'
      BY <2>4 DEF WithWorkers
    <3>4. QED
      BY <3>1, <3>2, <3>3 DEF WithWorkers
  <2>6. WithImports \cap Wanted \subseteq WithImports'
    BY <2>2, <2>5 DEF WithImports, Elements
  <2>7. Moved
    BY <1>2, <2>4, <2>5, <2>6 DEF Moved
  <2>8. ASSUME OrderInv PROVE OrderInv'
    <3>1. Ordered(imports', WithWorkers')
      BY <2>1, <2>5, <2>8, OrderedTail DEF OrderInv
    <3>2. Before(Head(imports), WithWorkers')
      BY <2>1, <2>5, <2>8, OrderedHead, BeforeGrows DEF OrderInv
    <3>3. \A v \in Workers : Before(worker'[v].item, WithWorkers')
      BY <2>3, <2>7, <2>8, <3>2, OrderKept
    <3>4. QED
      BY <1>3, <2>1, <2>7, <2>8, <3>1, <3>3, OrderKept
  <2>9. QED
    BY <1>5, <2>7, <2>8 DEF IndInv
<1>8. CASE Leave(w) \/ Answer(w) \/ BadAnswer(w)
  <2>1. imports' = imports /\ scid_processing' = scid_processing
    BY <1>8 DEF Leave, Answer, BadAnswer
  <2>2. /\ \A v \in Workers : v # w => worker'[v] = worker[v]
        /\ \/ worker'[w].item = worker[w].item
           \/ worker'[w].item = None /\ worker[w].item \notin Wanted
    <3>1. CASE Leave(w)
      BY <1>4, <3>1, SetFacts, Sizes, WantedFacts DEF Leave, PlacesInv
    <3>2. CASE Answer(w)
      <4>1. worker[w].item \in Contracts
        BY <1>4, <3>2 DEF Answer, PlacesInv
      <4>2. starting_height > Registered[worker[w].item] => worker[w].item \notin Wanted
        BY <4>1, FastSyncAssumption DEF Wanted
      <4>3. QED
        BY <1>4, <3>2, <4>1, <4>2, SetFacts, Sizes DEF Answer
    <3>3. CASE BadAnswer(w)
      <4>1. worker[w].tries \in 0 .. Retries + 1 /\ worker[w].item \in Contracts
        BY <1>4, <3>3 DEF BadAnswer, TypeOK, PlacesInv
      <4>2. worker[w].tries + 1 \in 0 .. Retries + 1
        BY <3>3, <4>1, Sizes DEF BadAnswer
      <4>3. QED
        BY <1>4, <3>3, <4>1, <4>2, SetFacts DEF BadAnswer
    <3>4. QED
      BY <1>8, <3>1, <3>2, <3>3
  <2>3. WithPipe' = WithPipe
    BY <1>2, <2>1 DEF WithPipe, Elements
  <2>4. WithWorkers \cap Wanted \subseteq WithWorkers'
    <3>1. Items \cap Wanted \subseteq WithWorkers'
      BY <1>6, <2>2 DEF WithWorkers, Items
    <3>2. QED
      BY <2>3, <3>1 DEF WithWorkers
  <2>5. Moved
    BY <1>2, <2>1, <2>3, <2>4 DEF Moved, WithImports, Elements
  <2>6. ASSUME OrderInv PROVE OrderInv'
    BY <1>3, <2>1, <2>2, <2>5, <2>6, OrderKept, NothingOrdered
  <2>7. QED
    BY <1>5, <2>5, <2>6 DEF IndInv
<1>9. CASE Push(w)
  <2>1. PICK x : x = worker[w].item
    OBVIOUS
  <2>2. /\ imports' = imports /\ scid_processing' = Append(scid_processing, x)
        /\ scid_processing \in Seq(Contracts) /\ x \in Contracts
    BY <1>4, <1>9, <2>1 DEF Push, TypeOK, PlacesInv
  <2>3. worker'[w].item = None /\ \A v \in Workers : v # w => worker'[v] = worker[v]
    BY <1>4, <1>9, SetFacts, Sizes DEF Push
  <2>4. WithPipe' = WithPipe \cup {x}
    BY <1>2, <2>2, AppendFacts DEF WithPipe, Elements
  <2>5. WithWorkers \cap Wanted \subseteq WithWorkers'
    <3>1. Items \cap Wanted \subseteq WithWorkers'
      BY <1>6, <2>1, <2>3, <2>4 DEF WithWorkers
    <3>2. QED
      BY <2>4, <3>1 DEF WithWorkers
  <2>6. Moved
    BY <1>2, <2>2, <2>4, <2>5 DEF Moved, WithImports, Elements
  <2>7. ASSUME OrderInv, ~ overtaken' PROVE OrderInv'
    <3>1. Before(x, WithScid' \cup Elements(scid_processing))
      <4>1. SUFFICES ASSUME NEW d \in Wanted, Registered[d] < Registered[x]
                     PROVE  d \in WithPipe
        BY <1>2 DEF Before, WithPipe
      <4>2. d \in WithWorkers
        BY <2>1, <2>2, <2>7, <4>1 DEF OrderInv, Before
      <4>3. ASSUME NEW v \in Workers, d = worker[v].item PROVE FALSE
        <5>1. worker[v].at \in {"call", "push"}
          BY <1>4, <4>3, WantedFacts DEF TypeOK, PlacesInv
        <5>2. QED
          BY <1>9, <2>1, <2>7, <4>1, <4>3, <5>1 DEF Push
      <4>4. QED
        BY <4>2, <4>3 DEF WithWorkers, Items
    <3>2. Ordered(scid_processing', WithScid')
      BY <1>2, <2>2, <2>7, <3>1, OrderedAppend DEF OrderInv
    <3>3. \A v \in Workers : Before(worker'[v].item, WithWorkers')
      BY <2>3, <2>6, <2>7, OrderKept, NothingOrdered
    <3>4. QED
      BY <1>3, <2>2, <2>6, <2>7, <3>2, <3>3, OrderKept
  <2>8. QED
    BY <1>5, <2>6, <2>7 DEF IndInv, Sound
<1>10. QED
  BY <1>7, <1>8, <1>9 DEF ImportStep

\* Steps of scid_handling.
LEMMA ScidSteps == ASSUME IndInv, ScidHandling PROVE StepInv
<1> USE DEF main, scids, writing, stored, outside, history
<1>1. UNCHANGED <<pc, todo, imports, lowest_height, worker, writer, index, LastIndexHeight,
                  asked, missed, overtaken>>
  BY DEF ScidHandling, TakeScid, WorkOnScid, ViewDeploys, UpdateDeploys
<1>2. Items' = Items
  BY <1>1 DEF Items
<1>3. TypeOK /\ PlacesInv
  BY DEF IndInv
<1>4. ASSUME WithPipe \cap Wanted \subseteq WithPipe'
      PROVE  /\ WithWorkers \cap Wanted \subseteq WithWorkers'
             /\ WithImports \cap Wanted \subseteq WithImports'
  BY <1>1, <1>2, <1>4 DEF WithWorkers, WithImports, Elements
<1>5. CASE TakeScid
  <2>1. /\ scid = None /\ scid_processing \in Seq(Contracts) /\ scid_processing # <<>>
        /\ scid' = Head(scid_processing) /\ scid_processing' = Tail(scid_processing)
        /\ UNCHANGED <<scid_db_queue, invalid, reused>>
    BY <1>3, <1>5 DEF TakeScid, TypeOK
  <2>2. Elements(scid_processing) = {scid'} \cup Elements(scid_processing')
    BY <2>1, TailFacts
  <2>3. Accounted' = Accounted /\ WithWriter' = WithWriter /\ WithQueue' = WithQueue
    BY <1>1, <2>1 DEF Accounted, WithWriter, WithQueue, Elements
  <2>4. WithScid \cap Wanted \subseteq WithQueue' /\ scid' \in WithScid'
        /\ WithScid \cap Wanted \subseteq WithScid'
    BY <2>1, <2>3, WantedFacts DEF WithScid
  <2>5. WithPipe \cap Wanted \subseteq WithPipe'
    BY <2>2, <2>4 DEF WithPipe, Elements
  <2>6. Moved
    BY <1>4, <2>3, <2>4, <2>5 DEF Moved
  <2>7. ASSUME OrderInv PROVE OrderInv'
    <3>1. Before(scid', WithQueue')
      BY <2>1, <2>4, <2>7, OrderedHead, BeforeGrows DEF OrderInv
    <3>2. Ordered(scid_processing', WithScid')
      <4>1. (WithScid \cup {Head(scid_processing)}) \cap Wanted \subseteq WithScid'
        BY <2>1, <2>4
      <4>2. QED
        BY <2>1, <2>7, <4>1, OrderedTail DEF OrderInv
    <3>3. QED
      BY <1>1, <2>1, <2>6, <2>7, <3>1, <3>2, OrderKept, OrderBy
  <2>8. QED
    BY <1>1, <2>1, <2>6, <2>7, StepBy DEF IndInv
<1>6. CASE WorkOnScid /\ Outcome[scid] = "stage"
  <2>1. PICK x : x = scid
    OBVIOUS
  <2>2. /\ x \in Contracts /\ scid' = None /\ scid_db_queue \in Seq(Contracts)
        /\ scid_db_queue' = Append(scid_db_queue, x)
        /\ UNCHANGED <<scid_processing, invalid, reused>>
    BY <1>3, <1>6, <2>1 DEF WorkOnScid, TypeOK
  <2>3. Accounted' = Accounted /\ WithWriter' = WithWriter /\ WithQueue' = WithQueue \cup {x}
    BY <1>1, <2>2, AppendFacts DEF Accounted, WithWriter, WithQueue, Elements
  <2>4. WithScid \subseteq WithScid'
    BY <2>1, <2>3 DEF WithScid
  <2>5. WithPipe \subseteq WithPipe'
    BY <2>2, <2>4 DEF WithPipe, Elements
  <2>6. Moved
    BY <1>4, <2>3, <2>4, <2>5 DEF Moved
  <2>7. ASSUME OrderInv PROVE OrderInv'
    <3>1. Before(x, WithWriter \cup Elements(scid_db_queue))
      BY <2>1, <2>7 DEF OrderInv, WithQueue
    <3>2. Ordered(scid_db_queue', WithWriter')
      BY <2>2, <2>3, <2>7, <3>1, OrderedAppend DEF OrderInv
    <3>3. Before(scid', WithQueue')
      BY <2>2, NothingOrdered
    <3>4. QED
      BY <1>1, <2>2, <2>6, <2>7, <3>2, <3>3, OrderKept, OrderBy
  <2>8. QED
    BY <1>1, <2>2, <2>6, <2>7, StepBy DEF IndInv
<1>7. CASE ViewDeploys
  <2>1. UNCHANGED <<scid, scid_processing, scid_db_queue, invalid, reused>>
    BY <1>7 DEF ViewDeploys
  <2>2. Moved
    BY <1>1, <2>1 DEF Moved, Accounted, WithWriter, WithQueue, WithScid, WithPipe, WithWorkers,
       WithImports, Items, Elements
  <2>3. QED
    BY <1>1, <2>1, <2>2, OrderKept, OrderBy, StepBy DEF IndInv
<1>8. CASE UpdateDeploys
  <2>1. /\ deploys.viewed /\ scid' = None /\ deploys.bytes = invalid
        /\ UNCHANGED <<scid_processing, scid_db_queue>>
    BY <1>3, <1>8 DEF UpdateDeploys, PlacesInv
  <2>2. reused => reused'
    BY <1>8 DEF UpdateDeploys
  <2>3. ASSUME ~ reused' PROVE invalid' = invalid \cup {scid}
    BY <1>8, <2>1, <2>3 DEF UpdateDeploys
  <2>4. ASSUME ~ reused' PROVE Moved
    <3>1. Accounted \subseteq Accounted' /\ scid \in Accounted'
      BY <1>1, <2>3, <2>4 DEF Accounted
    <3>2. WithWriter \subseteq WithWriter' /\ WithQueue \subseteq WithQueue'
      BY <1>1, <2>1, <3>1 DEF WithWriter, WithQueue, Elements
    <3>3. WithScid \subseteq WithScid' /\ WithPipe \subseteq WithPipe'
      BY <2>1, <3>1, <3>2 DEF WithScid, WithPipe, WithQueue, WithWriter, Elements
    <3>4. QED
      BY <1>4, <3>1, <3>2, <3>3 DEF Moved
  <2>5. ASSUME OrderInv, Moved PROVE OrderInv'
    BY <1>1, <2>1, <2>5, OrderKept, OrderBy, NothingOrdered
  <2>6. QED
    BY <1>1, <2>2, <2>4, <2>5, StepBy DEF IndInv
<1>9. CASE WorkOnScid /\ Outcome[scid] = "drop"
  <2>1. /\ scid \notin Wanted /\ scid' = None
        /\ UNCHANGED <<scid_processing, scid_db_queue, invalid, reused>>
    BY <1>9 DEF WorkOnScid, Wanted
  <2>2. Accounted' = Accounted /\ WithWriter' = WithWriter /\ WithQueue' = WithQueue
    BY <1>1, <2>1 DEF Accounted, WithWriter, WithQueue, Elements
  <2>3. WithScid \cap Wanted \subseteq WithScid'
    BY <2>1, <2>2 DEF WithScid
  <2>4. WithPipe \cap Wanted \subseteq WithPipe'
    BY <2>1, <2>3 DEF WithPipe, Elements
  <2>5. Moved
    BY <1>4, <2>2, <2>3, <2>4 DEF Moved
  <2>6. ASSUME OrderInv PROVE OrderInv'
    BY <1>1, <2>1, <2>5, <2>6, OrderKept, OrderBy, NothingOrdered
  <2>7. QED
    BY <1>1, <2>1, <2>5, <2>6, StepBy DEF IndInv
<1>10. QED
  BY <1>5, <1>6, <1>7, <1>8, <1>9 DEF ScidHandling, WorkOnScid

\* Steps of scid_db_writer and of start_printer.
LEMMA WriterSteps == ASSUME IndInv, WriterStep \/ Printer PROVE StepInv
<1> USE DEF main, scids, writing, stored, outside, history
<1>1. UNCHANGED <<pc, todo, imports, lowest_height, worker, scid, scid_processing, invalid,
                  asked, missed, overtaken, reused>>
  BY DEF WriterStep, WriterTakes, Announce, AddToIndex, StoreHeight, Printer
<1>2. Items' = Items
  BY <1>1 DEF Items
<1>3. TypeOK /\ PlacesInv
  BY DEF IndInv
<1>4. ASSUME Accounted \cap Wanted \subseteq Accounted',
             WithWriter \cap Wanted \subseteq WithWriter',
             WithQueue \cap Wanted \subseteq WithQueue'
      PROVE  Moved
  BY <1>1, <1>2, <1>4 DEF Moved, WithScid, WithPipe, WithWorkers, WithImports, Elements
<1>5. CASE WriterTakes
  <2>1. PICK x : x = Head(scid_db_queue)
    OBVIOUS
  <2>2. /\ writer.item = None /\ scid_db_queue \in Seq(Contracts) /\ scid_db_queue # <<>>
        /\ writer'.item = x /\ scid_db_queue' = Tail(scid_db_queue)
        /\ UNCHANGED <<index, LastIndexHeight>>
    BY <1>3, <1>5, <2>1 DEF WriterTakes, TypeOK, PlacesInv
  <2>3. Elements(scid_db_queue) = {x} \cup Elements(scid_db_queue')
    BY <2>1, <2>2, TailFacts
  <2>4. Accounted' = Accounted
    BY <1>1, <2>2 DEF Accounted
  <2>5. /\ WithWriter \cap Wanted \subseteq Accounted'
        /\ (WithWriter \cup {x}) \cap Wanted \subseteq WithWriter'
    BY <2>2, <2>4, WantedFacts DEF WithWriter
  <2>6. WithQueue \cap Wanted \subseteq WithQueue'
    BY <2>3, <2>5 DEF WithQueue, Elements
  <2>7. Moved
    BY <1>4, <2>4, <2>5, <2>6
  <2>8. ASSUME OrderInv PROVE OrderInv'
    <3>1. Before(writer'.item, Accounted')
      BY <2>1, <2>2, <2>5, <2>8, OrderedHead, BeforeGrows DEF OrderInv
    <3>2. Ordered(scid_db_queue', WithWriter')
      BY <2>1, <2>2, <2>5, <2>8, OrderedTail DEF OrderInv
    <3>3. QED
      BY <1>1, <2>7, <2>8, <3>1, <3>2, OrderKept, OrderBy
  <2>9. QED
    BY <1>1, <2>2, <2>7, <2>8, StepBy DEF IndInv
<1>6. CASE Announce \/ AddToIndex \/ Printer
  <2>1. /\ writer'.item = writer.item /\ index \subseteq index'
        /\ UNCHANGED <<scid_db_queue, LastIndexHeight>>
    BY <1>3, <1>6 DEF Announce, AddToIndex, Printer, TypeOK
  <2>2. Moved
    BY <1>1, <1>4, <2>1 DEF Accounted, WithWriter, WithQueue, Elements
  <2>3. QED
    BY <1>1, <2>1, <2>2, OrderKept, OrderBy, StepBy DEF IndInv
<1>7. CASE StoreHeight
  <2>1. PICK x : x = writer.item
    OBVIOUS
  <2>2. /\ x \in index /\ x \in Contracts /\ writer'.item = None /\ LastIndexHeight' = Block_Height[x]
        /\ UNCHANGED <<index, scid_db_queue>>
    BY <1>3, <1>7, <2>1, EmptyHands DEF StoreHeight, PlacesInv
  <2>3. Accounted' = Accounted /\ x \in Accounted
    BY <1>1, <2>2 DEF Accounted
  <2>4. WithWriter \subseteq WithWriter'
    BY <2>1, <2>3 DEF WithWriter
  <2>5. WithQueue \subseteq WithQueue'
    BY <2>2, <2>4 DEF WithQueue, Elements
  <2>6. Moved
    BY <1>4, <2>3, <2>4, <2>5
  <2>7. ASSUME OrderInv PROVE OrderInv'
    BY <1>1, <2>2, <2>6, <2>7, OrderKept, OrderBy, NothingOrdered
  <2>8. HandedInv' /\ (StartInv => StartInv')
    BY <1>1, <2>6, RestKept DEF IndInv, HandedInv, Wanted
  <2>9. ASSUME Sound, OrderInv PROVE HeightInv'
    <3>1. SUFFICES ASSUME NEW c \in Wanted, Block_Height[c] < Block_Height[x]
                   PROVE  c \in Accounted
      BY <2>2, <2>3 DEF HeightInv, Wanted
    <3>2. Registered[c] < Registered[x]
      <4>1. /\ Registered[c] \in Int /\ Registered[x] \in Int
            /\ Block_Height[c] \in Int /\ Block_Height[x] \in Int /\ c \in Contracts
        BY <2>2, WantedFacts, FastSyncAssumption
      <4>2. Registered[x] <= Registered[c] => Block_Height[x] <= Block_Height[c]
        BY <2>2, <2>9, <4>1 DEF Sound, HonestRegistry
      <4>3. QED
        BY <3>1, <4>1, <4>2
    <3>3. QED
      BY <2>1, <2>2, <2>9, <3>2 DEF OrderInv, Before
  <2>10. Sound' => Sound
    BY <1>1 DEF Sound, HonestRegistry
  <2>11. QED
    BY <2>7, <2>8, <2>9, <2>10 DEF StepInv, IndInv
<1>8. QED
  BY <1>5, <1>6, <1>7 DEF WriterStep

\* The process ends and starts again.
LEMMA RestartStep == ASSUME IndInv, Restart PROVE StepInv
<1> USE DEF stored
<1>1. /\ UNCHANGED <<index, invalid, LastIndexHeight, overtaken, reused>>
      /\ asked' = {} /\ missed' = {} /\ pc' \in FirstSteps(lowest_height')
      /\ imports' = <<>> /\ scid_processing' = <<>> /\ scid_db_queue' = <<>>
      /\ scid' = None /\ writer'.item = None /\ \A w \in Workers : worker'[w].item = None
  BY EmptyHands DEF Restart
<1>2. HandedInv'
  BY <1>1 DEF HandedInv
<1>3. OrderInv'
  BY <1>1, NothingOrdered, OrderBy
<1>4. Accounted' = Accounted
  BY <1>1 DEF Accounted
<1>5. ASSUME HeightInv PROVE HeightInv'
  BY <1>1, <1>4, <1>5 DEF HeightInv, Wanted
<1>6. ASSUME Sound, HeightInv PROVE StartInv'
  <2>1. SUFFICES ASSUME NEW c \in Wanted, c \notin Accounted
                 PROVE  Registered[c] >= lowest_height' /\ Block_Height[c] >= lowest_height'
    BY <1>1, <1>4, FirstStepFacts DEF StartInv, Wanted
  <2>2. /\ LastIndexHeight \in Int /\ lowest_height' \in Int /\ lowest_height' <= LastIndexHeight
    BY RestartFacts DEF IndInv, TypeOK
  <2>3. Registered[c] \in Int /\ Block_Height[c] \in Int /\ c \in Contracts
    BY WantedFacts, FastSyncAssumption
  <2>4. Block_Height[c] >= LastIndexHeight
    BY <1>6, <2>1, <2>2, <2>3 DEF HeightInv
  <2>5. Registered[c] >= Block_Height[c]
    BY <1>6, <2>3 DEF Sound, HonestRegistry
  <2>6. QED
    BY <2>2, <2>3, <2>4, <2>5
<1>7. Sound' => Sound
  BY <1>1 DEF Sound, HonestRegistry
<1>8. QED
  BY <1>2, <1>3, <1>5, <1>6, <1>7 DEF StepInv, IndInv

-----------------------------------------------------------------------------
(* The theorems                                                            *)

\* The first process starts with the invariant.
LEMMA InitInv == Init => IndInv
<1> SUFFICES ASSUME Init PROVE IndInv
  OBVIOUS
<1>1. TypeOK /\ PlacesInv
  BY InitPlaces
<1>2. HandedInv
  BY DEF Init, HandedInv
<1>3. OrderInv
  <2>1. writer.item = None /\ \A w \in Workers : worker[w].item = None
    BY EmptyHands DEF Init
  <2>2. QED
    BY <2>1, NothingOrdered DEF Init, OrderInv
<1>4. \A c \in Wanted : Registered[c] \in Nat /\ Block_Height[c] \in Nat
  BY WantedFacts, FastSyncAssumption
<1>5. HeightInv /\ StartInv
  BY <1>4, FirstStepFacts DEF Init, HeightInv, StartInv
<1>6. QED
  BY <1>1, <1>2, <1>3, <1>5 DEF IndInv

\* Every step keeps the invariant.
LEMMA NextInv == IndInv /\ [Next]_vars => IndInv'
<1> SUFFICES ASSUME IndInv, [Next]_vars PROVE IndInv'
  OBVIOUS
<1>1. TypeOK' /\ PlacesInv'
  BY NextPlaces DEF IndInv
<1>2. CASE UNCHANGED vars \/ NewBlock
  <2>1. Moved
    BY <1>2 DEF NewBlock, vars, main, scids, writing, stored, Moved, Accounted, WithWriter, WithQueue,
       WithScid, WithPipe, WithWorkers, WithImports, Items, Elements
  <2>2. UNCHANGED <<writer, scid_db_queue, scid, scid_processing, worker, imports, todo, asked, missed,
                    lowest_height, pc, LastIndexHeight, reused, overtaken>>
    BY <1>2 DEF NewBlock, vars, main, scids, writing, stored, history
  <2>3. StepInv
    BY <2>1, <2>2, OrderKept, OrderBy, StepBy DEF IndInv
  <2>4. QED
    BY <1>1, <2>3 DEF StepInv, IndInv
<1>3. CASE Next /\ ~ NewBlock
  <2>1. StepInv
    BY <1>3, FastSyncSteps, ImportSteps, ScidSteps, WriterSteps, RestartStep
       DEF Next, Stop, Panic
  <2>2. QED
    BY <1>1, <2>1 DEF StepInv, IndInv
<1>4. QED
  BY <1>2, <1>3

\* The invariant holds in every reachable state.
THEOREM Invariance == Spec => []IndInv
<1>1. Init => IndInv
  BY InitInv
<1>2. IndInv /\ [Next]_vars => IndInv'
  BY NextInv
<1>3. QED
  BY <1>1, <1>2, PTL DEF Spec

\* The variables keep their types and the channels their capacities.
THEOREM TypeCorrect == Spec => []TypeOK
<1>1. IndInv => TypeOK
  BY DEF IndInv
<1>2. QED
  BY <1>1, Invariance, PTL

\* The invariant says of a finished fast sync that its imports are handed on.
LEMMA HandedOn == IndInv => ImportsHandedOn
<1> SUFFICES ASSUME IndInv, pc = "done", ~ reused, NEW c \in asked \cap Wanted
             PROVE  c \in Accounted \cup InPipe
  BY DEF ImportsHandedOn
<1>1. todo = {} /\ \A w \in Workers : worker[w].at = "left"
  BY DEF IndInv, PlacesInv
<1>2. imports = <<>> /\ Items \subseteq {None}
  BY <1>1, FastSyncAssumption DEF IndInv, PlacesInv, Items
<1>3. c \in WithImports /\ Elements(imports) = {}
  BY <1>1, <1>2 DEF IndInv, HandedInv, Elements
<1>4. c \in WithPipe
  BY <1>2, <1>3, WantedFacts DEF WithImports, WithWorkers
<1>5. QED
  BY <1>4 DEF WithPipe, WithScid, WithQueue, WithWriter, InPipe

\* When the fast sync returns, every contract it read from the registry is in
\* the database or behind scid_processing, although waitForAllQueues looks at
\* the channels once and before the workers have ended.
THEOREM ImportsHandedOnHolds == Spec => []ImportsHandedOn
  BY HandedOn, Invariance, PTL

\* However often and wherever the process ends, and however the chain and the
\* registry grow meanwhile, no contract that was listed when the process read the
\* registry is left out by the fast sync and by the passes after it: as long as no
\* import overtook one registered earlier, no invalid deploy was lost, and the
\* heights that the registry states are what HonestRegistry says, no lower than
\* those of the blocks and in the order of the blocks and of the listing.
THEOREM ResumesCompleteHolds == Spec => []ResumesComplete
<1>1. IndInv => ResumesComplete
  <2> SUFFICES ASSUME IndInv, pc = "done", Sound, NEW c \in Wanted,
                      c \notin missed
               PROVE  c \in Settled
    BY DEF ResumesComplete, Sound
  <2>1. StartInv /\ ImportsHandedOn
    BY HandedOn DEF IndInv
  <2>2. QED
    BY <2>1, WantedFacts DEF StartInv, ImportsHandedOn, Sound, Settled
<1>2. QED
  BY <1>1, Invariance, PTL

\* No invalid deploy is forgotten unless two commits of scid_db_writer came
\* between the two transactions of StoreInvalidSCIDDeploys.
THEOREM InvalidKeptHolds == Spec => InvalidKept
<1>1. IndInv /\ [Next]_vars => [~ reused' => invalid \subseteq invalid']_vars
  <2> SUFFICES ASSUME IndInv, Next, ~ reused' PROVE invalid \subseteq invalid'
    OBVIOUS
  <2>1. CASE UpdateDeploys
    BY <2>1 DEF IndInv, PlacesInv, UpdateDeploys
  <2>2. CASE ~ UpdateDeploys
    <3>1. invalid' = invalid
      BY <2>2 DEF Next, FastSyncStep, ReadRegistry, SendImport, CloseImports, waitForAllQueues,
         Done, ScidHandling, TakeScid, WorkOnScid, ViewDeploys, WriterStep, WriterTakes,
         Announce, AddToIndex, StoreHeight, Printer, Stop, Restart, Panic, ImportStep, Receive,
         Leave, Answer, BadAnswer, Push, NewBlock, stored
    <3>2. QED
      BY <3>1
  <2>3. QED
    BY <2>1, <2>2
<1>2. QED
  BY <1>1, Invariance, PTL DEF Spec, InvalidKept
=============================================================================
