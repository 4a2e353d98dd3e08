--------------------------- MODULE VariableHistory ---------------------------
(***************************************************************************)
(* What the queries about one contract's variables answer, against what    *)
(* the contract's variables were.  The chain installs the contract and     *)
(* calls it; the indexer stores a snapshot of all variables for each of    *)
(* these heights, in any order (module Pipeline says why); the readers     *)
(* GetSCIDVariableDetailsAtTopoheight, GetAllSCIDVariableDetails,          *)
(* GetSCIDValuesByKey and GetSCIDKeysByValue merge the snapshots.          *)
(*                                                                         *)
(* A snapshot is a function from the variables that exist to their values. *)
(* Keys and values are the numbers a contract stores, which JSON decoding  *)
(* turns into float64 on the way into the database and out of it.          *)
(***************************************************************************)
EXTENDS Integers

CONSTANTS
    Keys, Values,    \* the numbers a contract stores
    MaxNumber,       \* below 2^64 - 2^10, from where the conversion to uint64 is undefined
    Mantissa,        \* bits of a float64's mantissa (53)
    Flags,           \* the values --fastsync may have, from start to start
    InstallHeight,   \* height of the transaction that installs the contract
    MaxHeight,       \* bound: the chain stops growing at this height
    NameService      \* TRUE for the contract pulled at every start

ASSUME HistoryAssumption ==
    /\ InstallHeight \in Nat /\ MaxHeight \in Nat /\ InstallHeight <= MaxHeight
    /\ NameService \in BOOLEAN /\ Flags \subseteq BOOLEAN
    /\ Mantissa \in Nat \ {0} /\ MaxNumber \in Nat
    /\ Keys \cup Values \subseteq 0 .. MaxNumber

VARIABLES
    chain,       \* chain[h]: the variables after height h
    tip,         \* the last height of the chain
    invoked,     \* heights at which the contract is called
    snapshots,   \* bucket <scid>vars
    heights,     \* bucket <scid>heights, as a set: its readers sort it
    fast         \* something was indexed with the flag --fastsync

vars == <<chain, tip, invoked, snapshots, heights, fast>>

NoVariables == [k \in {} |-> 0]

\* GetSC rejects an answer without variables, and the indexer then leaves the
\* transaction out; a contract of the index always has some.
States == (UNION {[K -> Values] : K \in SUBSET Keys}) \ {NoVariables}

TypeOK ==
    /\ tip \in InstallHeight .. MaxHeight
    /\ DOMAIN chain = 0 .. tip /\ \A h \in 0 .. tip : chain[h] \in States \cup {NoVariables}
    /\ invoked \subseteq InstallHeight + 1 .. tip
    /\ DOMAIN snapshots \subseteq {-1} \cup InstallHeight .. tip
    /\ \A h \in DOMAIN snapshots : \E K \in (SUBSET Keys) \ {{}} : snapshots[h] \in [K -> Nat]
    /\ heights \subseteq invoked /\ fast \in BOOLEAN

\* The contract has just been installed; nothing is indexed.
Init ==
    /\ tip = InstallHeight
    /\ \E s \in States : chain = [h \in 0 .. tip |->
                                     IF h = tip THEN s ELSE NoVariables]
    /\ invoked = {}
    /\ snapshots = <<>>
    /\ heights = {}
    /\ fast = FALSE

\* A block that leaves the contract alone.
OtherBlock ==
    /\ tip < MaxHeight
    /\ tip' = tip + 1
    /\ chain' = [h \in 0 .. tip' |-> IF h = tip' THEN chain[tip] ELSE chain[h]]
    /\ UNCHANGED <<invoked, snapshots, heights, fast>>

\* A block with a call that leaves the contract in state s.
InvokeBlock(s) ==
    /\ tip < MaxHeight
    /\ tip' = tip + 1
    /\ chain' = [h \in 0 .. tip' |-> IF h = tip' THEN s ELSE chain[h]]
    /\ invoked' = invoked \cup {tip'}
    /\ UNCHANGED <<snapshots, heights, fast>>

Put(map, h, s) == [i \in DOMAIN map \cup {h} |-> IF i = h THEN s ELSE map[i]]

Highest(S) == CHOOSE m \in S : \A x \in S : x <= m
Lowest(S)  == CHOOSE m \in S : \A x \in S : m <= x

\* The powers of two.
Power[n \in Nat] == IF n = 0 THEN 1 ELSE 2 * Power[n - 1]

\* The exponent of n as a float64: its mantissa has at most Mantissa bits, and
\* no fewer if the exponent is not 0.
Exponent(n) ==
    CHOOSE e \in 0 .. n : /\ n < Power[Mantissa + e]
                          /\ e = 0 \/ n >= Power[Mantissa + e - 1]

\* The float64 nearest to n, of two the one with an even mantissa.
Nearest(n) ==
    LET p == Power[Exponent(n)]
        q == n \div p
        r == 2 * (n % p)
    IN  (IF r > p \/ (r = p /\ q % 2 = 1) THEN q + 1 ELSE q) * p

\* JSON decoding of a number, which may double it at most.
Float == [n \in 0 .. 2 * MaxNumber |-> Nearest(n)]

\* GetSCVariables: the keys of the daemon's answer are decoded as they are, the
\* values as float64.
GetSCVariables(s) == [k \in DOMAIN s |-> Float[s[k]]]

\* The variables work_on_scids asks for: with the flag those of the current
\* height, whatever the height they will be stored under.
Asked(h, flag) == GetSCVariables(chain[IF flag THEN tip ELSE h])

\* Mutated: the install is recorded as an interaction.
IndexInstallAsCall(flag) ==
    /\ snapshots' = Put(snapshots, InstallHeight, Asked(InstallHeight, flag))
    /\ heights' = heights \cup {InstallHeight}
    /\ fast' = (fast \/ flag)
    /\ UNCHANGED <<chain, tip, invoked>>

\* AddSCIDToIndex for the install.
IndexInstall(flag) ==
    /\ snapshots' = Put(snapshots, InstallHeight, Asked(InstallHeight, flag))
    /\ fast' = (fast \/ flag)
    /\ UNCHANGED <<chain, tip, invoked, heights>>

\* AddSCIDToIndex for a call at height h.
IndexInvoke(h, flag) ==
    /\ h \in invoked
    /\ snapshots' = Put(snapshots, h, Asked(h, flag))
    /\ heights' = heights \cup {h}
    /\ fast' = (fast \/ flag)
    /\ UNCHANGED <<chain, tip, invoked>>

\* Start_gnomon_indexer deposits the latest variables of the name service
\* under height -1 at every start.
DepositLatest ==
    /\ NameService
    /\ snapshots' = Put(snapshots, -1, GetSCVariables(chain[tip]))
    /\ UNCHANGED <<chain, tip, invoked, heights, fast>>

Next ==
    \/ OtherBlock
    \/ \E s \in States : InvokeBlock(s)
    \/ \E flag \in Flags : IndexInstall(flag) \/ \E h \in invoked : IndexInvoke(h, flag)
    \/ DepositLatest

Spec == Init /\ [][Next]_vars

-----------------------------------------------------------------------------
(* The readers                                                             *)

\* One snapshot enters vs2k, which maps each decoded key to the values that may
\* be answered for it: two keys that decode to one leave the value of whichever
\* comes last in the snapshot.  The snapshot replaces the variables it has and
\* keeps those it lacks.
Merge(vs2k, s) ==
    LET Of(k) == {Float[s[j]] : j \in {i \in DOMAIN s : Float[i] = k}}
    IN  [k \in DOMAIN vs2k \cup {Float[i] : i \in DOMAIN s} |->
            IF Of(k) # {} THEN Of(k) ELSE vs2k[k]]

\* The loop over the heights of hs in ascending order, -1 being the first there
\* may be: vs2k after n heights, of which those not in hs have no turn.
MergeAscending(hs) ==
    LET vs2k[n \in Nat] ==
            IF n = 0 THEN NoVariables
            ELSE IF n - 2 \in hs THEN Merge(vs2k[n - 1], snapshots[n - 2])
            ELSE vs2k[n - 1]
    IN  vs2k[tip + 2]

\* Mutated: the sort that the comment in the code offers ("just swap > with <").
DetailsMostRecentFirst(topoheight) ==
    LET vs2k[n \in Nat] ==
            IF n = 0 THEN NoVariables
            ELSE IF tip + 1 - n \in DOMAIN snapshots /\ tip + 1 - n <= topoheight
                 THEN Merge(vs2k[n - 1], snapshots[tip + 1 - n])
            ELSE vs2k[n - 1]
    IN  vs2k[tip + 2]

\* Mutated: the loop does not break at the requested height.
DetailsWithoutBreak(topoheight) == MergeAscending(DOMAIN snapshots)

GetSCIDVariableDetailsAtTopoheight(topoheight) ==
    MergeAscending({h \in DOMAIN snapshots : h <= topoheight})

GetAllSCIDVariableDetails == MergeAscending(DOMAIN snapshots)

\* Mutated: the heights are sorted in ascending order.
GetInteractionIndexAscending(topoheight) ==
    IF heights = {} THEN 0
    ELSE IF topoheight > Lowest(heights) \/ topoheight < 0 THEN Lowest(heights)
    ELSE LET below == {h \in heights : h <= topoheight}
         IN  IF below = {} THEN 0 ELSE Highest(below)

\* The heights are sorted in descending order and the loop goes on after the
\* first match, so of those not above topoheight the lowest is the result.
GetInteractionIndex(topoheight) ==
    IF heights = {} THEN 0
    ELSE IF topoheight > Highest(heights) \/ topoheight < 0 THEN Highest(heights)
    ELSE LET below == {h \in heights : h <= topoheight}
         IN  IF below = {} THEN 0 ELSE Lowest(below)

\* The key and the value asked for are compared with decoded ones.  The code
\* reads the heights in one View and the snapshots in the next; both are of one
\* state here, so a write that comes in between is not shown.
GetSCIDValuesByKey(key, height) ==
    LET variables == GetSCIDVariableDetailsAtTopoheight(GetInteractionIndex(height))
    IN  UNION {variables[k] : k \in DOMAIN variables \cap {key}}

GetSCIDKeysByValue(val, height) ==
    LET variables == GetSCIDVariableDetailsAtTopoheight(GetInteractionIndex(height))
    IN  {k \in DOMAIN variables : val \in variables[k]}

-----------------------------------------------------------------------------
(* Properties                                                              *)

\* Everything that happened to the contract up to height h is indexed.
IndexedUpTo(h) ==
    {InstallHeight} \cup {i \in invoked : i <= h} \subseteq DOMAIN snapshots

\* No other variable of state s has a key that is decoded as k is.
Sole(k, s) == \A j \in DOMAIN s : Float[j] = Float[k] => j = k

\* A variable that existed at a height is answered with the value it had then
\* as soon as everything up to that height is indexed, in whatever order it
\* was and whatever later heights are there already; key and value up to the
\* conversion to float64, which is exact below 2^Mantissa.  With the flag
\* --fastsync only the newest state is promised, see NewestQueryExact.
ExistingVariablesExact ==
    \A h \in InstallHeight .. tip : ~ fast /\ IndexedUpTo(h) =>
        LET details == GetSCIDVariableDetailsAtTopoheight(h) IN
        \A k \in DOMAIN chain[h] : Sole(k, chain[h]) =>
            /\ Float[k] \in DOMAIN details
            /\ details[Float[k]] = {Float[chain[h][k]]}

\* bbolt.go:922 "Gets SC variables at a given topoheight": a value is never
\* answered for a height before the variable (or one whose key is decoded to
\* the same) first had it, whatever later heights are indexed, unless the latest
\* state was deposited under -1 or stored under an earlier height by --fastsync.
NoFutureValues ==
    (-1 \notin DOMAIN snapshots /\ ~ fast) => \A h \in 0 .. tip :
        LET details == GetSCIDVariableDetailsAtTopoheight(h) IN
        \A k \in DOMAIN details : \A v \in details[k] :
            \E i \in 0 .. h : \E j \in DOMAIN chain[i] :
                Float[j] = k /\ Float[chain[i][j]] = v

\* A query for the newest state (height -1, or any above the last call) gives
\* the current value of an existing variable and finds it by its value, once
\* a contract that has been called is indexed, with or without the flag
\* --fastsync, if key and value are below 2^Mantissa.
NewestQueryExact ==
    IndexedUpTo(tip) /\ heights = invoked /\ invoked # {} =>
        \A k \in DOMAIN chain[tip], h \in {-1, tip + 1} :
            LET v == chain[tip][k] IN
            k < Power[Mantissa] /\ v < Power[Mantissa] /\ Sole(k, chain[tip]) =>
                /\ GetSCIDValuesByKey(k, h) = {v}
                /\ k \in GetSCIDKeysByValue(v, h)
                /\ GetAllSCIDVariableDetails[k] = {v}

\* bbolt.go:1197 "Gets SC values by key at given topoheight": from the first
\* call of a contract on, an existing variable is answered with its value.
ValuesByKeyAtHeight ==
    \A h \in InstallHeight .. tip :
        IndexedUpTo(h) /\ heights = invoked /\ (\E i \in heights : i <= h) =>
        \A k \in DOMAIN chain[h] : GetSCIDValuesByKey(k, h) = {chain[h][k]}

=============================================================================
