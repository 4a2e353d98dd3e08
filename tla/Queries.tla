------------------------------ MODULE Queries ------------------------------
(***************************************************************************)
(* The readers of the database: a WebSocket session (wshandler,            *)
(* wsHandleClient, reply), whose methods take one or several View          *)
(* transactions while scid_db_writer and the listeners of NormalTxIndex    *)
(* commit theirs, and the statistics that the HTTP API caches and          *)
(* refreshes by a timer.                                                   *)
(*                                                                         *)
(* StoreOwner writes the buckets owner, headers, class, tags and height in *)
(* one transaction: they are one set of contracts here.                    *)
(***************************************************************************)
EXTENDS Classify, NormalTxIndex, FiniteSets

CONSTANTS
    Height, Code,         \* the heights and codes of the contracts
    Containing,           \* Containing[p]: the texts that p is a part of
    Jobs,                 \* what scid_db_writer stores, in order
    Requests,             \* what a client may ask
    MaxRequests,          \* bound: requests of a session
    MaxStops              \* bound: restarts

ASSUME QueriesAssumption ==
    /\ IsFiniteSet(Scids)
    /\ Height \in [Scids -> Int] /\ Code \in [Scids -> SUBSET Terms]
    /\ Jobs \in Seq([method : {"install", "invoke"}, scid : Scids, signer : STRING])
    /\ Containing \in [{r.arg : r \in Requests} -> SUBSET STRING]
    /\ {MaxRequests, MaxStops} \subseteq Nat
    /\ Requests \subseteq [method : {"class", "tag", "addr", "one", "other"}, arg : STRING]

VARIABLES
    owner,      \* the contracts StoreOwner has stored
    calls,      \* the pairs <<contract, signer>> StoreInvokeDetails has stored
    job,        \* the writer's place
    pending,    \* requests sent and not read
    handler,    \* the request in hand and what was read for it
    sent, asked, replies,  \* of this session: requests, those with a known method, replies
    last,       \* the last reply until the next request, with what held when it was
                \* begun and now
    stats, timer,  \* the cached statistics and whether statsTimer is running
    stops

store   == <<owner, calls, job>>
session == <<pending, handler, sent, asked, replies, last>>
cache   == <<stats, timer>>
qvars   == <<vars, store, session, cache, stops>>

None == [method |-> "none", arg |-> ""]
Free == [at |-> "read", req |-> None, todo |-> {}, found |-> <<>>, before |-> {}]
NoReply == [req |-> None, answer |-> <<>>, before |-> {}, now |-> {}]

QTypeOK ==
    /\ TypeOK
    /\ owner \subseteq Scids /\ job \in 1 .. Len(Jobs) + 1
    /\ stops \in 0 .. MaxStops
    /\ replies \in 0 .. asked /\ asked \in 0 .. sent /\ sent \in 0 .. MaxRequests
    /\ timer \in BOOLEAN
    /\ handler.at \in {"read", "second", "owners", "each", "left"}
    /\ handler.req \in Requests \cup {None} /\ handler.todo \subseteq Scids
    /\ ToSet(handler.found) \cup handler.before \subseteq Scids
    /\ stats.indexedscs \subseteq Scids /\ stats.countSCs \in 0 .. Cardinality(Scids)

QInit ==
    /\ Init
    /\ owner = {} /\ calls = {} /\ job = 1
    /\ pending = <<>> /\ handler = Free /\ sent = 0 /\ asked = 0 /\ replies = 0
    /\ last = NoReply
    /\ stats = [indexedscs |-> {}, countSCs |-> 0] /\ timer = TRUE /\ stops = 0

-----------------------------------------------------------------------------
(* The queries                                                             *)

GetAllOwnersAndSCIDs == owner

\* Mutated: in the order of the bucket's keys.
InAnyOrder(S) == SetToSeqs(S)

\* GetAllSCIDs: sorted by height.
InHeightOrder(S) ==
    {s \in SetToSeqs(S) : \A i, j \in DOMAIN s : i < j => Height[s[i]] <= Height[s[j]]}

\* strings.Contains.
HasPart(text, part) == text \in Containing[part]

\* A class is asked for by any part of it: one request may get several classes.
GetAllSCIDsByClass(class) ==
    {s \in owner : HasPart(ClassOf(s, CodeAsked(s, "install", Code[s])), class)}

\* The tags are stored in one text, joined by commas, and a part without a comma
\* is in it if it is in one of the tags.
GetAllSCIDsByTag(tag) ==
    {s \in owner : \E t \in ToSet(TagsOf(CodeAsked(s, "install", Code[s]))) : HasPart(t, tag)}

\* What the first transaction of a list by class or by tag finds.
Matching(req) ==
    IF req.method = "class" THEN GetAllSCIDsByClass(req.arg) ELSE GetAllSCIDsByTag(req.arg)

GetAllNormalTxWithSCIDByAddr(addr) ==
    IF addr \in Addresses THEN normaltxwithscid[addr] ELSE <<>>

\* "len(split) > 1": the sender has the part asked for in it.
GetAllSCIDInvokeDetailsBySigner(scid, signerPart) ==
    {c \in calls : c[1] = scid /\ HasPart(c[2], signerPart)}

\* What GetSCIDInteractionByAddr collects: the contracts that the normal
\* transactions of an address name, and those it called.
NormalScids(addr) == {e.scid : e \in ToSet(GetAllNormalTxWithSCIDByAddr(addr))}
CalledScids(addr) ==
    {s \in owner \ {NAMESERVICE} : GetAllSCIDInvokeDetailsBySigner(s, addr) # {}}

-----------------------------------------------------------------------------
(* The writers                                                             *)

\* scid_db_writer: StoreOwner at an install, StoreInvokeDetails at a call, and
\* nothing for what work_on_scids did not pass on.
WriterStep ==
    /\ job <= Len(Jobs)
    /\ LET j      == Jobs[job]
           staged == ~Dropped(j.scid, j.method, Code[j.scid])
       IN  /\ owner' = owner \cup {s \in {j.scid} : staged /\ j.method = "install"}
           /\ calls' = calls \cup {c \in {<<j.scid, j.signer>>} : staged /\ j.method = "invoke"}
    /\ job' = job + 1
    /\ UNCHANGED <<vars, session, cache, stops>>

ListenerStep(l) == (View(l) \/ Update(l)) /\ UNCHANGED <<store, session, cache, stops>>

-----------------------------------------------------------------------------
(* A WebSocket session                                                     *)

\* A client sends when its last request has been read: the handler reads one
\* after the other in any case.
Send(r) ==
    /\ sent < MaxRequests /\ pending = <<>>
    /\ sent' = sent + 1 /\ pending' = Append(pending, r)
    /\ asked' = IF r.method = "other" THEN asked ELSE asked + 1
    /\ last' = NoReply
    /\ UNCHANGED <<vars, store, handler, replies, cache, stops>>

Reply(r, answer, before, now) ==
    /\ replies' = replies + 1
    /\ last' = [req |-> r, answer |-> answer, before |-> before, now |-> now]
    /\ handler' = Free

\* wsjson.Read returns the next request.
Reads(method) ==
    /\ handler.at = "read" /\ pending # <<>> /\ Head(pending).method = method
    /\ pending' = Tail(pending)
    /\ UNCHANGED <<vars, store, sent, asked, cache, stops>>

\* A method that takes one View transaction; GetAllSCIDs stands for them.
GetAllSCIDs ==
    /\ Reads("one")
    /\ \E s \in InHeightOrder(owner) : Reply(Head(pending), s, owner, owner)

\* GetAllSCIDsByClass and GetAllSCIDsByTag: the contracts that match in one
\* transaction, all contracts in height order in the next; those of the first
\* are picked from the list of the second.
ByClassFirst ==
    /\ \E m \in {"class", "tag"} : Reads(m)
    /\ LET found == Matching(Head(pending))
       IN  handler' = [at |-> "second", req |-> Head(pending), todo |-> found,
                       found |-> <<>>, before |-> found]
    /\ last' = NoReply /\ UNCHANGED replies

ByClassSecond ==
    /\ handler.at = "second"
    /\ \E s \in InHeightOrder(owner \cap handler.todo) :
         Reply(handler.req, s, handler.before, Matching(handler.req))
    /\ UNCHANGED <<vars, store, pending, sent, asked, cache, stops>>

\* GetSCIDInteractionByAddr: the normal transactions, then the owners, then the
\* calls of one contract after the other, each in a transaction of its own.
ByAddrFirst ==
    /\ Reads("addr")
    /\ LET a == Head(pending).arg
       IN  \E s \in SetToSeqs(NormalScids(a)) :
             handler' = [at |-> "owners", req |-> Head(pending), todo |-> {},
                         found |-> s, before |-> NormalScids(a) \cup CalledScids(a)]
    /\ last' = NoReply /\ UNCHANGED replies

ByAddrOwners ==
    /\ handler.at = "owners"
    /\ handler' = [handler EXCEPT !.at = "each", !.todo = GetAllOwnersAndSCIDs \ {NAMESERVICE}]
    /\ UNCHANGED <<vars, store, pending, sent, asked, replies, last, cache, stops>>

\* Mutated: a contract that is found twice is listed twice.
AddFoundAgain(k) ==
    IF GetAllSCIDInvokeDetailsBySigner(k, handler.req.arg) # {}
    THEN Append(handler.found, k) ELSE handler.found

AddFound(k) ==
    IF /\ GetAllSCIDInvokeDetailsBySigner(k, handler.req.arg) # {}
       /\ k \notin ToSet(handler.found)
    THEN Append(handler.found, k) ELSE handler.found

ByAddrEach ==
    /\ handler.at = "each" /\ handler.todo # {}
    /\ \E k \in handler.todo :
         handler' = [handler EXCEPT !.todo = @ \ {k}, !.found = AddFound(k)]
    /\ UNCHANGED <<vars, store, pending, sent, asked, replies, last, cache, stops>>

ByAddrReply ==
    /\ handler.at = "each" /\ handler.todo = {}
    /\ Reply(handler.req, handler.found, handler.before,
             NormalScids(handler.req.arg) \cup CalledScids(handler.req.arg))
    /\ UNCHANGED <<vars, store, pending, sent, asked, cache, stops>>

\* Mutated: wshandler leaves its loop, and the connection as it is.
UnknownLeaves ==
    /\ Reads("other")
    /\ handler' = [Free EXCEPT !.at = "left"]
    /\ last' = NoReply /\ UNCHANGED replies

\* A method reply does not know: errDisconnected, which is no normal
\* disconnect, so the loop goes on with the next request and nothing is sent.
Unknown ==
    /\ Reads("other")
    /\ last' = NoReply /\ UNCHANGED <<handler, replies>>

HandlerStep ==
    \/ GetAllSCIDs \/ ByClassFirst \/ ByClassSecond \/ ByAddrFirst \/ ByAddrOwners
    \/ ByAddrEach \/ ByAddrReply \/ Unknown

NewSession ==
    /\ pending' = <<>> /\ handler' = Free /\ last' = NoReply
    /\ sent' = 0 /\ asked' = 0 /\ replies' = 0

\* The client goes and another one comes.
Disconnect ==
    /\ sent # 0
    /\ NewSession
    /\ UNCHANGED <<vars, store, cache, stops>>

-----------------------------------------------------------------------------

(* The HTTP API                                                            *)

\* collectStats: the list and its length, from one transaction.
Collected == [indexedscs |-> GetAllOwnersAndSCIDs,
              countSCs |-> Cardinality(GetAllOwnersAndSCIDs)]

\* Mutated: the timer is not reset.
CollectOnce ==
    /\ timer
    /\ timer' = FALSE
    /\ stats' = Collected
    /\ UNCHANGED <<vars, store, session, stops>>

\* statsTimer fires: the statistics are collected and the timer is set again.
collectStats ==
    /\ timer
    /\ timer' = TRUE
    /\ stats' = Collected
    /\ UNCHANGED <<vars, store, session, stops>>

\* The process ends and starts again: the blocks are indexed again, the API
\* collects its statistics before it listens.
QStop ==
    /\ stops < MaxStops /\ stops' = stops + 1
    /\ Stop
    /\ NewSession
    /\ job' = 1
    /\ stats' = Collected
    /\ timer' = TRUE
    /\ UNCHANGED <<owner, calls>>

QNext ==
    \/ WriterStep \/ (\E l \in Listeners : ListenerStep(l))
    \/ HandlerStep \/ (\E r \in Requests : Send(r)) \/ Disconnect
    \/ collectStats \/ QStop

QSpec ==
    /\ QInit /\ [][QNext]_qvars
    /\ WF_qvars(HandlerStep) /\ WF_qvars(collectStats)

-----------------------------------------------------------------------------
(* Properties                                                              *)

\* Whenever a contract is stored, and whatever its code: the class and the tags,
\* which work_on_scids computes in two separate passes over the indices, agree.
ClassTagsAgree ==
    [][\A s \in owner' \ owner : \A code \in SUBSET Terms : Agree(s, code)]_qvars

\* A list by class or by tag, although taken from two transactions, holds
\* exactly the contracts that had the part asked for in their class, or in one
\* of their tags, at the first of them, all of which still have it when the reply
\* is sent, and they are in height order.  Of whole classes this says nothing:
\* the part may be in several.
ClassAnswerExact ==
    (last.req.method \in {"class", "tag"}) =>
        /\ ToSet(last.answer) = last.before
        /\ last.before \subseteq last.now
        /\ \A i, j \in DOMAIN last.answer :
              i < j => Height[last.answer[i]] <= Height[last.answer[j]]

\* At most one goroutine of the listeners has the address in its rings.
Unshared(addr) ==
    \A l, m \in Listeners : \A i \in 1 .. Len(Writes[l]), j \in 1 .. Len(Writes[m]) :
        Writes[l][i].addr = addr /\ Writes[m][j].addr = addr => l = m

\* The contracts of an address, collected over many transactions while the
\* writers go on: all that the database had for it when the query began, none
\* that it had neither then nor at the end, and none twice.  What it had at the
\* beginning it has at the end, if no two listeners share the address; one that
\* they share may lose an entry meanwhile, and the answer then names a contract
\* the database no longer has for it.
AddrAnswerBounded ==
    (last.req.method = "addr") =>
        /\ last.before \subseteq ToSet(last.answer)
        /\ ToSet(last.answer) \subseteq last.before \cup last.now
        /\ Unshared(last.req.arg) => ToSet(last.answer) \subseteq last.now
        /\ Len(last.answer) = Cardinality(ToSet(last.answer))

\* Every request with a known method is answered, whatever came before it in
\* the session, unless the session ends first: again and again none is open.  An unknown method is neither
\* answered nor, whatever errDisconnected says, the end of the session.
KnownAnswered == []<>(replies = asked)

\* The statistics of the API count the contracts they list and list none that
\* is not in the database.
StatsExact ==
    /\ stats.countSCs = Cardinality(stats.indexedscs)
    /\ stats.indexedscs \subseteq owner

\* They are exact all the time, and catch up with the writer again and again.
StatsCatchUp == []StatsExact /\ []<>(stats.indexedscs = owner)
=============================================================================
