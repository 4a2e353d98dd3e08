------------------------ MODULE HeightHandling_proofs ------------------------
(***************************************************************************)
(* Proofs about HeightHandling for every pool, chain, stored height and    *)
(* pair of flags.  The inductive invariant relates the three unlocked      *)
(* heights (now, lowest_height, achieved_current_height) to the state of   *)
(* the channel and of the workers.                                         *)
(***************************************************************************)
EXTENDS HeightHandling, TLAPS

\* The daemon is ahead of everything the process knows about it, and an
\* answer that start_printer holds is not behind now.
ClockInv ==
    ~ZeroAnswers =>
        /\ 1 <= now /\ now <= topo
        /\ achieved_current_height <= topo
        /\ polled # NoHeight => now <= polled /\ polled <= topo

\* Outside a pass the workers are gone; a worker that left holds nothing.
IdleInv ==
    /\ \A w \in exited : fetching[w] = NoHeight
    /\ pc \in {"loop", "clamp", "start", "count", "achieve", "lower"} =>
           exited = Workers

\* The head of the channel separates what is handed over or in a worker's
\* hands from what is still to be received.
CursorInv ==
    /\ next <= height
    /\ ~ZeroAnswers => /\ \A h \in handed : h < next
                       /\ \A w \in Workers : fetching[w] < next

\* Between passes, the next pass starts at or above that separation.  The
\* first pass may be moved below it by starting_height, but only while
\* nothing has been handed over.
PassStartInv ==
    ~ZeroAnswers =>
        /\ pc \in {"loop", "clamp", "start", "count"} =>
               /\ achieved_current_height = 0 => handed = {}
               /\ achieved_current_height # 0 => next <= lowest_height
        /\ pc \in {"send", "wait", "achieve", "lower"} => height <= now
        /\ pc = "lower" => /\ height <= achieved_current_height
                           /\ achieved_current_height # 0

\* During a pass of a running process every height already received is
\* handed over or being fetched; no worker leaves before the channel is
\* closed and empty.
CoverInv ==
    RUNNING =>
        /\ pc \in {"send", "wait", "achieve", "lower"} =>
               \A h \in lowest_height .. next - 1 :
                   h \in handed \/ \E w \in Workers : fetching[w] = h
        /\ pc = "send" => exited = {}
        /\ pc = "wait" /\ exited # {} => next = height
        /\ pc \in {"achieve", "lower"} => next = height

OwnersInv ==
    ~ZeroAnswers => \A w \in Workers : fetching[w] # NoHeight =>
        /\ fetching[w] \notin handed
        /\ \A v \in Workers \ {w} : fetching[v] # fetching[w]

NoOvertaking ==
    ~ZeroAnswers /\ ending_height <= 0 => lowest_height <= now /\ pc # "panicked"

IndInv ==
    /\ TypeOK
    /\ ClockInv
    /\ IdleInv
    /\ CursorInv
    /\ PassStartInv
    /\ CoverInv
    /\ OwnersInv
    /\ NoOvertaking

\* The initial state satisfies the invariant.
LEMMA InitIndInv == Init => IndInv
  BY HeightAssumption DEF Init, IndInv, TypeOK, ClockInv, IdleInv, CursorInv,
     PassStartInv, CoverInv, OwnersInv, NoOvertaking, Lesser, NoHeight,
     Steps, TopoAnswer

\* Every step preserves the invariant.
LEMMA NextIndInv == IndInv /\ [Next]_vars => IndInv'
<1> SUFFICES ASSUME IndInv, [Next]_vars PROVE IndInv'
  OBVIOUS
<1> USE HeightAssumption DEF IndInv, NoHeight, TopoAnswer, vars, shared, pool, Alive
<1>1. CASE LoopHead
  <2> USE <1>1 DEF LoopHead
  <2>1. TypeOK'
    BY DEF TypeOK, Steps
  <2>2. ClockInv'
    BY DEF ClockInv, TypeOK
  <2>3. IdleInv'
    BY DEF IdleInv, TypeOK
  <2>4. CursorInv'
    BY DEF CursorInv, TypeOK, IdleInv
  <2>5. PassStartInv'
    BY DEF PassStartInv, TypeOK, ClockInv, CursorInv
  <2>6. CoverInv'
    BY DEF CoverInv, TypeOK, ClockInv, CursorInv, IdleInv
  <2>7. OwnersInv'
    BY DEF OwnersInv, TypeOK, ClockInv, CursorInv
  <2>8. NoOvertaking'
    BY DEF NoOvertaking, TypeOK, ClockInv, CursorInv
  <2>9. QED
    BY <2>1, <2>2, <2>3, <2>4, <2>5, <2>6, <2>7, <2>8
<1>2. CASE Clamp
  <2> USE <1>2 DEF Clamp
  <2>1. TypeOK'
    BY DEF TypeOK, Steps, Lesser
  <2>2. ClockInv'
    BY DEF ClockInv, TypeOK, Lesser
  <2>3. IdleInv'
    BY DEF IdleInv, TypeOK, Lesser
  <2>4. CursorInv'
    BY DEF CursorInv, TypeOK, IdleInv, Lesser
  <2>5. PassStartInv'
    BY DEF PassStartInv, TypeOK, ClockInv, CursorInv, Lesser
  <2>6. CoverInv'
    BY DEF CoverInv, TypeOK, ClockInv, CursorInv, IdleInv, Lesser
  <2>7. OwnersInv'
    BY DEF OwnersInv, TypeOK, ClockInv, CursorInv, Lesser
  <2>8. NoOvertaking'
    BY DEF NoOvertaking, TypeOK, ClockInv, CursorInv, Lesser
  <2>9. QED
    BY <2>1, <2>2, <2>3, <2>4, <2>5, <2>6, <2>7, <2>8
<1>3. CASE StartHeight
  <2> USE <1>3 DEF StartHeight
  <2>1. TypeOK'
    BY DEF TypeOK, Steps
  <2>2. ClockInv'
    BY DEF ClockInv, TypeOK
  <2>3. IdleInv'
    BY DEF IdleInv, TypeOK
  <2>4. CursorInv'
    BY DEF CursorInv, TypeOK, IdleInv
  <2>5. PassStartInv'
    BY DEF PassStartInv, TypeOK, ClockInv, CursorInv
  <2>6. CoverInv'
    BY DEF CoverInv, TypeOK, ClockInv, CursorInv, IdleInv
  <2>7. OwnersInv'
    BY DEF OwnersInv, TypeOK, ClockInv, CursorInv
  <2>8. NoOvertaking'
    BY DEF NoOvertaking, TypeOK, ClockInv, CursorInv
  <2>9. QED
    BY <2>1, <2>2, <2>3, <2>4, <2>5, <2>6, <2>7, <2>8
<1>4. CASE Count
  <2> USE <1>4 DEF Count
  <2>1. TypeOK'
    BY DEF TypeOK, Steps
  <2>2. ClockInv'
    BY DEF ClockInv, TypeOK
  <2>3. IdleInv'
    BY DEF IdleInv, TypeOK
  <2>4. CursorInv'
    BY DEF CursorInv, TypeOK, IdleInv, ClockInv, PassStartInv
  <2>5. PassStartInv'
    BY DEF PassStartInv, TypeOK, ClockInv, CursorInv
  <2>6. CoverInv'
    BY DEF CoverInv, TypeOK, ClockInv, CursorInv, IdleInv
  <2>7. OwnersInv'
    BY DEF OwnersInv, TypeOK, ClockInv, CursorInv
  <2>8. NoOvertaking'
    BY DEF NoOvertaking, TypeOK, ClockInv, CursorInv
  <2>9. QED
    BY <2>1, <2>2, <2>3, <2>4, <2>5, <2>6, <2>7, <2>8
<1>5. CASE SendHeight
  <2> USE <1>5 DEF SendHeight
  <2>1. TypeOK'
    BY DEF TypeOK, Steps
  <2>2. ClockInv'
    BY DEF ClockInv, TypeOK
  <2>3. IdleInv'
    BY DEF IdleInv, TypeOK
  <2>4. CursorInv'
    BY DEF CursorInv, TypeOK, IdleInv
  <2>5. PassStartInv'
    BY DEF PassStartInv, TypeOK, ClockInv, CursorInv
  <2>6. CoverInv'
    BY DEF CoverInv, TypeOK, ClockInv, CursorInv, IdleInv
  <2>7. OwnersInv'
    BY DEF OwnersInv, TypeOK, ClockInv, CursorInv
  <2>8. NoOvertaking'
    BY DEF NoOvertaking, TypeOK, ClockInv, CursorInv
  <2>9. QED
    BY <2>1, <2>2, <2>3, <2>4, <2>5, <2>6, <2>7, <2>8
<1>6. CASE CloseHeights
  <2> USE <1>6 DEF CloseHeights
  <2>1. TypeOK'
    BY DEF TypeOK, Steps
  <2>2. ClockInv'
    BY DEF ClockInv, TypeOK
  <2>3. IdleInv'
    BY DEF IdleInv, TypeOK
  <2>4. CursorInv'
    BY DEF CursorInv, TypeOK, IdleInv
  <2>5. PassStartInv'
    BY DEF PassStartInv, TypeOK, ClockInv, CursorInv
  <2>6. CoverInv'
    BY DEF CoverInv, TypeOK, ClockInv, CursorInv, IdleInv
  <2>7. OwnersInv'
    BY DEF OwnersInv, TypeOK, ClockInv, CursorInv
  <2>8. NoOvertaking'
    BY DEF NoOvertaking, TypeOK, ClockInv, CursorInv
  <2>9. QED
    BY <2>1, <2>2, <2>3, <2>4, <2>5, <2>6, <2>7, <2>8
<1>7. CASE WaitWorkers
  <2> USE <1>7 DEF WaitWorkers
  <2>1. TypeOK'
    BY DEF TypeOK, Steps
  <2>2. ClockInv'
    BY DEF ClockInv, TypeOK
  <2>3. IdleInv'
    BY DEF IdleInv, TypeOK
  <2>4. CursorInv'
    BY DEF CursorInv, TypeOK, IdleInv
  <2>5. PassStartInv'
    BY DEF PassStartInv, TypeOK, ClockInv, CursorInv
  <2>6. CoverInv'
    BY DEF CoverInv, TypeOK, ClockInv, CursorInv, IdleInv
  <2>7. OwnersInv'
    BY DEF OwnersInv, TypeOK, ClockInv, CursorInv
  <2>8. NoOvertaking'
    BY DEF NoOvertaking, TypeOK, ClockInv, CursorInv
  <2>9. QED
    BY <2>1, <2>2, <2>3, <2>4, <2>5, <2>6, <2>7, <2>8
<1>8. CASE Achieve
  <2> USE <1>8 DEF Achieve
  <2>1. TypeOK'
    BY DEF TypeOK, Steps
  <2>2. ClockInv'
    BY DEF ClockInv, TypeOK
  <2>3. IdleInv'
    BY DEF IdleInv, TypeOK
  <2>4. CursorInv'
    BY DEF CursorInv, TypeOK, IdleInv
  <2>5. PassStartInv'
    BY DEF PassStartInv, TypeOK, ClockInv, CursorInv
  <2>6. CoverInv'
    BY DEF CoverInv, TypeOK, ClockInv, CursorInv, IdleInv
  <2>7. OwnersInv'
    BY DEF OwnersInv, TypeOK, ClockInv, CursorInv
  <2>8. NoOvertaking'
    BY DEF NoOvertaking, TypeOK, ClockInv, CursorInv
  <2>9. QED
    BY <2>1, <2>2, <2>3, <2>4, <2>5, <2>6, <2>7, <2>8
<1>9. CASE Lower
  <2> USE <1>9 DEF Lower
  <2>1. TypeOK'
    BY DEF TypeOK, Steps, Lesser
  <2>2. ClockInv'
    BY DEF ClockInv, TypeOK, Lesser
  <2>3. IdleInv'
    BY DEF IdleInv, TypeOK, Lesser
  <2>4. CursorInv'
    BY DEF CursorInv, TypeOK, IdleInv, Lesser
  <2>5. PassStartInv'
    BY DEF PassStartInv, TypeOK, ClockInv, CursorInv, Lesser
  <2>6. CoverInv'
    BY DEF CoverInv, TypeOK, ClockInv, CursorInv, IdleInv, Lesser
  <2>7. OwnersInv'
    BY DEF OwnersInv, TypeOK, ClockInv, CursorInv, Lesser
  <2>8. NoOvertaking'
    BY DEF NoOvertaking, TypeOK, ClockInv, CursorInv, Lesser
  <2>9. QED
    BY <2>1, <2>2, <2>3, <2>4, <2>5, <2>6, <2>7, <2>8
<1>10. ASSUME NEW w \in Workers, Receive(w) PROVE IndInv'
  <2> USE <1>10 DEF Receive
  <2>1. TypeOK'
    BY DEF TypeOK, Steps
  <2>2. ClockInv'
    BY DEF ClockInv, TypeOK
  <2>3. IdleInv'
    BY DEF IdleInv, TypeOK
  <2>4. CursorInv'
    BY DEF CursorInv, TypeOK, IdleInv
  <2>5. PassStartInv'
    BY DEF PassStartInv, TypeOK, ClockInv, CursorInv, IdleInv
  <2>6. CoverInv'
    BY DEF CoverInv, TypeOK, ClockInv, CursorInv, IdleInv
  <2>7. OwnersInv'
    BY DEF OwnersInv, TypeOK, ClockInv, CursorInv
  <2>8. NoOvertaking'
    BY DEF NoOvertaking, TypeOK, ClockInv, CursorInv
  <2>9. QED
    BY <2>1, <2>2, <2>3, <2>4, <2>5, <2>6, <2>7, <2>8
<1>11. ASSUME NEW w \in Workers, HandOver(w) PROVE IndInv'
  <2> USE <1>11 DEF HandOver
  <2>1. TypeOK'
    <3>1. fetching[w] \in Nat
      BY DEF TypeOK
    <3>2. handed' \subseteq Nat /\ fetching' \in [Workers -> Nat \cup {NoHeight}]
      BY <3>1 DEF TypeOK
    <3>3. QED
      BY <3>1, <3>2 DEF TypeOK
  <2>2. ClockInv'
    BY DEF ClockInv, TypeOK
  <2>3. IdleInv'
    BY DEF IdleInv, TypeOK
  <2>4. CursorInv'
    BY DEF CursorInv, TypeOK, IdleInv
  <2>5. PassStartInv'
    BY DEF PassStartInv, TypeOK, ClockInv, CursorInv, IdleInv
  <2>6. CoverInv'
    BY DEF CoverInv, TypeOK, ClockInv, CursorInv, IdleInv
  <2>7. OwnersInv'
    BY DEF OwnersInv, TypeOK, ClockInv, CursorInv
  <2>8. NoOvertaking'
    BY DEF NoOvertaking, TypeOK, ClockInv, CursorInv
  <2>9. QED
    BY <2>1, <2>2, <2>3, <2>4, <2>5, <2>6, <2>7, <2>8
<1>12. ASSUME NEW w \in Workers, Leave(w) PROVE IndInv'
  <2> USE <1>12 DEF Leave
  <2>1. TypeOK'
    BY DEF TypeOK, Steps
  <2>2. ClockInv'
    BY DEF ClockInv, TypeOK
  <2>3. IdleInv'
    BY DEF IdleInv, TypeOK
  <2>4. CursorInv'
    BY DEF CursorInv, TypeOK, IdleInv
  <2>5. PassStartInv'
    BY DEF PassStartInv, TypeOK, ClockInv, CursorInv
  <2>6. CoverInv'
    BY DEF CoverInv, TypeOK, ClockInv, CursorInv, IdleInv
  <2>7. OwnersInv'
    BY DEF OwnersInv, TypeOK, ClockInv, CursorInv
  <2>8. NoOvertaking'
    BY DEF NoOvertaking, TypeOK, ClockInv, CursorInv
  <2>9. QED
    BY <2>1, <2>2, <2>3, <2>4, <2>5, <2>6, <2>7, <2>8
<1>13. CASE Poll
  <2> USE <1>13 DEF Poll
  <2>1. TypeOK'
    BY DEF TypeOK, Steps
  <2>2. ClockInv'
    BY DEF ClockInv, TypeOK
  <2>3. IdleInv'
    BY DEF IdleInv, TypeOK
  <2>4. CursorInv'
    BY DEF CursorInv, TypeOK, IdleInv
  <2>5. PassStartInv'
    BY DEF PassStartInv, TypeOK, ClockInv, CursorInv
  <2>6. CoverInv'
    BY DEF CoverInv, TypeOK, ClockInv, CursorInv, IdleInv
  <2>7. OwnersInv'
    BY DEF OwnersInv, TypeOK, ClockInv, CursorInv
  <2>8. NoOvertaking'
    BY DEF NoOvertaking, TypeOK, ClockInv, CursorInv
  <2>9. QED
    BY <2>1, <2>2, <2>3, <2>4, <2>5, <2>6, <2>7, <2>8
<1>14. CASE Publish
  <2> USE <1>14 DEF Publish
  <2>1. TypeOK'
    BY DEF TypeOK, Steps
  <2>2. ClockInv'
    BY DEF ClockInv, TypeOK
  <2>3. IdleInv'
    BY DEF IdleInv, TypeOK
  <2>4. CursorInv'
    BY DEF CursorInv, TypeOK, IdleInv
  <2>5. PassStartInv'
    BY DEF PassStartInv, TypeOK, ClockInv, CursorInv
  <2>6. CoverInv'
    BY DEF CoverInv, TypeOK, ClockInv, CursorInv, IdleInv
  <2>7. OwnersInv'
    BY DEF OwnersInv, TypeOK, ClockInv, CursorInv
  <2>8. NoOvertaking'
    BY DEF NoOvertaking, TypeOK, ClockInv, CursorInv
  <2>9. QED
    BY <2>1, <2>2, <2>3, <2>4, <2>5, <2>6, <2>7, <2>8
<1>15. CASE Interrupt
  <2> USE <1>15 DEF Interrupt
  <2>1. TypeOK'
    BY DEF TypeOK, Steps
  <2>2. ClockInv'
    BY DEF ClockInv, TypeOK
  <2>3. IdleInv'
    BY DEF IdleInv, TypeOK
  <2>4. CursorInv'
    BY DEF CursorInv, TypeOK, IdleInv
  <2>5. PassStartInv'
    BY DEF PassStartInv, TypeOK, ClockInv, CursorInv
  <2>6. CoverInv'
    BY DEF CoverInv, TypeOK, ClockInv, CursorInv, IdleInv
  <2>7. OwnersInv'
    BY DEF OwnersInv, TypeOK, ClockInv, CursorInv
  <2>8. NoOvertaking'
    BY DEF NoOvertaking, TypeOK, ClockInv, CursorInv
  <2>9. QED
    BY <2>1, <2>2, <2>3, <2>4, <2>5, <2>6, <2>7, <2>8
<1>16. CASE NewBlock
  <2> USE <1>16 DEF NewBlock
  <2>1. TypeOK'
    BY DEF TypeOK, Steps
  <2>2. ClockInv'
    BY DEF ClockInv, TypeOK
  <2>3. IdleInv'
    BY DEF IdleInv, TypeOK
  <2>4. CursorInv'
    BY DEF CursorInv, TypeOK, IdleInv
  <2>5. PassStartInv'
    BY DEF PassStartInv, TypeOK, ClockInv, CursorInv
  <2>6. CoverInv'
    BY DEF CoverInv, TypeOK, ClockInv, CursorInv, IdleInv
  <2>7. OwnersInv'
    BY DEF OwnersInv, TypeOK, ClockInv, CursorInv
  <2>8. NoOvertaking'
    BY DEF NoOvertaking, TypeOK, ClockInv, CursorInv
  <2>9. QED
    BY <2>1, <2>2, <2>3, <2>4, <2>5, <2>6, <2>7, <2>8
<1>17. CASE UNCHANGED vars
  BY <1>17 DEF TypeOK, ClockInv, IdleInv, CursorInv, PassStartInv, CoverInv,
     OwnersInv, NoOvertaking
<1>18. QED
  BY <1>1, <1>2, <1>3, <1>4, <1>5, <1>6, <1>7, <1>8, <1>9, <1>10, <1>11, <1>12, <1>13, <1>14, <1>15, <1>16, <1>17 DEF Next, HeightStep, WorkerStep,
     PrinterStep

\* The invariant holds in every reachable state.
THEOREM Invariance == Spec => []IndInv
<1>1. Init => IndInv
  BY InitIndInv
<1>2. IndInv /\ [Next]_vars => IndInv'
  BY NextIndInv
<1>3. QED
  BY <1>1, <1>2, PTL DEF Spec

\* The variables keep their types for every pool and chain.
THEOREM TypeCorrect == Spec => []TypeOK
<1>1. IndInv => TypeOK
  BY DEF IndInv
<1>2. QED
  BY <1>1, Invariance, PTL

\* With a daemon that answers its topoheight no height is ever in two hands,
\* whatever start_printer does to now and whatever the flags say.
THEOREM OneOwnerHolds ==
    ASSUME ~ZeroAnswers
    PROVE  Spec => []OneOwner
<1>1. IndInv => OneOwner
  BY HeightAssumption DEF IndInv, OneOwner, TypeOK, CursorInv, OwnersInv, NoHeight
<1>2. QED
  BY <1>1, Invariance, PTL

\* A finished pass of a running process has handed over all of its heights,
\* whatever the daemon answers.
THEOREM PassHandsOverHolds == Spec => []PassHandsOver
<1>1. IndInv => PassHandsOver
  BY HeightAssumption DEF IndInv, PassHandsOver, TypeOK, ClockInv, IdleInv,
     CursorInv, CoverInv, NoHeight
<1>2. QED
  BY <1>1, Invariance, PTL

\* With a daemon that answers its topoheight and without --ending-topoheight
\* height_processing is never made with a
\* negative size.
THEOREM NoPanicHolds ==
    ASSUME ~ZeroAnswers, ending_height <= 0
    PROVE  Spec => []NoPanic
<1>1. IndInv => NoPanic
  BY DEF IndInv, NoPanic, NoOvertaking
<1>2. QED
  BY <1>1, Invariance, PTL
=============================================================================
