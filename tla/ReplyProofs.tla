----------------------------- MODULE ReplyProofs -----------------------------
(***************************************************************************)
(* Proofs about what happens while the agent replies.  DispatchReply, for  *)
(* any number of assistant messages, pieces of text and drains: the        *)
(* heartbeat has one loop and ends with FINISH, text goes out in order and *)
(* once, the last message is complete when the reply returns, and the      *)
(* fallback stands alone.  Remind, for any number of calls of the agent's  *)
(* reminder tool and whatever they ask for: a call leaves at most one job  *)
(* with the scheduler, and none if the agent is told of an error, unless   *)
(* it gave up waiting for the answer.                                      *)
(***************************************************************************)
EXTENDS DispatchReply, Remind, FiniteSetTheorems, TLAPS

-----------------------------------------------------------------------------
(* The heartbeat *)

\* The three states of the loop.
NoLoop == awaiting = 0 /\ armed = 0 /\ ~timer
LoopAwaits == awaiting = 1 /\ armed = 0 /\ ~timer
LoopSleeps == awaiting = 0 /\ armed = 1 /\ timer

\* A loop runs only while the heartbeat is active; one that has ended leaves
\* nothing armed, and nothing awaited unless FINISH was decided on.
HeartbeatInv ==
    /\ active \in BOOLEAN /\ timer \in BOOLEAN
    /\ everStarted \in BOOLEAN /\ finishEmitted \in BOOLEAN /\ forceStopped \in BOOLEAN
    /\ NoLoop \/ LoopAwaits \/ LoopSleeps
    /\ finishEmitted => ~active /\ ~LoopSleeps
    /\ ~active /\ ~finishEmitted => NoLoop
    /\ ~everStarted => ~active /\ NoLoop
    /\ forceStopped => finishEmitted
    /\ wire = "finish" => finishEmitted

\* The arithmetic of one loop.
LEMMA OneAndNone ==
    /\ 0 # 1 /\ 0 + 1 = 1 /\ 1 - 1 = 0 /\ 1 > 0 /\ ~(0 > 0)
    /\ "running" # "finish" /\ "none" # "finish"
OBVIOUS

\* Every operation of the heartbeat keeps it in order, and after FINISH nothing
\* is sent.
LEMMA HeartbeatKept ==
    ASSUME HeartbeatInv,
           \/ Heartbeat!EmitRunning \/ Heartbeat!GoesIdle \/ Heartbeat!LoopFires
           \/ Heartbeat!FinishIfNeeded
           \/ \E dissolved \in BOOLEAN :
                 Heartbeat!RunningSettles(dissolved) \/ Heartbeat!FinishSettles(dissolved)
           \/ UNCHANGED heartbeatVars
    PROVE  HeartbeatInv' /\ (wire = "finish" => wire' = "finish")
<1>. USE OneAndNone DEF HeartbeatInv, NoLoop, LoopAwaits, LoopSleeps
<1>1. CASE Heartbeat!EmitRunning
  BY <1>1 DEF Heartbeat!EmitRunning, Heartbeat!heartbeatVars, Heartbeat!loopVars,
     Heartbeat!finishVars
<1>2. CASE Heartbeat!GoesIdle
  BY <1>2 DEF Heartbeat!GoesIdle, Heartbeat!finishVars
<1>3. CASE Heartbeat!LoopFires
  BY <1>3 DEF Heartbeat!LoopFires, Heartbeat!finishVars
<1>4. CASE Heartbeat!FinishIfNeeded
  BY <1>4 DEF Heartbeat!FinishIfNeeded, Heartbeat!StopFrom
<1>5. ASSUME NEW dissolved \in BOOLEAN, Heartbeat!RunningSettles(dissolved)
      PROVE  HeartbeatInv' /\ (wire = "finish" => wire' = "finish")
  BY <1>5 DEF Heartbeat!RunningSettles, Heartbeat!AbortHeartbeat, Heartbeat!StopFrom,
     Heartbeat!finishVars
<1>6. ASSUME NEW dissolved \in BOOLEAN, Heartbeat!FinishSettles(dissolved)
      PROVE  HeartbeatInv' /\ (wire = "finish" => wire' = "finish")
  BY <1>6 DEF Heartbeat!FinishSettles, Heartbeat!AbortHeartbeat, Heartbeat!StopFrom
<1>7. CASE UNCHANGED heartbeatVars
  BY <1>7 DEF heartbeatVars
<1>. QED  BY <1>1, <1>2, <1>3, <1>4, <1>5, <1>6, <1>7

\* What a step of the reply does to the heartbeat.
LEMMA HeartbeatSteps ==
    ASSUME [Next]_vars
    PROVE  \/ Heartbeat!EmitRunning \/ Heartbeat!GoesIdle \/ Heartbeat!LoopFires
           \/ Heartbeat!FinishIfNeeded
           \/ \E dissolved \in BOOLEAN :
                 Heartbeat!RunningSettles(dissolved) \/ Heartbeat!FinishSettles(dissolved)
           \/ UNCHANGED heartbeatVars
<1>1. CASE Callback
  BY <1>1 DEF Callback, SignOfLife, MessageStarts, PartialReply, ToolStarts, ActionDelivers,
     DeliverStarts
<1>2. CASE DeliverStep \/ SignalAborts \/ DispatchResolves
  BY <1>2 DEF DeliverStep, DeliverSettles, SignalAborts, DispatchResolves
<1>3. CASE HandlerStep \/ HandlerThrows
  BY <1>3 DEF HandlerStep, FinalizeTakes, FallbackSettles, FinalizeReturns, HandlerThrows
<1>4. CASE SendStep \/ ChunkSettles \/ UNCHANGED vars
  BY <1>4 DEF SendStep, ChunkSettles, vars
<1>5. CASE HeartbeatStep \/ AgentStalls
  BY <1>5 DEF HeartbeatStep, AgentStalls
<1>. QED  BY <1>1, <1>2, <1>3, <1>4, <1>5 DEF Next

\* The heartbeat is in order in every reachable state.
THEOREM HeartbeatInvariant == Spec => []HeartbeatInv
<1>1. Init => HeartbeatInv
  BY Zenon, OneAndNone
  DEF Init, Heartbeat!HeartbeatInit, HeartbeatInv, NoLoop, LoopAwaits, LoopSleeps
<1>2. HeartbeatInv /\ [Next]_vars => HeartbeatInv'
  BY HeartbeatKept, HeartbeatSteps
<1>. QED  BY <1>1, <1>2, PTL DEF Spec

\* However signs of life, answers, stalls and the end overlap, there is one loop
\* at most and the handle of its timer is the one that is kept.
THEOREM HeartbeatsDoNotPile == Spec => []OneLoop
<1>1. HeartbeatInv => OneLoop
  <2>. SUFFICES ASSUME HeartbeatInv PROVE OneLoop
    OBVIOUS
  <2>1. awaiting + armed <= 1
    BY DEF HeartbeatInv, NoLoop, LoopAwaits, LoopSleeps
  <2>2. armed = 1 <=> timer
    BY Zenon, OneAndNone DEF HeartbeatInv, NoLoop, LoopAwaits, LoopSleeps
  <2>. QED  BY <2>1, <2>2 DEF OneLoop
<1>. QED  BY <1>1, HeartbeatInvariant, PTL

\* No RUNNING follows FINISH.
THEOREM FinishStays == Spec => FinishIsLast
<1>1. HeartbeatInv /\ [Next]_vars => [wire = "finish" => wire' = "finish"]_vars
  BY HeartbeatKept, HeartbeatSteps
<1>. QED  BY <1>1, HeartbeatInvariant, PTL DEF Spec, FinishIsLast

-----------------------------------------------------------------------------
(* The order of the text *)

Texts == Seq(Nat \X Nat)

InOrder(text) == \A i, j \in 1 .. Len(text) : i < j => Before(text[i], text[j])

\* A piece the cursor has passed.
Passed(piece) == piece[1] < segment \/ (piece[1] = segment /\ piece[2] <= sentIndex)

\* Only the abort of a reply that threw forgets the text below the cursor.
CursorKnown ==
    /\ segment \in Nat /\ cumulative \in Nat /\ sentIndex \in Nat
    /\ sentIndex <= cumulative \/ (aborted /\ phase = "threw")

\* What was sent, and what the running drain has taken, is in order, one after
\* the other, and below the cursor, from where the next drain goes on.
TextInv ==
    /\ CursorKnown
    /\ sentText \in Texts /\ toSend \in Texts
    /\ InOrder(sentText) /\ InOrder(toSend)
    /\ \A i \in 1 .. Len(sentText) :
         Passed(sentText[i]) /\ \A j \in 1 .. Len(toSend) : Before(sentText[i], toSend[j])
    /\ \A j \in 1 .. Len(toSend) : Passed(toSend[j])

\* The pieces between two positions of the current message.
LEMMA SliceIs ==
    ASSUME segment \in Nat, NEW a \in Nat, NEW b \in Nat, a <= b
    PROVE  /\ Session!Slice(a, b) \in Texts
           /\ Len(Session!Slice(a, b)) = b - a
           /\ \A i \in 1 .. (b - a) : Session!Slice(a, b)[i] = <<segment, a + i>>
<1>1. b - a \in Nat
  OBVIOUS
<1>2. \A i \in 1 .. (b - a) : <<segment, a + i>> \in Nat \X Nat
  OBVIOUS
<1>. QED  BY <1>1, <1>2 DEF Session!Slice, Texts

\* A drain that takes the text from the cursor up to a later one.
LEMMA TakesText ==
    ASSUME TextInv, toSend = <<>>, NEW end \in Nat, sentIndex <= end, end <= cumulative,
           toSend' = Session!Slice(sentIndex, end), sentIndex' = end,
           UNCHANGED <<segment, cumulative, sentText>>
    PROVE  TextInv'
<1>1. segment \in Nat /\ sentIndex \in Nat
  BY DEF TextInv, CursorKnown
<1>2. /\ toSend' \in Texts /\ Len(toSend') = end - sentIndex
      /\ \A i \in 1 .. Len(toSend') : toSend'[i] = <<segment, sentIndex + i>>
  BY <1>1, SliceIs
<1>3. CursorKnown'
  BY DEF TextInv, CursorKnown
<1>4. \A j \in 1 .. Len(toSend') : Passed(toSend[j])'
  BY <1>1, <1>2 DEF Passed
<1>5. InOrder(toSend')
  BY <1>1, <1>2 DEF InOrder, Before
<1>6. ASSUME NEW i \in 1 .. Len(sentText)
      PROVE  Passed(sentText[i])' /\ \A j \in 1 .. Len(toSend') : Before(sentText[i], toSend'[j])
  <2>1. Passed(sentText[i]) /\ sentText[i] \in Nat \X Nat
    BY DEF TextInv, Texts
  <2>2. Passed(sentText[i])'
    BY <1>1, <2>1 DEF Passed
  <2>3. ASSUME NEW j \in 1 .. Len(toSend') PROVE Before(sentText[i], toSend'[j])
    <3>1. toSend'[j] = <<segment, sentIndex + j>> /\ j \in Nat /\ j >= 1
      BY <1>2, <2>3
    <3>. QED  BY <1>1, <2>1, <3>1 DEF Passed, Before
  <2>. QED  BY <2>2, <2>3
<1>. QED  BY <1>2, <1>3, <1>4, <1>5, <1>6 DEF TextInv

\* A piece moves from what is left to send to what was sent.
LEMMA ChunkText ==
    ASSUME TextInv, toSend # <<>>, toSend' = Tail(toSend),
           sentText' = Append(sentText, Head(toSend)),
           UNCHANGED <<segment, cumulative, sentIndex, aborted, phase>>
    PROVE  TextInv'
<1>1. sentText \in Seq(Nat \X Nat) /\ toSend \in Seq(Nat \X Nat)
  BY DEF TextInv, Texts
<1>2. /\ toSend' \in Texts /\ Len(toSend) \in Nat \ {0} /\ Len(toSend') = Len(toSend) - 1
      /\ \A j \in 1 .. Len(toSend') : j + 1 \in 1 .. Len(toSend) /\ toSend'[j] = toSend[j + 1]
  BY <1>1 DEF Texts
<1>3. /\ sentText' \in Texts /\ Len(sentText) \in Nat /\ Len(sentText') = Len(sentText) + 1
      /\ \A i \in 1 .. Len(sentText) : sentText'[i] = sentText[i]
      /\ sentText'[Len(sentText')] = toSend[1]
  BY <1>1 DEF Texts
<1>4. InOrder(toSend)'
  BY <1>2 DEF TextInv, InOrder
<1>5. InOrder(sentText)'
  <2>. SUFFICES ASSUME NEW i \in 1 .. Len(sentText'), NEW j \in 1 .. Len(sentText'), i < j
                PROVE  Before(sentText'[i], sentText'[j])
    BY DEF InOrder
  <2>1. i \in 1 .. Len(sentText)
    BY <1>3
  <2>2. CASE j = Len(sentText')
    BY <1>2, <1>3, <2>1, <2>2 DEF TextInv
  <2>3. CASE j \in 1 .. Len(sentText)
    BY <1>3, <2>1, <2>3 DEF TextInv, InOrder
  <2>. QED  BY <1>3, <2>2, <2>3
<1>6. ASSUME NEW i \in 1 .. Len(sentText')
      PROVE  Passed(sentText[i])' /\ \A j \in 1 .. Len(toSend') : Before(sentText'[i], toSend'[j])
  <2>1. CASE i = Len(sentText')
    BY <1>2, <1>3, <2>1 DEF TextInv, InOrder, Passed
  <2>2. CASE i \in 1 .. Len(sentText)
    BY <1>2, <1>3, <2>2 DEF TextInv, Passed
  <2>. QED  BY <1>3, <2>1, <2>2
<1>7. \A j \in 1 .. Len(toSend') : Passed(toSend[j])'
  BY <1>2 DEF TextInv, Passed
<1>. QED  BY <1>2, <1>3, <1>4, <1>5, <1>6, <1>7 DEF TextInv, CursorKnown

\* Nothing of the text is touched.
LEMMA QuietText ==
    ASSUME TextInv, UNCHANGED <<segment, cumulative, sentIndex, toSend, sentText>>,
           aborted /\ phase = "threw" => aborted' /\ phase' = "threw"
    PROVE  TextInv'
BY DEF TextInv, CursorKnown, InOrder, Passed

\* A message that grows or a new one: the cursor stays, or passes the old one.
LEMMA GrowingText ==
    ASSUME TextInv, NEW n \in Nat, Session!Update(n) \/ Session!BeginNewSegment
    PROVE  TextInv'
<1>1. UNCHANGED <<toSend, sentText>>
  BY DEF Session!Update, Session!BeginNewSegment, Session!chainVars
<1>2. \/ segment' = segment /\ sentIndex' = sentIndex /\ cumulative' = cumulative + n /\ ~aborted
      \/ segment' = segment + 1 /\ sentIndex' = 0 /\ cumulative' = 0
  BY DEF Session!Update, Session!BeginNewSegment
<1>3. CursorKnown'
  BY <1>2 DEF TextInv, CursorKnown
<1>4. ASSUME NEW i \in 1 .. Len(sentText) PROVE Passed(sentText[i])'
  <2>1. Passed(sentText[i]) /\ sentText[i] \in Nat \X Nat
    BY DEF TextInv, Texts
  <2>. QED  BY <1>1, <1>2, <2>1 DEF TextInv, CursorKnown, Passed
<1>5. ASSUME NEW j \in 1 .. Len(toSend) PROVE Passed(toSend[j])'
  <2>1. Passed(toSend[j]) /\ toSend[j] \in Nat \X Nat
    BY DEF TextInv, Texts
  <2>. QED  BY <1>1, <1>2, <2>1 DEF TextInv, CursorKnown, Passed
<1>. QED  BY <1>1, <1>3, <1>4, <1>5 DEF TextInv, InOrder

\* A drain takes up to where it ends, finalize all there is.
LEMMA DrainText ==
    ASSUME TextInv,
           Session!DrainStarts \/ (phase = "draining" /\ Session!TakeRemaining)
    PROVE  TextInv'
<1>1. toSend = <<>> /\ UNCHANGED <<segment, cumulative, sentText>>
  BY DEF Session!DrainStarts, Session!TakeRemaining, Session!SenderFree
<1>2. sentIndex \in Nat /\ cumulative \in Nat /\ sentIndex <= cumulative
  BY DEF TextInv, CursorKnown, Session!DrainStarts
<1>3. PICK end \in Nat : /\ sentIndex <= end /\ end <= cumulative
                         /\ toSend' = Session!Slice(sentIndex, end) /\ sentIndex' = end
  <2>1. CASE Session!TakeRemaining
    BY <1>2, <2>1 DEF Session!TakeRemaining
  <2>2. CASE Session!DrainStarts
    <3>1. PICK end \in Session!DrainEnds(Head(sendChain)) :
            toSend' = Session!Slice(sentIndex, end) /\ sentIndex' = end
      BY <2>2 DEF Session!DrainStarts
    <3>2. end \in Nat /\ sentIndex <= end /\ end <= cumulative
      BY <1>2 DEF Session!DrainEnds
    <3>. QED  BY <3>1, <3>2
  <2>. QED  BY <2>1, <2>2
<1>. QED  BY <1>1, <1>3, TakesText

\* What is not sent any more leaves the rest in order.
LEMMA DroppedText ==
    ASSUME TextInv, toSend' = <<>>, UNCHANGED <<segment, sentIndex, sentText>>, CursorKnown'
    PROVE  TextInv'
<1>1. toSend' \in Texts /\ Len(toSend') = 0
  BY DEF Texts
<1>. QED  BY <1>1 DEF TextInv, InOrder, Passed

\* Every step keeps the text in order.
LEMMA TextNext == TextInv /\ [Next]_vars => TextInv'
<1>. SUFFICES ASSUME TextInv, [Next]_vars PROVE TextInv'
  OBVIOUS
<1>1. CASE PartialReply \/ MessageStarts
  BY <1>1, GrowingText DEF PartialReply, MessageStarts
<1>2. CASE \/ SignOfLife \/ ToolStarts \/ (\E outcome \in {"ok", "lost"} : ActionDelivers(outcome))
         \/ DeliverStep \/ SignalAborts
         \/ \E first \in {"media", "text"} : DeliverStarts(first)
  <2>1. UNCHANGED <<segment, cumulative, sentIndex, toSend, sentText, aborted, phase>>
    BY <1>2
    DEF SignOfLife, ToolStarts, ActionDelivers, DeliverStep, DeliverSettles, SignalAborts,
      DeliverStarts, Session!FlushNow, Session!textVars, sessionVars, textVars, chainVars
  <2>. QED  BY <2>1, QuietText
<1>3. CASE FinalizeTakes
  BY <1>3, DrainText DEF FinalizeTakes
<1>4. CASE DispatchResolves \/ FallbackSettles \/ HeartbeatStep \/ AgentStalls
           \/ \E configured \in BOOLEAN : FinalizeReturns(configured)
  <2>1. UNCHANGED <<segment, cumulative, sentIndex, toSend, sentText, aborted>>
    BY <1>4 DEF DispatchResolves, FallbackSettles, HeartbeatStep, AgentStalls, FinalizeReturns,
       sessionVars, textVars, chainVars
  <2>2. phase = "threw" => phase' = "threw"
    BY <1>4 DEF DispatchResolves, FallbackSettles, HeartbeatStep, AgentStalls, FinalizeReturns
  <2>. QED  BY <2>1, <2>2, QuietText
<1>5. CASE HandlerThrows
  <2>1. /\ toSend' = <<>> /\ UNCHANGED <<segment, sentIndex, sentText>>
        /\ cumulative' = 0 /\ aborted' /\ phase' = "threw"
    BY <1>5 DEF HandlerThrows, Session!Abort
  <2>. QED  BY <2>1, DroppedText DEF TextInv, CursorKnown
<1>6. CASE SendStep
  <2>1. phase' = phase /\ aborted' = aborted
    BY <1>6 DEF SendStep, Session!DrainStarts, Session!ChunkStarts
  <2>2. CASE Session!DrainStarts
    BY <2>2, DrainText
  <2>3. CASE Session!ChunkStarts
    BY <2>1, <2>3, ChunkText DEF Session!ChunkStarts, Session!textVars
  <2>. QED  BY <1>6, <2>2, <2>3 DEF SendStep
<1>7. CASE ChunkSettles
  <2>1. UNCHANGED <<segment, cumulative, sentIndex, sentText, aborted, phase>>
    BY <1>7 DEF ChunkSettles, Session!ChunkSettles, Session!textVars
  <2>2. toSend' = toSend \/ toSend' = <<>>
    BY <1>7 DEF ChunkSettles, Session!ChunkSettles
  <2>. QED  BY <2>1, <2>2, QuietText, DroppedText DEF TextInv, CursorKnown
<1>8. CASE UNCHANGED vars
  <2>1. UNCHANGED <<segment, cumulative, sentIndex, toSend, sentText, aborted, phase>>
    BY <1>8 DEF vars, sessionVars, textVars, chainVars
  <2>. QED  BY <2>1, QuietText
<1>. QED  BY <1>1, <1>2, <1>3, <1>4, <1>5, <1>6, <1>7, <1>8 DEF Next, Callback, HandlerStep

\* What was sent and what is about to be is in order in every reachable state.
THEOREM TextInvariant == Spec => []TextInv
<1>1. Init => TextInv
  <2>. SUFFICES ASSUME Init PROVE TextInv
    OBVIOUS
  <2>1. /\ segment = 0 /\ cumulative = 0 /\ sentIndex = 0
        /\ toSend = <<>> /\ sentText = <<>>
    BY DEF Init, Session!SessionInit
  <2>. QED  BY <2>1 DEF TextInv, CursorKnown, Texts, InOrder
<1>. QED  BY <1>1, TextNext, PTL DEF Spec

\* Text goes out in the order it was written, and no piece twice.
THEOREM TextInOrder == Spec => []SentInOrder
<1>1. TextInv => SentInOrder
  <2>. SUFFICES ASSUME TextInv, NEW i \in 1 .. (Len(sentText) - 1)
                PROVE  Before(sentText[i], sentText[i + 1])
    BY DEF SentInOrder
  <2>1. i \in 1 .. Len(sentText) /\ i + 1 \in 1 .. Len(sentText) /\ i < i + 1
    BY DEF TextInv, Texts
  <2>. QED  BY <2>1 DEF TextInv, InOrder
<1>. QED  BY <1>1, TextInvariant, PTL

-----------------------------------------------------------------------------
(* The end of the reply *)

Written == ToSet(sentText) \cup ToSet(toSend)

\* Every piece the cursor has passed in the current message was sent or is about
\* to be, unless a send threw.
Covered == ~poisoned => \A i \in 1 .. sentIndex : <<segment, i>> \in Written

\* Once finalize has taken the rest no drain is left, and once it has returned
\* nothing is being sent.
EndInv ==
    /\ phase # "threw" => Covered
    /\ phase \in {"sending", "fallback", "returned"} => sendChain = <<>> /\ sentIndex = cumulative
    /\ phase \in {"fallback", "returned"} => ~poisoned /\ toSend = <<>> /\ inFlight = NoPiece

ReplyInv == TextInv /\ EndInv

\* What a drain takes is about to be sent.
LEMMA TakesCovered ==
    ASSUME TextInv, Covered, toSend = <<>>, NEW end \in Nat, sentIndex <= end,
           toSend' = Session!Slice(sentIndex, end), sentIndex' = end,
           UNCHANGED <<segment, sentText, poisoned>>
    PROVE  Covered'
<1>. SUFFICES ASSUME ~poisoned, NEW i \in 1 .. end PROVE <<segment, i>> \in Written'
  BY DEF Covered
<1>1. segment \in Nat /\ sentIndex \in Nat
  BY DEF TextInv, CursorKnown
<1>2. CASE i <= sentIndex
  <2>1. <<segment, i>> \in ToSet(sentText)
    BY <1>1, <1>2 DEF Covered, Written, ToSet
  <2>. QED  BY <2>1 DEF Written
<1>3. CASE i > sentIndex
  <2>1. i - sentIndex \in 1 .. (end - sentIndex) /\ sentIndex + (i - sentIndex) = i
    BY <1>1, <1>3
  <2>2. Len(toSend') = end - sentIndex /\ toSend'[i - sentIndex] = <<segment, i>>
        /\ toSend' \in Texts
    BY <1>1, <2>1, SliceIs
  <2>. QED  BY <2>1, <2>2 DEF Written, ToSet, Texts
<1>. QED  BY <1>1, <1>2, <1>3

\* A piece that is sent stays covered.
LEMMA ChunkCovered ==
    ASSUME TextInv, Covered, toSend # <<>>, toSend' = Tail(toSend),
           sentText' = Append(sentText, Head(toSend)),
           UNCHANGED <<segment, sentIndex, poisoned>>
    PROVE  Covered'
<1>1. sentText \in Seq(Nat \X Nat) /\ toSend \in Seq(Nat \X Nat)
  BY DEF TextInv, Texts
<1>2. ASSUME NEW p \in Written PROVE p \in Written'
  <2>1. CASE p \in ToSet(sentText)
    <3>1. PICK i \in DOMAIN sentText : sentText[i] = p
      BY Zenon, <2>1 DEF ToSet
    <3>2. i \in DOMAIN sentText' /\ sentText'[i] = p
      BY <1>1, <3>1
    <3>. QED  BY <3>2 DEF Written, ToSet
  <2>2. CASE p \in ToSet(toSend)
    <3>1. PICK j \in DOMAIN toSend : toSend[j] = p
      BY Zenon, <2>2 DEF ToSet
    <3>2. j \in 1 .. Len(toSend) /\ Len(toSend) \in Nat
      BY <1>1
    <3>3. CASE j = 1
      <4>1. Head(toSend) = p /\ Len(sentText) \in Nat
        BY <1>1, <3>1, <3>3
      <4>2. Len(sentText) + 1 \in DOMAIN sentText' /\ sentText'[Len(sentText) + 1] = p
        BY <1>1, <4>1
      <4>. QED  BY <4>2 DEF Written, ToSet
    <3>4. CASE j # 1
      <4>1. j - 1 \in 1 .. (Len(toSend) - 1) /\ (j - 1) + 1 = j
        BY <3>2, <3>4
      <4>2. /\ DOMAIN toSend' = 1 .. (Len(toSend) - 1)
            /\ \A k \in 1 .. (Len(toSend) - 1) : toSend'[k] = toSend[k + 1]
        BY <1>1
      <4>3. j - 1 \in DOMAIN toSend' /\ toSend'[j - 1] = p
        BY <3>1, <4>1, <4>2
      <4>. QED  BY <4>3 DEF Written, ToSet
    <3>. QED  BY <3>3, <3>4
  <2>. QED  BY <2>1, <2>2 DEF Written
<1>. QED  BY <1>2 DEF Covered

\* No step after the end, and none before, leaves the end incomplete.
LEMMA EndNext == ReplyInv /\ [Next]_vars => EndInv'
<1>. SUFFICES ASSUME TextInv, EndInv, [Next]_vars PROVE EndInv'
  BY DEF ReplyInv
<1>1. CASE Callback
  <2>1. phase = "dispatching" /\ phase' = phase
    BY <1>1 DEF Callback, SignOfLife, MessageStarts, PartialReply, ToolStarts, ActionDelivers,
       DeliverStarts
  <2>2. UNCHANGED <<sentText, toSend, poisoned>> /\ (UNCHANGED <<segment, sentIndex>> \/ sentIndex' = 0)
    BY <1>1 DEF Callback, SignOfLife, MessageStarts, PartialReply, ToolStarts, ActionDelivers,
       DeliverStarts, Session!Update, Session!BeginNewSegment, Session!FlushNow,
       Session!chainVars, Session!textVars, sessionVars, textVars, chainVars
  <2>. QED  BY <2>1, <2>2 DEF EndInv, Covered, Written
<1>2. CASE DeliverStep \/ SignalAborts \/ HeartbeatStep \/ AgentStalls \/ UNCHANGED vars
  <2>1. UNCHANGED <<phase, sessionVars>>
    BY <1>2 DEF DeliverStep, DeliverSettles, SignalAborts, HeartbeatStep, AgentStalls, vars
  <2>. QED  BY <2>1 DEF EndInv, Covered, Written, sessionVars, textVars, chainVars
<1>3. CASE DispatchResolves \/ FallbackSettles
  <2>1. /\ UNCHANGED sessionVars
        /\ \/ phase = "dispatching" /\ phase' = "draining"
           \/ phase = "fallback" /\ phase' = "returned"
    BY <1>3 DEF DispatchResolves, FallbackSettles
  <2>. QED  BY <2>1 DEF EndInv, Covered, Written, sessionVars, textVars, chainVars
<1>4. ASSUME NEW configured \in BOOLEAN, FinalizeReturns(configured) PROVE EndInv'
  <2>1. /\ UNCHANGED sessionVars /\ phase = "sending" /\ phase' \in {"fallback", "returned"}
        /\ toSend = <<>> /\ inFlight = NoPiece /\ ~poisoned
    BY <1>4 DEF FinalizeReturns, Session!SenderFree
  <2>. QED  BY <2>1 DEF EndInv, Covered, Written, sessionVars, textVars, chainVars
<1>5. CASE FinalizeTakes
  <2>1. /\ phase = "draining" /\ phase' = "sending" /\ sendChain' = <<>>
        /\ toSend = <<>> /\ toSend' = Session!Slice(sentIndex, cumulative)
        /\ sentIndex' = cumulative /\ cumulative' = cumulative
        /\ UNCHANGED <<segment, sentText, poisoned>>
    BY <1>5 DEF FinalizeTakes, Session!TakeRemaining, Session!SenderFree
  <2>2. cumulative \in Nat /\ sentIndex <= cumulative /\ Covered
    BY <2>1 DEF TextInv, CursorKnown, EndInv
  <2>3. Covered'
    BY <2>1, <2>2, TakesCovered
  <2>. QED  BY <2>1, <2>3 DEF EndInv
<1>6. CASE HandlerThrows
  BY <1>6 DEF HandlerThrows, EndInv
<1>7. CASE Session!DrainStarts /\ phase' = phase
  <2>1. /\ sendChain # <<>> /\ toSend = <<>> /\ ~aborted
        /\ UNCHANGED <<segment, sentText, poisoned>>
    BY <1>7 DEF Session!DrainStarts, Session!SenderFree
  <2>2. PICK end \in Session!DrainEnds(Head(sendChain)) :
          toSend' = Session!Slice(sentIndex, end) /\ sentIndex' = end
    BY <1>7 DEF Session!DrainStarts
  <2>3. end \in Nat /\ sentIndex <= end
    BY <2>1 DEF Session!DrainEnds, TextInv, CursorKnown
  <2>4. phase # "threw" => Covered'
    BY <2>1, <2>2, <2>3, TakesCovered DEF EndInv
  <2>. QED  BY <1>7, <2>1, <2>4 DEF EndInv
<1>8. CASE Session!ChunkStarts /\ phase' = phase
  <2>1. /\ toSend # <<>> /\ toSend' = Tail(toSend) /\ sentText' = Append(sentText, Head(toSend))
        /\ UNCHANGED <<segment, cumulative, sentIndex, sendChain, poisoned>>
    BY <1>8 DEF Session!ChunkStarts, Session!textVars
  <2>2. phase # "threw" => Covered'
    BY <2>1, ChunkCovered DEF EndInv
  <2>. QED  BY <1>8, <2>1, <2>2 DEF EndInv
<1>9. CASE ChunkSettles
  <2>1. inFlight # NoPiece /\ UNCHANGED <<segment, cumulative, sentIndex, sentText, phase>>
    BY <1>9 DEF ChunkSettles, Session!ChunkSettles, Session!textVars
  <2>2. \/ poisoned' = TRUE /\ toSend' = <<>> /\ sendChain' = <<>>
        \/ UNCHANGED <<poisoned, toSend, sendChain>>
    BY <1>9 DEF ChunkSettles, Session!ChunkSettles
  <2>. QED  BY <2>1, <2>2 DEF EndInv, Covered, Written
<1>10. SendStep => phase' = phase
  BY DEF SendStep
<1>. QED
  BY <1>1, <1>2, <1>3, <1>4, <1>5, <1>6, <1>7, <1>8, <1>9, <1>10 DEF Next, HandlerStep, SendStep

\* Order and completeness together in every reachable state.
THEOREM ReplyInvariant == Spec => []ReplyInv
<1>1. Init => EndInv
  <2>. SUFFICES ASSUME phase = "dispatching", sentIndex = 0 PROVE EndInv
    BY DEF Init, Session!SessionInit
  <2>. QED  BY DEF EndInv, Covered
<1>2. Spec => []TextInv
  BY TextInvariant
<1>. QED  BY <1>1, <1>2, EndNext, PTL DEF Spec, ReplyInv

\* A reply that returns has handed over all of the last assistant message,
\* however its drains, flushes and finalize overlap.
THEOREM LastMessageIsWhole == Spec => []LastMessageComplete
<1>1. ReplyInv => LastMessageComplete
  <2>. SUFFICES ASSUME ReplyInv, phase = "returned", NEW i \in 1 .. cumulative
                PROVE  <<segment, i>> \in ToSet(sentText)
    BY DEF LastMessageComplete
  <2>1. <<segment, i>> \in Written /\ toSend = <<>>
    BY DEF ReplyInv, EndInv, Covered
  <2>. QED  BY <2>1 DEF Written, ToSet
<1>. QED  BY <1>1, ReplyInvariant, PTL

-----------------------------------------------------------------------------
(* The fallback *)

\* After the fallback was sent nothing is left that could still reach the user.
FallbackInv ==
    /\ hasSent \in BOOLEAN /\ hasSentContent \in BOOLEAN /\ actionDelivered \in BOOLEAN
    /\ reached \in BOOLEAN /\ fallbackSent \in BOOLEAN
    /\ reached => hasSent \/ hasSentContent \/ actionDelivered
    /\ phase \in {"draining", "sending", "fallback", "returned"} => delivering = "none"
    /\ fallbackSent =>
         /\ ~reached /\ delivering = "none"
         /\ phase \in {"fallback", "returned", "threw"}
         /\ sendChain = <<>> /\ toSend = <<>> /\ inFlight = NoPiece

\* What an outcome says of the user, for each kind of send.
LEMMA ArrivesKnown ==
    ASSUME NEW outcome \in Outcomes, reached \in BOOLEAN
    PROVE  /\ Arrives("chunk", outcome) => reached' = (reached \/ outcome = "ok")
           /\ Arrives("action", outcome) => reached' = (reached \/ outcome = "ok")
           /\ Arrives("deliver", outcome) =>
                reached' \in BOOLEAN /\ (reached' => reached \/ outcome # "throws")
  BY DEF Outcomes, Arrives, Arrivals, Unheard

\* Every step keeps the fallback alone.
LEMMA FallbackNext == EndInv /\ FallbackInv /\ [Next]_vars => FallbackInv'
<1>. SUFFICES ASSUME EndInv, FallbackInv, [Next]_vars PROVE FallbackInv'
  OBVIOUS
<1>1. CASE Callback
  <2>1. CASE \E outcome \in {"ok", "lost"} : ActionDelivers(outcome)
    <3>1. PICK outcome \in {"ok", "lost"} : ActionDelivers(outcome)
      BY <2>1
    <3>2. /\ phase = "dispatching" /\ UNCHANGED <<phase, delivering, hasSent, hasSentContent, fallbackSent>>
          /\ actionDelivered' = (actionDelivered \/ outcome = "ok")
          /\ Arrives("action", outcome)
      BY <3>1 DEF ActionDelivers, sessionVars, chainVars
    <3>3. reached' = (reached \/ outcome = "ok")
      BY <3>2, ArrivesKnown DEF FallbackInv, Outcomes
    <3>4. ~fallbackSent
      BY <3>2 DEF FallbackInv
    <3>. QED  BY Zenon, <3>2, <3>3, <3>4 DEF FallbackInv
  <2>2. CASE ~\E outcome \in {"ok", "lost"} : ActionDelivers(outcome)
    <3>1. /\ phase = "dispatching"
          /\ UNCHANGED <<phase, hasSent, hasSentContent, actionDelivered, reached, fallbackSent>>
      BY <1>1, <2>2
      DEF Callback, SignOfLife, MessageStarts, PartialReply, ToolStarts, DeliverStarts, Session!Update,
        Session!BeginNewSegment, Session!FlushNow, Session!chainVars, sessionVars, chainVars, replyVars,
        historyVars
    <3>. QED  BY <3>1 DEF FallbackInv
  <2>. QED  BY <2>1, <2>2
<1>2. CASE DeliverStep
  <2>1. PICK outcome \in Outcomes :
          /\ delivering # "none" /\ UNCHANGED <<phase, sessionVars, actionDelivered, fallbackSent>>
          /\ hasSent' = (hasSent \/ outcome # "throws")
          /\ Arrives("deliver", outcome)
    BY Zenon, <1>2 DEF DeliverStep, DeliverSettles
  <2>2. hasSentContent' = hasSentContent
    BY <2>1 DEF sessionVars, chainVars
  <2>3. ~fallbackSent /\ phase \notin {"draining", "sending", "fallback", "returned"}
    BY Zenon, <2>1 DEF FallbackInv
  <2>4. reached' \in BOOLEAN /\ (reached' => reached \/ outcome # "throws")
    BY <2>1, ArrivesKnown DEF FallbackInv
  <2>. QED  BY Zenon, <2>1, <2>2, <2>3, <2>4 DEF FallbackInv
<1>3. CASE SignalAborts \/ HeartbeatStep \/ AgentStalls \/ UNCHANGED vars
  <2>1. UNCHANGED <<phase, delivering, hasSent, hasSentContent, actionDelivered, reached,
                    fallbackSent, sendChain, toSend, inFlight>>
    BY <1>3
    DEF SignalAborts, HeartbeatStep, AgentStalls, vars, sessionVars, chainVars, replyVars,
      historyVars
  <2>. QED  BY <2>1 DEF FallbackInv
<1>4. CASE DispatchResolves \/ FallbackSettles \/ FinalizeTakes
  <2>1. /\ UNCHANGED <<delivering, hasSent, hasSentContent, actionDelivered, reached, fallbackSent>>
        /\ \/ phase = "dispatching" /\ phase' = "draining" /\ delivering = "none"
           \/ phase = "draining" /\ phase' = "sending"
           \/ /\ phase = "fallback" /\ phase' = "returned"
              /\ UNCHANGED <<sendChain, toSend, inFlight>>
    BY <1>4 DEF DispatchResolves, FallbackSettles, FinalizeTakes, Session!TakeRemaining,
       sessionVars, chainVars, replyVars, historyVars
  <2>. QED  BY <2>1 DEF FallbackInv
<1>5. ASSUME NEW configured \in BOOLEAN, FinalizeReturns(configured) PROVE FallbackInv'
  <2>1. /\ phase = "sending" /\ toSend = <<>> /\ inFlight = NoPiece /\ sendChain = <<>>
        /\ UNCHANGED <<delivering, hasSentContent, actionDelivered, reached, sendChain, toSend,
                       inFlight>>
        /\ hasSent' = (hasSent \/ hasSentContent)
        /\ \/ phase' = "fallback" /\ fallbackSent' = TRUE /\ ~hasSent /\ ~hasSentContent /\ ~actionDelivered
           \/ phase' = "returned" /\ fallbackSent' = fallbackSent
    BY <1>5
    DEF FinalizeReturns, NothingSaid, Session!SenderFree, EndInv, sessionVars, chainVars,
      historyVars
  <2>2. /\ hasSent' \in BOOLEAN /\ hasSentContent' \in BOOLEAN /\ actionDelivered' \in BOOLEAN
        /\ reached' \in BOOLEAN /\ (reached' => hasSent' \/ hasSentContent' \/ actionDelivered')
    BY Zenon, <2>1 DEF FallbackInv
  <2>3. ~fallbackSent /\ delivering' = "none"
    BY <2>1 DEF FallbackInv
  <2>4. CASE phase' = "fallback" /\ fallbackSent' = TRUE /\ ~hasSent /\ ~hasSentContent /\ ~actionDelivered
    <3>1. ~reached'
      BY Zenon, <2>1, <2>4 DEF FallbackInv
    <3>. QED  BY Zenon, <2>1, <2>2, <2>3, <2>4, <3>1 DEF FallbackInv
  <2>5. CASE phase' = "returned" /\ fallbackSent' = fallbackSent
    BY Zenon, <2>2, <2>3, <2>5 DEF FallbackInv
  <2>. QED  BY <2>1, <2>4, <2>5
<1>6. CASE HandlerThrows
  <2>1. /\ phase' = "threw" /\ sendChain' = <<>> /\ toSend' = <<>>
        /\ UNCHANGED <<delivering, inFlight, hasSent, hasSentContent, actionDelivered, reached, fallbackSent>>
    BY <1>6 DEF HandlerThrows, Session!Abort, replyVars, historyVars
  <2>. QED  BY <2>1 DEF FallbackInv
<1>7. CASE SendStep
  <2>1. /\ UNCHANGED <<phase, delivering, hasSent, hasSentContent, actionDelivered, reached, fallbackSent>>
        /\ sendChain # <<>> \/ toSend # <<>>
    BY <1>7 DEF SendStep, Session!DrainStarts, Session!ChunkStarts, replyVars, historyVars
  <2>. QED  BY <2>1 DEF FallbackInv
<1>8. CASE ChunkSettles
  <2>1. PICK outcome \in Outcomes :
          /\ hasSentContent' = (hasSentContent \/ outcome = "ok")
          /\ Arrives("chunk", outcome)
    BY Zenon, <1>8 DEF ChunkSettles, Session!ChunkSettles
  <2>2. inFlight # NoPiece /\ UNCHANGED <<phase, delivering, hasSent, actionDelivered, fallbackSent>>
    BY <1>8 DEF ChunkSettles, Session!ChunkSettles, replyVars
  <2>3. reached' = (reached \/ outcome = "ok")
    BY <2>1, ArrivesKnown DEF FallbackInv
  <2>. QED  BY Zenon, <2>1, <2>2, <2>3 DEF FallbackInv
<1>. QED  BY <1>1, <1>2, <1>3, <1>4, <1>5, <1>6, <1>7, <1>8 DEF Next, HandlerStep

\* The fallback is sent only to a user whom no streamed text, delivered payload or
\* message action has reached, and none reaches them after it - but for a chunk or
\* an action whose answer was lost (Unheard).
THEOREM FallbackIsAlone == Spec => []FallbackStandsAlone
<1>1. Init => FallbackInv
  <2>. SUFFICES ASSUME phase = "dispatching", hasSent = FALSE, hasSentContent = FALSE,
                       actionDelivered = FALSE, reached = FALSE, fallbackSent = FALSE
                PROVE  FallbackInv
    BY DEF Init, Session!SessionInit
  <2>. QED  BY Zenon DEF FallbackInv
<1>2. FallbackInv => FallbackStandsAlone
  BY DEF FallbackInv, FallbackStandsAlone
<1>3. Spec => []EndInv
  BY ReplyInvariant, PTL DEF ReplyInv
<1>. QED  BY <1>1, <1>2, <1>3, FallbackNext, PTL DEF Spec

-----------------------------------------------------------------------------
(* The reminder tool *)

AtMostOneJob(c) == \A j, k \in MadeBy(c) : j = k

\* A call the scheduler has not heard of yet, or has refused, has no job.
CallKnown(c) ==
    /\ stage[c] = "idle" => command[c] = "none" /\ told[c] = "nothing"
    /\ stage[c] = "waiting" => told[c] = "nothing" /\ command[c] # "none"
    /\ command[c] \in {"none", "sent", "refused"} /\ told[c] # "followed" => MadeBy(c) = {}
    /\ told[c] \in {"PENDING_CRON_CALL", "error"} => MadeBy(c) = {}
    /\ command[c] = "sent" => stage[c] = "waiting"
    /\ AtMostOneJob(c)

Typed ==
    /\ DOMAIN stage = Calls /\ DOMAIN command = Calls /\ DOMAIN told = Calls
    /\ stage \in [Calls -> {"idle", "waiting", "told"}]
    /\ unheard \subseteq Calls

CallsInv == Typed /\ \A c \in Calls \ unheard : CallKnown(c)

-----------------------------------------------------------------------------
\* Nothing was called.
LEMMA InitInv == RemindInit => CallsInv
BY RemindConstants DEF RemindInit, CallsInv, Typed, CallKnown, AtMostOneJob, MadeBy, JobType

\* What another call does to the jobs of this one: nothing.
LEMMA OthersJobs ==
    ASSUME NEW c \in Calls, NEW d \in Calls, c # d, Adds(d)
    PROVE  MadeBy(c)' = MadeBy(c)
BY DEF Adds, MadeBy

\* The first job of a call is its only one.
LEMMA FirstJob ==
    ASSUME NEW c \in Calls, MadeBy(c) = {}, Adds(c)
    PROVE  AtMostOneJob(c)'
BY DEF Adds, MadeBy, AtMostOneJob

\* A call the step is not about.
LEMMA OtherCall ==
    ASSUME NEW c \in Calls, CallKnown(c),
           UNCHANGED <<stage[c], command[c], told[c]>>, MadeBy(c)' = MadeBy(c)
    PROVE  CallKnown(c)'
BY DEF CallKnown, AtMostOneJob

\* The scheduler handles what it was sent.
LEMMA HandleInv ==
    ASSUME CallsInv, NEW d \in Calls, Handle(d)
    PROVE  CallsInv'
<1>1. Typed'
  BY DEF CallsInv, Typed, Handle, callVars
<1>2. \/ command' = [command EXCEPT ![d] = "refused"] /\ made' = made
      \/ command' = [command EXCEPT ![d] = "done"] /\ (made' = made \/ Adds(d))
  BY DEF Handle
<1>3. ASSUME NEW c \in Calls \ unheard, c # d PROVE CallKnown(c)'
  <2>1. MadeBy(c)' = MadeBy(c)
    <3>1. CASE made' = made
      BY <3>1 DEF MadeBy
    <3>2. CASE Adds(d)
      BY <1>3, <3>2, OthersJobs
    <3>. QED  BY <1>2, <3>1, <3>2
  <2>2. UNCHANGED <<stage[c], command[c], told[c]>>
    BY <1>2, <1>3 DEF Handle, callVars, CallsInv, Typed
  <2>. QED  BY <1>3, <2>1, <2>2, OtherCall DEF CallsInv
<1>4. ASSUME d \notin unheard PROVE CallKnown(d)'
  <2>1. /\ stage[d] = "waiting" /\ told[d] = "nothing" /\ MadeBy(d) = {}
        /\ stage' = stage /\ told' = told /\ command'[d] \in {"refused", "done"}
    BY <1>2, <1>4 DEF Handle, callVars, CallsInv, CallKnown, Typed
  <2>2. CASE made' = made
    <3>1. MadeBy(d)' = {}
      BY <2>1, <2>2 DEF MadeBy
    <3>. QED  BY <2>1, <3>1 DEF CallKnown, AtMostOneJob
  <2>3. CASE Adds(d) /\ command'[d] = "done"
    BY <2>1, <2>3, FirstJob DEF CallKnown
  <2>. QED  BY <1>2, <2>1, <2>2, <2>3 DEF CallsInv, Typed
<1>. QED  BY <1>1, <1>3, <1>4 DEF CallsInv, Handle, callVars

\* What the tool does before and after.
LEMMA ToolInv ==
    ASSUME CallsInv, NEW d \in Calls, Execute(d) \/ Heard(d) \/ GiveUp(d)
    PROVE  CallsInv'
<1>. USE DEF Execute, Heard, GiveUp, Fails, Legacy, Tell, schedulerVars
<1>1. Typed'
  BY DEF CallsInv, Typed
<1>2. made' = made /\ unheard \subseteq unheard'
  OBVIOUS
<1>3. ASSUME NEW c \in Calls \ unheard', c # d PROVE CallKnown(c)'
  <2>1. UNCHANGED <<stage[c], command[c], told[c]>> /\ MadeBy(c)' = MadeBy(c)
    BY <1>2, <1>3 DEF CallsInv, Typed, MadeBy
  <2>. QED  BY <1>2, <1>3, <2>1, OtherCall DEF CallsInv
<1>4. ASSUME d \notin unheard' PROVE CallKnown(d)'
  <2>1. MadeBy(d)' = MadeBy(d) /\ d \notin unheard /\ CallKnown(d)
    BY <1>2, <1>4 DEF CallsInv, MadeBy
  <2>2. CASE Execute(d)
    <3>1. \/ stage'[d] = "told" /\ told'[d] \in {"PENDING_CRON_CALL", "error"} /\ command'[d] = "none"
          \/ stage'[d] = "waiting" /\ told'[d] = "nothing" /\ command'[d] = "sent"
      BY <2>1, <2>2 DEF CallsInv, Typed, CallKnown
    <3>2. MadeBy(d) = {}
      BY <2>1, <2>2 DEF CallKnown
    <3>. QED  BY <2>1, <3>1, <3>2 DEF CallKnown, AtMostOneJob
  <2>3. CASE Heard(d)
    <3>1. /\ stage'[d] = "told" /\ command'[d] = command[d] /\ command[d] \in {"done", "refused"}
          /\ \/ told'[d] = "ok"
             \/ command[d] = "refused" /\ told'[d] \in {"PENDING_CRON_CALL", "error"}
      BY <2>1, <2>3 DEF CallsInv, Typed
    <3>2. told[d] = "nothing" /\ (command[d] = "refused" => MadeBy(d) = {})
      BY <2>1, <2>3 DEF CallKnown
    <3>. QED  BY <2>1, <3>1, <3>2 DEF CallKnown, AtMostOneJob
  <2>4. CASE GiveUp(d)
    BY <1>4, <2>4
  <2>. QED  BY <2>2, <2>3, <2>4
<1>. QED  BY <1>1, <1>3, <1>4 DEF CallsInv

\* The agent's own tool is the last way, and only after one that made no job.
LEMMA FollowUpInv ==
    ASSUME CallsInv, NEW d \in Calls, FollowUp(d)
    PROVE  CallsInv'
<1>1. Typed'
  BY DEF CallsInv, Typed, FollowUp
<1>2. ASSUME NEW c \in Calls \ unheard, c # d PROVE CallKnown(c)'
  <2>1. MadeBy(c)' = MadeBy(c) /\ UNCHANGED <<stage[c], command[c], told[c]>>
    BY <1>2, OthersJobs DEF FollowUp, CallsInv, Typed
  <2>. QED  BY <1>2, <2>1, OtherCall DEF CallsInv
<1>3. ASSUME d \notin unheard PROVE CallKnown(d)'
  <2>1. MadeBy(d) = {} /\ stage[d] = "told" /\ command[d] # "sent"
    BY <1>3 DEF CallsInv, CallKnown, FollowUp, Typed
  <2>2. AtMostOneJob(d)'
    BY <2>1, FirstJob DEF FollowUp
  <2>3. told'[d] = "followed" /\ stage' = stage /\ command' = command
    BY DEF FollowUp, CallsInv, Typed
  <2>. QED  BY <2>1, <2>2, <2>3 DEF CallKnown
<1>. QED  BY <1>1, <1>2, <1>3 DEF CallsInv, FollowUp

-----------------------------------------------------------------------------
\* Every step keeps what is known of each call.
LEMMA NextInv == CallsInv /\ [RemindNext]_remindVars => CallsInv'
<1>. SUFFICES ASSUME CallsInv, [RemindNext]_remindVars PROVE CallsInv'
  OBVIOUS
<1>1. CASE \E c \in Calls : CallStep(c)
  BY <1>1, HandleInv, ToolInv, FollowUpInv DEF CallStep
<1>2. CASE Fire \/ Tick \/ UNCHANGED remindVars
  <2>1. UNCHANGED <<stage, command, told, made, unheard>>
    <3>1. CASE Fire
      BY <3>1 DEF Fire, callVars
    <3>2. CASE Tick \/ UNCHANGED remindVars
      BY <3>2 DEF Tick, remindVars, callVars, schedulerVars
    <3>. QED  BY <1>2, <3>1, <3>2
  <2>2. ASSUME NEW c \in Calls \ unheard PROVE CallKnown(c)'
    <3>1. MadeBy(c)' = MadeBy(c)
      BY <2>1 DEF MadeBy
    <3>. QED  BY <2>1, <2>2, <3>1, OtherCall DEF CallsInv
  <2>. QED  BY <2>1, <2>2 DEF CallsInv, Typed
<1>. QED  BY <1>1, <1>2 DEF RemindNext

\* However many ways are tried, a call whose answers all arrive makes at most one
\* job, and none that the agent is told has failed.
THEOREM RemindsOnce == RemindSpec => []OnceUnlessUnheard
<1>1. CallsInv => OnceUnlessUnheard
  <2>. SUFFICES ASSUME CallsInv, NEW c \in Calls \ unheard
                PROVE  Cardinality(MadeBy(c)) <= 1 /\ (told[c] = "error" => MadeBy(c) = {})
    BY DEF OnceUnlessUnheard
  <2>1. AtMostOneJob(c) /\ (told[c] = "error" => MadeBy(c) = {})
    BY DEF CallsInv, CallKnown
  <2>2. MadeBy(c) = {} \/ \E j \in MadeBy(c) : MadeBy(c) = {j}
    <3>. SUFFICES ASSUME NEW j \in MadeBy(c) PROVE MadeBy(c) = {j}
      OBVIOUS
    <3>1. \A k \in MadeBy(c) : k = j
      BY <2>1 DEF AtMostOneJob
    <3>. QED  BY <3>1
  <2>3. Cardinality(MadeBy(c)) <= 1
    <3>1. CASE MadeBy(c) = {}
      BY <3>1, FS_EmptySet
    <3>2. ASSUME NEW j \in MadeBy(c), MadeBy(c) = {j} PROVE Cardinality(MadeBy(c)) <= 1
      <4>1. Cardinality({j}) = 1
        BY FS_Singleton
      <4>. QED  BY <3>2, <4>1
    <3>. QED  BY <2>2, <3>1, <3>2
  <2>. QED  BY <2>1, <2>3
<1>. QED  BY <1>1, InitInv, NextInv, PTL DEF RemindSpec

-----------------------------------------------------------------------------
(* What an "ok" says *)

\* The scheduler's jobs, and those it has listed, are jobs that were made, and
\* their ids are behind the next one.
SchedulerKnown ==
    /\ IsFiniteSet(made)
    /\ \A j \in made : j.id \in 1 .. Cardinality(made)
    /\ jobs \subseteq {j.id : j \in made}
    /\ DOMAIN listed = Calls
    /\ \A c \in Calls : listed[c] \subseteq {j.id : j \in made}

CallsTyped ==
    /\ request \in [Calls -> Requests]
    /\ DOMAIN stage = Calls /\ DOMAIN command = Calls /\ DOMAIN told = Calls /\ DOMAIN shown = Calls
    /\ now \in Nat /\ sentAt \in [Calls -> Nat]

\* The one job of a call, as it was asked for.
JobAsked(c) ==
    \E j : MadeBy(c) = {j} /\ j.to = request[c].to /\ InTime(j, c)

\* Jobs of this conversation among those that were listed.
Here(c) == {j.id : j \in {x \in made : x.to = request[c].to}} \cap listed[c]

\* What a call has done by the time it is told of a success.
Asked(c) ==
    /\ stage[c] = "idle" => command[c] = "none" /\ told[c] = "nothing"
    /\ stage[c] = "waiting" =>
          /\ told[c] = "nothing" /\ command[c] # "none"
          /\ now - sentAt[c] \in 0 .. Timeout
    /\ told[c] = "nothing" => stage[c] \in {"idle", "waiting"}
    /\ told[c] = "ok" => command[c] = "done"
    /\ told[c] \in {"nothing", "ok"} =>
          IF command[c] = "done" /\ request[c].action = "add" THEN JobAsked(c) ELSE MadeBy(c) = {}
    /\ request[c].action = "remove" =>
          /\ command[c] # "none" => request[c].jobId \in 0 .. Cardinality(made)
          /\ command[c] = "done" => request[c].jobId \notin jobs
    /\ told[c] = "ok" /\ request[c].action \notin {"add", "remove"}
          /\ request[c].to # NoConversation =>
               Here(c) \subseteq shown[c] /\ (c \notin raw => shown[c] = Here(c))

AskedInv == SchedulerKnown /\ CallsTyped /\ \A c \in Calls : Asked(c)

\* Rounding moves a delay by half a unit at most.
LEMMA Rounds ==
    ASSUME NEW ms \in Nat
    PROVE  /\ RoundedDelay(ms) \in Int /\ Second \div 2 \in Nat
           /\ RoundedDelay(ms) - ms \in -(Second \div 2) .. (Second \div 2)
<1>. DEFINE h == Second \div 2
            q == (ms + h) \div Second
<1>1. Second \in Nat /\ Second > 0
  BY RemindConstants
<1>2. h \in Nat /\ 2 * h <= Second /\ Second <= 2 * h + 1
  BY <1>1
<1>3. ms + h \in Nat
  BY <1>2
<1>. HIDE DEF h
<1>4. q \in Nat /\ q * Second \in Nat /\ q * Second <= ms + h /\ ms + h < q * Second + Second
  BY <1>1, <1>3
<1>5. RoundedDelay(ms) = q * Second
  BY DEF RoundedDelay, h
<1>. HIDE DEF q
<1>6. q * Second - ms \in -h .. h
  BY <1>1, <1>2, <1>4
<1>. QED  BY <1>2, <1>4, <1>5, <1>6 DEF h

\* A new job has an id that nobody knows yet.
LEMMA Added ==
    ASSUME SchedulerKnown, NEW d \in Calls, Adds(d)
    PROVE  /\ IsFiniteSet(made') /\ Cardinality(made) \in Nat
           /\ Cardinality(made') = Cardinality(made) + 1
           /\ \A j \in made' : j.id \in 1 .. Cardinality(made')
           /\ jobs' \subseteq {j.id : j \in made'}
           /\ \E j : /\ made' = made \cup {j} /\ jobs' = jobs \cup {j.id}
                     /\ j.id = Cardinality(made) + 1 /\ j.by = d
                     /\ j.to = request[d].to /\ j.at = StartsAt(request[d].time)
<1>. DEFINE n == Cardinality(made)
            new == [id |-> n + 1, by |-> d, to |-> request[d].to, at |-> StartsAt(request[d].time)]
<1>1. n \in Nat /\ IsFiniteSet(made)
  BY FS_CardinalityType DEF SchedulerKnown
<1>2. made' = made \cup {new} /\ jobs' = jobs \cup {n + 1}
  BY DEF Adds
<1>3. /\ new.id = n + 1 /\ new.by = d /\ new.to = request[d].to
      /\ new.at = StartsAt(request[d].time)
  OBVIOUS
<1>. HIDE DEF new
<1>4. new \notin made
  BY <1>1, <1>3 DEF SchedulerKnown
<1>5. IsFiniteSet(made') /\ Cardinality(made') = n + 1
  BY <1>1, <1>2, <1>4, FS_AddElement
<1>6. \A j \in made' : j.id \in 1 .. n + 1
  BY <1>1, <1>2, <1>3 DEF SchedulerKnown
<1>7. jobs' \subseteq {j.id : j \in made'}
  BY <1>2, <1>3 DEF SchedulerKnown
<1>. QED  BY <1>1, <1>2, <1>3, <1>5, <1>6, <1>7

\* Nothing was asked.
LEMMA AskedInit == RemindInit => AskedInv
<1>. SUFFICES ASSUME RemindInit PROVE AskedInv
  OBVIOUS
<1>1. SchedulerKnown
  BY RemindConstants DEF RemindInit, SchedulerKnown
<1>2. CallsTyped
  BY DEF RemindInit, CallsTyped
<1>3. \A c \in Calls : MadeBy(c) = {}
  BY RemindConstants DEF RemindInit, MadeBy, JobType
<1>. QED  BY <1>1, <1>2, <1>3 DEF AskedInv, Asked, RemindInit

\* A call the step is not about, whatever the step does to the scheduler's jobs.
LEMMA OtherAsked ==
    ASSUME AskedInv, NEW c \in Calls,
           UNCHANGED <<now, request, stage[c], command[c], told[c], shown[c], sentAt[c], listed[c]>>,
           c \in raw' <=> c \in raw,
           \/ made' = made /\ jobs' \subseteq jobs
           \/ \E d \in Calls \ {c} : Adds(d)
    PROVE  Asked(c)'
<1>1. MadeBy(c)' = MadeBy(c)
  BY OthersJobs DEF MadeBy
<1>2. JobAsked(c)' <=> JobAsked(c)
  BY <1>1 DEF JobAsked, InTime
<1>3. CASE made' = made /\ jobs' \subseteq jobs
  <2>1. Here(c)' = Here(c)
    BY <1>3 DEF Here
  <2>. QED  BY <1>1, <1>2, <1>3, <2>1 DEF AskedInv, Asked
<1>4. ASSUME NEW d \in Calls \ {c}, Adds(d) PROVE Asked(c)'
  <2>1. PICK j : /\ made' = made \cup {j} /\ jobs' = jobs \cup {j.id}
                 /\ j.id = Cardinality(made) + 1
    BY <1>4, Added DEF AskedInv
  <2>2. Cardinality(made') = Cardinality(made) + 1 /\ Cardinality(made) \in Nat
    BY <1>4, Added DEF AskedInv
  <2>3. \A i \in listed[c] : i # j.id
    BY <2>1, <2>2 DEF AskedInv, SchedulerKnown
  <2>4. Here(c)' = Here(c)
    BY <2>1, <2>3 DEF Here
  <2>5. \A i \in 0 .. Cardinality(made) : i # j.id /\ i \in 0 .. Cardinality(made')
    BY <2>1, <2>2
  <2>. QED  BY <1>1, <1>2, <2>1, <2>4, <2>5 DEF AskedInv, Asked
<1>. QED  BY <1>3, <1>4

\* The scheduler handles what it was sent.
LEMMA HandleAsked ==
    ASSUME AskedInv, NEW d \in Calls, Handle(d)
    PROVE  AskedInv'
<1>. USE DEF callVars
<1>1. /\ UNCHANGED <<now, request, stage, told, shown, raw, sentAt>> /\ command[d] = "sent"
      /\ CallsTyped'
  BY DEF Handle, AskedInv, CallsTyped
<1>2. \/ /\ command' = [command EXCEPT ![d] = "refused"] /\ UNCHANGED <<jobs, made, listed>>
      \/ /\ command' = [command EXCEPT ![d] = "done"]
         /\ \/ request[d].action = "add" /\ Adds(d) /\ UNCHANGED listed
            \/ /\ request[d].action = "remove" /\ jobs' = jobs \ {request[d].jobId}
               /\ UNCHANGED <<made, listed>>
            \/ /\ request[d].action \notin {"add", "remove"}
               /\ listed' = [listed EXCEPT ![d] = jobs] /\ UNCHANGED <<jobs, made>>
  BY DEF Handle
<1>3. SchedulerKnown'
  <2>1. CASE Adds(d) /\ UNCHANGED listed
    <3>1. made \subseteq made'
      BY <2>1 DEF Adds
    <3>. QED  BY <2>1, <3>1, Added DEF AskedInv, SchedulerKnown
  <2>2. CASE made' = made /\ jobs' \subseteq jobs
    <3>1. DOMAIN listed' = Calls /\ \A c \in Calls : listed'[c] \in {listed[c], jobs}
      <4>1. CASE UNCHANGED listed
        BY <4>1 DEF AskedInv, SchedulerKnown
      <4>2. CASE listed' = [listed EXCEPT ![d] = jobs]
        BY <4>2 DEF AskedInv, SchedulerKnown
      <4>. QED  BY <1>2, <4>1, <4>2
    <3>2. \A c \in Calls : listed'[c] \subseteq {j.id : j \in made}
      BY <3>1 DEF AskedInv, SchedulerKnown
    <3>. QED  BY <2>2, <3>1, <3>2 DEF AskedInv, SchedulerKnown
  <2>3. (Adds(d) /\ UNCHANGED listed) \/ (made' = made /\ jobs' \subseteq jobs)
    BY <1>2
  <2>. QED  BY <2>1, <2>2, <2>3
<1>4. ASSUME NEW c \in Calls, c # d PROVE Asked(c)'
  <2>1. UNCHANGED <<command[c], listed[c], stage[c], told[c], shown[c], sentAt[c]>>
    BY <1>1, <1>2, <1>4 DEF AskedInv, SchedulerKnown, CallsTyped
  <2>2. (made' = made /\ jobs' \subseteq jobs) \/ Adds(d)
    BY <1>2
  <2>. QED  BY <1>1, <1>4, <2>1, <2>2, OtherAsked
<1>5. Asked(d)'
  <2>1. /\ Asked(d) /\ told[d] # "ok" /\ command'[d] \in {"refused", "done"}
        /\ told[d] \in {"nothing", "ok"} => MadeBy(d) = {}
        /\ stage[d] # "idle"
    BY <1>1, <1>2 DEF AskedInv, Asked, CallsTyped
  <2>2. CASE command'[d] = "refused"
    <3>1. UNCHANGED <<jobs, made, listed>>
      BY <1>1, <1>2, <2>2 DEF AskedInv, CallsTyped
    <3>2. MadeBy(d)' = MadeBy(d)
      BY <3>1 DEF MadeBy
    <3>. QED  BY <1>1, <2>1, <2>2, <3>1, <3>2 DEF Asked
  <2>3. CASE command'[d] = "done" /\ request[d].action = "add" /\ Adds(d)
    <3>1. PICK j : /\ made' = made \cup {j} /\ j.by = d
                   /\ j.to = request[d].to /\ j.at = StartsAt(request[d].time)
      BY <2>3, Added DEF AskedInv
    <3>2. ASSUME told[d] \in {"nothing", "ok"} PROVE JobAsked(d)'
      <4>1. MadeBy(d)' = {j}
        BY <2>1, <3>1, <3>2 DEF MadeBy
      <4>2. stage[d] = "waiting" /\ now - sentAt[d] \in 0 .. Timeout
        BY <1>1, <2>1, <3>2 DEF Asked
      <4>3. InTime(j, d)'
        <5>1. /\ request[d].time.ms \in Nat /\ now \in Nat /\ sentAt[d] \in Nat
              /\ Timeout \in Nat
          BY RemindConstants DEF AskedInv, CallsTyped, RequestType, TimeType
        <5>2. request[d].time.kind # "relative" => j.at = request[d].time.ms
          BY <3>1 DEF StartsAt
        <5>3. request[d].time.kind = "relative" =>
                j.at = now + RoundedDelay(request[d].time.ms)
          BY <3>1 DEF StartsAt
        <5>4. request[d].time.kind = "relative" =>
                j.at - sentAt[d] - request[d].time.ms \in
                  -(Second \div 2) .. Timeout + Second \div 2
          BY <4>2, <5>1, <5>3, Rounds
        <5>. QED  BY <1>1, <5>2, <5>4 DEF InTime
      <4>. QED  BY <1>1, <3>1, <4>1, <4>3 DEF JobAsked
    <3>. QED  BY <1>1, <2>1, <2>3, <3>2 DEF Asked
  <2>4. CASE command'[d] = "done" /\ request[d].action # "add" /\ UNCHANGED made
    <3>1. MadeBy(d)' = MadeBy(d)
      BY <2>4 DEF MadeBy
    <3>2. request[d].action = "remove" => jobs' = jobs \ {request[d].jobId}
      BY <1>2, <2>4 DEF AskedInv, CallsTyped
    <3>. QED  BY <1>1, <2>1, <2>4, <3>1, <3>2 DEF Asked
  <2>. QED  BY <1>2, <2>1, <2>2, <2>3, <2>4 DEF AskedInv, CallsTyped
<1>. QED  BY <1>1, <1>3, <1>4, <1>5 DEF AskedInv

\* The tool sends a command, hears of it, or gives up.
LEMMA ToolAsked ==
    ASSUME AskedInv, NEW d \in Calls, Execute(d) \/ Heard(d) \/ GiveUp(d)
    PROVE  AskedInv'
<1>. USE DEF Execute, Heard, GiveUp, Fails, Legacy, Tell, schedulerVars
<1>1. UNCHANGED <<now, request, jobs, made, listed>>
  OBVIOUS
<1>2. SchedulerKnown'
  BY <1>1 DEF AskedInv, SchedulerKnown
<1>3. CallsTyped'
  BY DEF AskedInv, CallsTyped
<1>4. ASSUME NEW c \in Calls, c # d PROVE Asked(c)'
  <2>1. UNCHANGED <<command[c], stage[c], told[c], shown[c], sentAt[c]>> /\ (c \in raw' <=> c \in raw)
    BY <1>4 DEF AskedInv, CallsTyped
  <2>. QED  BY <1>1, <1>4, <2>1, OtherAsked
<1>5. Asked(d)'
  <2>1. MadeBy(d)' = MadeBy(d) /\ (JobAsked(d)' <=> (\E j : /\ MadeBy(d) = {j}
                /\ j.to = request[d].to /\ InTime(j, d)'))
    BY <1>1 DEF MadeBy, JobAsked
  <2>2. CASE Execute(d)
    <3>1. Asked(d) /\ stage[d] = "idle"
      BY <2>2 DEF AskedInv
    <3>2. \/ /\ stage'[d] = "told" /\ told'[d] \in {"PENDING_CRON_CALL", "error"}
             /\ command'[d] = "none"
          \/ /\ stage'[d] = "waiting" /\ told'[d] = "nothing" /\ command'[d] = "sent"
             /\ sentAt'[d] = now
      BY <2>2, <3>1 DEF AskedInv, CallsTyped, Asked
    <3>3. request[d].action = "remove" => request[d].jobId \in 0 .. Cardinality(made)
      <4>1. Cardinality(made) \in Nat
        BY FS_CardinalityType DEF AskedInv, SchedulerKnown
      <4>. QED  BY <2>2, <4>1 DEF Names, AskedInv, SchedulerKnown
    <3>4. now - now \in 0 .. Timeout
      BY RemindConstants DEF AskedInv, CallsTyped
    <3>. QED  BY <1>1, <2>1, <3>1, <3>2, <3>3, <3>4 DEF Asked
  <2>3. CASE Heard(d)
    <3>1. Asked(d) /\ stage[d] = "waiting" /\ told[d] = "nothing"
      BY <2>3 DEF AskedInv, Asked
    <3>2. /\ stage'[d] = "told" /\ UNCHANGED <<command, sentAt>>
          /\ \/ told'[d] \in {"PENDING_CRON_CALL", "error"}
             \/ /\ told'[d] = "ok" /\ command[d] = "done"
                /\ \/ shown'[d] = Filtered(listed[d], request[d].to)
                   \/ d \in raw' /\ shown'[d] = listed[d]
      BY <2>3 DEF AskedInv, CallsTyped
    <3>3. JobAsked(d)' <=> JobAsked(d)
      BY <1>1, <2>1, <3>2 DEF JobAsked, InTime
    <3>4. /\ request[d].to # NoConversation => Filtered(listed[d], request[d].to) = Here(d)
          /\ Here(d) \subseteq listed[d]
      BY DEF Filtered, Here
    <3>5. Here(d)' = Here(d)
      BY <1>1 DEF Here
    <3>. QED  BY <1>1, <2>1, <3>1, <3>2, <3>3, <3>4, <3>5 DEF Asked
  <2>4. CASE GiveUp(d)
    <3>1. Asked(d) /\ stage[d] = "waiting"
      BY <2>4 DEF AskedInv
    <3>2. /\ stage'[d] = "told" /\ told'[d] \in {"PENDING_CRON_CALL", "error"}
          /\ UNCHANGED command
      BY <2>4 DEF AskedInv, CallsTyped
    <3>. QED  BY <1>1, <3>1, <3>2 DEF Asked
  <2>. QED  BY <2>2, <2>3, <2>4
<1>. QED  BY <1>2, <1>3, <1>4, <1>5 DEF AskedInv

\* The agent uses its own tool: for a call that is not told of a success.
LEMMA FollowUpAsked ==
    ASSUME AskedInv, NEW d \in Calls, FollowUp(d)
    PROVE  AskedInv'
<1>1. /\ UNCHANGED <<now, request, stage, shown, raw, sentAt, command, listed>> /\ Adds(d)
      /\ told' = [told EXCEPT ![d] = "followed"] /\ request[d].action = "add"
      /\ told[d] = "PENDING_CRON_CALL"
  BY DEF FollowUp
<1>2. SchedulerKnown'
  <2>1. made \subseteq made'
    BY <1>1 DEF Adds
  <2>. QED  BY <1>1, <2>1, Added DEF AskedInv, SchedulerKnown
<1>3. CallsTyped'
  BY <1>1 DEF AskedInv, CallsTyped
<1>4. ASSUME NEW c \in Calls, c # d PROVE Asked(c)'
  <2>1. told'[c] = told[c]
    BY <1>1, <1>4
  <2>. QED  BY <1>1, <1>4, <2>1, OtherAsked
<1>5. Asked(d)'
  <2>1. told'[d] = "followed" /\ stage[d] \notin {"idle", "waiting"}
    BY <1>1 DEF AskedInv, CallsTyped, Asked
  <2>. QED  BY <1>1, <2>1 DEF Asked
<1>. QED  BY <1>2, <1>3, <1>4, <1>5 DEF AskedInv

\* Every step keeps what is known of each call.
LEMMA AskedNext == AskedInv /\ [RemindNext]_remindVars => AskedInv'
<1>. SUFFICES ASSUME AskedInv, [RemindNext]_remindVars PROVE AskedInv'
  OBVIOUS
<1>1. CASE \E c \in Calls : CallStep(c)
  BY <1>1, HandleAsked, ToolAsked, FollowUpAsked DEF CallStep
<1>2. CASE Fire \/ UNCHANGED remindVars
  <2>1. /\ UNCHANGED <<now, callVars, command, made, listed>> /\ jobs' \subseteq jobs
    BY <1>2 DEF Fire, remindVars, schedulerVars
  <2>2. SchedulerKnown' /\ CallsTyped'
    BY <2>1 DEF AskedInv, SchedulerKnown, CallsTyped, callVars
  <2>3. \A c \in Calls : Asked(c)'
    BY <2>1, OtherAsked DEF callVars
  <2>. QED  BY <2>2, <2>3 DEF AskedInv
<1>3. CASE Tick
  <2>1. /\ UNCHANGED <<callVars, schedulerVars>> /\ now' = now + 1
        /\ \A c \in Calls : stage[c] = "waiting" => now - sentAt[c] < Timeout
    BY <1>3 DEF Tick
  <2>2. SchedulerKnown' /\ CallsTyped'
    BY <2>1 DEF AskedInv, SchedulerKnown, CallsTyped, callVars, schedulerVars
  <2>3. ASSUME NEW c \in Calls PROVE Asked(c)'
    <3>1. stage[c] = "waiting" => now' - sentAt[c] \in 0 .. Timeout
      BY <2>1, RemindConstants DEF AskedInv, CallsTyped, Asked
    <3>2. MadeBy(c)' = MadeBy(c) /\ (JobAsked(c)' <=> JobAsked(c)) /\ Here(c)' = Here(c)
      BY <2>1 DEF MadeBy, JobAsked, InTime, Here, callVars, schedulerVars
    <3>. QED  BY <2>1, <3>1, <3>2 DEF AskedInv, Asked, callVars, schedulerVars
  <2>. QED  BY <2>2, <2>3 DEF AskedInv
<1>. QED  BY <1>1, <1>2, <1>3 DEF RemindNext

\* A call that is told "ok" is done: there is its one job, for its conversation
\* and the time asked for, the job is gone, or the list has all jobs of the
\* conversation and, unless it could not be parsed, no other.
THEOREM OkIsDone == RemindSpec => []OkIsTrue
<1>1. AskedInv => OkIsTrue
  <2>. SUFFICES ASSUME AskedInv, NEW c \in Calls, told[c] = "ok"
                PROVE  CASE request[c].action = "add" ->
                               /\ Cardinality(MadeBy(c)) = 1
                               /\ \A j \in MadeBy(c) : j.to = request[c].to /\ InTime(j, c)
                         [] request[c].action = "remove" -> request[c].jobId \notin jobs
                         [] OTHER -> request[c].to # NoConversation => ListIsOwn(c)
    BY DEF OkIsTrue
  <2>1. Asked(c)
    BY DEF AskedInv
  <2>2. CASE request[c].action = "add"
    <3>1. PICK j : MadeBy(c) = {j} /\ j.to = request[c].to /\ InTime(j, c)
      BY <2>1, <2>2 DEF Asked, JobAsked
    <3>2. Cardinality(MadeBy(c)) = 1
      BY <3>1, FS_Singleton
    <3>. QED  BY <2>2, <3>1, <3>2
  <2>3. CASE request[c].action # "add"
    BY <2>1, <2>3 DEF Asked, Here, ListIsOwn
  <2>. QED  BY <2>2, <2>3
<1>. QED  BY <1>1, AskedInit, AskedNext, PTL DEF RemindSpec
=============================================================================
