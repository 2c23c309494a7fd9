---------------------------- MODULE LiveBoardProofs ----------------------------
(***************************************************************************)
(* Proofs about LiveBoard for any number of boards and writers, any        *)
(* channel capacity and any number of changes and faults.                  *)
(***************************************************************************)
EXTENDS LiveBoard, TLAPS

\* What is announced, shown or read is committed.
WritersOK == \A w \in Writers : pending[w] # Nil => pending[w] <= stored

Behind(b) ==
    /\ shown[b] # Nil => shown[b] <= stored
    /\ read[b] <= stored
    /\ due[b] <= stored

\* A board is told of changes only while it is subscribed and has loaded.
Told(b) ==
    /\ stream[b] # "subscribed" => due[b] = 0 /\ chan[b] = 0 /\ wire[b] = 0
    /\ shown[b] = Nil => due[b] = 0

\* Without an event on the way, what a board shows or is being sent is as new
\* as what it was told, or its fetch has failed, or the fetch is still to read.
Fresh(b) ==
    chan[b] = 0 /\ wire[b] = 0 /\ shown[b] # Nil =>
        /\ query[b] = "idle" => b \in failed \/ shown[b] >= due[b]
        /\ query[b] = "answered" => read[b] >= due[b]

IInv ==
    /\ TypeOK
    /\ WritersOK
    /\ \A b \in Boards : Behind(b) /\ Told(b) /\ Fresh(b)

-----------------------------------------------------------------------------
\* The boards start well typed.
LEMMA InitTypes == Init => TypeOK
BY BoardAssumption DEF Init, TypeOK

\* Publishing keeps the types: a full channel is not sent to.
LEMMA PublishTypes ==
    ASSUME TypeOK, NEW change \in Nat, Publish(change)
    PROVE  /\ chan' \in [Boards -> 0 .. bufferSize]
           /\ due' \in [Boards -> Nat]
           /\ announced' \in Nat
<1>1. \A b \in Boards : chan[b] < bufferSize => chan[b] + 1 \in 0 .. bufferSize
  BY BoardAssumption DEF TypeOK
<1>2. chan' \in [Boards -> 0 .. bufferSize]
  BY <1>1 DEF Publish, TypeOK
<1>3. due' \in [Boards -> Nat] /\ announced' \in Nat
  BY DEF Publish, Tell, TypeOK
<1> QED BY <1>2, <1>3

\* Every step keeps the types.
LEMMA StepTypes == TypeOK /\ [Next]_vars => TypeOK'
<1> SUFFICES ASSUME TypeOK, [Next]_vars PROVE TypeOK'
  OBVIOUS
<1> USE DEF TypeOK
<1>1. ASSUME NEW w \in Writers, Commit(w) PROVE TypeOK'
  BY <1>1 DEF Commit, streams, cache
<1>2. ASSUME NEW w \in Writers, Announce(w) PROVE TypeOK'
  <2>1. pending[w] \in Nat /\ Publish(pending[w])
    BY <1>2 DEF Announce
  <2>2. /\ chan' \in [Boards -> 0 .. bufferSize]
        /\ due' \in [Boards -> Nat] /\ announced' \in Nat
    BY <2>1, PublishTypes
  <2> QED BY <1>2, <2>2 DEF Announce, cache
<1>3. ASSUME NEW w \in Writers, LoseAnnouncement(w) PROVE TypeOK'
  BY <1>3 DEF LoseAnnouncement, Fault, streams, cache
<1>4. CASE RestartServer
  <2>1. 0 \in 0 .. bufferSize
    BY BoardAssumption
  <2> QED BY <1>4, <2>1 DEF RestartServer, CloseStreams, Fault
<1>5. ASSUME NEW b \in Boards, Board(b) PROVE TypeOK'
  <2> USE DEF writes, streams, cache
  <2>1. CASE Connect(b) \/ Subscribe(b)
    BY <2>1 DEF Connect, Subscribe
  <2>2. CASE SendEvent(b)
    <3>1. chan[b] - 1 \in 0 .. bufferSize
      BY <2>2, BoardAssumption DEF SendEvent
    <3> QED BY <2>2, <3>1 DEF SendEvent
  <2>3. CASE Break(b)
    <3>1. 0 \in 0 .. bufferSize
      BY BoardAssumption
    <3> QED BY <2>3, <3>1 DEF Break, CloseStreams, Fault
  <2>4. CASE HandleEvent(b)
    BY <2>4 DEF HandleEvent, Invalidate
  <2>5. CASE Poll(b) \/ ReadWorkspace(b) \/ Answer(b)
    BY <2>5 DEF Poll, ReadWorkspace, Answer
  <2>6. CASE FetchFails(b)
    BY <2>6 DEF FetchFails, Fault
  <2>7. CASE SwitchTab(b)
    BY <2>7 DEF SwitchTab
  <2> QED BY <1>5, <2>1, <2>2, <2>3, <2>4, <2>5, <2>6, <2>7 DEF Board
<1>6. CASE UNCHANGED vars
  BY <1>6 DEF vars, writes, streams, cache
<1> QED BY <1>1, <1>2, <1>3, <1>4, <1>5, <1>6 DEF Next

\* Every reachable state is well typed; no channel holds more than its buffer.
THEOREM TypeCorrect == Spec => []TypeOK
BY InitTypes, StepTypes, PTL DEF Spec

-----------------------------------------------------------------------------
(* The inductive invariant.                                                *)

\* An announcement tells subscribed boards of a committed change, and leaves
\* an event on the way to each of them, even where it was dropped.
LEMMA AnnounceStep ==
    ASSUME IInv, NEW w \in Writers, Announce(w), NEW b \in Boards
    PROVE  Behind(b)' /\ Told(b)' /\ Fresh(b)'
<1>1. /\ pending[w] \in Nat /\ pending[w] <= stored
      /\ chan[b] \in 0 .. bufferSize /\ due[b] \in Nat /\ bufferSize \in Nat \ {0}
      /\ UNCHANGED <<stored, stream, wire, query, read, failed, shown>>
  BY BoardAssumption DEF Announce, IInv, WritersOK, TypeOK, cache
<1>2. CASE b \in Subscribers /\ shown[b] # Nil /\ due[b] < pending[w]
  <2>1. due'[b] = pending[w] /\ chan'[b] > 0
    BY <1>1, <1>2 DEF Announce, Publish, Tell
  <2> QED BY <1>1, <1>2, <2>1 DEF IInv, Behind, Told, Fresh, Subscribers
<1>3. CASE ~(b \in Subscribers /\ shown[b] # Nil /\ due[b] < pending[w])
  <2>1. /\ due'[b] = due[b]
        /\ chan'[b] = 0 => chan[b] = 0
        /\ b \notin Subscribers => chan'[b] = chan[b]
    BY <1>1, <1>3 DEF Announce, Publish, Tell
  <2> QED BY <1>1, <2>1 DEF IInv, Behind, Told, Fresh, Subscribers
<1> QED BY <1>2, <1>3

\* A board whose stream has ended has been told of nothing.
LEMMA CloseStep ==
    ASSUME IInv, NEW B \in SUBSET Boards, CloseStreams(B), NEW b \in Boards,
           UNCHANGED <<stored, read, shown>>,
           \/ query'[b] = query[b] /\ (b \in failed' <=> b \in failed)
           \/ b \in B /\ query'[b] = "idle"
    PROVE  Behind(b)' /\ Told(b)' /\ Fresh(b)'
<1>1. /\ stored \in Nat /\ read[b] \in Nat /\ shown[b] \in Nat \union {Nil}
      /\ Behind(b) /\ Told(b) /\ Fresh(b)
  BY DEF IInv, TypeOK
<1>2. CASE b \in B
  <2>1. stream'[b] = "closed" /\ chan'[b] = 0 /\ wire'[b] = 0 /\ due'[b] = 0
    BY <1>2 DEF CloseStreams
  <2> QED BY <1>1, <2>1 DEF Behind, Told, Fresh
<1>3. CASE b \notin B
  <2>1. /\ stream'[b] = stream[b] /\ chan'[b] = chan[b]
        /\ wire'[b] = wire[b] /\ due'[b] = due[b]
    BY <1>3 DEF CloseStreams
  <2> QED BY <1>1, <1>3, <2>1 DEF Behind, Told, Fresh
<1> QED BY <1>2, <1>3

\* What a step of board b does to another board, and to b itself.
LEMMA BoardStep ==
    ASSUME IInv, TypeOK', NEW c \in Boards, Board(c), NEW b \in Boards
    PROVE  Behind(b)' /\ Told(b)' /\ Fresh(b)'
<1>1. /\ stored \in Nat /\ read[b] \in Nat /\ shown[b] \in Nat \union {Nil}
      /\ due[b] \in Nat /\ chan[b] \in Nat /\ wire[b] \in Nat
      /\ query[b] \in {"idle", "asked", "answered"}
      /\ Behind(b) /\ Told(b) /\ Fresh(b)
  BY BoardAssumption DEF IInv, TypeOK
<1> USE DEF streams, cache, writes
<1>2. CASE Connect(c) \/ Subscribe(c)
  BY <1>1, <1>2 DEF Connect, Subscribe, Behind, Told, Fresh, IInv, TypeOK
<1>3. CASE SendEvent(c)
  BY <1>1, <1>3 DEF SendEvent, Behind, Told, Fresh, IInv, TypeOK
<1>4. CASE Break(c)
  BY <1>4, CloseStep DEF Break
<1>5. CASE HandleEvent(c)
  BY <1>1, <1>5 DEF HandleEvent, Invalidate, Behind, Told, Fresh, IInv, TypeOK
<1>6. CASE Poll(c)
  BY <1>1, <1>6 DEF Poll, Behind, Told, Fresh, IInv, TypeOK
<1>7. CASE ReadWorkspace(c)
  BY <1>1, <1>7 DEF ReadWorkspace, Behind, Told, Fresh, IInv, TypeOK
<1>8. CASE Answer(c)
  BY <1>1, <1>8, BoardAssumption DEF Answer, Behind, Told, Fresh, IInv, TypeOK
<1>9. CASE FetchFails(c)
  BY <1>1, <1>9 DEF FetchFails, Behind, Told, Fresh, IInv, TypeOK
<1>10. CASE SwitchTab(c)
  BY <1>1, <1>10 DEF SwitchTab, Behind, Told, Fresh
<1> QED BY <1>2, <1>3, <1>4, <1>5, <1>6, <1>7, <1>8, <1>9, <1>10 DEF Board

\* The invariant is inductive.
LEMMA Inductive == IInv /\ [Next]_vars => IInv'
<1> SUFFICES ASSUME IInv, [Next]_vars PROVE IInv'
  OBVIOUS
<1>0. TypeOK /\ TypeOK'
  BY StepTypes DEF IInv
<1>1. ASSUME NEW w \in Writers, Commit(w) PROVE IInv'
  <2>1. stored' = stored + 1 /\ stored \in Nat /\ UNCHANGED <<streams, cache>>
    BY <1>0, <1>1 DEF Commit, TypeOK
  <2>2. WritersOK'
    BY <1>0, <1>1, <2>1 DEF Commit, IInv, WritersOK, TypeOK
  <2>3. ASSUME NEW b \in Boards PROVE Behind(b)' /\ Told(b)' /\ Fresh(b)'
    BY <1>0, <2>1 DEF IInv, Behind, Told, Fresh, TypeOK, streams, cache
  <2> QED BY <1>0, <2>2, <2>3 DEF IInv
<1>2. ASSUME NEW w \in Writers, Announce(w) PROVE IInv'
  <2>1. WritersOK'
    BY <1>0, <1>2 DEF Announce, IInv, WritersOK, TypeOK
  <2> QED BY <1>0, <1>2, <2>1, AnnounceStep DEF IInv
<1>3. ASSUME NEW w \in Writers, LoseAnnouncement(w) PROVE IInv'
  <2>1. WritersOK'
    BY <1>0, <1>3 DEF LoseAnnouncement, IInv, WritersOK, TypeOK
  <2> QED BY <1>0, <1>3, <2>1
          DEF LoseAnnouncement, IInv, Behind, Told, Fresh, streams, cache
<1>4. CASE RestartServer
  <2>1. WritersOK'
    BY <1>0, <1>4 DEF RestartServer, IInv, WritersOK, TypeOK
  <2>2. ASSUME NEW b \in Boards PROVE Behind(b)' /\ Told(b)' /\ Fresh(b)'
    <3>1. query'[b] = "idle" /\ Boards \in SUBSET Boards
      BY <1>4 DEF RestartServer
    <3> QED BY <1>4, <3>1, CloseStep DEF RestartServer
  <2> QED BY <1>0, <2>1, <2>2 DEF IInv
<1>5. ASSUME NEW c \in Boards, Board(c) PROVE IInv'
  <2>1. UNCHANGED <<stored, pending>>
    BY <1>5 DEF Board, Connect, Subscribe, SendEvent, Break, HandleEvent, Poll,
                ReadWorkspace, Answer, FetchFails, SwitchTab, writes
  <2>2. WritersOK'
    BY <2>1 DEF IInv, WritersOK
  <2> QED BY <1>0, <1>5, <2>2, BoardStep DEF IInv
<1>6. CASE UNCHANGED vars
  BY <1>0, <1>6
     DEF IInv, WritersOK, Behind, Told, Fresh, vars, writes, streams, cache
<1> QED BY <1>1, <1>2, <1>3, <1>4, <1>5, <1>6 DEF Next

\* It therefore holds of every reachable state.
LEMMA Invariance == Spec => []IInv
<1>1. Init => IInv
  <2> SUFFICES ASSUME Init PROVE IInv
    OBVIOUS
  <2>1. WritersOK /\ \A b \in Boards : Behind(b) /\ Told(b) /\ Fresh(b)
    BY DEF Init, WritersOK, Behind, Told, Fresh
  <2> QED BY <2>1, InitTypes DEF IInv
<1> QED BY <1>1, Inductive, PTL DEF Spec

-----------------------------------------------------------------------------
\* Full channels may drop events: a subscribed board that has handled what it
\* was sent shows every change announced to it, for any capacity.
THEOREM DropsAreHarmless == Spec => []CaughtUp
<1>1. IInv => CaughtUp
  BY DEF IInv, Fresh, Quiet, CaughtUp
<1> QED BY <1>1, Invariance, PTL

\* No board shows, and no event announces, a change that is not committed.
THEOREM StoreIsTheTruth == Spec => []NeverAhead
<1>1. IInv => NeverAhead
  BY DEF IInv, Behind, NeverAhead
<1> QED BY <1>1, Invariance, PTL
=============================================================================
