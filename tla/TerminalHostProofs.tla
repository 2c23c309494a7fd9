-------------------------- MODULE TerminalHostProofs --------------------------
(***************************************************************************)
(* Proofs about TerminalHost for any number of connections, any queue      *)
(* capacity and any amount of output.                                      *)
(***************************************************************************)
EXTENDS TerminalHost, TLAPS

\* Where a handleConn stands before addClient.
Unattached == {"none", "first", "input", "sizing", "adding"}

\* An emulator that works has been fed everything.
ScreenOK == screen # Nil => screen.fed = produced

\* Before addClient a connection has nothing; after it, its stream continues
\* its replay and never runs ahead of the output.
StreamOK(c) ==
    /\ conn[c] \in Unattached => start[c] = Nil
    /\ start[c] = Nil => /\ wire[c] = <<>> /\ queue[c] = <<>>
                         /\ replay[c] = Nil
                         /\ c \notin clients /\ closes[c] = 0
    /\ start[c] # Nil =>
            /\ ContinuesReplay(c)
            /\ start[c] + Len(wire[c]) + Len(queue[c]) <= produced

ClosesOK(c) == closes[c] <= 1 /\ (c \in clients => closes[c] = 0)

IInv ==
    /\ TypeOK
    /\ ScreenOK
    /\ \A c \in Conns : StreamOK(c)
    /\ \A c \in Conns : ClosesOK(c)

-----------------------------------------------------------------------------
\* Feeding and resizing the screen model keep its type.
LEMMA ScreenTypes ==
    ASSUME NEW s \in Screens, NEW size \in Sizes
    PROVE  /\ [s EXCEPT !.fed = @ + 1] \in Screens
           /\ [s EXCEPT !.size = size] \in Screens
           /\ [s EXCEPT !.fed = @ + 1].fed = s.fed + 1
           /\ [s EXCEPT !.size = size].fed = s.fed
BY DEF Screens

\* A resize announced on connection c is well typed.
LEMMA ResizeTypes ==
    ASSUME TypeOK, NEW c \in Conns, NEW size \in Sizes,
           NEW where \in {"sizing", "resizing"}, ResizeScreen(c, size, where)
    PROVE  TypeOK'
<1>1. screen' \in Screens \union {Nil}
  <2>1. CASE screen' = Nil
    BY <2>1
  <2>2. CASE screen' # Nil
    <3>1. screen # Nil /\ screen' = [screen EXCEPT !.size = size]
      BY <2>2 DEF ResizeScreen
    <3> QED BY <3>1, ScreenTypes DEF TypeOK
  <2> QED BY <2>1, <2>2
<1>2. /\ resizes' \in [Conns -> Nat]
      /\ want' \in [Conns -> Sizes \union {Nil}]
      /\ peer' \subseteq Conns
  BY DEF ResizeScreen, Reading, TypeOK
<1>3. conn' \in [Conns -> {"none", "first", "input", "sizing", "adding",
                          "reading", "resizing", "leaving", "closed"}]
  BY DEF ResizeScreen, Reading, TypeOK
<1>4. \A d \in Conns : want'[d] # Nil <=> conn'[d] \in {"sizing", "resizing"}
  <2>1. size # Nil
    BY HostAssumption
  <2> QED BY <2>1 DEF ResizeScreen, Reading, TypeOK
<1> QED BY <1>1, <1>2, <1>3, <1>4
        DEF ResizeScreen, TypeOK, pty, ending, fanout, writers

\* The host starts well typed.
LEMMA InitTypes == Init => TypeOK
<1> SUFFICES ASSUME Init PROVE TypeOK
  OBVIOUS
<1>1. <<>> \in Seq(Nat) /\ Len(<<>>) = 0
  OBVIOUS
<1>2. [fed |-> 0, size |-> DefaultSize] \in Screens
  BY HostAssumption DEF Screens
<1>3. /\ queue \in [Conns -> Seq(Nat)] /\ wire \in [Conns -> Seq(Nat)]
      /\ \A c \in Conns : Len(queue[c]) <= ClientQueueSize
  BY <1>1, HostAssumption DEF Init
<1>4. DefaultSize \in Sizes /\ screen \in Screens
  BY <1>2, HostAssumption DEF Init
<1>5. /\ want \in [Conns -> Sizes \union {Nil}]
      /\ \A c \in Conns : want[c] # Nil <=> conn[c] \in {"sizing", "resizing"}
  BY DEF Init
<1> QED BY <1>3, <1>4, <1>5 DEF Init, TypeOK

\* Every step keeps the types.
LEMMA StepTypes == TypeOK /\ [Next]_vars => TypeOK'
<1> SUFFICES ASSUME TypeOK, [Next]_vars PROVE TypeOK'
  OBVIOUS
<1> USE DEF TypeOK
<1>1. CASE ReadOutput
  <2>1. produced + 1 \in Nat
    OBVIOUS
  <2>2. /\ queue' \in [Conns -> Seq(Nat)]
        /\ \A c \in Conns : Len(queue'[c]) <= ClientQueueSize
    <3>1. ASSUME NEW c \in Conns
          PROVE  queue'[c] \in Seq(Nat) /\ Len(queue'[c]) <= ClientQueueSize
      <4>1. CASE c \in clients \ Full
        <5>1. queue'[c] = Append(queue[c], produced + 1)
          BY <1>1, <4>1 DEF ReadOutput, Broadcast, SendTo
        <5>2. Len(queue[c]) < ClientQueueSize
          BY <4>1, HostAssumption DEF Full
        <5> QED BY <2>1, <5>1, <5>2, HostAssumption
      <4>2. CASE c \notin clients \ Full
        BY <1>1, <4>2 DEF ReadOutput, Broadcast, SendTo
      <4> QED BY <4>1, <4>2
    <3>2. queue' = [c \in Conns |-> queue'[c]]
      BY <1>1 DEF ReadOutput, Broadcast, SendTo
    <3> QED BY <3>1, <3>2
  <2>3. screen' \in Screens \union {Nil}
    <3>1. CASE screen' = Nil
      BY <3>1
    <3>2. CASE screen' # Nil
      <4>1. screen # Nil /\ screen' = [screen EXCEPT !.fed = @ + 1]
        BY <1>1, <3>2 DEF ReadOutput
      <4> QED BY <4>1, ScreenTypes, HostAssumption
    <3> QED BY <3>1, <3>2
  <2>4. clients' \subseteq Conns /\ closes' \in [Conns -> Nat]
    BY <1>1 DEF ReadOutput, Broadcast, CloseChannels, Full
  <2> QED BY <1>1, <2>2, <2>3, <2>4
          DEF ReadOutput, pty, ending, readers, asked, writers
<1>2. CASE ChildExits
  BY <1>2 DEF ChildExits, ending, readers, asked, fanout, writers
<1>3. CASE Ending
  <2> USE DEF pty, ending, readers, asked, fanout, writers
  <2>1. CASE Finish BY <2>1 DEF Finish, CloseChannels
  <2>2. CASE CloseListener BY <2>2 DEF CloseListener
  <2>3. CASE CloseProcess BY <2>3 DEF CloseProcess
  <2>4. CASE Exit BY <2>4 DEF Exit
  <2> QED BY <1>3, <2>1, <2>2, <2>3, <2>4 DEF Ending
<1>4. ASSUME NEW c \in Conns, Peer(c) PROVE TypeOK'
  <2> USE DEF pty, ending, asked, fanout, writers
  <2>1. CASE Accept(c) BY <2>1 DEF Accept
  <2>2. CASE PeerCloses(c) BY <2>2 DEF PeerCloses
  <2>3. CASE PeerStalls(c) BY <2>3 DEF PeerStalls
  <2>4. CASE FirstInput(c) BY <2>4 DEF FirstInput, Reading
  <2>5. CASE FirstResize(c) BY <2>5, ResizeTypes DEF FirstResize
  <2>6. CASE Resize(c) BY <2>6, ResizeTypes DEF Resize
  <2>7. CASE BadFrame(c) BY <2>7 DEF BadFrame, StopReading, Reading
  <2> QED BY <1>4, <2>1, <2>2, <2>3, <2>4, <2>5, <2>6, <2>7 DEF Peer
<1>5. ASSUME NEW c \in Conns, Reader(c) PROVE TypeOK'
  <2> USE DEF pty, ending, asked, fanout, writers, Reading
  <2>1. CASE ResizePty(c)
    <3>1. /\ want' \in [Conns -> Sizes \union {Nil}]
          /\ ptySize' \in Sizes
          /\ peer' \subseteq Conns
      BY <2>1 DEF ResizePty
    <3>2. conn' \in [Conns -> {"none", "first", "input", "sizing", "adding",
                              "reading", "resizing", "leaving", "closed"}]
      BY <2>1 DEF ResizePty
    <3>3. \A d \in Conns :
              want'[d] # Nil <=> conn'[d] \in {"sizing", "resizing"}
      BY <2>1 DEF ResizePty
    <3> QED BY <2>1, <3>1, <3>2, <3>3 DEF ResizePty
  <2>2. CASE AddClient(c)
    <3>1. Snapshot \in Nat \union {Nil}
      BY DEF Snapshot, Screens
    <3> QED BY <2>2, <3>1 DEF AddClient
  <2>3. CASE ReadFails(c) BY <2>3 DEF ReadFails, StopReading
  <2>4. CASE RemoveClient(c)
    <3>1. closes' \in [Conns -> Nat] /\ clients' \subseteq Conns
      BY <2>4 DEF RemoveClient, CloseChannels
    <3> QED BY <2>4, <3>1 DEF RemoveClient
  <2> QED BY <1>5, <2>1, <2>2, <2>3, <2>4 DEF Reader
<1>6. ASSUME NEW c \in Conns, Writer(c) PROVE TypeOK'
  <2> USE DEF pty, ending, readers, asked, fanout
  <2>1. CASE WriteReplay(c) BY <2>1 DEF WriteReplay
  <2>2. CASE WriteChunk(c)
    <3>1. /\ Append(wire[c], Head(queue[c])) \in Seq(Nat)
          /\ Tail(queue[c]) \in Seq(Nat)
          /\ Len(Tail(queue[c])) <= Len(queue[c])
      BY <2>2 DEF WriteChunk
    <3>2. \A d \in Conns : Len(queue'[d]) <= ClientQueueSize
      BY <2>2, <3>1, HostAssumption DEF WriteChunk
    <3> QED BY <2>2, <3>1, <3>2 DEF WriteChunk
  <2>3. CASE WriterEnds(c) BY <2>3 DEF WriterEnds
  <2> QED BY <1>6, <2>1, <2>2, <2>3 DEF Writer
<1>7. CASE UNCHANGED vars
  BY <1>7 DEF vars
<1> QED BY <1>1, <1>2, <1>3, <1>4, <1>5, <1>6, <1>7 DEF Next

\* Every reachable state of the host is well typed; no channel holds more
\* chunks than clientQueueSize.
THEOREM TypeCorrect == Spec => []TypeOK
BY InitTypes, StepTypes, PTL DEF Spec

-----------------------------------------------------------------------------
(* Sequences that continue a number.                                      *)

\* Appending the next number continues them.
LEMMA AppendContinues ==
    ASSUME NEW s \in Nat, NEW w \in Seq(Nat), NEW q \in Seq(Nat), NEW p \in Nat,
           Continues(s, w, q), s + Len(w) + Len(q) = p
    PROVE  /\ Continues(s, w, Append(q, p + 1))
           /\ s + Len(w) + Len(Append(q, p + 1)) = p + 1
<1> DEFINE n == Len(q)
           r == Append(q, p + 1)
<1>1. /\ n \in Nat /\ Len(w) \in Nat /\ r \in Seq(Nat) /\ Len(r) = n + 1
      /\ r[n + 1] = p + 1 /\ \A i \in 1 .. n : r[i] = q[i]
  OBVIOUS
<1>2. s + Len(w) + n = p
  OBVIOUS
<1>3. \A i \in 1 .. n : q[i] = s + Len(w) + i
  BY DEF Continues
<1> HIDE DEF n, r
<1>4. ASSUME NEW i \in 1 .. n + 1 PROVE r[i] = s + Len(w) + i
  <2>1. CASE i = n + 1
    BY <1>1, <1>2, <2>1
  <2>2. CASE i # n + 1
    BY <1>1, <1>3, <2>2
  <2> QED BY <2>1, <2>2
<1>5. s + Len(w) + (n + 1) = p + 1
  BY <1>1, <1>2
<1> QED BY <1>1, <1>4, <1>5 DEF Continues, r

\* Moving the head of q to the end of w continues them.
LEMMA MoveContinues ==
    ASSUME NEW s \in Nat, NEW w \in Seq(Nat), NEW q \in Seq(Nat), q # <<>>,
           Continues(s, w, q)
    PROVE  /\ Continues(s, Append(w, Head(q)), Tail(q))
           /\ Head(q) = s + Len(w) + 1
           /\ Len(Append(w, Head(q))) + Len(Tail(q)) = Len(w) + Len(q)
<1> DEFINE m == Len(w)
           n == Len(q)
           v == Append(w, Head(q))
           r == Tail(q)
<1>1. /\ m \in Nat /\ n \in Nat \ {0} /\ Head(q) = q[1] /\ Head(q) \in Nat
      /\ r \in Seq(Nat) /\ Len(r) = n - 1 /\ \A i \in 1 .. n - 1 : r[i] = q[i + 1]
  OBVIOUS
<1>2. /\ v \in Seq(Nat) /\ Len(v) = m + 1
      /\ v[m + 1] = Head(q) /\ \A i \in 1 .. m : v[i] = w[i]
  BY <1>1
<1>3. /\ \A i \in 1 .. m : w[i] = s + i
      /\ \A i \in 1 .. n : q[i] = s + m + i
  BY DEF Continues
<1> HIDE DEF m, n, v, r
<1>4. Head(q) = s + m + 1
  BY <1>1, <1>3
<1>5. ASSUME NEW i \in 1 .. m + 1 PROVE v[i] = s + i
  <2>1. CASE i = m + 1
    BY <1>1, <1>2, <1>4, <2>1
  <2>2. CASE i # m + 1
    BY <1>1, <1>2, <1>3, <2>2
  <2> QED BY <2>1, <2>2
<1>6. ASSUME NEW i \in 1 .. n - 1 PROVE r[i] = s + (m + 1) + i
  <2>1. i + 1 \in 1 .. n
    BY <1>1
  <2> QED BY <1>1, <1>3, <2>1
<1>7. (m + 1) + (n - 1) = m + n
  BY <1>1
<1>8. Continues(s, v, r)
  BY <1>1, <1>2, <1>5, <1>6 DEF Continues
<1> QED BY <1>1, <1>2, <1>4, <1>7, <1>8 DEF m, n, v, r

-----------------------------------------------------------------------------
(* The inductive invariant.                                                *)

\* A step that touches neither the output nor the fan-out keeps the invariant
\* if it attaches nobody and leaves what the screen was fed.
LEMMA QuietStep ==
    ASSUME IInv, TypeOK', UNCHANGED <<produced, fanout, replay, start, wire>>,
           \A c \in Conns : conn'[c] \in Unattached => conn[c] \in Unattached,
           screen' = Nil \/ (screen # Nil /\ screen'.fed = screen.fed)
    PROVE  IInv'
<1>1. ScreenOK'
  BY DEF IInv, ScreenOK
<1>2. \A c \in Conns : StreamOK(c)' /\ ClosesOK(c)'
  BY DEF IInv, StreamOK, ClosesOK, ContinuesReplay, fanout
<1> QED BY <1>1, <1>2 DEF IInv

\* Closing registered channels and removing them from clients keeps the
\* invariant: this is what finish and removeClient do to the fan-out.
LEMMA CloseStep ==
    ASSUME IInv, TypeOK', NEW C \in SUBSET clients, CloseChannels(C),
           clients' = clients \ C,
           UNCHANGED <<produced, queue, replay, start, wire>>,
           \A c \in Conns : conn'[c] \in Unattached => conn[c] \in Unattached,
           screen' \in {screen, Nil}
    PROVE  IInv'
<1>1. ScreenOK'
  BY DEF IInv, ScreenOK
<1>2. ASSUME NEW c \in Conns PROVE ClosesOK(c)'
  <2>1. closes[c] \in Nat /\ ClosesOK(c)
    BY DEF IInv, TypeOK
  <2>2. CASE c \in C
    BY <2>1, <2>2 DEF ClosesOK, CloseChannels
  <2>3. CASE c \notin C
    BY <2>1, <2>3 DEF ClosesOK, CloseChannels
  <2> QED BY <2>2, <2>3
<1>3. ASSUME NEW c \in Conns PROVE StreamOK(c)'
  <2>1. StreamOK(c)
    BY DEF IInv
  <2>2. c \notin clients => c \notin C /\ closes'[c] = closes[c]
    BY DEF CloseChannels
  <2> QED BY <2>1, <2>2 DEF StreamOK, ContinuesReplay
<1> QED BY <1>1, <1>2, <1>3 DEF IInv

\* broadcast appends the next chunk to every channel with room and drops the
\* rest: streams that were up to date stay so.
LEMMA OutputStep ==
    ASSUME IInv, TypeOK', ReadOutput
    PROVE  IInv'
<1>1. ScreenOK'
  <2>1. CASE screen' = Nil
    BY <2>1 DEF ScreenOK
  <2>2. CASE screen' # Nil
    <3>1. screen # Nil /\ screen' = [screen EXCEPT !.fed = @ + 1]
      BY <2>2 DEF ReadOutput
    <3>2. screen \in Screens /\ screen.fed = produced
      BY <3>1 DEF IInv, TypeOK, ScreenOK
    <3>3. screen'.fed = screen.fed + 1
      BY <3>1, <3>2 DEF Screens
    <3> QED BY <3>2, <3>3 DEF ScreenOK, ReadOutput
  <2> QED BY <2>1, <2>2
<1>2. ASSUME NEW c \in Conns PROVE StreamOK(c)' /\ ClosesOK(c)'
  <2>1. /\ StreamOK(c) /\ ClosesOK(c)
        /\ produced \in Nat /\ closes[c] \in Nat
        /\ queue[c] \in Seq(Nat) /\ wire[c] \in Seq(Nat)
        /\ start[c] \in Nat \union {Nil}
    BY DEF IInv, TypeOK
  <2>2. /\ produced' = produced + 1
        /\ UNCHANGED <<conn, wire, start, replay>>
        /\ clients' = clients \ Full /\ Full \subseteq clients
        /\ closes'[c] = IF c \in Full THEN closes[c] + 1 ELSE closes[c]
        /\ queue'[c] = IF c \in clients \ Full
                       THEN Append(queue[c], produced + 1) ELSE queue[c]
    BY DEF ReadOutput, Broadcast, SendTo, CloseChannels, Full, readers, writers
  <2>3. ClosesOK(c)'
    BY <2>1, <2>2 DEF ClosesOK
  <2>4. CASE c \in clients'
    <3>1. /\ start[c] \in Nat /\ start[c] # Nil /\ ContinuesReplay(c)
          /\ start[c] + Len(wire[c]) + Len(queue[c]) = produced
      BY <2>1, <2>2, <2>4 DEF StreamOK, ContinuesReplay
    <3>2. queue'[c] = Append(queue[c], produced + 1)
      BY <2>2, <2>4
    <3>3. Continues(start[c], wire[c], queue[c])
      BY <3>1 DEF ContinuesReplay
    <3>4. /\ Continues(start[c], wire[c], Append(queue[c], produced + 1))
          /\ start[c] + Len(wire[c]) + Len(Append(queue[c], produced + 1))
                = produced + 1
      BY <2>1, <3>1, <3>3, AppendContinues
    <3>5. /\ Continues(start[c], wire[c], queue'[c])
          /\ start[c] + Len(wire[c]) + Len(queue'[c]) = produced + 1
      BY <3>2, <3>4
    <3>6. ContinuesReplay(c)'
      BY <2>2, <3>1, <3>5 DEF ContinuesReplay
    <3> QED BY <2>1, <2>2, <2>3, <2>4, <3>1, <3>5, <3>6 DEF StreamOK
  <2>5. CASE c \notin clients'
    <3>1. queue'[c] = queue[c]
      BY <2>2, <2>5
    <3>2. ContinuesReplay(c) => ContinuesReplay(c)'
      BY <2>2, <2>5, <3>1 DEF ContinuesReplay
    <3>3. start[c] = Nil => closes'[c] = closes[c]
      BY <2>1, <2>2 DEF StreamOK
    <3>4. start[c] # Nil => start[c] + Len(wire[c]) + Len(queue[c]) <= produced + 1
      BY <2>1 DEF StreamOK
    <3> QED BY <2>1, <2>2, <2>3, <2>5, <3>1, <3>2, <3>3, <3>4 DEF StreamOK
  <2> QED BY <2>4, <2>5
<1> QED BY <1>1, <1>2 DEF IInv
\* addClient registers the viewer and takes its snapshot in one step: the
\* viewer starts with exactly the output so far.
LEMMA AddStep ==
    ASSUME IInv, TypeOK', NEW c \in Conns, AddClient(c)
    PROVE  IInv'
<1>1. ScreenOK'
  BY DEF IInv, ScreenOK, AddClient
<1>2. /\ start[c] = Nil /\ wire[c] = <<>> /\ queue[c] = <<>> /\ closes[c] = 0
      /\ produced \in Nat /\ produced # Nil
  BY HostAssumption DEF IInv, StreamOK, AddClient, Unattached, TypeOK
<1>3. /\ start'[c] = produced /\ wire'[c] = <<>> /\ queue'[c] = <<>>
      /\ conn'[c] = "reading" /\ closes'[c] = 0 /\ produced' = produced
      /\ replay'[c] = Snapshot
  BY <1>2 DEF AddClient, Reading, IInv, TypeOK
<1>4. Snapshot \in {Nil, produced}
  BY DEF Snapshot, IInv, ScreenOK
<1>5. StreamOK(c)' /\ ClosesOK(c)'
  <2>1. Len(<<>>) = 0
    OBVIOUS
  <2>2. ContinuesReplay(c)'
    BY <1>2, <1>3, <1>4, <2>1 DEF ContinuesReplay, Continues
  <2> QED BY <1>2, <1>3, <2>1, <2>2 DEF StreamOK, ClosesOK, Unattached
<1>6. ASSUME NEW d \in Conns, d # c PROVE StreamOK(d)' /\ ClosesOK(d)'
  <2>1. /\ conn'[d] = conn[d] /\ start'[d] = start[d] /\ replay'[d] = replay[d]
        /\ d \in clients' <=> d \in clients
        /\ UNCHANGED <<produced, queue, closes, wire>>
    BY <1>6 DEF AddClient, Reading, IInv, TypeOK
  <2>2. StreamOK(d) /\ ClosesOK(d)
    BY DEF IInv
  <2> QED BY <2>1, <2>2 DEF StreamOK, ClosesOK, ContinuesReplay
<1> QED BY <1>1, <1>5, <1>6 DEF IInv

\* A write moves the head of the channel, the viewer's next chunk, to the end
\* of the wire.
LEMMA WriteStep ==
    ASSUME IInv, NEW c \in Conns, WriteChunk(c)
    PROVE  /\ StreamOK(c)'
           /\ start[c] \in Nat /\ Len(wire[c]) \in Nat
           /\ wire'[c] = Append(wire[c], start[c] + Len(wire[c]) + 1)
           /\ start[c] + Len(wire[c]) < produced
<1>1. /\ UNCHANGED <<produced, conn, clients, closes, start, replay>>
      /\ wire[c] \in Seq(Nat) /\ queue[c] \in Seq(Nat) /\ queue[c] # <<>>
      /\ start[c] \in Nat \union {Nil} /\ produced \in Nat
      /\ wire'[c] = Append(wire[c], Head(queue[c]))
      /\ queue'[c] = Tail(queue[c])
  BY DEF IInv, TypeOK, WriteChunk, readers
<1>2. /\ start[c] # Nil /\ start[c] \in Nat /\ ContinuesReplay(c)
      /\ start[c] + Len(wire[c]) + Len(queue[c]) <= produced
  BY <1>1 DEF IInv, StreamOK
<1>3. /\ Continues(start[c], wire'[c], queue'[c])
      /\ Head(queue[c]) = start[c] + Len(wire[c]) + 1
      /\ Len(wire'[c]) + Len(queue'[c]) = Len(wire[c]) + Len(queue[c])
  BY <1>1, <1>2, MoveContinues DEF ContinuesReplay
<1>4. /\ Len(wire[c]) \in Nat /\ Len(queue[c]) \in Nat \ {0}
      /\ Len(wire'[c]) \in Nat /\ Len(queue'[c]) \in Nat
  <2>1. Head(queue[c]) \in Nat /\ Tail(queue[c]) \in Seq(Nat)
    BY <1>1
  <2>2. wire'[c] \in Seq(Nat) /\ queue'[c] \in Seq(Nat)
    BY <1>1, <2>1
  <2> QED BY <1>1, <2>2
<1> HIDE DEF Continues
<1>5. /\ start[c] + Len(wire'[c]) + Len(queue'[c])
             = start[c] + Len(wire[c]) + Len(queue[c])
      /\ start[c] + Len(wire[c]) < produced
  <2> DEFINE w == Len(wire[c])
             q == Len(queue[c])
             v == Len(wire'[c])
             r == Len(queue'[c])
  <2>1. /\ w \in Nat /\ q \in Nat \ {0} /\ v \in Nat /\ r \in Nat
        /\ v + r = w + q /\ start[c] + w + q <= produced
        /\ start[c] \in Nat /\ produced \in Nat
    BY <1>1, <1>2, <1>3, <1>4
  <2> HIDE DEF w, q, v, r
  <2>2. start[c] + v + r = start[c] + w + q /\ start[c] + w < produced
    BY <2>1
  <2> QED BY <2>2 DEF w, q, v, r
<1>6. ContinuesReplay(c)'
  BY <1>1, <1>2, <1>3, <1>5 DEF ContinuesReplay
<1>7. StreamOK(c)'
  <2>1. UNCHANGED <<produced, conn, start>>
    BY <1>1
  <2>2. conn[c] \notin Unattached
    BY <1>2 DEF IInv, StreamOK
  <2>3. start[c] + Len(wire'[c]) + Len(queue'[c]) <= produced
    BY <1>2, <1>5
  <2> QED BY <1>2, <1>6, <2>1, <2>2, <2>3 DEF StreamOK
<1> QED BY <1>1, <1>2, <1>3, <1>4, <1>5, <1>7

\* A resize leaves what the screen model was fed.
LEMMA ResizeFed ==
    ASSUME IInv, NEW c \in Conns, NEW size \in Sizes, NEW where,
           ResizeScreen(c, size, where)
    PROVE  screen' = Nil \/ (screen # Nil /\ screen'.fed = screen.fed)
<1>1. \/ screen' = Nil
      \/ screen # Nil /\ screen' = [screen EXCEPT !.size = size]
  BY DEF ResizeScreen
<1>2. screen \in Screens \union {Nil}
  BY DEF IInv, TypeOK
<1> QED BY <1>1, <1>2, ScreenTypes

\* The invariant is inductive.
LEMMA Inductive == IInv /\ [Next]_vars => IInv'
<1> SUFFICES ASSUME IInv, [Next]_vars PROVE IInv'
  OBVIOUS
<1>0. TypeOK /\ TypeOK'
  BY StepTypes DEF IInv
<1>1. CASE ReadOutput
  BY <1>0, <1>1, OutputStep
<1>2. CASE ChildExits
  BY <1>0, <1>2, QuietStep DEF ChildExits, readers, asked, fanout, writers
<1>3. CASE Ending
  <2>1. CASE Finish
    BY <1>0, <2>1, CloseStep DEF Finish, readers, asked, writers
  <2>2. CASE CloseListener \/ CloseProcess \/ Exit
    BY <1>0, <2>2, QuietStep
       DEF CloseListener, CloseProcess, Exit, readers, asked, fanout, writers
  <2> QED BY <1>3, <2>1, <2>2 DEF Ending
<1>4. ASSUME NEW c \in Conns, Peer(c) PROVE IInv'
  <2> USE DEF asked, fanout, writers, Reading, TypeOK, Unattached
  <2>1. ASSUME NEW size \in Sizes, NEW where, ResizeScreen(c, size, where),
               where \in Unattached => conn[c] \in Unattached
        PROVE  IInv'
    <3>1. screen' = Nil \/ (screen # Nil /\ screen'.fed = screen.fed)
      BY <2>1, ResizeFed
    <3>2. \A d \in Conns : conn'[d] \in Unattached => conn[d] \in Unattached
      BY <1>0, <2>1 DEF ResizeScreen
    <3> QED BY <1>0, <2>1, <3>1, <3>2, QuietStep DEF ResizeScreen
  <2>2. CASE Accept(c)
    BY <1>0, <2>2, QuietStep DEF Accept
  <2>3. CASE PeerCloses(c) \/ PeerStalls(c)
    BY <1>0, <2>3, QuietStep DEF PeerCloses, PeerStalls
  <2>4. CASE FirstInput(c)
    BY <1>0, <2>4, QuietStep DEF FirstInput
  <2>5. CASE FirstResize(c)
    BY <2>1, <2>5 DEF FirstResize
  <2>6. CASE Resize(c)
    BY <2>1, <2>6 DEF Resize
  <2>7. CASE BadFrame(c)
    BY <1>0, <2>7, QuietStep DEF BadFrame, StopReading
  <2> QED BY <1>4, <2>2, <2>3, <2>4, <2>5, <2>6, <2>7 DEF Peer
<1>5. ASSUME NEW c \in Conns, Reader(c) PROVE IInv'
  <2>1. CASE ResizePty(c)
    BY <1>0, <2>1, QuietStep DEF ResizePty, Reading, TypeOK, Unattached, fanout,
                                 writers
  <2>2. CASE AddClient(c)
    BY <1>0, <2>2, AddStep
  <2>3. CASE ReadFails(c)
    BY <1>0, <2>3, QuietStep DEF ReadFails, StopReading, Reading, TypeOK,
                                 Unattached, fanout, writers
  <2>4. CASE RemoveClient(c)
    <3>1. \A d \in Conns : conn'[d] \in Unattached => conn[d] \in Unattached
      BY <1>0, <2>4 DEF RemoveClient, Reading, TypeOK, Unattached
    <3>2. clients' = clients \ (clients \intersect {c})
      BY <2>4 DEF RemoveClient
    <3> QED BY <1>0, <2>4, <3>1, <3>2, CloseStep DEF RemoveClient, writers
  <2> QED BY <1>5, <2>1, <2>2, <2>3, <2>4 DEF Reader
<1>6. ASSUME NEW c \in Conns, Writer(c) PROVE IInv'
  <2>1. CASE WriteReplay(c) \/ WriterEnds(c)
    BY <1>0, <2>1, QuietStep DEF WriteReplay, WriterEnds, readers, fanout
  <2>2. CASE WriteChunk(c)
    <3>1. UNCHANGED <<produced, conn, screen, clients, closes, start, replay>>
      BY <2>2 DEF WriteChunk, readers
    <3>2. ASSUME NEW d \in Conns, d # c PROVE StreamOK(d)'
      <4>1. wire'[d] = wire[d] /\ queue'[d] = queue[d]
        BY <1>0, <2>2, <3>2 DEF WriteChunk, TypeOK
      <4> QED BY <3>1, <4>1 DEF IInv, StreamOK, ContinuesReplay
    <3>3. StreamOK(c)'
      BY <2>2, WriteStep
    <3> QED BY <1>0, <3>1, <3>2, <3>3 DEF IInv, ScreenOK, ClosesOK
  <2> QED BY <1>6, <2>1, <2>2 DEF Writer
<1>7. CASE UNCHANGED vars
  BY <1>0, <1>7, QuietStep DEF vars, fanout
<1> QED BY <1>1, <1>2, <1>3, <1>4, <1>5, <1>6, <1>7 DEF Next

\* It therefore holds of every reachable state.
LEMMA Invariance == Spec => []IInv
<1>1. Init => IInv
  <2> SUFFICES ASSUME Init PROVE IInv
    OBVIOUS
  <2>1. TypeOK
    BY InitTypes
  <2>2. ScreenOK /\ \A c \in Conns : StreamOK(c) /\ ClosesOK(c)
    BY DEF Init, ScreenOK, StreamOK, ClosesOK
  <2> QED BY <2>1, <2>2 DEF IInv
<1> QED BY <1>1, Inductive, PTL DEF Spec

-----------------------------------------------------------------------------
\* No attached viewer misses or repeats output, for any number of viewers and
\* any queue capacity (the run checks two viewers).
THEOREM StreamsHaveNoGap == Spec => []NoGap
<1>1. IInv => NoGap
  BY DEF IInv, StreamOK, NoGap
<1> QED BY <1>1, Invariance, PTL

\* No client channel is closed twice, or sent to after its close.
THEOREM ChannelsAreClosedOnce == Spec => []ChannelsClosedOnce
<1>1. IInv => ChannelsClosedOnce
  BY DEF IInv, ClosesOK, ChannelsClosedOnce
<1> QED BY <1>1, Invariance, PTL
-----------------------------------------------------------------------------
(* The host implements ScreenStream.                                       *)

\* Without a gap, what a viewer was shown and sent last follows from counts.
Counted ==
    \A c \in Conns : /\ Shown(c) = start[c]
                     /\ start[c] # Nil => Sent(c) = start[c] + Len(wire[c])

LEMMA ShownAndSent == IInv => Counted
<1> SUFFICES ASSUME IInv, NEW c \in Conns
             PROVE  /\ Shown(c) = start[c]
                    /\ start[c] # Nil => Sent(c) = start[c] + Len(wire[c])
  BY DEF Counted
<1>1. Shown(c) = start[c]
  BY DEF IInv, StreamOK, ContinuesReplay, Shown
<1>2. ASSUME start[c] # Nil PROVE Sent(c) = start[c] + Len(wire[c])
  <2>1. /\ wire[c] \in Seq(Nat) /\ start[c] \in Nat
        /\ \A i \in 1 .. Len(wire[c]) : wire[c][i] = start[c] + i
    BY <1>2 DEF IInv, TypeOK, StreamOK, ContinuesReplay, Continues
  <2>2. CASE wire[c] = <<>>
    BY <2>1, <2>2 DEF Sent
  <2>3. CASE wire[c] # <<>>
    <3>1. Len(wire[c]) \in 1 .. Len(wire[c])
      BY <2>1, <2>3
    <3> QED BY <2>1, <2>3, <3>1 DEF Sent
  <2> QED BY <2>2, <2>3
<1> QED BY <1>1, <1>2

\* A viewer that joins is shown all the output so far.
LEMMA JoinStep ==
    ASSUME IInv, IInv', NEW c \in Conns, AddClient(c)
    PROVE  Stream!Join(c)
<1>1. /\ start[c] = Nil /\ wire[c] = <<>>
      /\ start' = [start EXCEPT ![c] = produced] /\ start'[c] = produced
      /\ UNCHANGED <<produced, wire>>
  BY DEF AddClient, IInv, StreamOK, TypeOK, Unattached
<1>0. Counted /\ Counted'
  BY ShownAndSent, PTL
<1>2. \A d \in Conns : /\ Shown(d) = start[d] /\ Shown(d)' = start'[d]
                       /\ d # c => start'[d] = start[d] /\ Sent(d)' = Sent(d)
  BY <1>1, <1>0 DEF Counted, Sent, IInv, TypeOK
<1>3. Shown(c)' = produced /\ Sent(c)' = produced
  BY <1>1, <1>2 DEF Sent
<1> QED BY <1>1, <1>2, <1>3 DEF Stream!Join

\* A write is of the chunk after the last one.
LEMMA SeeStep ==
    ASSUME IInv, IInv', NEW c \in Conns, WriteChunk(c)
    PROVE  Stream!See(c)
<1>1. /\ UNCHANGED <<produced, start, replay>>
      /\ \A d \in Conns : d # c => wire'[d] = wire[d]
  BY DEF WriteChunk, IInv, TypeOK
<1>2. \A d \in Conns : /\ Shown(d)' = Shown(d)
                       /\ d # c => Sent(d)' = Sent(d)
  BY <1>1 DEF Shown, Sent
<1>3. /\ start[c] \in Nat /\ start[c] # Nil /\ Len(wire[c]) \in Nat
      /\ start[c] + Len(wire[c]) < produced
  BY WriteStep, HostAssumption
<1>4. Len(wire'[c]) = Len(wire[c]) + 1
  <2>1. wire[c] \in Seq(Nat) /\ start[c] + Len(wire[c]) + 1 \in Nat
    BY <1>3 DEF IInv, TypeOK
  <2> QED BY <2>1, WriteStep
<1>5. Sent(c) = start[c] + Len(wire[c]) /\ Sent(c)' = start[c] + Len(wire'[c])
  <2>1. start'[c] # Nil /\ start'[c] = start[c]
    BY <1>1, <1>3
  <2>2. Counted /\ Counted'
    BY ShownAndSent, PTL
  <2> QED BY <1>3, <2>1, <2>2 DEF Counted
<1>6. Sent(c)' = Sent(c) + 1 /\ Sent(c) < produced
  BY <1>3, <1>4, <1>5
<1>7. Shown(c) = start[c]
  BY ShownAndSent DEF Counted
<1> QED BY <1>1, <1>2, <1>3, <1>6, <1>7 DEF Stream!See

\* Every other step of the host is invisible to its viewers, and readLoop
\* produces.
LEMMA StreamStep ==
    ASSUME IInv, IInv', [Next]_vars
    PROVE  [Stream!Next]_(Stream!vars)
<1>1. CASE UNCHANGED <<produced, replay, start, wire>>
  BY <1>1 DEF Stream!vars, Shown, Sent
<1>2. CASE ReadOutput
  <2>1. produced' = produced + 1 /\ UNCHANGED <<replay, start, wire>>
    BY <1>2 DEF ReadOutput, writers
  <2> QED BY <2>1 DEF Stream!Next, Stream!Produce, Shown, Sent
<1>3. ASSUME NEW c \in Conns, AddClient(c) \/ WriteChunk(c)
      PROVE  Stream!Next
  BY <1>3, JoinStep, SeeStep DEF Stream!Next
<1>4. \/ UNCHANGED <<produced, replay, start, wire>>
      \/ ReadOutput
      \/ \E c \in Conns : AddClient(c) \/ WriteChunk(c)
  <2>1. ChildExits \/ Ending => UNCHANGED <<produced, replay, start, wire>>
    BY DEF ChildExits, Ending, Finish, CloseListener, CloseProcess, Exit, writers
  <2>2. ASSUME NEW c \in Conns, Peer(c)
        PROVE  UNCHANGED <<produced, replay, start, wire>>
    BY <2>2 DEF Peer, Accept, PeerCloses, PeerStalls, FirstInput, FirstResize,
                Resize, ResizeScreen, BadFrame, StopReading, writers
  <2>3. ASSUME NEW c \in Conns,
               (Reader(c) /\ ~AddClient(c)) \/ (Writer(c) /\ ~WriteChunk(c))
        PROVE  UNCHANGED <<produced, replay, start, wire>>
    BY <2>3 DEF Reader, Writer, ResizePty, ReadFails, StopReading, RemoveClient,
                WriteReplay, WriterEnds, writers
  <2> QED BY <2>1, <2>2, <2>3 DEF Next, vars
<1> QED BY <1>1, <1>2, <1>3, <1>4

\* The host implements the stream it promises its viewers: each is shown all
\* the output so far when it joins and is sent every later chunk in order.
THEOREM HostImplementsStream == Spec => ImplementsStream
<1>1. Init => Stream!Init
  BY DEF Init, Stream!Init, Shown, Sent
<1> QED BY <1>1, Invariance, StreamStep, PTL DEF Spec, ImplementsStream, Stream!Spec
=============================================================================
