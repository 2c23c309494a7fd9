----------------------------- MODULE TerminalHost -----------------------------
(***************************************************************************)
(* The terminal host (internal/terminalhost/host.go): the process inside a *)
(* zellij pane that owns an agent's PTY and serves its output on a unix    *)
(* socket to every browser that attaches.                                  *)
(*                                                                         *)
(* Its goroutines are readLoop, acceptLoop, the waiter for the context,    *)
(* and for every connection a reader (handleConn) and a writer             *)
(* (writeToConn).  They share the map of clients, the screen model and the *)
(* done channel under mu, and the PTY, the listener and the sockets        *)
(* without it.  Output is a count of chunks: what is on the wire is which  *)
(* chunks, in which order.                                                 *)
(***************************************************************************)
EXTENDS Naturals, Sequences

CONSTANTS
    Conns,            \* connections the host can accept
    Sizes,            \* terminal geometries
    DefaultSize,      \* the geometry it starts with
    ClientQueueSize,  \* clientQueueSize (64)
    MaxOutput,        \* bound: chunks the process writes
    MaxResizes,       \* bound: resizes an attached connection asks for
    Nil

ASSUME HostAssumption ==
    /\ DefaultSize \in Sizes
    /\ ClientQueueSize \in Nat \ {0}
    /\ MaxOutput \in Nat
    /\ MaxResizes \in Nat
    /\ Nil \notin Nat \union Sizes \union [fed : Nat, size : Sizes]

VARIABLES
    produced,   \* chunks readLoop has read and broadcast
    child,      \* the process on the PTY: "running" or "exited"
    ptyOpen,    \* process.Close has not run
    ptySize,
    screen,     \* the emulator: chunks fed to it and its size, or Nil
    done,       \* finish has closed the done channel
    listening,
    exited,     \* Run has returned and the process is gone
    conn,       \* connection -> where its handleConn stands
    peer,       \* connections whose other end is open
    stalled,    \* connections whose other end has stopped reading
    want,       \* connection -> the geometry it is setting, or Nil
    resizes,    \* connection -> resizes it has asked for
    clients,    \* connections registered in h.clients
    queue,      \* connection -> chunks in its channel
    closes,     \* connection -> times its channel was closed
    writer,     \* connection -> where its writeToConn stands
    replay,     \* connection -> chunks its snapshot stands for, or Nil
    start,      \* connection -> chunks produced when it was added (history)
    wire        \* connection -> chunks written to its socket

pty     == <<child, ptyOpen, ptySize>>
ending  == <<done, listening, exited>>
asked   == <<stalled, want, resizes>>
readers == <<conn, peer, asked>>
fanout  == <<clients, queue, closes>>
writers == <<writer, replay, start, wire>>
vars == <<produced, child, ptyOpen, ptySize, screen, done, listening, exited,
          conn, peer, stalled, want, resizes, clients, queue, closes, writer,
          replay, start, wire>>

Init ==
    /\ produced = 0
    /\ child = "running"
    /\ ptyOpen = TRUE
    /\ ptySize = DefaultSize
    /\ screen = [fed |-> 0, size |-> DefaultSize]
    /\ done = FALSE
    /\ listening = TRUE
    /\ exited = FALSE
    /\ conn = [c \in Conns |-> "none"]
    /\ peer = {}
    /\ stalled = {}
    /\ want = [c \in Conns |-> Nil]
    /\ resizes = [c \in Conns |-> 0]
    /\ clients = {}
    /\ queue = [c \in Conns |-> <<>>]
    /\ closes = [c \in Conns |-> 0]
    /\ writer = [c \in Conns |-> "none"]
    /\ replay = [c \in Conns |-> Nil]
    /\ start = [c \in Conns |-> Nil]
    /\ wire = [c \in Conns |-> <<>>]

\* handleConn moves on; at its end the deferred conn.Close runs.
Reading(c, where) ==
    /\ conn' = [conn EXCEPT ![c] = where]
    /\ peer' = IF where = "closed" THEN peer \ {c} ELSE peer

\* close(client) for the channels of C; a second close would panic.
CloseChannels(C) ==
    closes' = [c \in Conns |-> IF c \in C THEN closes[c] + 1 ELSE closes[c]]

-----------------------------------------------------------------------------
(* readLoop and the process on the PTY.                                    *)

\* Mistaken: counts one chunk more than a channel holds.
FullOffByOne == {c \in clients : Len(queue[c]) > ClientQueueSize}

\* The channels with no room, at the moment of a broadcast.
Full == {c \in clients : Len(queue[c]) >= ClientQueueSize}

\* The channels of C take the chunk just read.
SendTo(C) ==
    queue' = [c \in Conns |-> IF c \in C THEN Append(queue[c], produced + 1)
                                        ELSE queue[c]]

\* Mistaken: a full channel loses the chunk and stays registered.
BroadcastSkippingFull ==
    /\ SendTo(clients \ Full)
    /\ UNCHANGED <<clients, closes>>

\* Under mu: to every client with room; a client without is closed.
Broadcast ==
    /\ SendTo(clients \ Full)
    /\ CloseChannels(Full)
    /\ clients' = clients \ Full

\* A chunk is read, fed to the emulator (which may panic on it: snapshots are
\* then off for good) and fanned out, in one critical section.
ReadOutput ==
    /\ child = "running" /\ ptyOpen
    /\ produced < MaxOutput
    /\ produced' = produced + 1
    /\ \/ screen' = IF screen = Nil THEN Nil ELSE [screen EXCEPT !.fed = @ + 1]
       \/ screen' = Nil
    /\ Broadcast
    /\ UNCHANGED <<pty, ending, readers, writers>>

ChildExits ==
    /\ child = "running"
    /\ child' = "exited"
    /\ UNCHANGED <<produced, ptyOpen, ptySize, screen, ending, readers, fanout,
                   writers>>

-----------------------------------------------------------------------------
(* finish, called by readLoop when the process is gone and by the waiter   *)
(* when the context is cancelled; the second caller finds done closed.     *)

Finish ==
    /\ ~done                \* either caller: a cancel may come at any time
    /\ done' = TRUE
    /\ CloseChannels(clients)
    /\ clients' = {}
    /\ screen' = Nil
    /\ UNCHANGED <<produced, pty, listening, exited, readers, queue, writers>>

CloseListener ==
    /\ done /\ listening
    /\ listening' = FALSE
    /\ UNCHANGED <<produced, pty, screen, done, exited, readers, fanout, writers>>

CloseProcess ==
    /\ done /\ ~listening /\ ptyOpen
    /\ ptyOpen' = FALSE
    /\ child' = "exited"
    /\ UNCHANGED <<produced, ptySize, screen, ending, readers, fanout, writers>>

\* Mistaken: waits for the handlers, which read until their peers go away.
ExitAfterHandlers ==
    /\ done /\ ~listening
    /\ \A c \in Conns : conn[c] \in {"none", "closed"}
    /\ exited' = TRUE
    /\ peer' = {}
    /\ UNCHANGED <<produced, pty, screen, done, listening, conn, asked, fanout,
                   writers>>

\* acceptLoop finds the listener closed, Run returns and the process ends:
\* every goroutine goes with it, with whatever it had still to write.
Exit ==
    /\ done /\ ~listening
    /\ exited' = TRUE
    /\ peer' = {}
    /\ UNCHANGED <<produced, pty, screen, done, listening, conn, asked, fanout,
                   writers>>

-----------------------------------------------------------------------------
(* handleConn: one reader per connection.                                  *)

Accept(c) ==
    /\ listening
    /\ conn[c] = "none"
    /\ conn' = [conn EXCEPT ![c] = "first"]
    /\ peer' = peer \union {c}
    /\ UNCHANGED <<produced, pty, screen, ending, asked, fanout, writers>>

\* A browser tab, the server, or `yyork send` goes away.
PeerCloses(c) ==
    /\ c \in peer
    /\ peer' = peer \ {c}
    /\ UNCHANGED <<produced, pty, screen, ending, conn, asked, fanout, writers>>

\* A tab is suspended, or its network is: its socket takes no more.
PeerStalls(c) ==
    /\ c \in peer \ stalled
    /\ stalled' = stalled \union {c}
    /\ UNCHANGED <<produced, pty, screen, ending, conn, peer, want, resizes,
                   fanout, writers>>

\* A first frame with input makes an input-only connection (`yyork send`).
FirstInput(c) ==
    /\ conn[c] = "first" /\ c \in peer
    /\ Reading(c, IF ptyOpen THEN "input" ELSE "closed")
    /\ UNCHANGED <<produced, pty, screen, ending, asked, fanout, writers>>

\* resize, first half: the screen model, under mu.  It may panic.
ResizeScreen(c, size, where) ==
    /\ want' = [want EXCEPT ![c] = size]
    /\ resizes' = [resizes EXCEPT ![c] = @ + 1]
    /\ \/ screen' = IF screen = Nil THEN Nil ELSE [screen EXCEPT !.size = size]
       \/ screen' = Nil
    /\ Reading(c, where)
    /\ UNCHANGED <<produced, pty, ending, stalled, fanout, writers>>

\* Any other first frame must be a resize; an attach announces its geometry.
FirstResize(c) ==
    /\ conn[c] = "first" /\ c \in peer
    /\ \E size \in Sizes : ResizeScreen(c, size, "sizing")

Resize(c) ==
    /\ conn[c] = "reading" /\ c \in peer
    /\ resizes[c] < MaxResizes
    /\ \E size \in Sizes : ResizeScreen(c, size, "resizing")

\* resize, second half: the PTY, outside mu.  It fails once the PTY is closed.
ResizePty(c) ==
    /\ conn[c] \in {"sizing", "resizing"}
    /\ want' = [want EXCEPT ![c] = Nil]
    /\ IF ptyOpen
       THEN /\ ptySize' = want[c]
            /\ Reading(c, IF conn[c] = "sizing" THEN "adding" ELSE "reading")
       ELSE /\ UNCHANGED ptySize
            /\ Reading(c, IF conn[c] = "sizing" THEN "closed" ELSE "leaving")
    /\ UNCHANGED <<produced, child, ptyOpen, screen, ending, stalled, resizes,
                   fanout, writers>>

\* The repaint a new viewer gets stands for what the screen was fed.
Snapshot == IF screen = Nil THEN Nil ELSE screen.fed

\* Mistaken: the snapshot is taken under one lock, the client registered
\* under the next, and output in between is in neither.
AddClientLate(c) ==
    /\ conn[c] \in {"adding", "late"}
    /\ IF conn[c] = "adding"
       THEN /\ Reading(c, "late")
            /\ start' = [start EXCEPT ![c] = produced]
            /\ replay' = [replay EXCEPT ![c] = Snapshot]
            /\ UNCHANGED <<clients, writer>>
       ELSE /\ Reading(c, "reading")
            /\ clients' = clients \union {c}
            /\ writer' = [writer EXCEPT ![c] = "replay"]
            /\ UNCHANGED <<start, replay>>
    /\ UNCHANGED <<produced, pty, screen, ending, asked, queue, closes,
                   wire>>

\* Register and take the snapshot, under mu.
AddClient(c) ==
    /\ conn[c] = "adding"
    /\ Reading(c, "reading")
    /\ clients' = clients \union {c}
    /\ start' = [start EXCEPT ![c] = produced]
    /\ replay' = [replay EXCEPT ![c] = Snapshot]
    /\ writer' = [writer EXCEPT ![c] = "replay"]
    /\ UNCHANGED <<produced, pty, screen, ending, asked, queue, closes,
                   wire>>

\* The reader gives up; an attached connection sets its deadline, which also
\* fails a pending write, and waits for its writer.
StopReading(c) ==
    /\ conn[c] \in {"first", "input", "reading"}
    /\ Reading(c, IF conn[c] = "reading" THEN "leaving" ELSE "closed")
    /\ UNCHANGED <<produced, pty, screen, ending, asked, fanout, writers>>

\* A read fails, or writing the input it returned to a closed PTY does.
ReadFails(c) ==
    /\ c \notin peer \/ (conn[c] # "first" /\ ~ptyOpen)
    /\ StopReading(c)

\* A frame of an unknown type, a malformed resize, a first frame of output.
BadFrame(c) ==
    /\ c \in peer
    /\ StopReading(c)

\* Mistaken: closes the channel without looking whether it is registered.
RemoveClientBlindly(c) ==
    /\ conn[c] = "leaving"
    /\ CloseChannels({c})
    /\ clients' = clients \ {c}
    /\ Reading(c, "closed")
    /\ UNCHANGED <<produced, pty, screen, ending, asked, queue, writers>>

\* After at most a second for the writer: removeClient, then conn.Close.
RemoveClient(c) ==
    /\ conn[c] = "leaving"
    /\ CloseChannels(clients \intersect {c})
    /\ clients' = clients \ {c}
    /\ Reading(c, "closed")
    /\ UNCHANGED <<produced, pty, screen, ending, asked, queue, writers>>

-----------------------------------------------------------------------------
(* writeToConn: one writer per attached connection.                        *)

\* The connection is gone or its deadline has passed: a write fails.
Broken(c) == c \notin peer \/ conn[c] \in {"leaving", "closed"}

\* A write returns; one to a peer that does not read blocks.
CanWrite(c) == ~Broken(c) /\ c \notin stalled

WriteReplay(c) ==
    /\ writer[c] = "replay"
    /\ replay[c] # Nil => CanWrite(c)
    /\ writer' = [writer EXCEPT ![c] = "stream"]
    /\ UNCHANGED <<produced, pty, screen, ending, readers, fanout, replay, start,
                   wire>>

WriteChunk(c) ==
    /\ writer[c] = "stream"
    /\ queue[c] # <<>>
    /\ CanWrite(c)
    /\ wire' = [wire EXCEPT ![c] = Append(@, Head(queue[c]))]
    /\ queue' = [queue EXCEPT ![c] = Tail(@)]
    /\ UNCHANGED <<produced, pty, screen, ending, readers, clients, closes,
                   writer, replay, start>>

\* Mistaken: a dropped client's writer gives up what is still queued for it.
WriterEndsEarly(c) ==
    /\ writer[c] = "stream"
    /\ done \/ closes[c] > 0
    /\ writer' = [writer EXCEPT ![c] = "ended"]
    /\ UNCHANGED <<produced, pty, screen, ending, readers, fanout, replay, start,
                   wire>>

\* The channel is closed and drained, done is closed (the select may then
\* take either branch), or a write fails.
WriterEnds(c) ==
    /\ \/ writer[c] = "stream" /\ (done \/ (queue[c] = <<>> /\ closes[c] > 0))
       \/ writer[c] = "stream" /\ queue[c] # <<>> /\ Broken(c)
       \/ writer[c] = "replay" /\ replay[c] # Nil /\ Broken(c)
    /\ writer' = [writer EXCEPT ![c] = "ended"]
    /\ UNCHANGED <<produced, pty, screen, ending, readers, fanout, replay, start,
                   wire>>

-----------------------------------------------------------------------------
Reader(c) ==
    \/ ResizePty(c) \/ AddClient(c) \/ ReadFails(c) \/ RemoveClient(c)

Writer(c) == WriteReplay(c) \/ WriteChunk(c) \/ WriterEnds(c)

Peer(c) ==
    \/ Accept(c) \/ PeerCloses(c) \/ PeerStalls(c)
    \/ FirstInput(c) \/ FirstResize(c) \/ Resize(c) \/ BadFrame(c)

Ending == Finish \/ CloseListener \/ CloseProcess \/ Exit

Next ==
    /\ ~exited
    /\ \/ ReadOutput \/ ChildExits \/ Ending
       \/ \E c \in Conns : Peer(c) \/ Reader(c) \/ Writer(c)

Spec == Init /\ [][Next]_vars

\* readLoop sees the process exit and calls finish; every goroutine runs.
Fairness ==
    /\ WF_vars(~exited /\ child = "exited" /\ Finish)
    /\ WF_vars(~exited /\ (CloseListener \/ Exit))
    /\ \A c \in Conns : /\ WF_vars(~exited /\ Reader(c))
                        /\ WF_vars(~exited /\ Writer(c))

FairSpec == Spec /\ Fairness
-----------------------------------------------------------------------------
(* What must hold.                                                         *)

Screens == [fed : Nat, size : Sizes]

\* Every variable has its type, no channel holds more than its capacity, and
\* a connection has a geometry to set exactly while it is in resize.
TypeOK ==
    /\ produced \in Nat
    /\ child \in {"running", "exited"}
    /\ ptyOpen \in BOOLEAN
    /\ ptySize \in Sizes
    /\ screen \in Screens \union {Nil}
    /\ done \in BOOLEAN /\ listening \in BOOLEAN /\ exited \in BOOLEAN
    /\ conn \in [Conns -> {"none", "first", "input", "sizing", "adding",
                           "reading", "resizing", "leaving", "closed"}]
    /\ peer \subseteq Conns
    /\ stalled \subseteq Conns
    /\ want \in [Conns -> Sizes \union {Nil}]
    /\ \A c \in Conns : want[c] # Nil <=> conn[c] \in {"sizing", "resizing"}
    /\ resizes \in [Conns -> Nat]
    /\ clients \subseteq Conns
    /\ queue \in [Conns -> Seq(Nat)]
    /\ \A c \in Conns : Len(queue[c]) <= ClientQueueSize
    /\ closes \in [Conns -> Nat]
    /\ writer \in [Conns -> {"none", "replay", "stream", "ended"}]
    /\ replay \in [Conns -> Nat \union {Nil}]
    /\ start \in [Conns -> Nat \union {Nil}]
    /\ wire \in [Conns -> Seq(Nat)]

\* w and then q continue s: they are s + 1, s + 2, ...
Continues(s, w, q) ==
    /\ \A i \in 1 .. Len(w) : w[i] = s + i
    /\ \A i \in 1 .. Len(q) : q[i] = s + Len(w) + i

\* What connection c was sent and what is queued for it continue, without a
\* gap and without a repetition, the screen it was shown; while it is
\* registered they reach the newest output (addClient, broadcast).
ContinuesReplay(c) ==
    /\ Continues(start[c], wire[c], queue[c])
    /\ replay[c] \in {Nil, start[c]}
    /\ c \in clients => start[c] + Len(wire[c]) + Len(queue[c]) = produced

\* No attached viewer ever misses or repeats output in the middle of its
\* stream, however attaches, resizes, slow readers and output interleave.
NoGap == \A c \in Conns : start[c] # Nil => ContinuesReplay(c)

\* broadcast, removeClient and finish all close client channels, from three
\* goroutines: none is closed twice, and none is sent to once closed (either
\* would panic and take every viewer of the session down).
ChannelsClosedOnce ==
    \A c \in Conns : closes[c] <= 1 /\ (c \in clients => closes[c] = 0)

\* What a viewer has been shown at first and what it has been sent last.
Shown(c) == IF replay[c] = Nil THEN start[c] ELSE replay[c]
Sent(c) == IF wire[c] = <<>> THEN start[c] ELSE wire[c][Len(wire[c])]

Stream == INSTANCE ScreenStream WITH
    start <- [c \in Conns |-> Shown(c)],
    seen  <- [c \in Conns |-> Sent(c)]

\* The host implements the stream it promises: joining takes a snapshot of all
\* the output so far, and every write is of the viewer's next chunk.
ImplementsStream == Stream!Spec

\* Once finish has begun the process ends, whoever is still connected and
\* whatever its goroutines wait for; zellij only then ends the session.
FinishedHostExits == done ~> exited

\* What is queued for a viewer is written to it, even after it was dropped for
\* being slow, unless the viewer leaves or stops reading, or the host finishes.
QueuedOutputArrives ==
    \A c \in Conns : \A n \in 1 .. MaxOutput :
        (\E i \in DOMAIN queue[c] : queue[c][i] = n)
            ~> ((\E i \in DOMAIN wire[c] : wire[c][i] = n)
                \/ Broken(c) \/ c \in stalled \/ done)
=============================================================================
