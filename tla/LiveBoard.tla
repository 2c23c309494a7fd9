------------------------------- MODULE LiveBoard -------------------------------
(***************************************************************************)
(* How an open dashboard follows the session store.  Every change is       *)
(* committed to SQLite and then announced: on the bus of the server        *)
(* (internal/events) by the server itself, through POST /api/events by a   *)
(* CLI command or a hook.  The bus fans out to one bounded channel per     *)
(* event stream (/api/events), a handler writes the stream, and the        *)
(* browser refetches /api/workspace on every event and every 3 seconds.    *)
(*                                                                         *)
(* The workspace is the number of changes committed; a board ignores what  *)
(* an event says, so channels and sockets hold a number of events.         *)
(***************************************************************************)
EXTENDS Naturals

CONSTANTS
    Boards,       \* open browser tabs
    Writers,      \* processes that change sessions
    Servers,      \* the writers that hold the bus
    bufferSize,   \* of a subscriber's channel (32)
    MaxChanges,   \* bound: changes committed
    MaxFaults,    \* bound: breaks, lost announcements, failures, restarts
    Nil

ASSUME BoardAssumption ==
    /\ Servers \subseteq Writers
    /\ bufferSize \in Nat \ {0}
    /\ MaxChanges \in Nat /\ MaxFaults \in Nat
    /\ Nil \notin Nat

VARIABLES
    stored,     \* changes committed to SQLite
    pending,    \* writer -> the change it has still to announce, or Nil
    announced,  \* announcements published on the bus
    stream,     \* board -> its event stream
    chan,       \* board -> events in its channel
    wire,       \* board -> events written to it and not handled
    query,      \* board -> its fetch: "idle", "asked" or "answered"
    read,       \* board -> the workspace the server read for that fetch
    failed,     \* boards whose last fetch failed
    shown,      \* board -> the workspace in its cache, or Nil
    hidden,     \* boards in a background tab: these do not poll
    due,        \* board -> newest change it has been told of (history)
    faults

writes == <<stored, pending, announced>>
streams == <<stream, chan, wire, due>>
cache == <<query, read, failed, shown>>
vars == <<writes, streams, cache, hidden, faults>>

Init ==
    /\ stored = 0
    /\ pending = [w \in Writers |-> Nil]
    /\ announced = 0
    /\ stream = [b \in Boards |-> "closed"]
    /\ chan = [b \in Boards |-> 0]
    /\ wire = [b \in Boards |-> 0]
    /\ query = [b \in Boards |-> "asked"]
    /\ read = [b \in Boards |-> 0]
    /\ failed = {}
    /\ shown = [b \in Boards |-> Nil]
    /\ hidden = {}
    /\ due = [b \in Boards |-> 0]
    /\ faults = 0

Fault == faults < MaxFaults /\ faults' = faults + 1

-----------------------------------------------------------------------------
(* The writers and the bus.                                                *)

\* A spawn, a stop, a hook's merge, a restart: the store first.
Commit(w) ==
    /\ pending[w] = Nil
    /\ stored < MaxChanges
    /\ stored' = stored + 1
    /\ pending' = [pending EXCEPT ![w] = stored + 1]
    /\ UNCHANGED <<announced, streams, cache, hidden, faults>>

\* The boards that are subscribed to the bus.
Subscribers == {b \in Boards : stream[b] = "subscribed"}

\* A board with a loaded workspace has now been told of the change.
Tell(change) ==
    due' = [b \in Boards |->
              IF b \in Subscribers /\ shown[b] # Nil /\ due[b] < change
              THEN change ELSE due[b]]

\* Mistaken: a send that does not look whether there is room.
PublishUnbounded(change) ==
    /\ announced' = announced + 1
    /\ chan' = [b \in Boards |->
                  IF b \in Subscribers THEN chan[b] + 1 ELSE chan[b]]
    /\ Tell(change)

\* Under the read lock: a channel with room takes the event, a full one drops
\* it.
Publish(change) ==
    /\ announced' = announced + 1
    /\ chan' = [b \in Boards |->
                  IF b \in Subscribers /\ chan[b] < bufferSize
                  THEN chan[b] + 1 ELSE chan[b]]
    /\ Tell(change)

\* The engine in the server publishes; a forwarded event is published by the
\* server's POST handler.
Announce(w) ==
    /\ pending[w] # Nil
    /\ Publish(pending[w])
    /\ pending' = [pending EXCEPT ![w] = Nil]
    /\ UNCHANGED <<stored, stream, wire, cache, hidden, faults>>

\* ForwardingPublisher swallows every error: no runfile, no answer in 750 ms.
\* So does a process that is killed between the commit and the announcement.
LoseAnnouncement(w) ==
    /\ pending[w] # Nil
    /\ w \notin Servers
    /\ Fault
    /\ pending' = [pending EXCEPT ![w] = Nil]
    /\ UNCHANGED <<stored, announced, streams, cache, hidden>>

-----------------------------------------------------------------------------
(* The event stream of one board.                                          *)

\* The handler flushes ": connected" before it subscribes.
Connect(b) ==
    /\ stream[b] = "closed"
    /\ stream' = [stream EXCEPT ![b] = "connected"]
    /\ UNCHANGED <<writes, chan, wire, due, cache, hidden, faults>>

Subscribe(b) ==
    /\ stream[b] = "connected"
    /\ stream' = [stream EXCEPT ![b] = "subscribed"]
    /\ UNCHANGED <<writes, chan, wire, due, cache, hidden, faults>>

\* writeSSEEvent and the flush.
SendEvent(b) ==
    /\ stream[b] = "subscribed"
    /\ chan[b] > 0
    /\ chan' = [chan EXCEPT ![b] = @ - 1]
    /\ wire' = [wire EXCEPT ![b] = @ + 1]
    /\ UNCHANGED <<writes, stream, due, cache, hidden, faults>>

\* The streams of B end: unsubscribe, and what was on the way is lost.
CloseStreams(B) ==
    /\ stream' = [b \in Boards |-> IF b \in B THEN "closed" ELSE stream[b]]
    /\ chan' = [b \in Boards |-> IF b \in B THEN 0 ELSE chan[b]]
    /\ wire' = [b \in Boards |-> IF b \in B THEN 0 ELSE wire[b]]
    /\ due' = [b \in Boards |-> IF b \in B THEN 0 ELSE due[b]]

\* The connection breaks; EventSource connects again by itself.
Break(b) ==
    /\ stream[b] # "closed"
    /\ Fault
    /\ CloseStreams({b})
    /\ UNCHANGED <<writes, cache, hidden>>

\* The server stops and is started again: its streams, the requests it had
\* and its own unpublished events are gone.
RestartServer ==
    /\ Fault
    /\ CloseStreams(Boards)
    /\ pending' = [w \in Writers |-> IF w \in Servers THEN Nil ELSE pending[w]]
    /\ failed' = failed \union {b \in Boards : query[b] # "idle"}
    /\ query' = [b \in Boards |-> "idle"]
    /\ UNCHANGED <<stored, announced, read, shown, hidden>>

-----------------------------------------------------------------------------
(* The board's query on /api/workspace.                                    *)

\* Mistaken: an event leaves a fetch that is under way alone.
InvalidateUnlessFetching(b) ==
    query' = [query EXCEPT ![b] = IF @ = "idle" THEN "asked" ELSE @]

\* invalidateQueries cancels a fetch under way and starts anew, but leaves the
\* very first fetch to finish.
Invalidate(b) ==
    query' = [query EXCEPT ![b] =
                IF @ = "idle" \/ shown[b] # Nil THEN "asked" ELSE @]

HandleEvent(b) ==
    /\ wire[b] > 0
    /\ wire' = [wire EXCEPT ![b] = @ - 1]
    /\ Invalidate(b)
    /\ UNCHANGED <<writes, stream, chan, due, read, failed, shown, hidden,
                   faults>>

\* Mistaken: polls only while there is no event stream.
PollWhenClosed(b) ==
    /\ query[b] = "idle"
    /\ b \notin hidden
    /\ stream[b] = "closed"
    /\ query' = [query EXCEPT ![b] = "asked"]
    /\ UNCHANGED <<writes, streams, read, failed, shown, hidden, faults>>

\* refetchInterval, which rests while the tab is in the background.
Poll(b) ==
    /\ query[b] = "idle"
    /\ b \notin hidden
    /\ query' = [query EXCEPT ![b] = "asked"]
    /\ UNCHANGED <<writes, streams, read, failed, shown, hidden, faults>>

\* The server reads the store for the request.
ReadWorkspace(b) ==
    /\ query[b] = "asked"
    /\ query' = [query EXCEPT ![b] = "answered"]
    /\ read' = [read EXCEPT ![b] = stored]
    /\ UNCHANGED <<writes, streams, failed, shown, hidden, faults>>

Answer(b) ==
    /\ query[b] = "answered"
    /\ shown' = [shown EXCEPT ![b] = read[b]]
    /\ query' = [query EXCEPT ![b] = "idle"]
    /\ failed' = failed \ {b}
    /\ UNCHANGED <<writes, streams, read, hidden, faults>>

\* No connection, an error status, a response the parser rejects; no retry.
FetchFails(b) ==
    /\ query[b] # "idle"
    /\ Fault
    /\ query' = [query EXCEPT ![b] = "idle"]
    /\ failed' = failed \union {b}
    /\ UNCHANGED <<writes, streams, read, shown, hidden>>

\* The user switches tabs.  Coming back does not refetch.
SwitchTab(b) ==
    /\ hidden' = IF b \in hidden THEN hidden \ {b} ELSE hidden \union {b}
    /\ UNCHANGED <<writes, streams, cache, faults>>

-----------------------------------------------------------------------------
Board(b) ==
    \/ Connect(b) \/ Subscribe(b) \/ SendEvent(b) \/ Break(b) \/ HandleEvent(b)
    \/ Poll(b) \/ ReadWorkspace(b) \/ Answer(b) \/ FetchFails(b) \/ SwitchTab(b)

Next ==
    \/ \E w \in Writers : Commit(w) \/ Announce(w) \/ LoseAnnouncement(w)
    \/ \E b \in Boards : Board(b)
    \/ RestartServer

Spec == Init /\ [][Next]_vars

\* A visible tab's timer fires, the server answers, the browser takes it.
Fairness ==
    \A b \in Boards :
        WF_vars(Poll(b)) /\ WF_vars(ReadWorkspace(b)) /\ WF_vars(Answer(b))

FairSpec == Spec /\ Fairness

-----------------------------------------------------------------------------
(* What must hold.                                                         *)

\* Every variable has its type and no channel holds more than its buffer.
TypeOK ==
    /\ stored \in Nat
    /\ pending \in [Writers -> Nat \union {Nil}]
    /\ announced \in Nat
    /\ stream \in [Boards -> {"closed", "connected", "subscribed"}]
    /\ chan \in [Boards -> 0 .. bufferSize]
    /\ wire \in [Boards -> Nat]
    /\ query \in [Boards -> {"idle", "asked", "answered"}]
    /\ read \in [Boards -> Nat]
    /\ failed \subseteq Boards
    /\ shown \in [Boards -> Nat \union {Nil}]
    /\ hidden \subseteq Boards
    /\ due \in [Boards -> Nat]
    /\ faults \in Nat

\* Nothing more will reach board b without a new event or a poll.
Quiet(b) == chan[b] = 0 /\ wire[b] = 0 /\ query[b] = "idle" /\ b \notin failed

\* Dropping events from a full channel costs no freshness: a loaded board
\* whose events have all been handled and whose last fetch succeeded shows
\* every change announced since it subscribed, without waiting for a poll.
CaughtUp == \A b \in Boards : Quiet(b) /\ shown[b] # Nil => shown[b] >= due[b]

\* The store is the truth: no board ever shows, and no event ever announces, a
\* change that is not committed.
NeverAhead ==
    /\ \A b \in Boards : shown[b] # Nil => shown[b] <= stored
    /\ \A b \in Boards : due[b] <= stored

\* A visible board shows every change sooner or later, even one whose event
\* was dropped, lost on the way to the server, or published while the board
\* was connecting: this is what the light polling is for.
BoardConverges ==
    \A b \in Boards : \A n \in 1 .. MaxChanges :
        stored >= n ~> b \in hidden \/ (shown[b] # Nil /\ shown[b] >= n)
=============================================================================
