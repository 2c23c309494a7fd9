--------------------------- MODULE TerminalPanel ---------------------------
(***************************************************************************)
(* The terminal pane of the web page (terminal-panel.tsx), with the parts  *)
(* of xterm-terminal.tsx it drives.  One xterm instance is kept alive and  *)
(* re-pointed at the session the page shows: every change of session and   *)
(* every retry closes the WebSocket at hand and opens another.  Around it  *)
(* run four timers (reconnect, stable connection, resize debounce, scroll  *)
(* restore), the browser's socket events, and the write queue of xterm,    *)
(* which parses what was written some time after it was written.           *)
(*                                                                         *)
(* The model starts when xterm has announced itself (terminal-ready).  A   *)
(* socket is a number, in the order of opening; cur is the one the connect *)
(* effect holds, the only one whose listeners are `active'.  A terminal    *)
(* host answers each socket with a replay of Frames messages, the last of  *)
(* which restores the modes of its program (host.go, paintLocked).         *)
(***************************************************************************)
EXTENDS Naturals, Sequences, FiniteSets

CONSTANTS
    Sessions,       \* the sessions the page may show
    NoSession,      \* no session is selected ('idle')
    FocusSessions,  \* the sessions whose program has asked for focus reports
    Sizes,          \* the grid sizes of the pane
    NoSize,         \* no debounced resize is pending
    Frames,         \* messages in a replay
    MaxReconnects,  \* length of terminalReconnectDelaysMs
    MaxConns,       \* bound: sockets opened in a behaviour
    MaxQueue        \* bound: writes waiting in xterm before a message arrives

ASSUME PanelAssumption ==
    /\ NoSession \notin Sessions
    /\ NoSize \notin Sizes
    /\ FocusSessions \subseteq Sessions
    /\ Frames \in Nat \ {0}
    /\ MaxReconnects \in Nat
    /\ MaxConns \in Nat \ {0}
    /\ MaxQueue \in Nat

VARIABLES
    shown,       \* the session of the props, or NoSession
    used,        \* sockets opened so far
    cur,         \* the socket of the connect effect; 0 when it has none
    sessionOf,   \* the session each socket was opened for
    sockState,   \* "unused", "connecting", "open", "closing" or "closed"
    frames,      \* messages the current socket has delivered
    ptySize,     \* the size the server last heard over the current socket
    status,      \* connectionSnapshot: a session and a status
    toasts,      \* sessions with a toast on screen that offers Reconnect
    attempts,    \* reconnectAttemptRef
    reconnect,   \* reconnectTimer is set
    stable,      \* stableConnectionTimer is set
    clearNext,   \* clearBeforeNextMessageRef
    scrollDue,   \* scrollOffsetAfterNextMessageRef is defined
    scrollTimer, \* scrollRestoreTimerRef is set
    queue,       \* what xterm has yet to parse
    screen,      \* the sockets whose output xterm displays
    modesOf,     \* the socket whose replay set xterm's modes; 0: none yet
    paletteDue,  \* paletteSyncPending
    focusSent,   \* the current socket was sent a FocusIn report
    size,        \* terminalSizeRef
    debounce     \* the size resizeDebounceTimerRef will send, or NoSize

socketVars == <<used, cur, sessionOf, sockState, frames>>
timerVars  == <<attempts, reconnect, stable>>
replayVars == <<clearNext, scrollDue, scrollTimer>>
xtermVars  == <<queue, screen, modesOf, paletteDue, focusSent>>
sizeVars   == <<ptySize, size, debounce>>
vars == <<shown, socketVars, status, toasts, timerVars, replayVars, xtermVars,
          sizeVars>>

Conns == 1..MaxConns

Statuses == {"idle", "connecting", "connected", "disconnected", "failed"}

Reset == [kind |-> "reset"]
Output(c, n, scrolls) ==
    [kind |-> "output", of |-> c, modes |-> n = Frames, scrolls |-> scrolls]
Writes == {Reset} \cup
    [kind : {"output"}, of : Conns, modes : BOOLEAN, scrolls : BOOLEAN]

-----------------------------------------------------------------------------
(* What the panel reads from its state *)

Live(c) == c # 0 /\ sockState[c] \in {"connecting", "open"}
Open(c) == c # 0 /\ sockState[c] = "open"

ConnectionStatus ==
    IF shown = NoSession THEN "idle"
    ELSE IF status.of = shown THEN status.is ELSE "connecting"

CanRetry == ConnectionStatus \in {"disconnected", "failed"}

(* Toasts are raised by an effect on the status that was just set *)
RaisesToast(s, st) ==
    IF st \in {"disconnected", "failed"} THEN toasts \cup {s} ELSE toasts

-----------------------------------------------------------------------------
(* The connect effect: its cleanup, and the socket it opens for s *)

CloseCurrent ==
    IF Live(cur) THEN [sockState EXCEPT ![cur] = "closing"] ELSE sockState

CleanUp ==
    /\ reconnect' = FALSE
    /\ stable' = FALSE
    /\ debounce' = IF cur = 0 THEN debounce ELSE NoSize

Connect(s) ==
    /\ CleanUp
    /\ IF s = NoSession
       THEN /\ cur' = 0
            /\ sockState' = CloseCurrent
            /\ UNCHANGED <<used, sessionOf, ptySize>>
       ELSE /\ used < MaxConns
            /\ used' = used + 1
            /\ cur' = used + 1
            /\ sessionOf' = [sessionOf EXCEPT ![used + 1] = s]
            /\ sockState' = [CloseCurrent EXCEPT ![used + 1] = "connecting"]
            /\ ptySize' = size
    /\ frames' = 0
    /\ UNCHANGED size

(* Mistaken: only the scroll position is prepared, the old screen is kept. *)
PrepareReplayOfScroll ==
    /\ scrollDue' = TRUE
    /\ scrollTimer' = FALSE
    /\ UNCHANGED clearNext

(* prepareNextTerminalReplay, the timer of which the cleanup clears as well *)
PrepareReplay ==
    /\ clearNext' = TRUE
    /\ scrollDue' = TRUE
    /\ scrollTimer' = FALSE

(* syncPaletteIfReady, run when a write has been parsed; the report goes   *)
(* through handleTerminalData to whatever socket is current and open       *)
SyncPalette ==
    IF paletteDue /\ modesOf' # 0 /\ sessionOf[modesOf'] \in FocusSessions
    THEN /\ paletteDue' = FALSE
         /\ focusSent' = (focusSent \/ Open(cur))
    ELSE UNCHANGED <<paletteDue, focusSent>>

-----------------------------------------------------------------------------
Init ==
    /\ shown \in Sessions \cup {NoSession}
    /\ size \in Sizes
    /\ used = IF shown = NoSession THEN 0 ELSE 1
    /\ cur = used
    /\ sessionOf = [c \in Conns |-> IF c = cur THEN shown ELSE NoSession]
    /\ sockState = [c \in Conns |-> IF c = cur THEN "connecting" ELSE "unused"]
    /\ frames = 0
    /\ ptySize = size
    /\ status = [of |-> shown, is |-> "idle"]
    /\ toasts = {}
    /\ attempts = 0
    /\ reconnect = FALSE
    /\ stable = FALSE
    /\ clearNext = TRUE
    /\ scrollDue = TRUE
    /\ scrollTimer = FALSE
    /\ queue = <<Reset>>
    /\ screen = {}
    /\ modesOf = 0
    /\ paletteDue = TRUE
    /\ focusSent = FALSE
    /\ debounce = NoSize

(* The page shows another session: the effect on terminalSessionKey        *)
ShowSession(s) ==
    /\ s # shown
    /\ shown' = s
    /\ attempts' = 0
    /\ PrepareReplay
    /\ queue' = Append(queue, Reset)
    /\ Connect(s)
    /\ focusSent' = FALSE
    /\ UNCHANGED <<status, toasts, screen, modesOf, paletteDue>>

(* Reconnect: the button, or the action of a toast, which keeps the key of *)
(* the session it was raised for                                           *)
Retry(s) ==
    /\ s \in toasts \/ (s = shown /\ CanRetry)
    /\ attempts' = 0
    /\ PrepareReplay
    /\ status' = [of |-> s, is |-> "connecting"]
    /\ Connect(shown)
    /\ focusSent' = FALSE
    /\ UNCHANGED <<shown, toasts, queue, screen, modesOf, paletteDue>>

(* Mistaken: the status is set and no attempt is counted, so no effect runs. *)
ReconnectFiresInName ==
    /\ reconnect
    /\ reconnect' = FALSE
    /\ PrepareReplay
    /\ status' = [of |-> shown, is |-> "connecting"]
    /\ UNCHANGED <<shown, toasts, attempts, queue, screen, modesOf, paletteDue,
                   socketVars, sizeVars, stable, focusSent>>

ReconnectFires ==
    /\ reconnect
    /\ PrepareReplay
    /\ status' = [of |-> shown, is |-> "connecting"]
    /\ Connect(shown)
    /\ focusSent' = FALSE
    /\ UNCHANGED <<shown, toasts, attempts, queue, screen, modesOf, paletteDue>>

StableFires ==
    /\ stable
    /\ stable' = FALSE
    /\ attempts' = 0
    /\ UNCHANGED <<shown, socketVars, status, toasts, reconnect, replayVars,
                   xtermVars, sizeVars>>

-----------------------------------------------------------------------------
(* Socket events; the listeners of every socket but the current return     *)
(* at once (`active')                                                      *)

(* Mistaken: the size of the URL is trusted to be still right. *)
SocketOpensUnsized ==
    /\ cur # 0
    /\ sockState[cur] = "connecting"
    /\ sockState' = [sockState EXCEPT ![cur] = "open"]
    /\ reconnect' = FALSE
    /\ stable' = TRUE
    /\ status' = [of |-> shown, is |-> "connected"]
    /\ UNCHANGED <<shown, used, cur, sessionOf, frames, toasts, attempts,
                   replayVars, xtermVars, sizeVars>>

SocketOpens ==
    /\ cur # 0
    /\ sockState[cur] = "connecting"
    /\ sockState' = [sockState EXCEPT ![cur] = "open"]
    /\ reconnect' = FALSE
    /\ stable' = TRUE
    /\ status' = [of |-> shown, is |-> "connected"]
    /\ debounce' = NoSize
    /\ ptySize' = size
    /\ UNCHANGED <<shown, used, cur, sessionOf, frames, toasts, attempts,
                   replayVars, xtermVars, size>>

(* Mistaken: a replay does not queue a palette refresh. *)
MessageKeepingPalette ==
    /\ Open(cur)
    /\ frames < Frames
    /\ Len(queue) < MaxQueue
    /\ frames' = frames + 1
    /\ stable' = FALSE
    /\ attempts' = 0
    /\ LET output == Output(cur, frames + 1, scrollDue) IN
       queue' = IF clearNext THEN queue \o <<Reset, output>>
                             ELSE Append(queue, output)
    /\ clearNext' = FALSE
    /\ UNCHANGED <<shown, used, cur, sessionOf, sockState, status, toasts,
                   reconnect, scrollDue, scrollTimer, screen, modesOf,
                   paletteDue, focusSent, sizeVars>>

Message ==
    /\ Open(cur)
    /\ frames < Frames
    /\ Len(queue) < MaxQueue
    /\ frames' = frames + 1
    /\ stable' = FALSE
    /\ attempts' = 0
    /\ LET output == Output(cur, frames + 1, scrollDue) IN
       IF clearNext
       THEN /\ queue' = queue \o <<Reset, output>>
            /\ clearNext' = FALSE
            /\ paletteDue' = TRUE
       ELSE /\ queue' = Append(queue, output)
            /\ UNCHANGED <<clearNext, paletteDue>>
    /\ UNCHANGED <<shown, used, cur, sessionOf, sockState, status, toasts,
                   reconnect, scrollDue, scrollTimer, screen, modesOf,
                   focusSent, sizeVars>>

(* Mistaken: the end of the table of delays is not noticed. *)
ScheduleReconnectAgain ==
    IF ~reconnect
    THEN /\ attempts' = attempts + 1
         /\ reconnect' = TRUE
    ELSE UNCHANGED <<attempts, reconnect>>

(* scheduleTerminalReconnect *)
ScheduleReconnect ==
    IF ~reconnect /\ attempts < MaxReconnects
    THEN /\ attempts' = attempts + 1
         /\ reconnect' = TRUE
    ELSE UNCHANGED <<attempts, reconnect>>

(* Mistaken: the listeners of a replaced socket are still active. *)
SocketFailsUnguarded(c) ==
    /\ sockState[c] \in {"connecting", "open", "closing"}
    /\ sockState' = [sockState EXCEPT ![c] = "closed"]
    /\ cur # 0
    /\ used < MaxConns
    /\ stable' = FALSE
    /\ status' = [of |-> shown, is |-> "failed"]
    /\ toasts' = RaisesToast(shown, "failed")
    /\ ScheduleReconnect
    /\ UNCHANGED <<shown, used, cur, sessionOf, frames, replayVars, xtermVars,
                   sizeVars>>

(* error and then close with wasClean = FALSE, which the browser fires in  *)
(* one go; the second finds the timer of the first                         *)
SocketFails(c) ==
    /\ sockState[c] \in {"connecting", "open", "closing"}
    /\ sockState' = [sockState EXCEPT ![c] = "closed"]
    /\ IF c = cur
       THEN /\ used < MaxConns
            /\ stable' = FALSE
            /\ status' = [of |-> shown, is |-> "failed"]
            /\ toasts' = RaisesToast(shown, "failed")
            /\ ScheduleReconnect
       ELSE UNCHANGED <<stable, status, toasts, attempts, reconnect>>
    /\ UNCHANGED <<shown, used, cur, sessionOf, frames, replayVars, xtermVars,
                   sizeVars>>

(* Mistaken: a clean close is taken for the end of the session. *)
SocketClosesSilently(c) ==
    /\ sockState[c] \in {"open", "closing"}
    /\ sockState' = [sockState EXCEPT ![c] = "closed"]
    /\ IF c = cur THEN stable' = FALSE ELSE UNCHANGED stable
    /\ UNCHANGED <<shown, used, cur, sessionOf, frames, attempts, reconnect,
                   replayVars, xtermVars, sizeVars, status, toasts>>

(* close with wasClean = TRUE: the server ended the stream, or answered    *)
(* our own close                                                           *)
SocketCloses(c) ==
    /\ sockState[c] \in {"open", "closing"}
    /\ sockState' = [sockState EXCEPT ![c] = "closed"]
    /\ IF c = cur
       THEN /\ stable' = FALSE
            /\ status' = [of |-> shown, is |-> "disconnected"]
            /\ toasts' = RaisesToast(shown, "disconnected")
       ELSE UNCHANGED <<stable, status, toasts>>
    /\ UNCHANGED <<shown, used, cur, sessionOf, frames, attempts, reconnect,
                   replayVars, xtermVars, sizeVars>>

-----------------------------------------------------------------------------
(* xterm parses the oldest write and runs its callback *)

ParseReset ==
    /\ queue # <<>>
    /\ Head(queue) = Reset
    /\ queue' = Tail(queue)
    /\ screen' = {}
    /\ UNCHANGED modesOf
    /\ SyncPalette
    /\ UNCHANGED <<shown, socketVars, status, toasts, timerVars, replayVars,
                   sizeVars>>

ParseOutput ==
    /\ queue # <<>>
    /\ Head(queue) # Reset
    /\ queue' = Tail(queue)
    /\ screen' = screen \cup {Head(queue).of}
    /\ modesOf' = IF Head(queue).modes THEN Head(queue).of ELSE modesOf
    /\ SyncPalette
    /\ scrollTimer' = (scrollTimer \/ Head(queue).scrolls)
    /\ UNCHANGED <<shown, socketVars, status, toasts, timerVars, clearNext,
                   scrollDue, sizeVars>>

(* Mistaken: the pending offset is kept after it was applied. *)
ScrollFiresAgain ==
    /\ scrollTimer
    /\ scrollTimer' = FALSE
    /\ UNCHANGED <<shown, socketVars, status, toasts, timerVars, clearNext,
                   scrollDue, xtermVars, sizeVars>>

ScrollFires ==
    /\ scrollTimer
    /\ scrollTimer' = FALSE
    /\ scrollDue' = FALSE
    /\ UNCHANGED <<shown, socketVars, status, toasts, timerVars, clearNext,
                   xtermVars, sizeVars>>

-----------------------------------------------------------------------------
(* next-themes flips the class of the document (themeObserver, without the *)
(* palette sequence it first writes for a Codex session)                   *)
ThemeFlips ==
    /\ IF modesOf # 0 /\ sessionOf[modesOf] \in FocusSessions
       THEN /\ paletteDue' = FALSE
            /\ focusSent' = (focusSent \/ Open(cur))
       ELSE /\ paletteDue' = TRUE
            /\ UNCHANGED focusSent
    /\ UNCHANGED <<shown, socketVars, status, toasts, timerVars, replayVars,
                   queue, screen, modesOf, sizeVars>>

-----------------------------------------------------------------------------
(* The pane is resized; the PTY hears of it when the pane has come to rest *)

Resize(z) ==
    /\ z # size
    /\ size' = z
    /\ debounce' = z
    /\ UNCHANGED <<shown, socketVars, status, toasts, timerVars, replayVars,
                   xtermVars, ptySize>>

DebounceFires ==
    /\ debounce # NoSize
    /\ debounce' = NoSize
    /\ ptySize' = IF Open(cur) THEN debounce ELSE ptySize
    /\ UNCHANGED <<shown, socketVars, status, toasts, timerVars, replayVars,
                   xtermVars, size>>

-----------------------------------------------------------------------------
Timers == ReconnectFires \/ StableFires \/ ScrollFires \/ DebounceFires
Parse  == ParseReset \/ ParseOutput

Next ==
    \/ \E s \in Sessions \cup {NoSession} : ShowSession(s)
    \/ \E s \in Sessions : Retry(s)
    \/ SocketOpens
    \/ Message
    \/ \E c \in Conns : SocketFails(c) \/ SocketCloses(c)
    \/ Parse
    \/ ThemeFlips
    \/ \E z \in Sizes : Resize(z)
    \/ Timers

Spec == Init /\ [][Next]_vars

(* The browser settles every connection attempt, and the reconnect timer   *)
(* fires; what xterm, the other timers and the user do is not needed       *)
Fairness ==
    /\ WF_vars(SocketOpens \/ (cur # 0 /\ SocketFails(cur)))
    /\ WF_vars(ReconnectFires)

LiveSpec == Spec /\ Fairness
-----------------------------------------------------------------------------
(* Type invariant *)
TypeOK ==
    /\ shown \in Sessions \cup {NoSession}
    /\ used \in 0..MaxConns
    /\ cur \in 0..used
    /\ (cur = 0) = (shown = NoSession)
    /\ sessionOf \in [Conns -> Sessions \cup {NoSession}]
    /\ sockState \in
          [Conns -> {"unused", "connecting", "open", "closing", "closed"}]
    /\ frames \in 0..Frames
    /\ ptySize \in Sizes
    /\ status \in [of : Sessions \cup {NoSession}, is : Statuses]
    /\ toasts \subseteq Sessions
    /\ attempts \in 0..MaxReconnects
    /\ reconnect \in BOOLEAN /\ stable \in BOOLEAN
    /\ clearNext \in BOOLEAN /\ scrollDue \in BOOLEAN /\ scrollTimer \in BOOLEAN
    /\ paletteDue \in BOOLEAN /\ focusSent \in BOOLEAN
    /\ queue \in Seq(Writes)
    /\ screen \subseteq Conns
    /\ modesOf \in 0..MaxConns
    /\ size \in Sizes
    /\ debounce \in Sizes \cup {NoSize}

(* The one xterm never displays the output of two sockets: neither one     *)
(* session's output under another's, nor a second replay under the first   *)
(* when a session reconnects.  When xterm has parsed what it was given,    *)
(* the screen is the shown session's, and its socket's once that has       *)
(* delivered anything.  Two resets, at the switch and before the first     *)
(* message, and the `active' flag see to it.                               *)
ScreenIsTheSockets ==
    /\ Cardinality(screen) <= 1
    /\ queue = <<>> =>
          /\ \A c \in screen : sessionOf[c] = shown
          /\ cur # 0 /\ frames > 0 => screen = {cur}

(* When no resize is waiting for the pane to come to rest, the PTY of an   *)
(* open socket has the size of the grid: a debounced resize that falls     *)
(* into a switch or a reconnect is not lost, and none goes out late with a *)
(* size that is no longer true.                                            *)
PtyFollowsGrid ==
    Open(cur) /\ debounce = NoSize => ptySize = size

(* A pane without a connection is waiting for one, has a timer that will   *)
(* try again, or offers the user to reconnect.                             *)
NeverStranded ==
    shown # NoSession => Live(cur) \/ reconnect \/ CanRetry

(* A connection that works is given up only because the page shows another *)
(* session or the user clicks on a toast that is still there: no timer and *)
(* no late event of an older socket tears it down.                         *)
WorkingConnectionStays ==
    [][Open(cur) /\ cur' # cur
         => shown' # shown \/ \E s \in toasts : Retry(s)]_vars

(* When xterm has parsed what the socket delivered, no scroll offset is    *)
(* left over that nothing will apply: a timer is running for it.  (An      *)
(* offset may be applied early, by a write of the session shown before.)   *)
ReplayIsScrolled ==
    queue = <<>> /\ cur # 0 /\ frames > 0 => ~scrollDue \/ scrollTimer

(* A program that wants focus reports is told to query the colours again   *)
(* by each replay: the refresh is asked for once per socket and waits      *)
(* until the modes are there.                                              *)
PaletteRefreshed ==
    /\ Open(cur)
    /\ frames = Frames
    /\ queue = <<>>
    /\ sessionOf[cur] \in FocusSessions
    => focusSent

(* A pane that shows a session gets its connection or tells the user. *)
Settles ==
    shown # NoSession ~> Open(cur) \/ CanRetry \/ shown = NoSession
=============================================================================
