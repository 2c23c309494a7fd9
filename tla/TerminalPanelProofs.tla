------------------------ MODULE TerminalPanelProofs ------------------------
(***************************************************************************)
(* Proofs about TerminalPanel for any number of sessions, sizes, sockets   *)
(* and retries: its types, that the pane is never stranded, that the PTY   *)
(* follows the grid, that a working connection is left alone (all from     *)
(* Inv), that one screen shows one session (from ScreenInv), and that a    *)
(* replay ends scrolled and with the colours refreshed (from ReplayInv).   *)
(***************************************************************************)
EXTENDS TerminalPanel, FiniteSetTheorems, TLAPS

\* A reconnect timer runs only after the socket at hand has failed, and an
\* open socket is not shown as lost.
TimerAfterFailure == reconnect => cur # 0 /\ sockState[cur] = "closed"
OpenIsNotLost == Open(cur) => ~CanRetry

\* What the debounce timer will send is the size of the grid.
DebounceIsCurrent == debounce \in {NoSize, size}

Inv == /\ TypeOK /\ TimerAfterFailure /\ OpenIsNotLost /\ DebounceIsCurrent
       /\ NeverStranded /\ PtyFollowsGrid

LEMMA InitInv == Init => Inv
<1> SUFFICES ASSUME Init PROVE Inv
  OBVIOUS
<1>1. used \in 0..MaxConns /\ cur \in 0..used /\ (cur = 0) = (shown = NoSession)
  BY PanelAssumption DEF Init
<1>2. /\ sessionOf \in [Conns -> Sessions \cup {NoSession}]
      /\ sockState \in [Conns -> {"unused", "connecting", "open", "closing", "closed"}]
  BY PanelAssumption DEF Init
<1>3. queue \in Seq(Writes) /\ screen \subseteq Conns /\ toasts = {}
  BY DEF Init, Writes
<1>4. /\ shown \in Sessions \cup {NoSession} /\ frames = 0 /\ size \in Sizes /\ ptySize = size
      /\ status = [of |-> shown, is |-> "idle"] /\ attempts = 0 /\ modesOf = 0
      /\ debounce = NoSize
  BY DEF Init
<1>5. /\ reconnect = FALSE /\ stable = FALSE /\ clearNext = TRUE /\ scrollDue = TRUE
      /\ scrollTimer = FALSE /\ paletteDue = TRUE /\ focusSent = FALSE
  BY DEF Init
<1>6. TypeOK
  <2>1. /\ status \in [of : Sessions \cup {NoSession}, is : Statuses]
        /\ frames \in 0..Frames /\ attempts \in 0..MaxReconnects /\ modesOf \in 0..MaxConns
    BY <1>4, PanelAssumption DEF Statuses
  <2> QED
    BY <1>1, <1>2, <1>3, <1>4, <1>5, <2>1 DEF TypeOK
<1>7. TimerAfterFailure /\ OpenIsNotLost /\ DebounceIsCurrent
  BY <1>4, <1>5 DEF TimerAfterFailure, OpenIsNotLost, DebounceIsCurrent, CanRetry, ConnectionStatus
<1>8. NeverStranded /\ PtyFollowsGrid
  <2>1. shown # NoSession => cur \in Conns /\ sockState[cur] = "connecting"
    BY PanelAssumption DEF Init, Conns
  <2> QED
    BY <1>1, <1>4, <2>1 DEF NeverStranded, PtyFollowsGrid, Live
<1> QED
  BY <1>6, <1>7, <1>8 DEF Inv

\* The connect effect keeps what is said of sockets, sizes and timers.
LEMMA ConnectKeeps ==
    ASSUME Inv, NEW s \in Sessions \cup {NoSession}, Connect(s), shown' = s
    PROVE  /\ used' \in 0..MaxConns /\ cur' \in 0..used' /\ (cur' = 0) = (shown' = NoSession)
           /\ sessionOf' \in [Conns -> Sessions \cup {NoSession}]
           /\ sockState' \in [Conns -> {"unused", "connecting", "open", "closing", "closed"}]
           /\ frames' \in 0..Frames /\ ptySize' \in Sizes /\ size' \in Sizes
           /\ debounce' \in Sizes \cup {NoSize} /\ reconnect' = FALSE /\ stable' = FALSE
           /\ cur' # 0 => sockState'[cur'] = "connecting"
           /\ TimerAfterFailure' /\ OpenIsNotLost' /\ DebounceIsCurrent'
           /\ NeverStranded' /\ PtyFollowsGrid'
<1>1. /\ used \in 0..MaxConns /\ cur \in 0..used
      /\ sessionOf \in [Conns -> Sessions \cup {NoSession}]
      /\ sockState \in [Conns -> {"unused", "connecting", "open", "closing", "closed"}]
      /\ ptySize \in Sizes /\ size \in Sizes /\ debounce \in Sizes \cup {NoSize}
      /\ debounce \in {NoSize, size}
  BY DEF Inv, TypeOK, DebounceIsCurrent
<1>2. /\ reconnect' = FALSE /\ stable' = FALSE /\ frames' = 0 /\ size' = size
      /\ debounce' \in {debounce, NoSize}
  BY DEF Connect, CleanUp
<1>3. CloseCurrent \in [Conns -> {"unused", "connecting", "open", "closing", "closed"}]
  BY <1>1 DEF CloseCurrent
<1>4. CASE s = NoSession
  <2>1. cur' = 0 /\ sockState' = CloseCurrent /\ used' = used /\ sessionOf' = sessionOf
        /\ ptySize' = ptySize
    BY <1>4 DEF Connect
  <2> QED
    BY <1>1, <1>2, <1>3, <1>4, <2>1, PanelAssumption
       DEF TimerAfterFailure, OpenIsNotLost, DebounceIsCurrent, NeverStranded, PtyFollowsGrid, Open
<1>5. CASE s # NoSession
  <2>1. /\ used < MaxConns /\ used' = used + 1 /\ cur' = used + 1 /\ ptySize' = size
        /\ sessionOf' = [sessionOf EXCEPT ![used + 1] = s]
        /\ sockState' = [CloseCurrent EXCEPT ![used + 1] = "connecting"]
    BY <1>5 DEF Connect
  <2>2. used + 1 \in Conns /\ cur' # 0
    BY <1>1, <2>1, PanelAssumption DEF Conns
  <2>3. sockState'[cur'] = "connecting"
    BY <1>3, <2>1, <2>2
  <2>4. /\ used' \in 0..MaxConns /\ cur' \in 0..used'
        /\ sessionOf' \in [Conns -> Sessions \cup {NoSession}]
        /\ sockState' \in [Conns -> {"unused", "connecting", "open", "closing", "closed"}]
    BY <1>1, <1>3, <2>1, <2>2, PanelAssumption
  <2> QED
    BY <1>1, <1>2, <1>5, <2>1, <2>2, <2>3, <2>4, PanelAssumption
       DEF TimerAfterFailure, OpenIsNotLost, DebounceIsCurrent, NeverStranded, PtyFollowsGrid,
           Open, Live
<1> QED
  BY <1>4, <1>5

\* Another session, a retry and the reconnect timer go through Connect.
LEMMA SwitchKeepsInv ==
    ASSUME Inv, NEW s \in Sessions \cup {NoSession}, ShowSession(s) PROVE Inv'
<1>1. /\ shown' = s /\ attempts' = 0 /\ clearNext' = TRUE /\ scrollDue' = TRUE
      /\ scrollTimer' = FALSE /\ queue' = Append(queue, Reset) /\ focusSent' = FALSE
      /\ Connect(s) /\ UNCHANGED <<status, toasts, screen, modesOf>>
  BY DEF ShowSession, PrepareReplay
<1>2. paletteDue' = paletteDue
  BY DEF ShowSession
<1>3. queue' \in Seq(Writes) /\ attempts' \in 0..MaxReconnects
  BY <1>1, PanelAssumption DEF Inv, TypeOK, Writes
<1>4. TypeOK'
  BY <1>1, <1>2, <1>3, ConnectKeeps DEF Inv, TypeOK
<1> QED
  BY <1>1, <1>4, ConnectKeeps DEF Inv

LEMMA RetryKeepsInv ==
    ASSUME Inv, NEW s \in Sessions, Retry(s) PROVE Inv'
<1>1. /\ shown' = shown /\ attempts' = 0 /\ clearNext' = TRUE /\ scrollDue' = TRUE
      /\ scrollTimer' = FALSE /\ queue' = queue /\ focusSent' = FALSE
      /\ Connect(shown) /\ status' = [of |-> s, is |-> "connecting"]
      /\ UNCHANGED <<toasts, screen, modesOf>>
  BY DEF Retry, PrepareReplay
<1>2. paletteDue' = paletteDue
  BY DEF Retry
<1>3. status' \in [of : Sessions \cup {NoSession}, is : Statuses] /\ attempts' \in 0..MaxReconnects
  BY <1>1, PanelAssumption DEF Inv, TypeOK, Statuses
<1>4. shown \in Sessions \cup {NoSession}
  BY DEF Inv, TypeOK
<1>5. TypeOK'
  BY <1>1, <1>2, <1>3, <1>4, ConnectKeeps DEF Inv, TypeOK
<1> QED
  BY <1>1, <1>4, <1>5, ConnectKeeps DEF Inv

LEMMA ReconnectKeepsInv ==
    ASSUME Inv, ReconnectFires PROVE Inv'
<1>1. /\ shown' = shown /\ clearNext' = TRUE /\ scrollDue' = TRUE
      /\ scrollTimer' = FALSE /\ queue' = queue /\ focusSent' = FALSE
      /\ Connect(shown) /\ status' = [of |-> shown, is |-> "connecting"]
      /\ UNCHANGED <<toasts, screen, modesOf, attempts>>
  BY DEF ReconnectFires, PrepareReplay
<1>2. paletteDue' = paletteDue
  BY DEF ReconnectFires
<1>3. status' \in [of : Sessions \cup {NoSession}, is : Statuses]
  BY <1>1 DEF Inv, TypeOK, Statuses
<1>4. shown \in Sessions \cup {NoSession}
  BY DEF Inv, TypeOK
<1>5. TypeOK'
  BY <1>1, <1>2, <1>3, <1>4, ConnectKeeps DEF Inv, TypeOK
<1> QED
  BY <1>1, <1>4, <1>5, ConnectKeeps DEF Inv

LEMMA OpensKeepsInv ==
    ASSUME Inv, SocketOpens PROVE Inv'
<1>1. /\ cur \in Conns /\ cur # 0 /\ shown # NoSession
      /\ sockState' = [sockState EXCEPT ![cur] = "open"] /\ sockState'[cur] = "open"
  BY PanelAssumption DEF SocketOpens, Inv, TypeOK, Conns
<1>2. /\ reconnect' = FALSE /\ stable' = TRUE /\ status' = [of |-> shown, is |-> "connected"]
      /\ debounce' = NoSize /\ ptySize' = size
      /\ UNCHANGED <<shown, used, cur, sessionOf, frames, toasts, attempts, queue, screen,
                     modesOf, size>>
  BY DEF SocketOpens, xtermVars
<1>3. UNCHANGED <<clearNext, scrollDue, scrollTimer, paletteDue, focusSent>>
  BY DEF SocketOpens, replayVars, xtermVars
<1>4. status' \in [of : Sessions \cup {NoSession}, is : Statuses]
  BY <1>2 DEF Inv, TypeOK, Statuses
<1>5. TypeOK'
  BY <1>1, <1>2, <1>3, <1>4 DEF Inv, TypeOK
<1>6. TimerAfterFailure' /\ DebounceIsCurrent' /\ NeverStranded' /\ PtyFollowsGrid'
  BY <1>1, <1>2 DEF TimerAfterFailure, DebounceIsCurrent, NeverStranded, PtyFollowsGrid, Live
<1>7. OpenIsNotLost'
  BY <1>2 DEF OpenIsNotLost, CanRetry, ConnectionStatus
<1> QED
  BY <1>5, <1>6, <1>7 DEF Inv

\* Sockets, sizes and statuses untouched: what xterm and its timers do.
LEMMA XtermKeepsInv ==
    ASSUME Inv, TypeOK',
           UNCHANGED <<shown, used, cur, sessionOf, sockState, status, reconnect, sizeVars>>
    PROVE  Inv'
<1>1. /\ shown' = shown /\ cur' = cur /\ sockState' = sockState /\ status' = status
      /\ ptySize' = ptySize /\ size' = size /\ debounce' = debounce
  BY DEF sizeVars
<1>2. reconnect' = reconnect
  OBVIOUS
<1>3. Live(cur)' = Live(cur) /\ Open(cur)' = Open(cur) /\ CanRetry' = CanRetry
  BY <1>1 DEF Live, Open, CanRetry, ConnectionStatus
<1> QED
  BY <1>1, <1>2, <1>3 DEF Inv, TimerAfterFailure, OpenIsNotLost, DebounceIsCurrent, NeverStranded,
     PtyFollowsGrid

LEMMA FailsKeepsInv ==
    ASSUME Inv, NEW c \in Conns, SocketFails(c) PROVE Inv'
<1>1. /\ sockState' = [sockState EXCEPT ![c] = "closed"]
      /\ sockState' \in [Conns -> {"unused", "connecting", "open", "closing", "closed"}]
      /\ sockState'[c] = "closed" /\ \A d \in Conns \ {c} : sockState'[d] = sockState[d]
  BY DEF SocketFails, Inv, TypeOK
<1>2. /\ UNCHANGED <<shown, used, cur, sessionOf, frames, queue, screen, modesOf, size, ptySize,
                     debounce>>
  BY DEF SocketFails, xtermVars, sizeVars
<1>3. UNCHANGED <<clearNext, scrollDue, scrollTimer, paletteDue, focusSent>>
  BY DEF SocketFails, replayVars, xtermVars
<1>4. cur # 0 => cur \in Conns /\ shown \in Sessions
  BY PanelAssumption DEF Inv, TypeOK, Conns
<1>5. CASE c = cur
  <2>1. stable' = FALSE /\ status' = [of |-> shown, is |-> "failed"]
        /\ toasts' = toasts \cup {shown}
    BY <1>5 DEF SocketFails, RaisesToast
  <2>2. reconnect' \in BOOLEAN /\ attempts' \in 0..MaxReconnects
    <3>1. CASE ~reconnect /\ attempts < MaxReconnects
      BY <1>5, <3>1, PanelAssumption DEF SocketFails, ScheduleReconnect, Inv, TypeOK
    <3>2. CASE ~(~reconnect /\ attempts < MaxReconnects)
      BY <1>5, <3>2 DEF SocketFails, ScheduleReconnect, Inv, TypeOK
    <3> QED
      BY <3>1, <3>2
  <2>3. cur # 0
    BY <1>5 DEF Conns
  <2>4. status' \in [of : Sessions \cup {NoSession}, is : Statuses]
    BY <2>1 DEF Inv, TypeOK, Statuses
  <2>5. TypeOK'
    BY <1>1, <1>2, <1>3, <1>4, <2>1, <2>2, <2>3, <2>4 DEF Inv, TypeOK
  <2>6. CanRetry' /\ ~Open(cur)' /\ cur' # 0 /\ sockState'[cur'] = "closed"
    BY <1>1, <1>2, <1>4, <1>5, <2>1, <2>3, PanelAssumption DEF CanRetry, ConnectionStatus, Open
  <2> QED
    BY <1>2, <2>5, <2>6 DEF Inv, TimerAfterFailure, OpenIsNotLost, DebounceIsCurrent,
       NeverStranded, PtyFollowsGrid
<1>6. CASE c # cur
  <2>1. UNCHANGED <<status, toasts, attempts>>
    BY <1>6 DEF SocketFails
  <2>2. stable' = stable /\ reconnect' = reconnect
    BY <1>6 DEF SocketFails
  <2>3. TypeOK'
    BY <1>1, <1>2, <1>3, <2>1, <2>2 DEF Inv, TypeOK
  <2>4. Live(cur)' = Live(cur) /\ Open(cur)' = Open(cur) /\ CanRetry' = CanRetry
        /\ (cur # 0 => sockState'[cur] = sockState[cur])
    BY <1>1, <1>2, <1>4, <1>6, <2>1 DEF Live, Open, CanRetry, ConnectionStatus
  <2> QED
    BY <1>2, <2>2, <2>3, <2>4 DEF Inv, TimerAfterFailure, OpenIsNotLost, DebounceIsCurrent,
       NeverStranded, PtyFollowsGrid
<1> QED
  BY <1>5, <1>6

LEMMA ClosesKeepsInv ==
    ASSUME Inv, NEW c \in Conns, SocketCloses(c) PROVE Inv'
<1>1. /\ sockState' = [sockState EXCEPT ![c] = "closed"] /\ sockState[c] \in {"open", "closing"}
      /\ sockState' \in [Conns -> {"unused", "connecting", "open", "closing", "closed"}]
      /\ sockState'[c] = "closed" /\ \A d \in Conns \ {c} : sockState'[d] = sockState[d]
  BY DEF SocketCloses, Inv, TypeOK
<1>2. UNCHANGED <<shown, used, cur, sessionOf, frames, attempts, queue, screen, modesOf, size,
                  ptySize, debounce>>
  BY DEF SocketCloses, xtermVars, sizeVars
<1>3. UNCHANGED <<reconnect, clearNext, scrollDue, scrollTimer, paletteDue, focusSent>>
  BY DEF SocketCloses, replayVars, xtermVars
<1>4. cur # 0 => cur \in Conns /\ shown \in Sessions
  BY PanelAssumption DEF Inv, TypeOK, Conns
<1>5. CASE c = cur
  <2>1. stable' = FALSE /\ status' = [of |-> shown, is |-> "disconnected"]
        /\ toasts' = toasts \cup {shown}
    BY <1>5 DEF SocketCloses, RaisesToast
  <2>2. cur # 0
    BY <1>5 DEF Conns
  <2>3. status' \in [of : Sessions \cup {NoSession}, is : Statuses]
    BY <2>1 DEF Inv, TypeOK, Statuses
  <2>4. TypeOK'
    BY <1>1, <1>2, <1>3, <1>4, <2>1, <2>2, <2>3 DEF Inv, TypeOK
  <2>5. CanRetry' /\ ~Open(cur)' /\ cur' # 0 /\ sockState'[cur'] = "closed"
    BY <1>1, <1>2, <1>4, <1>5, <2>1, <2>2, PanelAssumption DEF CanRetry, ConnectionStatus, Open
  <2> QED
    BY <1>2, <2>4, <2>5 DEF Inv, TimerAfterFailure, OpenIsNotLost, DebounceIsCurrent,
       NeverStranded, PtyFollowsGrid
<1>6. CASE c # cur
  <2>1. status' = status /\ toasts' = toasts
    BY <1>6 DEF SocketCloses
  <2>2. stable' = stable
    BY <1>6 DEF SocketCloses
  <2>3. TypeOK'
    BY <1>1, <1>2, <1>3, <2>1, <2>2 DEF Inv, TypeOK
  <2>4. Live(cur)' = Live(cur) /\ Open(cur)' = Open(cur) /\ CanRetry' = CanRetry
        /\ (cur # 0 => sockState'[cur] = sockState[cur])
    BY <1>1, <1>2, <1>4, <1>6, <2>1 DEF Live, Open, CanRetry, ConnectionStatus
  <2>5. reconnect' = reconnect
    BY <1>3
  <2> QED
    BY <1>2, <2>3, <2>4, <2>5 DEF Inv, TimerAfterFailure, OpenIsNotLost, DebounceIsCurrent,
       NeverStranded, PtyFollowsGrid
<1> QED
  BY <1>5, <1>6

LEMMA StableKeepsInv ==
    ASSUME Inv, StableFires PROVE Inv'
<1>1. UNCHANGED <<shown, used, cur, sessionOf, sockState, frames, status, toasts, queue, screen,
                  modesOf, sizeVars>>
  BY DEF StableFires, socketVars, xtermVars
<1>2. UNCHANGED <<reconnect, clearNext, scrollDue, scrollTimer, paletteDue, focusSent>>
  BY DEF StableFires, replayVars, xtermVars
<1>3. stable' = FALSE /\ attempts' = 0
  BY DEF StableFires
<1>4. attempts' \in 0..MaxReconnects
  BY <1>3, PanelAssumption
<1>5. stable' \in BOOLEAN
  BY <1>3
<1>6. TypeOK'
  BY <1>1, <1>2, <1>4, <1>5 DEF Inv, TypeOK, sizeVars
<1> QED
  BY <1>1, <1>2, <1>6, XtermKeepsInv

LEMMA MessageKeepsInv ==
    ASSUME Inv, Message PROVE Inv'
<1> DEFINE output == Output(cur, frames + 1, scrollDue)
<1>1. UNCHANGED <<shown, used, cur, sessionOf, sockState, status, toasts, screen, modesOf,
                  sizeVars>>
  BY DEF Message
<1>2. UNCHANGED <<reconnect, scrollDue, scrollTimer, focusSent>>
  BY DEF Message
<1>3. stable' = FALSE /\ attempts' = 0 /\ frames' = frames + 1 /\ frames < Frames
  BY DEF Message
<1>4. output \in Writes /\ Reset \in Writes
  BY PanelAssumption DEF Message, Open, Inv, TypeOK, Output, Writes, Conns
<1>5. queue' \in Seq(Writes)
  <2>1. queue \in Seq(Writes)
    BY DEF Inv, TypeOK
  <2>2. <<Reset, output>> \in Seq(Writes)
    BY <1>4
  <2>3. queue' = queue \o <<Reset, output>> \/ queue' = Append(queue, output)
    BY DEF Message
  <2>4. CASE queue' = queue \o <<Reset, output>>
    BY <2>1, <2>2, <2>4
  <2>5. CASE queue' = Append(queue, output)
    BY <1>4, <2>1, <2>5
  <2> QED
    BY <2>3, <2>4, <2>5
<1>6. clearNext' \in BOOLEAN
  BY DEF Message, Inv, TypeOK
<1>7. paletteDue' \in BOOLEAN
  BY DEF Message, Inv, TypeOK
<1>8. frames' \in 0..Frames
  BY <1>3, PanelAssumption DEF Inv, TypeOK
<1>9. attempts' \in 0..MaxReconnects
  BY <1>3, PanelAssumption
<1>10. stable' \in BOOLEAN
  BY <1>3
<1>11. TypeOK'
  BY <1>1, <1>2, <1>5, <1>6, <1>7, <1>8, <1>9, <1>10 DEF Inv, TypeOK, sizeVars
<1> QED
  BY <1>1, <1>2, <1>11, XtermKeepsInv

\* A parsed write leaves the rest to callbacks that only set xterm's flags.
LEMMA ParseKeepsInv ==
    ASSUME Inv, Parse PROVE Inv'
<1>1. UNCHANGED <<shown, used, cur, sessionOf, sockState, frames, status, toasts, attempts,
                  sizeVars>>
  BY DEF Parse, ParseReset, ParseOutput, socketVars, timerVars
<1>2. UNCHANGED <<reconnect, stable, clearNext, scrollDue>>
  BY DEF Parse, ParseReset, ParseOutput, timerVars, replayVars
<1>3. paletteDue' \in BOOLEAN
  BY DEF Parse, ParseReset, ParseOutput, SyncPalette, Inv, TypeOK
<1>4. focusSent' \in BOOLEAN
  <2>1. SyncPalette /\ focusSent \in BOOLEAN
    BY DEF Parse, ParseReset, ParseOutput, Inv, TypeOK
  <2>2. focusSent' = focusSent \/ focusSent' = (focusSent \/ Open(cur))
    BY <2>1 DEF SyncPalette
  <2>3. CASE focusSent' = focusSent
    BY <2>1, <2>3
  <2>4. CASE focusSent' = (focusSent \/ Open(cur))
    BY <2>4
  <2> QED
    BY <2>2, <2>3, <2>4
<1>5. queue \in Seq(Writes) /\ queue # <<>> /\ queue' = Tail(queue)
  BY DEF Parse, ParseReset, ParseOutput, Inv, TypeOK
<1>6. queue' \in Seq(Writes) /\ Head(queue) \in Writes
  BY <1>5
<1>7. screen' \subseteq Conns /\ modesOf' \in 0..MaxConns
  <2>1. CASE ParseReset
    BY <2>1 DEF ParseReset, Inv, TypeOK
  <2>2. CASE ParseOutput
    <3>1. Head(queue).of \in Conns
      BY <1>6, <2>2 DEF ParseOutput, Writes
    <3>2. screen' = screen \cup {Head(queue).of} /\ modesOf' \in {Head(queue).of, modesOf}
      BY <2>2 DEF ParseOutput
    <3>3. screen \subseteq Conns /\ modesOf \in 0..MaxConns
      BY DEF Inv, TypeOK
    <3>4. screen' \subseteq Conns
      BY <3>1, <3>2, <3>3
    <3>5. modesOf' \in 0..MaxConns
      BY <3>1, <3>2, <3>3, PanelAssumption DEF Conns
    <3> QED
      BY <3>4, <3>5
  <2> QED
    BY <2>1, <2>2 DEF Parse
<1>8. scrollTimer' \in BOOLEAN
  <2>1. CASE ParseReset
    BY <2>1 DEF ParseReset, replayVars, Inv, TypeOK
  <2>2. CASE ParseOutput
    BY <2>2 DEF ParseOutput
  <2> QED
    BY <2>1, <2>2 DEF Parse
<1>9. TypeOK'
  BY <1>1, <1>2, <1>3, <1>4, <1>6, <1>7, <1>8 DEF Inv, TypeOK, sizeVars
<1> QED
  BY <1>1, <1>2, <1>9, XtermKeepsInv

LEMMA ScrollKeepsInv ==
    ASSUME Inv, ScrollFires PROVE Inv'
<1>1. UNCHANGED <<shown, used, cur, sessionOf, sockState, frames, status, toasts, attempts,
                  queue, screen, modesOf, sizeVars>>
  BY DEF ScrollFires, socketVars, timerVars, xtermVars
<1>2. UNCHANGED <<reconnect, stable, clearNext, paletteDue, focusSent>>
  BY DEF ScrollFires, timerVars, xtermVars
<1>3. scrollTimer' = FALSE /\ scrollDue' = FALSE
  BY DEF ScrollFires
<1>4. TypeOK'
  BY <1>1, <1>2, <1>3 DEF Inv, TypeOK, sizeVars
<1> QED
  BY <1>1, <1>2, <1>4, XtermKeepsInv

LEMMA ThemeKeepsInv ==
    ASSUME Inv, ThemeFlips PROVE Inv'
<1>1. UNCHANGED <<shown, used, cur, sessionOf, sockState, frames, status, toasts, attempts,
                  queue, screen, modesOf, sizeVars>>
  BY DEF ThemeFlips, socketVars, timerVars
<1>2. UNCHANGED <<reconnect, stable, clearNext, scrollDue, scrollTimer>>
  BY DEF ThemeFlips, timerVars, replayVars
<1>3. paletteDue' \in BOOLEAN
  BY DEF ThemeFlips
<1>4. focusSent' \in BOOLEAN
  <2>1. focusSent' = focusSent \/ focusSent' = (focusSent \/ Open(cur))
    BY DEF ThemeFlips
  <2>2. focusSent \in BOOLEAN
    BY DEF Inv, TypeOK
  <2>3. CASE focusSent' = focusSent
    BY <2>2, <2>3
  <2>4. CASE focusSent' = (focusSent \/ Open(cur))
    BY <2>4
  <2> QED
    BY <2>1, <2>3, <2>4
<1>5. TypeOK'
  BY <1>1, <1>2, <1>3, <1>4 DEF Inv, TypeOK, sizeVars
<1> QED
  BY <1>1, <1>2, <1>5, XtermKeepsInv

\* What the two actions on sizes leave alone.
LEMMA SizeKeeps ==
    ASSUME Inv,
           UNCHANGED <<shown, used, cur, sessionOf, sockState, frames, status, toasts, attempts,
                       queue, screen, modesOf>>,
           UNCHANGED <<reconnect, stable, clearNext, scrollDue, scrollTimer, paletteDue, focusSent>>,
           size' \in Sizes, ptySize' \in Sizes, debounce' \in {NoSize, size'}
    PROVE  /\ TypeOK' /\ TimerAfterFailure' /\ OpenIsNotLost' /\ DebounceIsCurrent'
           /\ NeverStranded' /\ Open(cur)' = Open(cur)
<1>1. shown' = shown /\ cur' = cur /\ sockState' = sockState /\ status' = status
  OBVIOUS
<1>2. reconnect' = reconnect
  OBVIOUS
<1>3. Live(cur)' = Live(cur) /\ Open(cur)' = Open(cur) /\ CanRetry' = CanRetry
  BY <1>1 DEF Live, Open, CanRetry, ConnectionStatus
<1>4. TypeOK'
  BY DEF Inv, TypeOK
<1> QED
  BY <1>1, <1>2, <1>3, <1>4 DEF Inv, TimerAfterFailure, OpenIsNotLost, DebounceIsCurrent,
     NeverStranded

LEMMA ResizeKeepsInv ==
    ASSUME Inv, NEW z \in Sizes, Resize(z) PROVE Inv'
<1>1. UNCHANGED <<shown, used, cur, sessionOf, sockState, frames, status, toasts, attempts,
                  queue, screen, modesOf>>
  BY DEF Resize, socketVars, timerVars, xtermVars
<1>2. UNCHANGED <<reconnect, stable, clearNext, scrollDue, scrollTimer, paletteDue, focusSent>>
  BY DEF Resize, timerVars, replayVars, xtermVars
<1>3. size' = z /\ debounce' = z /\ ptySize' = ptySize
  BY DEF Resize
<1>4. ptySize \in Sizes
  BY DEF Inv, TypeOK
<1>5. PtyFollowsGrid'
  BY <1>3, PanelAssumption DEF PtyFollowsGrid
<1> QED
  BY <1>1, <1>2, <1>3, <1>4, <1>5, SizeKeeps DEF Inv

LEMMA DebounceKeepsInv ==
    ASSUME Inv, DebounceFires PROVE Inv'
<1>1. UNCHANGED <<shown, used, cur, sessionOf, sockState, frames, status, toasts, attempts,
                  queue, screen, modesOf>>
  BY DEF DebounceFires, socketVars, timerVars, xtermVars
<1>2. UNCHANGED <<reconnect, stable, clearNext, scrollDue, scrollTimer, paletteDue, focusSent>>
  BY DEF DebounceFires, timerVars, replayVars, xtermVars
<1>3. /\ debounce # NoSize /\ debounce' = NoSize /\ size' = size
      /\ ptySize' = IF Open(cur) THEN debounce ELSE ptySize
  BY DEF DebounceFires
<1>4. size \in Sizes /\ ptySize \in Sizes /\ debounce = size
  BY <1>3 DEF Inv, TypeOK, DebounceIsCurrent
<1>5. Open(cur) => ptySize' = size'
  BY <1>3, <1>4
<1>6. Open(cur)' = Open(cur)
  BY <1>1 DEF Open
<1>7. PtyFollowsGrid'
  BY <1>5, <1>6 DEF PtyFollowsGrid
<1> QED
  BY <1>1, <1>2, <1>3, <1>4, <1>7, SizeKeeps DEF Inv

LEMMA StutterKeepsInv ==
    ASSUME Inv, UNCHANGED vars PROVE Inv'
<1>1. UNCHANGED <<shown, used, cur, sessionOf, sockState, frames, status, toasts, attempts,
                  queue, screen, modesOf, sizeVars>>
  BY DEF vars, socketVars, timerVars, xtermVars
<1>2. UNCHANGED <<reconnect, stable, clearNext, scrollDue, scrollTimer, paletteDue, focusSent>>
  BY DEF vars, timerVars, replayVars, xtermVars
<1>3. TypeOK'
  BY <1>1, <1>2 DEF Inv, TypeOK, sizeVars
<1> QED
  BY <1>1, <1>2, <1>3, XtermKeepsInv

LEMMA NextKeepsInv == Inv /\ [Next]_vars => Inv'
<1> SUFFICES ASSUME Inv, [Next]_vars PROVE Inv'
  OBVIOUS
<1>1. ASSUME NEW s \in Sessions \cup {NoSession}, ShowSession(s) PROVE Inv'
  BY <1>1, SwitchKeepsInv
<1>2. ASSUME NEW s \in Sessions, Retry(s) PROVE Inv'
  BY <1>2, RetryKeepsInv
<1>3. CASE SocketOpens
  BY <1>3, OpensKeepsInv
<1>4. CASE Message
  BY <1>4, MessageKeepsInv
<1>5. ASSUME NEW c \in Conns, SocketFails(c) PROVE Inv'
  BY <1>5, FailsKeepsInv
<1>6. ASSUME NEW c \in Conns, SocketCloses(c) PROVE Inv'
  BY <1>6, ClosesKeepsInv
<1>7. CASE Parse
  BY <1>7, ParseKeepsInv
<1>8. CASE ThemeFlips
  BY <1>8, ThemeKeepsInv
<1>9. ASSUME NEW z \in Sizes, Resize(z) PROVE Inv'
  BY <1>9, ResizeKeepsInv
<1>10. CASE ReconnectFires
  BY <1>10, ReconnectKeepsInv
<1>11. CASE StableFires
  BY <1>11, StableKeepsInv
<1>12. CASE ScrollFires
  BY <1>12, ScrollKeepsInv
<1>13. CASE DebounceFires
  BY <1>13, DebounceKeepsInv
<1>14. CASE UNCHANGED vars
  BY <1>14, StutterKeepsInv
<1> QED
  BY <1>1, <1>2, <1>3, <1>4, <1>5, <1>6, <1>7, <1>8, <1>9, <1>10, <1>11, <1>12, <1>13, <1>14
     DEF Next, Timers

\* The inductive invariant of the pane: terminal-panel.tsx keeps its timers
\* and its snapshot in step with the socket of the connect effect.
THEOREM Invariance == Spec => []Inv
<1> QED
  BY InitInv, NextKeepsInv, PTL DEF Spec

\* Every variable of the pane keeps its type, whatever socket events, timers
\* and clicks interleave.
THEOREM TypeCorrect == Spec => []TypeOK
<1>1. Inv => TypeOK
  BY DEF Inv
<1> QED
  BY <1>1, Invariance, PTL

\* A pane that shows a session has a live socket, a reconnect timer, or
\* offers Reconnect: no order of socket events and timers strands it.
THEOREM PaneIsNeverStranded == Spec => []NeverStranded
<1>1. Inv => NeverStranded
  BY DEF Inv
<1> QED
  BY <1>1, Invariance, PTL

\* At rest, the PTY behind an open socket has the size of the grid, however
\* resizes fall among switches and reconnects.
THEOREM PtySizeIsCurrent == Spec => []PtyFollowsGrid
<1>1. Inv => PtyFollowsGrid
  BY DEF Inv
<1> QED
  BY <1>1, Invariance, PTL

\* Only the user takes a working connection away.
THEOREM WorkingIsKept == Spec => WorkingConnectionStays
<1> DEFINE Kept == Open(cur) /\ cur' # cur => shown' # shown \/ \E s \in toasts : Retry(s)
<1>1. Inv /\ [Next]_vars => Kept
  <2> SUFFICES ASSUME Inv, [Next]_vars, Open(cur), cur' # cur
               PROVE  shown' # shown \/ \E s \in toasts : Retry(s)
    OBVIOUS
  <2>1. ASSUME NEW s \in Sessions \cup {NoSession}, ShowSession(s) PROVE shown' # shown
    BY <2>1 DEF ShowSession
  <2>2. ASSUME NEW s \in Sessions, Retry(s) PROVE \E t \in toasts : Retry(t)
    BY <2>2 DEF Retry, Inv, OpenIsNotLost
  <2>3. ~ReconnectFires
    BY DEF ReconnectFires, Inv, TimerAfterFailure, Open
  <2>4. ~SocketOpens /\ ~Message /\ ~Parse /\ ~ThemeFlips
    BY DEF SocketOpens, Message, Parse, ParseReset, ParseOutput, ThemeFlips, socketVars
  <2>5. ~StableFires /\ ~ScrollFires /\ ~DebounceFires /\ ~UNCHANGED vars
    BY DEF StableFires, ScrollFires, DebounceFires, vars, socketVars
  <2>6. /\ \A c \in Conns : ~SocketFails(c) /\ ~SocketCloses(c)
        /\ \A z \in Sizes : ~Resize(z)
    BY DEF SocketFails, SocketCloses, Resize, socketVars
  <2> QED
    BY <2>1, <2>2, <2>3, <2>4, <2>5, <2>6 DEF Next, Timers
<1>2. Inv /\ [Next]_vars => [Kept]_vars
  BY <1>1
<1> QED
  BY <1>2, Invariance, PTL DEF Spec, WorkingConnectionStays
-----------------------------------------------------------------------------
(* One session per screen: what xterm displays and what it has still to    *)
(* parse are read as one line of outputs, in which resets separate sockets *)

\* A reset waits in the queue behind position i; 0 is what is displayed.
ResetAfter(i) == \E k \in DOMAIN queue : k > i /\ queue[k] = Reset

\* Two outputs of different sockets have a reset between them.
Separated ==
    /\ \A i, j \in DOMAIN queue :
          i < j /\ queue[i] # Reset /\ queue[j] # Reset /\ queue[i].of # queue[j].of
          => \E k \in DOMAIN queue : i < k /\ k < j /\ queue[k] = Reset
    /\ \A c \in screen : \A j \in DOMAIN queue :
          queue[j] # Reset /\ queue[j].of # c
          => \E k \in DOMAIN queue : k < j /\ queue[k] = Reset
    /\ \A c, d \in screen : c = d

\* Behind the last reset is only what the current socket sent, unless the
\* next message will bring a reset with it.
TailIsCurrent ==
    ~clearNext =>
        /\ \A i \in DOMAIN queue : queue[i] # Reset /\ queue[i].of # cur => ResetAfter(i)
        /\ \A c \in screen : c # cur => ResetAfter(0)

\* Behind the last reset is only output of the shown session.
TailIsShown ==
    /\ cur # 0 => sessionOf[cur] = shown
    /\ \A i \in DOMAIN queue :
          queue[i] # Reset /\ sessionOf[queue[i].of] # shown => ResetAfter(i)
    /\ \A c \in screen : sessionOf[c] # shown => ResetAfter(0)

\* A socket that has delivered something is on the line behind the last reset.
DeliveredIsThere ==
    cur # 0 /\ frames > 0 =>
        /\ ~clearNext
        /\ \/ cur \in screen /\ ~ResetAfter(0)
           \/ \E i \in DOMAIN queue : queue[i] # Reset /\ queue[i].of = cur /\ ~ResetAfter(i)

ScreenInv == Separated /\ TailIsCurrent /\ TailIsShown /\ DeliveredIsThere

LEMMA InitScreenInv == Init => ScreenInv
<1> SUFFICES ASSUME Init PROVE ScreenInv
  OBVIOUS
<1>1. queue = <<Reset>> /\ screen = {} /\ clearNext = TRUE /\ frames = 0
  BY DEF Init
<1>2. \A i \in DOMAIN queue : queue[i] = Reset
  BY <1>1
<1>3. cur # 0 => sessionOf[cur] = shown
  BY PanelAssumption DEF Init, Conns
<1> QED
  BY <1>1, <1>2, <1>3 DEF ScreenInv, Separated, TailIsCurrent, TailIsShown, DeliveredIsThere

\* Steps that touch neither the line nor what it is compared with.
LEMMA LineUntouched ==
    ASSUME ScreenInv, UNCHANGED <<queue, screen, cur, frames, sessionOf, shown>>,
           clearNext' = clearNext
    PROVE  ScreenInv'
<1>1. \A i : ResetAfter(i)' = ResetAfter(i)
  BY DEF ResetAfter
<1> QED
  BY <1>1 DEF ScreenInv, Separated, TailIsCurrent, TailIsShown, DeliveredIsThere

\* A new socket for the same session: it has delivered nothing.
LEMMA LineReconnects ==
    ASSUME ScreenInv, TypeOK, Connect(shown), clearNext' = TRUE,
           UNCHANGED <<queue, screen, shown>>
    PROVE  ScreenInv'
<1>1. \A i : ResetAfter(i)' = ResetAfter(i)
  BY DEF ResetAfter
<1>2. frames' = 0
  BY DEF Connect
<1>3. \A c \in Conns : sessionOf'[c] \in {sessionOf[c], shown}
  BY DEF Connect, TypeOK
<1>4. cur' # 0 => sessionOf'[cur'] = shown'
  BY PanelAssumption DEF Connect, TypeOK, Conns
<1>5. \A i \in DOMAIN queue : queue[i] # Reset => queue[i].of \in Conns
  BY DEF TypeOK, Writes
<1>6. screen \subseteq Conns
  BY DEF TypeOK
<1>7. TailIsShown'
  BY <1>1, <1>3, <1>4, <1>5, <1>6 DEF ScreenInv, TailIsShown
<1>8. Separated'
  BY DEF ScreenInv, Separated
<1> QED
  BY <1>2, <1>7, <1>8 DEF ScreenInv, TailIsCurrent, DeliveredIsThere

\* A switch puts a reset at the end of the line.
LEMMA LineSwitches ==
    ASSUME ScreenInv, TypeOK, NEW s \in Sessions \cup {NoSession}, ShowSession(s)
    PROVE  ScreenInv'
<1>1. /\ clearNext' = TRUE /\ queue' = Append(queue, Reset) /\ Connect(s) /\ shown' = s
      /\ screen' = screen
  BY DEF ShowSession, PrepareReplay
<1> DEFINE n == Len(queue)
<1>2. /\ n \in Nat /\ DOMAIN queue = 1..n /\ DOMAIN queue' = 1..(n + 1)
      /\ queue'[n + 1] = Reset /\ \A i \in 1..n : queue'[i] = queue[i]
  BY <1>1 DEF TypeOK
<1> HIDE DEF n
<1>3. frames' = 0
  BY <1>1 DEF Connect
<1>4. cur' # 0 => sessionOf'[cur'] = shown'
  BY <1>1, PanelAssumption DEF Connect, TypeOK, Conns
<1>5. \A i \in 0..n : ResetAfter(i)'
  BY <1>2 DEF ResetAfter
<1>6. TailIsShown'
  BY <1>2, <1>4, <1>5 DEF TailIsShown
<1>7. Separated'
  <2>1. \A i, j \in DOMAIN queue' :
          i < j /\ queue'[i] # Reset /\ queue'[j] # Reset /\ queue'[i].of # queue'[j].of
          => \E k \in DOMAIN queue' : i < k /\ k < j /\ queue'[k] = Reset
    BY <1>2 DEF ScreenInv, Separated
  <2>2. \A c \in screen' : \A j \in DOMAIN queue' :
          queue'[j] # Reset /\ queue'[j].of # c
          => \E k \in DOMAIN queue' : k < j /\ queue'[k] = Reset
    BY <1>1, <1>2 DEF ScreenInv, Separated
  <2> QED
    BY <1>1, <2>1, <2>2 DEF ScreenInv, Separated
<1> QED
  BY <1>1, <1>3, <1>6, <1>7 DEF ScreenInv, TailIsCurrent, DeliveredIsThere

LEMMA AppendTwo ==
    ASSUME NEW S, NEW q \in Seq(S), NEW n \in Nat, n = Len(q), NEW a \in S, NEW b \in S
    PROVE  /\ DOMAIN (q \o <<a, b>>) = 1..(n + 2)
           /\ \A i \in 1..n : (q \o <<a, b>>)[i] = q[i]
           /\ (q \o <<a, b>>)[n + 1] = a
           /\ (q \o <<a, b>>)[n + 2] = b
<1>1. q \o <<a, b>> = Append(Append(q, a), b)
  <2>1. <<a, b>> \in Seq(S) /\ Len(<<a, b>>) = 2
    OBVIOUS
  <2> QED
    BY <2>1
<1>2. Append(q, a) \in Seq(S) /\ Len(Append(q, a)) = n + 1
  OBVIOUS
<1>3. /\ Append(q, a)[n + 1] = a
      /\ \A i \in 1..n : Append(q, a)[i] = q[i]
  OBVIOUS
<1> QED
  BY <1>1, <1>2, <1>3

\* A message goes to the end of the line, behind a reset if one is due.
LEMMA LineGrows ==
    ASSUME ScreenInv, TypeOK, Message PROVE ScreenInv'
<1>0. PICK n \in Nat : n = Len(queue)
  BY DEF TypeOK
<1> DEFINE output == Output(cur, frames + 1, scrollDue)
<1>1. /\ UNCHANGED <<shown, cur, sessionOf, screen>> /\ frames' = frames + 1 /\ cur # 0
  BY DEF Message, Open
<1>2. clearNext' = FALSE
  BY DEF Message, TypeOK
<1>3. output # Reset /\ output.of = cur
  BY DEF Output, Reset
<1>4. sessionOf[cur] = shown
  BY <1>1 DEF ScreenInv, TailIsShown
<1>5. queue \in Seq(Writes) /\ n \in Nat /\ DOMAIN queue = 1..n /\ Len(queue) = n
  BY <1>0 DEF TypeOK
<1>5a. queue \in Seq(Writes) /\ output \in Writes /\ Reset \in Writes
  BY PanelAssumption DEF Message, Open, TypeOK, Output, Writes, Conns
<1>6. CASE clearNext
  <2>1. queue' = queue \o <<Reset, output>>
    BY <1>6 DEF Message
  <2> HIDE DEF output
  <2>2. /\ DOMAIN queue' = 1..(n + 2) /\ \A i \in 1..n : queue'[i] = queue[i]
        /\ queue'[n + 1] = Reset /\ queue'[n + 2] = output
    BY <1>0, <1>5a, <2>1, AppendTwo
  <2>3. \A i \in 0..n : ResetAfter(i)'
    BY <1>5, <2>2 DEF ResetAfter
  <2>4. ~ResetAfter(n + 2)'
    BY <1>5, <2>2 DEF ResetAfter
  <2>5. \A i, j \in DOMAIN queue' :
          i < j /\ queue'[i] # Reset /\ queue'[j] # Reset /\ queue'[i].of # queue'[j].of
          => \E k \in DOMAIN queue' : i < k /\ k < j /\ queue'[k] = Reset
    <3> SUFFICES ASSUME NEW i \in 1..(n + 2), NEW j \in 1..(n + 2), i < j,
                        queue'[i] # Reset, queue'[j] # Reset, queue'[i].of # queue'[j].of
                 PROVE  \E k \in 1..(n + 2) : i < k /\ k < j /\ queue'[k] = Reset
      BY <2>2
    <3>1. CASE j = n + 2
      BY <1>5, <2>2, <3>1
    <3>2. CASE j # n + 2
      <4>1. i \in 1..n /\ j \in 1..n
        BY <1>5, <2>2, <3>2
      <4> QED
        BY <1>5, <2>2, <4>1 DEF ScreenInv, Separated
    <3> QED
      BY <3>1, <3>2
  <2>6. \A c \in screen' : \A j \in DOMAIN queue' :
          queue'[j] # Reset /\ queue'[j].of # c
          => \E k \in DOMAIN queue' : k < j /\ queue'[k] = Reset
    <3> SUFFICES ASSUME NEW c \in screen, NEW j \in 1..(n + 2),
                        queue'[j] # Reset, queue'[j].of # c
                 PROVE  \E k \in 1..(n + 2) : k < j /\ queue'[k] = Reset
      BY <1>1, <2>2
    <3>1. CASE j = n + 2
      BY <1>5, <2>2, <3>1
    <3>2. CASE j # n + 2
      <4>1. j \in 1..n
        BY <1>5, <2>2, <3>2
      <4> QED
        BY <1>5, <2>2, <4>1 DEF ScreenInv, Separated
    <3> QED
      BY <3>1, <3>2
  <2>7. Separated'
    BY <1>1, <2>5, <2>6 DEF ScreenInv, Separated
  <2>8. TailIsCurrent'
    BY <1>1, <1>3, <1>5, <2>2, <2>3 DEF TailIsCurrent
  <2>9. TailIsShown'
    BY <1>1, <1>3, <1>4, <1>5, <2>2, <2>3 DEF TailIsShown
  <2>10. DeliveredIsThere'
    BY <1>1, <1>2, <1>3, <1>5, <2>2, <2>4 DEF DeliveredIsThere
  <2> QED
    BY <2>7, <2>8, <2>9, <2>10 DEF ScreenInv
<1>7. CASE ~clearNext
  <2>1. queue' = Append(queue, output)
    BY <1>7 DEF Message
  <2> HIDE DEF output
  <2>2. /\ DOMAIN queue' = 1..(n + 1) /\ \A i \in 1..n : queue'[i] = queue[i]
        /\ queue'[n + 1] = output
    BY <1>5, <2>1
  <2>3. \A i \in 0..n : ResetAfter(i) => ResetAfter(i)'
    BY <1>5, <2>2 DEF ResetAfter
  <2>4. ~ResetAfter(n + 1)'
    BY <1>5, <2>2 DEF ResetAfter
  <2>5. \A i, j \in DOMAIN queue' :
          i < j /\ queue'[i] # Reset /\ queue'[j] # Reset /\ queue'[i].of # queue'[j].of
          => \E k \in DOMAIN queue' : i < k /\ k < j /\ queue'[k] = Reset
    <3> SUFFICES ASSUME NEW i \in 1..(n + 1), NEW j \in 1..(n + 1), i < j,
                        queue'[i] # Reset, queue'[j] # Reset, queue'[i].of # queue'[j].of
                 PROVE  \E k \in 1..(n + 1) : i < k /\ k < j /\ queue'[k] = Reset
      BY <2>2
    <3>1. i \in 1..n /\ queue'[i] = queue[i]
      BY <1>5, <2>2
    <3>2. CASE j = n + 1
      <4>1. queue[i].of # cur
        BY <1>3, <2>2, <3>1, <3>2
      <4>2. ResetAfter(i)
        BY <1>5, <1>7, <3>1, <4>1 DEF ScreenInv, TailIsCurrent
      <4> QED
        BY <1>5, <2>2, <3>1, <3>2, <4>2 DEF ResetAfter
    <3>3. CASE j # n + 1
      <4>1. j \in 1..n
        BY <1>5, <2>2, <3>3
      <4> QED
        BY <1>5, <2>2, <3>1, <4>1 DEF ScreenInv, Separated
    <3> QED
      BY <3>2, <3>3
  <2>6. \A c \in screen' : \A j \in DOMAIN queue' :
          queue'[j] # Reset /\ queue'[j].of # c
          => \E k \in DOMAIN queue' : k < j /\ queue'[k] = Reset
    <3> SUFFICES ASSUME NEW c \in screen, NEW j \in 1..(n + 1),
                        queue'[j] # Reset, queue'[j].of # c
                 PROVE  \E k \in 1..(n + 1) : k < j /\ queue'[k] = Reset
      BY <1>1, <2>2
    <3>1. CASE j = n + 1
      <4>1. ResetAfter(0)
        BY <1>3, <1>7, <2>2, <3>1 DEF ScreenInv, TailIsCurrent
      <4> QED
        BY <1>5, <2>2, <3>1, <4>1 DEF ResetAfter
    <3>2. CASE j # n + 1
      <4>1. j \in 1..n
        BY <1>5, <2>2, <3>2
      <4> QED
        BY <1>5, <2>2, <4>1 DEF ScreenInv, Separated
    <3> QED
      BY <3>1, <3>2
  <2>7. Separated'
    BY <1>1, <2>5, <2>6 DEF ScreenInv, Separated
  <2>8. TailIsCurrent'
    <3>1. \A i \in DOMAIN queue' : queue'[i] # Reset /\ queue'[i].of # cur => ResetAfter(i)'
      BY <1>3, <1>5, <1>7, <2>2, <2>3 DEF ScreenInv, TailIsCurrent
    <3>2. \A c \in screen : c # cur => ResetAfter(0)'
      BY <1>5, <1>7, <2>3 DEF ScreenInv, TailIsCurrent
    <3> QED
      BY <1>1, <3>1, <3>2 DEF TailIsCurrent
  <2>9. TailIsShown'
    <3>1. \A i \in DOMAIN queue' :
             queue'[i] # Reset /\ sessionOf[queue'[i].of] # shown => ResetAfter(i)'
      BY <1>3, <1>4, <1>5, <2>2, <2>3 DEF ScreenInv, TailIsShown
    <3>2. \A c \in screen : sessionOf[c] # shown => ResetAfter(0)'
      BY <1>5, <2>3 DEF ScreenInv, TailIsShown
    <3> QED
      BY <1>1, <1>4, <3>1, <3>2 DEF TailIsShown
  <2>10. DeliveredIsThere'
    BY <1>1, <1>2, <1>3, <1>5, <2>2, <2>4 DEF DeliveredIsThere
  <2> QED
    BY <2>7, <2>8, <2>9, <2>10 DEF ScreenInv
<1> QED
  BY <1>6, <1>7
\* xterm moves the head of the line to the screen, or clears the screen.
LEMMA LineIsParsed ==
    ASSUME ScreenInv, TypeOK, Parse PROVE ScreenInv'
<1>0. PICK n \in Nat : n = Len(queue)
  BY DEF TypeOK
<1>1. /\ UNCHANGED <<shown, cur, sessionOf, frames>> /\ queue # <<>> /\ queue' = Tail(queue)
  BY DEF Parse, ParseReset, ParseOutput, socketVars
<1>2. clearNext' = clearNext
  BY DEF Parse, ParseReset, ParseOutput, replayVars
<1>3. /\ n >= 1 /\ DOMAIN queue = 1..n /\ DOMAIN queue' = 1..(n - 1)
      /\ \A i \in 1..(n - 1) : queue'[i] = queue[i + 1]
      /\ Head(queue) = queue[1]
  BY <1>0, <1>1 DEF TypeOK
<1>4. \A i \in 0..(n - 1) : ResetAfter(i)' <=> ResetAfter(i + 1)
  <2> SUFFICES ASSUME NEW i \in 0..(n - 1) PROVE ResetAfter(i)' <=> ResetAfter(i + 1)
    OBVIOUS
  <2>1. ASSUME NEW k \in 1..(n - 1), k > i, queue'[k] = Reset PROVE ResetAfter(i + 1)
    <3>1. k + 1 \in 1..n /\ k + 1 > i + 1 /\ queue[k + 1] = Reset
      BY <1>3, <2>1
    <3> QED
      BY <1>3, <3>1 DEF ResetAfter
  <2>2. ASSUME NEW k \in 1..n, k > i + 1, queue[k] = Reset PROVE ResetAfter(i)'
    <3>1. k - 1 \in 1..(n - 1) /\ k - 1 > i /\ queue'[k - 1] = queue[(k - 1) + 1]
      BY <1>3, <2>2
    <3>2. (k - 1) + 1 = k
      BY <2>2
    <3> QED
      BY <1>3, <2>2, <3>1, <3>2 DEF ResetAfter
  <2> QED
    BY <1>3, <2>1, <2>2 DEF ResetAfter
<1>5. \A i \in 1..(n - 1) : i + 1 \in 1..n /\ queue'[i] = queue[i + 1]
  BY <1>3
<1>6. \A k \in 1..n : k # 1 => k - 1 \in 1..(n - 1) /\ queue'[k - 1] = queue[k]
  <2> SUFFICES ASSUME NEW k \in 1..n, k # 1
               PROVE  k - 1 \in 1..(n - 1) /\ queue'[k - 1] = queue[k]
    OBVIOUS
  <2>1. k - 1 \in 1..(n - 1) /\ (k - 1) + 1 = k
    BY <1>3
  <2>2. queue'[k - 1] = queue[(k - 1) + 1]
    BY <1>3, <2>1
  <2> QED
    BY <2>1, <2>2
<1>7. \A i, j \in DOMAIN queue' :
        i < j /\ queue'[i] # Reset /\ queue'[j] # Reset /\ queue'[i].of # queue'[j].of
        => \E k \in DOMAIN queue' : i < k /\ k < j /\ queue'[k] = Reset
  <2> SUFFICES ASSUME NEW i \in 1..(n - 1), NEW j \in 1..(n - 1), i < j,
                      queue'[i] # Reset, queue'[j] # Reset, queue'[i].of # queue'[j].of
               PROVE  \E k \in 1..(n - 1) : i < k /\ k < j /\ queue'[k] = Reset
    BY <1>3
  <2>1. PICK k \in 1..n : i + 1 < k /\ k < j + 1 /\ queue[k] = Reset
    BY <1>3, <1>5 DEF ScreenInv, Separated
  <2>2. k # 1 /\ i < k - 1 /\ k - 1 < j
    BY <2>1
  <2> QED
    BY <1>6, <2>1, <2>2
<1>8. CASE ParseReset
  <2>1. queue[1] = Reset /\ screen' = {}
    BY <1>3, <1>8 DEF ParseReset
  <2>2. Separated'
    BY <1>7, <2>1 DEF Separated
  <2>3. \A i \in 1..(n - 1) : ResetAfter(i + 1) => ResetAfter(i)'
    BY <1>3, <1>4
  <2>4. TailIsCurrent'
    BY <1>1, <1>2, <1>3, <1>5, <2>1, <2>3 DEF ScreenInv, TailIsCurrent
  <2>5. TailIsShown'
    BY <1>1, <1>3, <1>5, <2>1, <2>3 DEF ScreenInv, TailIsShown
  <2>6. ASSUME cur # 0, frames > 0
        PROVE  \E i \in 1..(n - 1) : queue'[i] # Reset /\ queue'[i].of = cur /\ ~ResetAfter(i)'
    <3>1. ResetAfter(0)
      BY <1>3, <2>1 DEF ResetAfter
    <3>2. PICK i \in 1..n : queue[i] # Reset /\ queue[i].of = cur /\ ~ResetAfter(i)
      BY <1>3, <2>6, <3>1 DEF ScreenInv, DeliveredIsThere
    <3>3. i # 1 /\ i - 1 \in 1..(n - 1) /\ queue'[i - 1] = queue[i]
      BY <1>6, <2>1, <3>2
    <3>4. i - 1 \in 0..(n - 1) /\ (i - 1) + 1 = i
      BY <3>3
    <3>5. ~ResetAfter(i - 1)'
      <4>1. ResetAfter(i - 1)' <=> ResetAfter((i - 1) + 1)
        BY <1>4, <3>4
      <4> QED
        BY <3>2, <3>4, <4>1
    <3> QED
      BY <3>2, <3>3, <3>5
  <2>7. DeliveredIsThere'
    BY <1>1, <1>2, <1>3, <2>6 DEF ScreenInv, DeliveredIsThere
  <2> QED
    BY <2>2, <2>4, <2>5, <2>7 DEF ScreenInv
<1>9. CASE ParseOutput
  <2>1. queue[1] # Reset /\ screen' = screen \cup {queue[1].of}
    BY <1>3, <1>9 DEF ParseOutput
  <2>2. 1 \in DOMAIN queue
    BY <1>3
  <2>3. \A c \in screen : c = queue[1].of
    <3> SUFFICES ASSUME NEW c \in screen, queue[1].of # c PROVE FALSE
      OBVIOUS
    <3>1. PICK k \in DOMAIN queue : k < 1
      BY <2>1, <2>2 DEF ScreenInv, Separated
    <3> QED
      BY <1>3, <3>1
  <2>4. screen' = {queue[1].of}
    BY <2>1, <2>3
  <2>5. \A j \in DOMAIN queue' :
          queue'[j] # Reset /\ queue'[j].of # queue[1].of
          => \E k \in DOMAIN queue' : k < j /\ queue'[k] = Reset
    <3> SUFFICES ASSUME NEW j \in 1..(n - 1), queue'[j] # Reset, queue'[j].of # queue[1].of
                 PROVE  \E k \in 1..(n - 1) : k < j /\ queue'[k] = Reset
      BY <1>3
    <3>1. PICK k \in 1..n : 1 < k /\ k < j + 1 /\ queue[k] = Reset
      BY <1>3, <1>5, <2>1, <2>2 DEF ScreenInv, Separated
    <3>2. k # 1 /\ k - 1 < j
      BY <3>1
    <3> QED
      BY <1>6, <3>1, <3>2
  <2>6. Separated'
    BY <1>7, <2>4, <2>5 DEF Separated
  <2>7. \A i \in 1..(n - 1) : ResetAfter(i + 1) => ResetAfter(i)'
    BY <1>3, <1>4
  <2>8. ResetAfter(1) <=> ResetAfter(0)'
    <3>1. 0 \in 0..(n - 1) /\ 0 + 1 = 1
      BY <1>3
    <3>2. ResetAfter(0)' <=> ResetAfter(0 + 1)
      BY <1>4, <3>1
    <3> QED
      BY <3>1, <3>2
  <2>9. TailIsCurrent'
    <3>1. \A i \in DOMAIN queue' :
             ~clearNext /\ queue'[i] # Reset /\ queue'[i].of # cur => ResetAfter(i)'
      BY <1>3, <1>5, <2>7 DEF ScreenInv, TailIsCurrent
    <3>2. ~clearNext /\ queue[1].of # cur => ResetAfter(0)'
      BY <2>1, <2>2, <2>8 DEF ScreenInv, TailIsCurrent
    <3> QED
      BY <1>1, <1>2, <2>4, <3>1, <3>2 DEF TailIsCurrent
  <2>10. TailIsShown'
    <3>1. \A i \in DOMAIN queue' :
             queue'[i] # Reset /\ sessionOf[queue'[i].of] # shown => ResetAfter(i)'
      BY <1>3, <1>5, <2>7 DEF ScreenInv, TailIsShown
    <3>2. sessionOf[queue[1].of] # shown => ResetAfter(0)'
      BY <2>1, <2>2, <2>8 DEF ScreenInv, TailIsShown
    <3>3. cur # 0 => sessionOf[cur] = shown
      BY DEF ScreenInv, TailIsShown
    <3> QED
      BY <1>1, <2>4, <3>1, <3>2, <3>3 DEF TailIsShown
  <2>11. ASSUME cur # 0, frames > 0
         PROVE  \/ cur \in screen' /\ ~ResetAfter(0)'
                \/ \E i \in 1..(n - 1) :
                      queue'[i] # Reset /\ queue'[i].of = cur /\ ~ResetAfter(i)'
    <3>1. CASE cur \in screen /\ ~ResetAfter(0)
      <4>1. ~ResetAfter(1)
        BY <1>3, <3>1 DEF ResetAfter
      <4> QED
        BY <2>1, <2>8, <3>1, <4>1
    <3>2. CASE \E i \in DOMAIN queue : queue[i] # Reset /\ queue[i].of = cur /\ ~ResetAfter(i)
      <4>1. PICK i \in 1..n : queue[i] # Reset /\ queue[i].of = cur /\ ~ResetAfter(i)
        BY <1>3, <3>2
      <4>2. CASE i = 1
        BY <2>4, <2>8, <4>1, <4>2
      <4>3. CASE i # 1
        <5>1. i - 1 \in 1..(n - 1) /\ queue'[i - 1] = queue[i]
          BY <1>6, <4>3
        <5>2. i - 1 \in 0..(n - 1) /\ (i - 1) + 1 = i
          BY <5>1
        <5>3. ResetAfter(i - 1)' <=> ResetAfter((i - 1) + 1)
          BY <1>4, <5>2
        <5>4. ~ResetAfter(i - 1)'
          BY <4>1, <5>2, <5>3
        <5> QED
          BY <4>1, <5>1, <5>4
      <4> QED
        BY <4>2, <4>3
    <3> QED
      BY <2>11, <3>1, <3>2 DEF ScreenInv, DeliveredIsThere
  <2>12. DeliveredIsThere'
    BY <1>1, <1>2, <1>3, <2>11 DEF ScreenInv, DeliveredIsThere
  <2> QED
    BY <2>6, <2>9, <2>10, <2>12 DEF ScreenInv
<1> QED
  BY <1>8, <1>9 DEF Parse

LEMMA NextKeepsScreenInv == TypeOK /\ ScreenInv /\ [Next]_vars => ScreenInv'
<1> SUFFICES ASSUME TypeOK, ScreenInv, [Next]_vars PROVE ScreenInv'
  OBVIOUS
<1>1. ASSUME NEW s \in Sessions \cup {NoSession}, ShowSession(s) PROVE ScreenInv'
  BY <1>1, LineSwitches
<1>2. ASSUME NEW s \in Sessions, Retry(s) PROVE ScreenInv'
  BY <1>2, LineReconnects DEF Retry, PrepareReplay
<1>3. CASE ReconnectFires
  BY <1>3, LineReconnects DEF ReconnectFires, PrepareReplay
<1>4. CASE Message
  BY <1>4, LineGrows
<1>5. CASE Parse
  BY <1>5, LineIsParsed
<1>6. CASE SocketOpens
  BY <1>6, LineUntouched DEF SocketOpens, xtermVars, replayVars
<1>7. ASSUME NEW c \in Conns, SocketFails(c) PROVE ScreenInv'
  BY <1>7, LineUntouched DEF SocketFails, xtermVars, replayVars
<1>8. ASSUME NEW c \in Conns, SocketCloses(c) PROVE ScreenInv'
  BY <1>8, LineUntouched DEF SocketCloses, xtermVars, replayVars
<1>9. CASE ThemeFlips
  BY <1>9, LineUntouched DEF ThemeFlips, socketVars, replayVars
<1>10. ASSUME NEW z \in Sizes, Resize(z) PROVE ScreenInv'
  BY <1>10, LineUntouched DEF Resize, socketVars, xtermVars, replayVars
<1>11. CASE StableFires
  BY <1>11, LineUntouched DEF StableFires, socketVars, xtermVars, replayVars
<1>12. CASE ScrollFires
  BY <1>12, LineUntouched DEF ScrollFires, socketVars, xtermVars
<1>13. CASE DebounceFires
  BY <1>13, LineUntouched DEF DebounceFires, socketVars, xtermVars, replayVars
<1>14. CASE UNCHANGED vars
  BY <1>14, LineUntouched DEF vars, socketVars, xtermVars, replayVars
<1> QED
  BY <1>1, <1>2, <1>3, <1>4, <1>5, <1>6, <1>7, <1>8, <1>9, <1>10, <1>11, <1>12, <1>13, <1>14
     DEF Next, Timers

\* The one xterm of the page never shows two sockets' output, and shows the
\* session of the page once it has parsed what it was given: the resets at a
\* switch and before the first message, and `active', are enough.
THEOREM OneSessionPerScreen == Spec => []ScreenIsTheSockets
<1>1. TypeOK /\ ScreenInv => ScreenIsTheSockets
  <2> SUFFICES ASSUME TypeOK, ScreenInv PROVE ScreenIsTheSockets
    OBVIOUS
  <2>1. Cardinality(screen) <= 1
    <3>1. CASE screen = {}
      BY <3>1, FS_EmptySet
    <3>2. CASE screen # {}
      <4>1. PICK c \in screen : screen = {c}
        BY <3>2 DEF ScreenInv, Separated
      <4>2. Cardinality(screen) = 1
        BY <4>1, FS_Singleton
      <4> QED
        BY <4>2
    <3> QED
      BY <3>1, <3>2
  <2>2. ASSUME queue = <<>>
        PROVE  /\ \A c \in screen : sessionOf[c] = shown
               /\ cur # 0 /\ frames > 0 => screen = {cur}
    <3>1. DOMAIN queue = {} /\ ~ResetAfter(0)
      BY <2>2 DEF ResetAfter
    <3>2. \A c \in screen : sessionOf[c] = shown
      BY <3>1 DEF ScreenInv, TailIsShown
    <3>3. ASSUME cur # 0, frames > 0 PROVE screen = {cur}
      <4>1. ~clearNext /\ cur \in screen
        BY <3>1, <3>3 DEF ScreenInv, DeliveredIsThere
      <4> QED
        BY <3>1, <4>1 DEF ScreenInv, TailIsCurrent
    <3> QED
      BY <3>2, <3>3
  <2> QED
    BY <2>1, <2>2 DEF ScreenIsTheSockets
<1>2. Init => ScreenInv
  BY InitScreenInv
<1>3. Spec => []ScreenInv
  BY <1>2, NextKeepsScreenInv, TypeCorrect, PTL DEF Spec
<1> QED
  BY <1>1, <1>3, TypeCorrect, PTL
-----------------------------------------------------------------------------
(* What a replay leaves to do: the offset to restore and the colours to    *)
(* refresh wait for a write in the queue or for a timer                    *)

\* A write waits in the queue whose callback restores the scroll position.
ScrollWaits == \E i \in DOMAIN queue : queue[i] # Reset /\ queue[i].scrolls

\* The end of the current socket's replay waits in the queue.
ModesWait ==
    \E i \in DOMAIN queue : queue[i] # Reset /\ queue[i].of = cur /\ queue[i].modes

\* An offset that is due after a message has its write or its timer.
OffsetIsPending == cur # 0 /\ frames > 0 /\ scrollDue => scrollTimer \/ ScrollWaits

\* The first message of a socket, and only of an open one, brings a reset.
FirstIsPrepared ==
    cur # 0 => /\ frames = 0 => clearNext
               /\ sockState[cur] = "connecting" => frames = 0

\* Once the socket delivers, the colours are to be refreshed or have been,
\* and the refresh lasts to the end of the replay.
RefreshIsPending ==
    Open(cur) =>
        /\ frames > 0 => paletteDue \/ focusSent
        /\ frames = Frames /\ sessionOf[cur] \in FocusSessions => focusSent \/ ModesWait

ReplayInv == OffsetIsPending /\ FirstIsPrepared /\ RefreshIsPending

\* A message is put behind what waits in the queue.
LEMMA MessageIsQueued ==
    ASSUME TypeOK, Message
    PROVE  /\ \A i \in DOMAIN queue : i \in DOMAIN queue' /\ queue'[i] = queue[i]
           /\ \E i \in DOMAIN queue' : queue'[i] = Output(cur, frames + 1, scrollDue)
<1>0. PICK n \in Nat : n = Len(queue)
  BY DEF TypeOK
<1> DEFINE output == Output(cur, frames + 1, scrollDue)
<1>1. queue \in Seq(Writes) /\ output \in Writes /\ Reset \in Writes
  BY PanelAssumption DEF Message, Open, TypeOK, Output, Writes, Conns
<1>2. DOMAIN queue = 1..n
  BY <1>0, <1>1
<1> HIDE DEF output
<1>3. CASE queue' = queue \o <<Reset, output>>
  <2>1. /\ DOMAIN queue' = 1..(n + 2) /\ queue'[n + 2] = output
        /\ \A i \in 1..n : queue'[i] = queue[i]
    BY <1>0, <1>1, <1>3, AppendTwo
  <2>2. n + 2 \in 1..(n + 2) /\ \A i \in 1..n : i \in 1..(n + 2)
    OBVIOUS
  <2> QED
    BY <1>2, <2>1, <2>2 DEF output
<1>4. CASE queue' = Append(queue, output)
  <2>1. /\ DOMAIN queue' = 1..(n + 1) /\ queue'[n + 1] = output
        /\ \A i \in 1..n : queue'[i] = queue[i]
    BY <1>0, <1>1, <1>4
  <2>2. n + 1 \in 1..(n + 1) /\ \A i \in 1..n : i \in 1..(n + 1)
    OBVIOUS
  <2> QED
    BY <1>2, <2>1, <2>2 DEF output
<1>5. queue' = queue \o <<Reset, output>> \/ queue' = Append(queue, output)
  BY DEF Message, output
<1> QED
  BY <1>3, <1>4, <1>5

\* A write that is not the head moves up when the head is parsed.
LEMMA WritesMoveUp ==
    ASSUME TypeOK, Parse
    PROVE  \A i \in DOMAIN queue :
             queue[i] = Head(queue) \/ \E j \in DOMAIN queue' : queue'[j] = queue[i]
<1>0. PICK n \in Nat : n = Len(queue)
  BY DEF TypeOK
<1>1. queue \in Seq(Writes) /\ queue # <<>> /\ queue' = Tail(queue)
  BY DEF Parse, ParseReset, ParseOutput, TypeOK
<1>2. /\ n >= 1 /\ DOMAIN queue = 1..n /\ DOMAIN queue' = 1..(n - 1)
      /\ \A j \in 1..(n - 1) : queue'[j] = queue[j + 1]
      /\ Head(queue) = queue[1]
  BY <1>0, <1>1
<1> SUFFICES ASSUME NEW i \in 1..n, i # 1
             PROVE  \E j \in DOMAIN queue' : queue'[j] = queue[i]
  BY <1>2
<1>3. i - 1 \in 1..(n - 1) /\ (i - 1) + 1 = i
  BY <1>2
<1>4. queue'[i - 1] = queue[(i - 1) + 1]
  BY <1>2, <1>3
<1> QED
  BY <1>2, <1>3, <1>4

\* A new socket has delivered nothing and nothing is left to do for it.
LEMMA ReconnectKeepsReplay ==
    ASSUME NEW s, Connect(s), PrepareReplay PROVE ReplayInv'
<1>1. frames' = 0 /\ clearNext' = TRUE
  BY DEF Connect, PrepareReplay
<1> QED
  BY <1>1, PanelAssumption DEF ReplayInv, OffsetIsPending, FirstIsPrepared, RefreshIsPending

\* Socket events, sizes and the timers of the connection change nothing of
\* the replay; a socket opens before it delivers.
LEMMA SocketsKeepReplay ==
    ASSUME ReplayInv, UNCHANGED <<queue, cur, frames, sessionOf>>,
           UNCHANGED <<clearNext, scrollDue, scrollTimer, paletteDue, focusSent>>,
           cur # 0 => \/ sockState'[cur] = sockState[cur]
                      \/ sockState'[cur] = "closed"
                      \/ sockState[cur] = "connecting" /\ sockState'[cur] = "open"
    PROVE  ReplayInv'
<1>1. OffsetIsPending'
  BY DEF ReplayInv, OffsetIsPending, ScrollWaits
<1>2. FirstIsPrepared'
  BY DEF ReplayInv, FirstIsPrepared
<1>3. RefreshIsPending'
  <2> SUFFICES ASSUME Open(cur)' PROVE RefreshIsPending'
    BY DEF RefreshIsPending
  <2>1. cur # 0 /\ sockState'[cur] = "open"
    BY DEF Open
  <2>2. Open(cur) \/ frames = 0
    BY <2>1 DEF Open, ReplayInv, FirstIsPrepared
  <2> QED
    BY <2>2, PanelAssumption DEF ReplayInv, RefreshIsPending, ModesWait
<1> QED
  BY <1>1, <1>2, <1>3 DEF ReplayInv

LEMMA MessageKeepsReplay ==
    ASSUME TypeOK, ReplayInv, Message PROVE ReplayInv'
<1>1. /\ UNCHANGED <<cur, sessionOf, sockState>> /\ frames' = frames + 1 /\ cur # 0
      /\ sockState[cur] = "open" /\ frames \in Nat
  BY DEF Message, Open, TypeOK
<1>2. scrollDue' = scrollDue /\ scrollTimer' = scrollTimer
  BY DEF Message
<1>3. focusSent' = focusSent
  BY DEF Message
<1>4. OffsetIsPending'
  <2>1. scrollDue => ScrollWaits'
    <3> SUFFICES ASSUME scrollDue PROVE ScrollWaits'
      OBVIOUS
    <3>1. PICK i \in DOMAIN queue' : queue'[i] = Output(cur, frames + 1, scrollDue)
      BY MessageIsQueued
    <3>2. queue'[i] # Reset /\ queue'[i].scrolls
      BY <3>1 DEF Output, Reset
    <3> QED
      BY <3>2 DEF ScrollWaits
  <2> QED
    BY <1>2, <2>1 DEF OffsetIsPending
<1>5. FirstIsPrepared'
  BY <1>1 DEF FirstIsPrepared
<1>6. paletteDue' \/ focusSent'
  <2>1. CASE clearNext
    BY <2>1 DEF Message
  <2>2. CASE ~clearNext
    <3>1. frames > 0
      BY <1>1, <2>2 DEF ReplayInv, FirstIsPrepared
    <3>2. paletteDue \/ focusSent
      BY <1>1, <3>1 DEF ReplayInv, RefreshIsPending, Open
    <3>3. paletteDue' = paletteDue
      BY <2>2 DEF Message
    <3> QED
      BY <1>3, <3>2, <3>3
  <2> QED
    BY <2>1, <2>2
<1>7. frames' = Frames => ModesWait'
  <2> SUFFICES ASSUME frames + 1 = Frames PROVE ModesWait'
    BY <1>1
  <2>1. PICK i \in DOMAIN queue' : queue'[i] = Output(cur, frames + 1, scrollDue)
    BY MessageIsQueued
  <2>2. queue'[i] = [kind |-> "output", of |-> cur, modes |-> TRUE, scrolls |-> scrollDue]
    <3>1. (frames + 1 = Frames) = TRUE
      OBVIOUS
    <3> QED
      BY <2>1, <3>1, Zenon DEF Output
  <2>3. queue'[i] # Reset /\ queue'[i].of = cur /\ queue'[i].modes
    BY <2>2 DEF Reset
  <2> QED
    BY <1>1, <2>3 DEF ModesWait
<1>8. RefreshIsPending'
  BY <1>6, <1>7 DEF RefreshIsPending
<1> QED
  BY <1>4, <1>5, <1>8 DEF ReplayInv

\* A refresh that goes out now reaches an open socket.
LEMMA RefreshIsSent ==
    ASSUME TypeOK, Open(cur), cur' = cur, sockState' = sockState,
           SyncPalette \/ ThemeFlips, paletteDue \/ focusSent
    PROVE  /\ paletteDue' \/ focusSent'
           /\ focusSent => focusSent'
           /\ SyncPalette /\ modesOf' = cur /\ sessionOf[cur] \in FocusSessions => focusSent'
<1>1. CASE focusSent' = focusSent /\ paletteDue' = paletteDue /\ SyncPalette
  <2>1. modesOf' = cur /\ sessionOf[cur] \in FocusSessions => ~paletteDue \/ focusSent'
    BY <1>1 DEF SyncPalette, Open
  <2> QED
    BY <1>1, <2>1
<1>2. CASE focusSent' = (focusSent \/ Open(cur))
  BY <1>2
<1>3. CASE focusSent' = focusSent /\ paletteDue' = TRUE /\ ~SyncPalette
  BY <1>3
<1>4. CASE SyncPalette
  <2>1. \/ focusSent' = focusSent /\ paletteDue' = paletteDue
        \/ focusSent' = (focusSent \/ Open(cur))
    BY <1>4 DEF SyncPalette
  <2> QED
    BY <1>1, <1>2, <1>4, <2>1
<1>5. CASE ThemeFlips /\ ~SyncPalette
  <2>1. \/ focusSent' = focusSent /\ paletteDue' = TRUE
        \/ focusSent' = (focusSent \/ Open(cur))
    BY <1>5 DEF ThemeFlips
  <2> QED
    BY <1>2, <1>3, <1>5, <2>1
<1> QED
  BY <1>4, <1>5

LEMMA ParseKeepsReplay ==
    ASSUME TypeOK, ReplayInv, Parse PROVE ReplayInv'
<1>1. UNCHANGED <<cur, sessionOf, sockState, frames>> /\ SyncPalette
  BY DEF Parse, ParseReset, ParseOutput, socketVars
<1>2. UNCHANGED <<clearNext, scrollDue>>
  BY DEF Parse, ParseReset, ParseOutput, replayVars
<1>3. OffsetIsPending'
  <2> SUFFICES ASSUME cur # 0, frames > 0, scrollDue PROVE scrollTimer' \/ ScrollWaits'
    BY <1>1, <1>2 DEF OffsetIsPending
  <2>1. scrollTimer => scrollTimer'
    BY DEF Parse, ParseReset, ParseOutput, replayVars
  <2>2. ASSUME ScrollWaits PROVE scrollTimer' \/ ScrollWaits'
    <3>1. PICK i \in DOMAIN queue : queue[i] # Reset /\ queue[i].scrolls
      BY <2>2 DEF ScrollWaits
    <3>2. CASE queue[i] = Head(queue)
      BY <3>1, <3>2 DEF Parse, ParseReset, ParseOutput
    <3>3. CASE \E j \in DOMAIN queue' : queue'[j] = queue[i]
      BY <3>1, <3>3 DEF ScrollWaits
    <3> QED
      BY <3>2, <3>3, WritesMoveUp
  <2> QED
    BY <2>1, <2>2 DEF ReplayInv, OffsetIsPending
<1>4. FirstIsPrepared'
  BY <1>1, <1>2 DEF ReplayInv, FirstIsPrepared
<1>5. RefreshIsPending'
  <2> SUFFICES ASSUME Open(cur)
               PROVE  /\ frames > 0 => paletteDue' \/ focusSent'
                      /\ frames = Frames /\ sessionOf[cur] \in FocusSessions
                           => focusSent' \/ ModesWait'
    BY <1>1 DEF RefreshIsPending, Open
  <2> SUFFICES ASSUME frames > 0
               PROVE  /\ paletteDue' \/ focusSent'
                      /\ frames = Frames /\ sessionOf[cur] \in FocusSessions
                           => focusSent' \/ ModesWait'
    BY PanelAssumption
  <2>1. paletteDue \/ focusSent
    BY DEF ReplayInv, RefreshIsPending
  <2>2. /\ paletteDue' \/ focusSent'
        /\ focusSent => focusSent'
        /\ modesOf' = cur /\ sessionOf[cur] \in FocusSessions => focusSent'
    BY <1>1, <2>1, RefreshIsSent
  <2>3. ASSUME frames = Frames, sessionOf[cur] \in FocusSessions, ModesWait
        PROVE  focusSent' \/ ModesWait'
    <3>1. PICK i \in DOMAIN queue : queue[i] # Reset /\ queue[i].of = cur /\ queue[i].modes
      BY <2>3 DEF ModesWait
    <3>2. CASE queue[i] = Head(queue)
      <4>1. modesOf' = cur
        BY <3>1, <3>2 DEF Parse, ParseReset, ParseOutput
      <4> QED
        BY <2>2, <2>3, <4>1
    <3>3. CASE \E j \in DOMAIN queue' : queue'[j] = queue[i]
      BY <1>1, <3>1, <3>3 DEF ModesWait
    <3> QED
      BY <3>2, <3>3, WritesMoveUp
  <2> QED
    BY <2>2, <2>3 DEF ReplayInv, RefreshIsPending
<1> QED
  BY <1>3, <1>4, <1>5 DEF ReplayInv

LEMMA ThemeKeepsReplay ==
    ASSUME TypeOK, ReplayInv, ThemeFlips PROVE ReplayInv'
<1>1. UNCHANGED <<queue, cur, sessionOf, sockState, frames>>
  BY DEF ThemeFlips, socketVars
<1>2. UNCHANGED <<clearNext, scrollDue, scrollTimer>>
  BY DEF ThemeFlips, replayVars
<1>3. OffsetIsPending' /\ FirstIsPrepared'
  BY <1>1, <1>2 DEF ReplayInv, OffsetIsPending, FirstIsPrepared, ScrollWaits
<1>4. ASSUME Open(cur), frames > 0
      PROVE  (paletteDue' \/ focusSent') /\ (focusSent => focusSent')
  <2>1. paletteDue \/ focusSent
    BY <1>4 DEF ReplayInv, RefreshIsPending
  <2> QED
    BY <1>1, <1>4, <2>1, RefreshIsSent
<1>5. Open(cur)' = Open(cur) /\ ModesWait' = ModesWait
  BY <1>1 DEF Open, ModesWait
<1>6. RefreshIsPending'
  BY <1>1, <1>4, <1>5, PanelAssumption DEF ReplayInv, RefreshIsPending
<1> QED
  BY <1>3, <1>6 DEF ReplayInv

LEMMA ScrollKeepsReplay ==
    ASSUME ReplayInv, ScrollFires PROVE ReplayInv'
<1>1. UNCHANGED <<queue, cur, sessionOf, sockState, frames>>
  BY DEF ScrollFires, socketVars, xtermVars
<1>2. UNCHANGED <<clearNext, paletteDue, focusSent>> /\ scrollDue' = FALSE
  BY DEF ScrollFires, xtermVars
<1>3. FirstIsPrepared' /\ RefreshIsPending'
  BY <1>1, <1>2 DEF ReplayInv, FirstIsPrepared, RefreshIsPending, ModesWait, Open
<1> QED
  BY <1>2, <1>3 DEF ReplayInv, OffsetIsPending

LEMMA NextKeepsReplay == TypeOK /\ ReplayInv /\ [Next]_vars => ReplayInv'
<1> SUFFICES ASSUME TypeOK, ReplayInv, [Next]_vars PROVE ReplayInv'
  OBVIOUS
<1>0. cur # 0 => cur \in Conns
  BY PanelAssumption DEF TypeOK, Conns
<1>1. ASSUME NEW s \in Sessions \cup {NoSession}, ShowSession(s) PROVE ReplayInv'
  BY <1>1, ReconnectKeepsReplay DEF ShowSession
<1>2. ASSUME NEW s \in Sessions, Retry(s) PROVE ReplayInv'
  BY <1>2, ReconnectKeepsReplay DEF Retry
<1>3. CASE ReconnectFires
  BY <1>3, ReconnectKeepsReplay DEF ReconnectFires
<1>4. CASE SocketOpens
  <2>1. sockState[cur] = "connecting" /\ sockState'[cur] = "open"
    BY <1>0, <1>4 DEF SocketOpens, TypeOK
  <2> QED
    BY <1>4, <2>1, SocketsKeepReplay DEF SocketOpens, replayVars, xtermVars
<1>5. ASSUME NEW c \in Conns, SocketFails(c) \/ SocketCloses(c) PROVE ReplayInv'
  <2>1. cur # 0 => sockState'[cur] \in {sockState[cur], "closed"}
    BY <1>0, <1>5 DEF SocketFails, SocketCloses, TypeOK
  <2>2. UNCHANGED <<cur, frames, sessionOf>> /\ UNCHANGED replayVars /\ UNCHANGED xtermVars
    BY <1>5 DEF SocketFails, SocketCloses
  <2> QED
    BY <2>1, <2>2, SocketsKeepReplay DEF replayVars, xtermVars
<1>6. CASE Message
  BY <1>6, MessageKeepsReplay
<1>7. CASE Parse
  BY <1>7, ParseKeepsReplay
<1>8. CASE ThemeFlips
  BY <1>8, ThemeKeepsReplay
<1>9. CASE ScrollFires
  BY <1>9, ScrollKeepsReplay
<1>10. ASSUME UNCHANGED socketVars, UNCHANGED replayVars, UNCHANGED xtermVars
       PROVE  ReplayInv'
  BY <1>10, SocketsKeepReplay DEF socketVars, replayVars, xtermVars
<1>11. ASSUME (\E z \in Sizes : Resize(z)) \/ StableFires \/ DebounceFires \/ UNCHANGED vars
       PROVE  ReplayInv'
  BY <1>10, <1>11 DEF Resize, StableFires, DebounceFires, vars
<1> QED
  BY <1>1, <1>2, <1>3, <1>4, <1>5, <1>6, <1>7, <1>8, <1>9, <1>11 DEF Next, Timers

LEMMA InitReplayInv == Init => ReplayInv
<1> SUFFICES ASSUME Init PROVE ReplayInv
  OBVIOUS
<1>1. frames = 0 /\ clearNext = TRUE
  BY DEF Init
<1> QED
  BY <1>1, PanelAssumption DEF ReplayInv, OffsetIsPending, FirstIsPrepared, RefreshIsPending

LEMMA ReplayInvariance == Spec => []ReplayInv
<1> QED
  BY InitReplayInv, NextKeepsReplay, TypeCorrect, PTL DEF Spec

\* No scroll position stays due without a write or a timer to restore it:
\* every message after a switch or a reconnect carries it until it is applied.
THEOREM ReplayEndsScrolled == Spec => []ReplayIsScrolled
<1>1. ReplayInv => ReplayIsScrolled
  <2> SUFFICES ASSUME OffsetIsPending, queue = <<>>, cur # 0, frames > 0
               PROVE  ~scrollDue \/ scrollTimer
    BY DEF ReplayInv, ReplayIsScrolled
  <2>1. ~ScrollWaits
    BY DEF ScrollWaits
  <2> QED
    BY <2>1 DEF OffsetIsPending
<1> QED
  BY <1>1, ReplayInvariance, PTL

\* A program that asked for focus reports hears of one once its replay is on
\* the screen: the refresh queued by the first message is kept until a parsed
\* write has the modes, and a theme that flips in between only hastens it.
THEOREM PaletteIsRefreshed == Spec => []PaletteRefreshed
<1>1. ReplayInv => PaletteRefreshed
  <2> SUFFICES ASSUME RefreshIsPending, Open(cur), frames = Frames, queue = <<>>,
                      sessionOf[cur] \in FocusSessions
               PROVE  focusSent
    BY DEF ReplayInv, PaletteRefreshed
  <2>1. ~ModesWait
    BY DEF ModesWait
  <2> QED
    BY <2>1 DEF RefreshIsPending
<1> QED
  BY <1>1, ReplayInvariance, PTL
=============================================================================
