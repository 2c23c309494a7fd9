# yyork in TLA+

yyork runs coding agents (Claude Code, Codex, Cursor) side by side: every agent
has a session row in SQLite, a durable zellij session, a terminal host that owns
its PTY, and usually a git worktree of its own. A web dashboard, served by one
Go process, shows the sessions as a board and attaches browsers to their
terminals. CLI commands (`yyork spawn`, `stop`, `send`) and agent hooks
(`yyork hooks ...`) are processes of their own that work on the same stores.

This directory specifies the parts of it that are concurrent or that fail in
pieces, checks them with TLC and proves their safety with TLAPS.

    tlc -workers 2 -config MCSessionLifecycle_races.cfg MCSessionLifecycle
    tlapm SessionLifecycleProofs.tla

`PROJECT.json` is the index: the components, the runs, the source lines behind
every definition, one mutant per property, the hazards and the theorems.

## 1. Inventory

Paths are under `src/internal/` unless they say otherwise.

| Component | State it keeps | Operations | Talks to |
| --- | --- | --- | --- |
| Session engine, `session/engine.go` | one mutex per session id and process (`lifecycleLocks`), nothing else | Spawn, Fork, Restart, Revive, EnsureOrchestrator, RemoveProject, Stop, Reconcile, ReconcileAll | store, zellij, git, event bus |
| Session store, `store/` | SQLite table `sessions`, shared by all processes | Insert, Get, List, Delete, MergeMetadata | - |
| Durability provider, `durabilityprovider/` | none; zellij keeps the sessions | CreateSession, KillSession, SessionExists, ListSessionNames, SessionAgentReachable, SendMessage | zellij's command line, terminal hosts |
| Worktrees, `worktree/` | directories and branches | Create, Remove | git |
| Terminal host, `terminalhost/`, `terminalipc/` | PTY, screen model, connected viewers and a bounded channel for each | attach, resize, input, fan-out of output, finish | agent, server, `yyork send` |
| Terminal manager, `terminal/` | clients per session, idle timers | attach, release, Close | browser WebSocket, host socket |
| Event bus and stream, `events/`, `server/sessions.go` | subscribers' bounded channels | Publish, Subscribe, `/api/events` (read and POST) | engine, hooks and CLI (through POST), browsers |
| Control runfile and process, `control/`, `app/` | `server.json`: address, pid, token | Write, Read, RemoveIfOwnedBy, RequestShutdown, boot and shutdown | CLI processes, a second server |
| Agent hooks, `cli/hooks.go` | nothing; each hook is a short process | session-start, prompt, tool, permission, stop: read row, compute fields, merge, forward event | store, control |
| Workspace source, `session/workspace_source.go` | nothing | rows to projects, orchestrators and workers | store |
| HTTP handlers, `server/` | browser-preview targets | patch, fork, restart, projects, files, diff, preview | engine, store |
| Web state, `web/src/features/home/data/` | query cache of `/api/workspace` | poll, invalidate on events, mutate optimistically | server |
| Web terminal, `web/.../terminal-panel.tsx`, `xterm-terminal.tsx` | one WebSocket at a time, one xterm for all sessions, four timers | connect, reconnect, replay, resize, theme | terminal manager |
| Detached terminals, `web/.../workspace-layout.tsx`, `detached-terminal-window.ts` | a record, an interval and a listener per window, the sessions shown as detached | open, focus, poll, pagehide, attach | the browser's windows |
| Canvas preview, `web/.../canvas-web-preview.tsx` | history and address of an iframe, the URL stored per session | navigate, back, reload, register, reports of the frame | preview proxy, preferences |
| CLI, configuration, agent plugins, launcher | none | arguments, files, child processes | all of the above |

What is hard in it:

- *Several processes, three stores, no common transaction.* A session is a row, a
  zellij session and a worktree. The mutex of Restart and Revive is per process;
  Spawn, Stop and the boot sweep take none. Every operation undoes itself by
  hand, on a best-effort basis, and any process can be killed between two steps.
- *Time.* CreateSession waits a bounded time for a session zellij brings up when
  it likes; a host that does not answer yet is told from a dead one by a grace
  period of 15 s.
- *Bounded queues that drop.* Host and event bus never block on a slow reader:
  the host closes the reader's channel, the bus drops the event in silence.
- *Notifications that get lost.* A CLI process or a hook announces a committed
  change over HTTP with a budget of 750 ms and ignores every error.
- *One object for many sessions.* The page has one xterm, one preview and one set
  of preferences, re-pointed at whatever session is selected, while sockets,
  timers, promises and messages of the session before are still under way.
- *Read, compute, merge.* Every writer of a row's metadata reads it first, some
  seconds before they merge.
- *Goroutines that share by lock.* A host has two per connection and three of
  its own, over one mutex, a done channel and sockets with no lock.

What makes each component correct (the properties worth having):

- engine: no worktree leaks, no row loses its worktree before it ends, an id is on
  the board for one stretch of time, the events tell the truth, a revive never
  kills a session that works, the sweep removes only what died, every call
  returns;
- host: a viewer's stream has no hole and no repetition, a slow viewer loses a
  tail and harms nobody, no channel is closed twice, a finished host exits;
- bus and board: a dropped or lost event never leaves a visible board stale for
  good, a board never shows what is not committed;
- control: a running server stays advertised, a stale one never unadvertises it;
- hooks: a merge is whole or nothing, names once given stay, and the status tells
  whether a turn is under way, and what is seen was delivered to who saw it;
- web terminal: one session per screen, no pane without a way back, the PTY at the
  size of the grid;
- detached terminals: a session is behind a placeholder only while somebody watches
  its window, and is docked again when that is gone;
- preview: the stored URL is the one shown, the address bar tells where the frame
  is, and the history survives its own echo;
- terminal manager: a session with clients is never forgotten.

## 2. Modules

| Module | What it is |
| --- | --- |
| `SessionLifecycle` | the engine over its three stores; any number of processes and calls |
| `SessionLife` | abstract: what the board of sessions promises its readers |
| `SessionLifecycleProofs` | theorems about both: rows, worktrees and events |
| `SessionHealthProofs` | theorems about `SessionLifecycle`: what its calls do to running sessions |
| `TerminalHost` | the goroutines of one terminal host |
| `ScreenStream` | abstract: what a shared terminal promises its viewers |
| `TerminalHostProofs` | theorems about it |
| `LiveBoard` | store, writers, event bus, event stream and the browser's query |
| `LiveBoardProofs` | theorems about it |
| `HookMetadata` | the metadata of one row, the hooks, requests and restarts that write it, and the transaction they write it in |
| `MetadataStore` | abstract: what the store promises concurrent writers |
| `HookMetadataProofs` | theorems about it |
| `TerminalPanel` | the page's terminal pane: sockets, timers and xterm's queue |
| `TerminalPanelProofs` | theorems about it |
| `CanvasPreview` | the page's preview of a local web application |
| `CanvasPreviewProofs` | theorems about it |
| `DetachedTerminals` | terminals in windows of their own, and how the page hears of their end |
| `DetachedTerminalsProofs` | theorems about it |
| `MCSessionLifecycle`, `MCTerminalHost`, `MCLiveBoard`, `MCHookMetadata`, `MCTerminalPanel`, `MCCanvasPreview`, `MCDetachedTerminals` | instances for TLC |

A definition whose comment starts with "Mistaken:" is a plausible bug in the
definition after it. It is used by no specification; it shows, put in the place of the right
one, that a property can fail.

### 2.1 SessionLifecycle and SessionLife

State. `rows` is the table (a row keeps what decisions depend on: project, kind,
whether the workspace is a worktree of its own, whether `agentSessionId` is
recorded, and whether it is within `reviveStartupGrace`). `zellij` is what zellij
knows of a name: `coming` (a client was started), `starting` (listed, the host of
its pane not listening yet), `up`, `exited` (listed as EXITED) or `bare` (listed,
no host in its pane). `worktrees` are the ids whose directory exists. A *thread*
is one engine call: its `pc`, the method, the id it works on, the row value it
holds (which may be stale) and the ids its loop has still to visit.
`lifecycleLocks` is per process, as in the code. `strays` is a history variable:
ids one of whose best-effort cleanups failed, or whose call was cut off by a
crash. `created` and `terminated` record the events.

Actions. A call is cut at every access to a store, so one action is one SQLite
statement, git command, zellij command or announcement, with its success and
its failure branch. Several methods share steps the way the code shares
functions: KillSession is `KillProbe` and `KillDelete`, used by Restart, Revive,
Stop and RemoveProject; CreateSession is `CreateSession` and `WaitForSessionUp`.
The environment cancels contexts, kills processes, reboots the machine, lets
sessions appear and decay, and runs the session-start hook.

`Faults` and `Calls` choose what an instance exercises. Most faults are of one
command (`agent`, `store`, `git`, `zellij`) or of a call or process (`cancel`, `crash`,
`reboot`). Three are about what yyork hears of a session that runs: zellij lists it
after CreateSession has given up (`slow`), list-sessions fails for as long as
CreateSession waits, which ignores its errors (`blind`), and a host that runs does
not accept the probe's dial within its second (`deaf`). The theorems of
`SessionLifecycleProofs` hold for any choice; those of `SessionHealthProofs` name the
faults they exclude.

`SessionLife` is the contract with the dashboard: an id is unborn, then perhaps present,
then gone; `session.created` names an id that is or was present,
`session.terminated` one that is gone for good. `RefinesBoard` maps `life` to
the table and to the spawns that may still insert.

### 2.2 TerminalHost and ScreenStream

`readLoop` is `ReadOutput`; `finish` is `Finish`, `CloseListener`, `CloseProcess`
(the first under the mutex, the others after it), `acceptLoop` is `Accept`
and `Exit`; `handleConn` is the `conn` automaton (`first`, `input`, `sizing`,
`adding`, `reading`, `resizing`, `leaving`, `closed`) and `writeToConn` the
`writer` automaton. `resize` is two steps, because it leaves the mutex between
the emulator and the PTY. Output is counted in chunks, so `queue` and `wire`
say which chunks, in which order; `replay` is the output the snapshot stood for
(`Nil` when the emulator has panicked and there is none). Peers close and
stall at any time.

`ScreenStream` is the promise: join with everything so far, then every later
chunk once and in order. `start` and the last chunk on the wire map to it.

### 2.3 LiveBoard

The workspace is the number of committed changes. A writer commits, then
announces: the server on its own bus, another process through `POST /api/events`,
which may be lost. `Publish` sends to every subscribed stream with room and drops
the rest. A board connects (`: connected` is flushed before the handler
subscribes), handles events by `invalidateQueries` - which cancels a fetch under
way unless the board has no data yet - and polls every 3 s while its tab is
visible. Fetches fail, connections break, the server restarts. `due` is a history
variable: the newest change the board was told of.

### 2.4 HookMetadata and MetadataStore

`row` is the metadata of a worker's row, on the keys that decisions depend on. A
writer is a hook process or a request: `fired`, then `computed` (it has read the
row and holds the fields to merge), then `tx` (it has a snapshot of the row in a
deferred transaction), then done. `Begin` and `Commit` or `Refuse` are
MergeMetadata: the first read fixes the snapshot, and if anybody committed since
(`stale`), the update is refused. `HookFields` is `hookFields` per event,
`TitleFields` the title of a first prompt that may or may not be generated,
`Patch` the decisions of `handlePatchSession`, `Restart` and `RestartStamps` the
engine's. The agent is external: it waits for its hooks, except that those of
parallel tool calls overlap, kills one after thirty seconds, and takes all of
them with it. Times are event numbers. `told` and `marks` are history variables:
whether the last change of the agent was reported and no report has been lost since,
whether the last done was of a request that had read the row before the turn was
reported, and which response the request behind the last mark had read (`saw` is what
a request under way has read).

`MetadataStore` is the promise to writers: an update is merged whole into the row
of that moment or not at all, and a deleted row stays deleted. It is what the
one-step merges of `SessionLifecycle` stand for.

### 2.5 TerminalPanel

One xterm is re-pointed at the session the page shows. A socket is a number in
the order of opening; `cur` is the one the connect effect holds and the only one
whose listeners are active. `Connect` is the cleanup of that effect and its next
run, and is part of whatever makes React run it: a switch, a retry, the reconnect
timer. `queue` is what has been written to xterm and not been parsed; `screen`
the sockets whose output it displays; `modesOf` the replay that set its modes.
error and close without `wasClean` are one step (`SocketFails`), since the browser
fires them in one go. Toasts keep the closure of the session they were raised for.

### 2.6 CanvasPreview

`page` is what the last render committed, `state` and `prefs` what has been queued
for the next: handlers of React are closures of the former that update the latter.
After a click React renders at once, so the action commits as well (`Commit`); after
a message or a promise it does so in a later task (`Render`), and any number of
messages may be handled before. `frame` is the iframe with its React key, and
the application in it loads (perhaps elsewhere), moves and reports. `Active` is
`getActivePreviewState`, the echo and its adoption.

`overtaken` is a history variable: since the canvas was opened, a handler has worked
with something of its page that the updates before it had changed. That is so if it
was led by an address or a place in the history the preview has left (a report
compared with the committed `currentUrl`, a click on Back), or if the default URL
it closed over selects another preview than the one it was shown with or the one
that will be shown (`Handle`). Several handlers may well run in one render without
one being overtaken: what they read has then not changed. Once one is, the code
promises little, and the two violation runs show what happens.

### 2.7 DetachedTerminals

An attempt is a click that opens a window; its number is also the id of its
interval and of the window it creates. Only a Picture-in-Picture request awaits
(`asking`, settled by `PipGranted` or `PipRefused`); `window.open` and what follows
it are one step. `Register` and `Forget` are the two ways records, keys and
intervals change. The browser's part is external: one Picture-in-Picture window per
page (`OpenPips`), one window per name (`WindowsNamed`), `closed` at once and
pagehide later or never (`leaving`). `NameOf` may map two sessions to one name, as
the code's replacement of characters does. `PageLeaves` is the page's own document
going: its records vanish, its popups stay.

### 2.8 How the modules relate

The modules meet at interfaces rather than in one product: the lifecycle's
`up` is a host that listens and `exited`/`bare` a host that has exited
(`FinishedHostExits`); its announcements are the commits and events of
`LiveBoard`; its merges are the updates of `MetadataStore`; the socket of a
`TerminalPanel` is a viewer of `TerminalHost`, whose stream without gaps
(`ImplementsStream`) begins with the replay the pane waits for. A product of them has a state space out of TLC's reach and
no property that needs all three.

## 3. Runs

`expect: pass` runs explore their whole state space.

| Run | Instance | What it shows |
| --- | --- | --- |
| `races` | 1 id, 2 calls in 2 processes (server, CLI); Spawn, Revive, Stop, ReconcileAll; all ten kinds of fault | TypeOK, WorktreesAccounted, RowsKeepWorktree, EndIsFinal, EndIsAnnounced, and the refinement of SessionLife |
| `sequential` | 2 ids, 1 call at a time, all nine methods; failing agents, git, zellij and store, deaf hosts, and reboots | LiveSessionHasRow and SweepOnlyDead hold as long as calls do not overlap and zellij lists what it starts in time |
| `revive` | 1 id, 2 calls in one process contending for the lock; Spawn, Restart, Revive, RemoveProject, ReconcileAll; failing agents, git and zellij, and reboots | ReviveSparesHealthy; CallsReturn under fairness |
| `stop_spawn` | violation of LiveSessionHasRow | a Stop between Insert and CreateSession leaves a session without a row |
| `host` | 1 viewer, capacity 2, 4 chunks, 2 resizes | TypeOK, NoGap, ChannelsClosedOnce, refinement of ScreenStream; FinishedHostExits and QueuedOutputArrives under fairness |
| `board` | 1 board, a server and a hook process, capacity 1, 3 changes, 2 faults | TypeOK, CaughtUp; BoardConverges under fairness |
| `pane` | 2 sessions (one wants focus reports), 3 sockets, 1 automatic retry, 2 sizes, replays of 2 messages, messages that arrive while up to 2 writes wait | TypeOK, ScreenIsTheSockets, PtyFollowsGrid, NeverStranded, ReplayIsScrolled, PaletteRefreshed, WorkingConnectionStays; Settles under fairness |
| `preview` | 2 sessions with applications of their own, a URL stored for at least one of them, 3 pages, histories of 2, 2 navigations, 2 reports in one render | TypeOK, StoredUrlIsShown, AddressBarIsTrue, HistoryIsKept; LoadingEnds under fairness |
| `preview_batch` | violation of ReportsKeepHistory | two reports in one render: the history is wiped and the address bar is false |
| `preview_targets` | violation of StoredUrlIsShown | two sessions with applications of their own and nothing stored: one shows the other's history and page |
| `hooks` | 2 overlapping hooks, 1 request, 5 events of the agent, symmetric | TypeOK, StatusIsTrue, SeenWasDelivered, FirstNameStays, and the refinement of MetadataStore |
| `detached` | 3 sessions, two of one window name, 3 clicks | TypeOK, PlaceholderIsWatched; PlaceholderGoes under fairness |

Each violation run refutes a sentence of a doc or a comment; the finding in
`PROJECT.json` quotes it. What is so refuted holds where the cause is absent, and the
passing runs say so: LiveSessionHasRow in `sequential`, where calls do not overlap;
StoredUrlIsShown in `preview`, where no two sessions share a URL and at most one starts
without a stored one; and that reports keep the history, which `preview` checks as
part of HistoryIsKept until a handler is overtaken.

### Bounds, and why they are enough

- *One id in `races` and `revive`.* Engine calls on different ids share no step,
  lock or row; what couples ids are the loops and listings, which `sequential`
  exercises with two.
- *Two threads.* Every race of the code is between a step and one other call that
  has moved under it; the invariants are proved for any number.
- *One viewer, capacity 2, 4 chunks.* A channel fills, drops its viewer, and the
  viewer still drains what it has, while output goes on. TLC has one viewer so that
  the liveness properties are within its reach; the host's safety is proved for any
  number of viewers and any capacity.
- *Three changes, two faults on the board.* One change to be shown, one while its
  fetch is under way, one behind a dropped or lost event. Faults are bounded
  because a board whose every request fails converges on nothing.
- *Three sockets in the pane.* A switch there and back, or a switch with a
  reconnect before or after it; one automatic retry makes the table of delays run
  out. `MaxQueue` is three: a message may arrive while output of the socket before
  and the reset of the switch still wait, so outputs of two sessions, with both
  resets between them, are in xterm's queue together, and so are both messages of a
  replay. The proof of ScreenIsTheSockets covers any number.
- *Histories of two, two navigations, two reports.* Back, forward, the adjacent entry
  and the truncation of what was ahead; ids that return to zero when a target resets;
  two reports that are handled in one render, or around a click. `Stored`
  is the stored URLs a page may start with: nothing, or a page of its
  own application for at least one session.
- *Five events of an agent.* A prompt, two overlapping tool calls and their ends,
  or a start, a turn, a restart and another start.
- *Three clicks on detached windows.* Two requests that overlap, of one session or of
  two, and one more window that a stray interval or a late pagehide can forget.
- `MaxConns`, `MaxOpens`, `MaxNav`, `MaxReports`, `MaxEvents`, `MaxResizes`, `MaxOutput`, `MaxChanges` and `MaxFaults` bound
  actions of the environment only, never a step of the code.

CHECK_DEADLOCK is off in the lifecycle, host, pane and preview runs: all ids may
have been drawn and every call returned, a host ends, and the sockets and
navigations of an instance may be used up.

### Fairness

- *Lifecycle.* WF of a call's steps: a goroutine that can run runs. SF of
  `AcquireLock`: a `sync.Mutex` gives itself to a waiter that has waited 1 ms
  (starvation mode). SF of `WaitForSessionUp`: it ends at its deadline, so a
  concurrent restart cannot keep it waiting by taking the session away and back.
  WF of `SessionAppears`: zellij finishes a start. No call need ever begin.
- *Host.* WF of `finish` once the child is gone (readLoop sees EOF), of the steps to
  the exit, and of each reader and writer. A writer to a stalled peer is blocked,
  not unfair, and QueuedOutputArrives excuses it.
- *Board.* WF of poll, read and answer. Polling is disabled in a
  background tab, so a hidden board is promised nothing. No fairness for events:
  the convergence rests on polling alone.

- *Pane.* WF of the fate of a connection attempt (the browser fires open or error)
  and of the reconnect timer. None for the user, the server, xterm or the other
  timers: a pane settles without them.
- *Preview.* WF of rendering, of the registration's answer (success or failure: a
  fetch settles) and of the frame's load (of an error page, at worst). None for the
  reports of the frame, which a page without the bridge does not send.
- *Detached terminals.* WF of each interval that runs. None for pagehide, which does
  not come when a renderer dies: the poll alone has to bring the terminal back.

One timing assumption is in the model: a session's grace (15 s) does not expire
while a CreateSession (2.5 s) of it is under way or its host is coming up
(`GraceExpires`). A host that needs longer would be revived while it starts; the
constant in the code stands for the same assumption.

## 4. Proofs

All theorems hold for every value of the constants allowed by the named
assumptions (`ConstantsAssumption`, `HostAssumption`, `BoardAssumption`, `PanelAssumption`, `PreviewAssumption`,
`DetachedAssumption`, `Distinct`, `Bounds`: types, capacity at least one, `Nil` and the like distinct); what a theorem needs beyond them it names after ASSUME. None depends on
fairness. Every safety property of a passing run, invariant, action property or
refinement, is stated by one of them, except the preview's StoredUrlIsShown and
AddressBarIsTrue.

*SessionLifecycle* (`TypeCorrect`, `NoWorktreeLeaks`, `RowsHaveWorktrees`,
`TerminatedIsFinal`, `DeletionIsAnnounced`, `EngineImplementsBoard`). The four
invariants are not inductive alone. A Stop could resurrect a row only through a
second spawn of the same id, so `MintedOK`, `FreshOK` and `SpawnOK` say that an
id is drawn once, that until its row is in the table nobody but a restart waiting to
find no row works on it, and that its worktree is accounted for by the spawn. `PcOK` says which methods run
which steps, and `RemoveOK` that removal goes worktree, row, event. `IInv` is
their conjunction with TypeOK and the four. The refinement uses `IInv` at each step:
an insert is an Appear, a delete a Disappear, a spawn's failure or a crash an
Abandon of the ids that were still unborn, an announcement an announcement, and
everything else a stutter.

*SessionLifecycle, running sessions* (`RevivesSpareHealthy`, `LiveSessionsHaveRows`,
`SweepsOnlyDead`, in `SessionHealthProofs`). All need that no call is cancelled or
killed and that CreateSession sees a session that comes up (`Undisturbed`: no
`cancel`, `crash`, `slow` or `blind`). Without that the claims are false: a Spawn
that gives up waiting rolls back the row of a session that runs, and a Restart
that does so begins no grace (*Slow spawn* in section 5).

`RevivesSpareHealthy` is for any number of calls of one process (`OneProcess`: the
lock is a mutex of the engine) whose store answers, since a merge that fails
begins no grace, and whose probe is accepted by a host that runs (`Smooth`: besides,
no `store` and no `deaf`). `ReviveInv` says that a restart past its lock holds it (`LockAt`),
that the row of a spawn is fresh from its insert until the session is listed
(`SpawnFreshAt`), and that a session that is coming up has a fresh row, no row, or
the restart that started it between its wait and its merge (`GraceFor`). So when a Revive has the
lock and reads a row out of its grace, nothing of that id is coming up and no spawn
is on its way (`Settled`); the lock keeps other restarts away, the probe excludes a
host that is up, and from there to the kill only a restart or a spawn could change
that (`ReviveAt`).

`LiveSessionsHaveRows` and `SweepsOnlyDead` are about the behaviours in which no two
calls that overlap in time are about one session, which is what `Apart` says in
every state: the session a call works on, and for a sweep also those it has listed.
That is more than the run `sequential` has, where calls do not overlap, and all
that can be had: `stop_spawn` is a behaviour with two calls on one id.
`AliveInv` says that whoever started a session waits for it (`ComingFor`), that a
session that runs or comes up has a row (`AliveFor`), that where a call is about to create
a session or to remove a row nothing of that id runs (`ClearAt`), and that a sweep
past its listing has only such ids before it (`SweepAt`). Stores, agents, git, zellij
commands and probes may fail.

*TerminalHost* (`TypeCorrect`, `StreamsHaveNoGap`, `ChannelsAreClosedOnce`,
`HostImplementsStream`). `IInv` adds to the properties that an emulator that works
has been fed everything (`ScreenOK`), which is what makes a snapshot equal to the
start of a stream, and that a connection before `addClient` has an empty stream
(`StreamOK`). Two lemmas on sequences carry it: appending the next chunk to the
queue (`AppendContinues`) and moving its head to the wire (`MoveContinues`)
continue the stream. Steps are grouped by what they do to the fan-out: nothing,
closing channels, output, joining, writing.

*LiveBoard* (`TypeCorrect`, `DropsAreHarmless`, `StoreIsTheTruth`). A full channel
is one that is not empty: an event that is dropped finds one still to be
handled, and handling it restarts the fetch. `Fresh` is that argument as an
invariant: with channel and wire empty, an idle board shows, and an answered one
has read, everything it was told of. `Told` says that what a board was told of is
forgotten with its stream, `Behind` that nothing is ahead of the store.

*HookMetadata* (`TypeCorrect`, `NamesStay`, `Implements`, `StatusStaysTrue`,
`SeenStaysDelivered`). The
refinement needs that an open transaction that is not stale has the row of this
moment as its snapshot, so that merging into the snapshot is merging into the row
(`Current`). The names stay because a hook that holds a first title or id read a
row without one (`Unnamed`), and whoever wrote one since is a hook that cannot
overlap it (`Alone` says which can). StatusIsTrue rests on what is in flight
(`Reports`): a running hook other than the start hook holds `prompt` if its event
is stop and `working` or `triage` otherwise, and a request other than a restart
sets `done`, after reading a row that waits, or nothing. So `done` over a turn is of a
request that read before the turn was reported: any other way to it is excluded.
For what is seen: times are of events that happened (`Elapsed`), a response about to
be merged is the newest event there is, since the agent waits for the stop hook
(`StopIsNow`), a request that has read a response marks that one and no later one
(`MarkOfResponse`), and so the row's mark is of the response its request had read
(`RowMark`). A request that read a row without a response, after a restart, marks by
the time of the last activity, and SeenWasDelivered says nothing of it.

*DetachedTerminals* (`TypeCorrect`, `EveryPlaceholderIsWatched`). The two invariants
are inductive together. Forgetting a session clears the interval of its record: no
other record loses its own, because attempts are recorded for the session they were
made for. A second window of a name would need two that found none.

*TerminalPanel* (`TypeCorrect`, `PaneIsNeverStranded`, `PtySizeIsCurrent`,
`WorkingIsKept`, `OneSessionPerScreen`, `ReplayEndsScrolled`, `PaletteIsRefreshed`).
`Inv` adds that a reconnect timer runs only
after the socket at hand has failed, that an open socket is never shown as lost,
and that the debounce will send the size the grid has. For the screen, `ScreenInv`
reads what xterm displays and what it has still to parse as one line of outputs:
outputs of different sockets have a reset between them, and behind the last reset
is only what the current socket of the shown session sent, unless the next
message brings a reset with it. A switch or retry, a message and a parsed write
each keep it. For what a replay ends with, `ReplayInv` follows the two promises a
reconnect makes: an offset that is due after a message is in a write of the queue
or has its timer (`OffsetIsPending`), and once an open socket delivers, the refresh of the
colours is due or done, and after the last message of a replay done or carried by
a write with the modes (`RefreshIsPending`); `FirstIsPrepared` is what starts them,
the reset before the first message.

*CanvasPreview* (`TypeCorrect`, `HistoryStaysKept`). Neither has a hypothesis on the
instance: targets may share pages or have none stored, and any number of reports
may be handled in one render. Until a handler is overtaken the index points into
the history, because a handler then updates the history it was shown. The history
survives the echo of a stored URL because a page that has not yet rendered the URL
stored last is one of a state that is at that URL, or at the URL it was made for
(`EchoFollows`); a handler that stores a URL moves the preview there
(`EchoKeepsHistory`), and one that stores nothing leaves it where the stored URL
is (`LikeBaseKeeps`).

Only model-checked: the liveness properties (CallsReturn, FinishedHostExits,
QueuedOutputArrives, BoardConverges, Settles, LoadingEnds, PlaceholderGoes), since
the prover handles neither fairness nor ENABLED; and StoredUrlIsShown and
AddressBarIsTrue of the preview, which are false for targets that share a URL or
have none stored (`preview_targets`), so that a theorem about them would be about
the instances in which they are not exposed. Where a theorem has hypotheses, the
paragraphs above say why, and the run that checks its property is an instance that
satisfies them. The theorem StoreIsTheTruth is proved and needs no run.

## 5. What is not modelled

- Data: prompts, titles, permissions, restart counts, terminal escape sequences,
  the text of commands, layouts and environment. `publish(session.updated)` and the
  reload of the row after a restart are folded into `MergeRestart`: neither
  changes a store.
- `yyork send` of one process reviving what the server is reviving: the lifecycle
  lock does not reach across processes (`cli/commands.go:737`).
  `revive` checks, and RevivesSpareHealthy proves, the promise within one process.
- A context that is cancelled between CreateSession and MergeMetadata leaves a
  restarted session without its new grace; the model has the step, no property
  forbids it.
- The pipe through which the emulator answers terminal queries (`pumpResponses`):
  its locking is in the emulator, a library.
- Optimistic patches of the web client: each is followed by an invalidation in the
  same tick.
- Files, diff, plugins, configuration, layout and packaging: stateless, or
  rendering, or data. `PROJECT.json` lists every one with its reason.

### Behaviours the models have and no run singles out

Seen while modelling. The models contain each of the first group as ordinary
steps; the passing properties are those that survive them.

- *Boot sweep.* ReconcileAll lists the rows once: one whose `agentSessionId` is
  recorded after the listing is deleted, although `engine.go:990` says such rows
  never are.
- *Slow spawn.* A Spawn that gives up waiting deletes row and worktree and leaves
  the session zellij brings up later. waitForSessionUp ignores the errors of
  list-sessions (`zellij_lifecycle.go:375`), so if that keeps failing for the
  2.5 s, the row of a session that runs already is rolled back (`engine.go:303`
  says "no zellij session is left running"). A Restart that gives up so returns
  without merging `restartedAt`: its session has no grace, and the next Revive kills it
  while it comes up. Faults `slow` and `blind`.
- *Deaf host.* The probe of Revive takes every failed dial, its one-second timeout
  and a full backlog included, for a host that is down (`zellij_lifecycle.go:227-238`):
  a busy host loses its session, although Revive's comment says that a healthy one
  "costs one socket probe and is returned unchanged" (`engine.go:785`). Fault `deaf`.
- *Two ensures.* EnsureOrchestrator lists and then spawns: two at a time spawn two
  orchestrators (`engine.go:871`, `engine.go:882`).
- *Two resizes.* The emulator is resized under the mutex and the PTY after it; two
  viewers that resize at once may leave them with different sizes (`host.go:371`).
- *Stream start.* `: connected` is sent before Subscribe: an event in between
  reaches nobody (`server/sessions.go:478`). The poll repairs it.
- *Frozen viewer.* A dropped viewer stays connected and frozen until it reconnects
  (`host.go:398`); `finish` may overtake the last chunks of a writer (`host.go:302`).
- *Event storm.* Every event cancels the fetch under way (`workspace.ts:78`).
- *Done over working.* PATCH decides from a row read earlier: a turn that is reported
  in between is overwritten with done (`server/sessions.go:219`; `marks.late`). Two
  PATCHes may move `seen` backwards. After a restart, before the next response,
  PATCH marks as seen whatever was delivered up to the restart.
- *Refused merges.* MergeMetadata reads and then writes in a deferred transaction:
  when another process commits in between, SQLite refuses the write at once,
  whatever the busy timeout (`store.go:99`), and nothing retries: the hook's report
  is lost (`store/sessions.go:186`, action `Refuse`).
- *Triage overwritten.* The hook of a parallel tool call writes working over a
  question that waits for the user. Bulletins are rewritten outside the
  transaction and get lost the same way.
- *Interrupts are silent.* No hook tells of an interrupted turn: the board says
  working until the next event. After a restart the status is that of whoever
  merges last, the engine (prompt) or the start hook (working).
- *Early scroll.* Output of the session before, parsed after a switch, starts the
  scroll timer of the new one: its saved offset may be applied before its replay.
- *Old toasts.* A toast's Reconnect tears down the socket of the session shown now.
- *Focus report.* The comment at `terminal-panel.tsx:375` has the palette refresh
  wait for the replay's modes; the modes of the session before satisfy it as well,
  and the FocusIn goes to the new socket early. PaletteRefreshed says what is kept:
  each replay gets one.
- *Late clearing.* A hard reload rebinds the frame on the default URL of its click;
  if the user navigated twice meanwhile, the history starts anew
  (`canvas-web-preview.tsx:288`). If a handler runs before that is rendered, the next
  navigation may have the id of the one before, no effect runs, and the indicator
  stays on.
- *Several reports in a render.* Run `preview_batch`. The address bar is then false
  as well: it shows the stored URL, not where the application is
  (`canvas-web-preview.tsx:347`).
- *Stray intervals.* Two clicks that detach one session while the first request is
  pending leave the first interval without a record (`workspace-layout.tsx:1961`).
  When its window is closed, it forgets the session every 500 ms for as long as the
  page lives, and a window opened later loses its placeholder within one tick.
- *Replaced windows.* hasOpenDocumentPictureInPictureWindow is read at the click: two
  overlapping requests both go to Picture-in-Picture and the second closes the
  first one's window, which the test at `detached-terminal-window.browser.spec.ts:80`
  rules out for requests that do not overlap.
- *Reused popups.* A popup found under its name is still unloading its old document
  when the listener is added: its pagehide forgets the session at once, and the
  terminal is shown twice.

Outside every model: annotations lost when `mutate` callbacks are dropped with
their component (`canvas-web-preview.tsx:362`), preferences written as a whole
from a stale render or another tab (`workspace-layout.tsx:591`), and review
state keyed by patch only (`canvas-diff-view.tsx:366`).

## 6. Plan

Done, in order of importance: the engine and its stores, the terminal host, the
live board, the hooks and their transaction, the terminal pane, the preview, the
detached terminals.

Next, each with its properties and, where safety allows, its proof:

1. `Runfile` - `control.go` and `app.Run`: servers that write, replace and remove
   the runfile, `RequestShutdown`, CLI processes that read it. A running server
   stays advertised; a reader never acts on half a file. (`control.go:123`,
   `control.go:168`, `app.go:236`.)
2. `TerminalAttach` - the manager's counts and timers, the fallback when a host
   cannot be dialled, and the socket file two hosts of one session share
   (`attach_perclient.go:67`, `attach_perclient.go:120`, `manager.go:185`,
   `host.go:116`). Abstractly: the set of sessions with clients.
3. `SendMessage` - two senders and the fallback (`zellij.go:69`, `zellij.go:108`).
4. `Workspace` - the derivation of projects, orchestrators and columns from rows as
   operators over sets of rows, and the partial failures of project creation
   (`server/projects.go:133`).
5. `Preferences` - the page's preferences as shared state of several tabs.

Theorems planned: those of the modules above as they come. For the modules there
are, what is proved of the engine under `Undisturbed` can be asked again with
cancelled calls, with the sessions they leave in `strays`.
