--------------------------- MODULE SessionLifecycle ---------------------------
(***************************************************************************)
(* The session engine (internal/session/engine.go) over the three stores   *)
(* it keeps consistent: the rows of the SQLite sessions table, the zellij  *)
(* sessions, and the per-session git worktrees.                            *)
(*                                                                         *)
(* Several operating-system processes run an engine at the same time: the  *)
(* server and every `yyork spawn`, `stop` or `send`.  They share the       *)
(* three stores and nothing else; a thread is one engine call in progress  *)
(* (an HTTP handler's goroutine, or the body of a CLI command).  Calls are *)
(* cut at every access to a shared store, so any interleaving of two calls *)
(* on one session is a behaviour of this module.                           *)
(***************************************************************************)
EXTENDS Naturals, FiniteSets

CONSTANTS
    Ids,        \* session ids defaultNewID can draw
    Projects,   \* project paths
    Engines,    \* processes that run an engine
    Threads,    \* calls that can be in progress at once
    EngineOf,   \* the process a thread belongs to
    Calls,      \* the engine methods this instance exercises
    Faults,     \* what can go wrong in this instance
    Nil         \* "no row", "no id", "no lock holder"

AllCalls  == {"Spawn", "Fork", "Restart", "Revive", "EnsureOrchestrator",
              "RemoveProject", "Stop", "Reconcile", "ReconcileAll"}
AllFaults == {"agent",    \* building a command, installing hooks, PreLaunch
              "store",    \* a SQLite statement returns an error
              "git",      \* a git command returns an error
              "zellij",   \* a zellij command returns an error
              "slow",     \* a session needs longer than CreateSession waits
              "blind",    \* list-sessions keeps failing while CreateSession waits
              "deaf",     \* the dial of a host that runs fails or times out
              "cancel",   \* the caller's context is cancelled
              "crash",    \* an engine process is killed
              "reboot"}   \* the machine restarts

Row == [project : Projects, kind : {"worker", "orchestrator"},
        isolated : BOOLEAN,   \* WorkspacePath is a worktree of its own
        native : BOOLEAN,     \* metadata has agentSessionId
        fresh : BOOLEAN]      \* created or restarted within reviveStartupGrace

ASSUME ConstantsAssumption ==
    /\ EngineOf \in [Threads -> Engines]
    /\ Calls \subseteq AllCalls
    /\ Faults \subseteq AllFaults
    /\ Nil \notin Ids \union Threads \union Row \union AllCalls

VARIABLES
    rows,        \* the sessions table: id -> row, or Nil
    zellij,      \* id -> state of the zellij session of that name
    worktrees,   \* ids whose worktree and branch exist on disk
    minted,      \* ids drawn so far
    pc,          \* thread -> the next step of its call
    call,        \* thread -> the method it runs
    sid,         \* thread -> the session it is working on
    todo,        \* thread -> sessions its loop has still to visit
    row,         \* thread -> the store.Session value it holds
    live,        \* thread -> its context is not cancelled
    lifecycleLocks, \* process, id -> the thread holding that mutex
    created, terminated, \* ids announced by session.created / .terminated
    strays       \* ids with a cleanup that failed or was cut off (history)

stores == <<rows, zellij, worktrees>>
locals == <<call, sid, todo, row, live, lifecycleLocks>>
events == <<created, terminated>>
vars   == <<rows, zellij, worktrees, minted, pc, call, sid, todo, row, live,
            lifecycleLocks, created, terminated, strays>>

(***************************************************************************)
(* What zellij knows of a name.  "coming": a client was started, the       *)
(* server does not list the session yet; "starting": listed, the terminal  *)
(* host of its pane does not listen yet; "up": the host answers;           *)
(* "exited": listed as EXITED; "bare": listed, with no host in its pane.   *)
(***************************************************************************)
ZellijState == {"none", "coming", "starting", "up", "exited", "bare"}
Listed(id)  == zellij[id] \notin {"none", "coming"}
Healthy     == {"starting", "up"}

SpawnPc == {"worktree", "prepare", "insert", "create", "await", "announce",
            "undoRow", "undoTree"}
RestartPc == {"lock", "probe", "load", "prepare", "killProbe", "killDelete",
              "create", "await", "merge", "awaitAgent"}
StopPc  == {"next", "killProbe", "killDelete", "tree", "delete", "announceEnd"}
SweepPc == {"sweepProbe", "next", "tree", "delete", "announceEnd"}
Pc == {"idle"} \union SpawnPc \union RestartPc \union StopPc \union SweepPc

Spawning(t)   == call[t] \in {"Spawn", "Fork", "EnsureOrchestrator"}
Restarting(t) == call[t] \in {"Restart", "Revive"}
Stopping(t)   == call[t] \in {"Stop", "RemoveProject"}
Sweeping(t)   == call[t] \in {"Reconcile", "ReconcileAll"}
WorksOn(t, id) == pc[t] # "idle" /\ sid[t] = id

Init ==
    /\ rows = [id \in Ids |-> Nil]
    /\ zellij = [id \in Ids |-> "none"]
    /\ worktrees = {}
    /\ minted = {}
    /\ pc = [t \in Threads |-> "idle"]
    /\ call = [t \in Threads |-> Nil]
    /\ sid = [t \in Threads |-> Nil]
    /\ todo = [t \in Threads |-> {}]
    /\ row = [t \in Threads |-> Nil]
    /\ live = [t \in Threads |-> TRUE]
    /\ lifecycleLocks = [e \in Engines |-> [id \in Ids |-> Nil]]
    /\ created = {}
    /\ terminated = {}
    /\ strays = {}

-----------------------------------------------------------------------------
(* Helpers.  Every store, git and zellij call takes the caller's context:  *)
(* it fails once that is cancelled, and may fail where Faults says so.     *)

MayFail(t, what) == ~live[t] \/ what \in Faults

Goto(t, label) == pc' = [pc EXCEPT ![t] = label]

\* Mistaken: a method without the deferred Unlock.
ReturnKeepingLock(t) ==
    /\ Goto(t, "idle")
    /\ call' = [call EXCEPT ![t] = Nil]
    /\ sid' = [sid EXCEPT ![t] = Nil]
    /\ todo' = [todo EXCEPT ![t] = {}]
    /\ row' = [row EXCEPT ![t] = Nil]
    /\ live' = [live EXCEPT ![t] = TRUE]
    /\ UNCHANGED lifecycleLocks

\* Return from the engine method; the deferred Unlock of Restart and Revive.
Return(t) ==
    /\ Goto(t, "idle")
    /\ call' = [call EXCEPT ![t] = Nil]
    /\ sid' = [sid EXCEPT ![t] = Nil]
    /\ todo' = [todo EXCEPT ![t] = {}]
    /\ row' = [row EXCEPT ![t] = Nil]
    /\ live' = [live EXCEPT ![t] = TRUE]
    /\ lifecycleLocks' = [lifecycleLocks EXCEPT ![EngineOf[t]] =
           [id \in Ids |-> IF @[id] = t THEN Nil ELSE @[id]]]

Continue(t, label) == Goto(t, label) /\ UNCHANGED locals

\* The call method m begins, holding row r for session id, visiting ids.
Begin(t, m, id, r, ids, label) ==
    /\ m \in Calls
    /\ pc[t] = "idle"
    /\ Goto(t, label)
    /\ call' = [call EXCEPT ![t] = m]
    /\ sid' = [sid EXCEPT ![t] = id]
    /\ row' = [row EXCEPT ![t] = r]
    /\ todo' = [todo EXCEPT ![t] = ids]
    /\ UNCHANGED <<stores, live, lifecycleLocks, events, strays>>

Stray(id) == strays' = strays \union {id}

-----------------------------------------------------------------------------
(* Spawn, Fork and EnsureOrchestrator.                                     *)

\* Mistaken: an id generator that repeats itself.
BeginCreateReusingId(t, m, p, k, isolated, native) ==
    \E id \in Ids :
        /\ minted' = minted \union {id}
        /\ Begin(t, m, id,
                 [project |-> p, kind |-> k, isolated |-> isolated,
                  native |-> native, fresh |-> TRUE],
                 {}, IF isolated THEN "worktree" ELSE "prepare")

BeginCreate(t, m, p, k, isolated, native) ==
    \E id \in Ids \ minted :
        /\ minted' = minted \union {id}
        /\ Begin(t, m, id,
                 [project |-> p, kind |-> k, isolated |-> isolated,
                  native |-> native, fresh |-> TRUE],
                 {}, IF isolated THEN "worktree" ELSE "prepare")

BeginSpawn(t) ==
    \E p \in Projects, k \in {"worker", "orchestrator"}, isolated \in BOOLEAN :
        /\ k = "orchestrator" => ~isolated
        /\ BeginCreate(t, "Spawn", p, k, isolated, FALSE)

\* The fork command is built from the source's native id, read here.
BeginFork(t) ==
    \E src \in Ids :
        /\ rows[src] # Nil
        /\ rows[src].kind = "worker"
        /\ BeginCreate(t, "Fork", rows[src].project, "worker", TRUE,
                       rows[src].native)

\* Spawns only when the listing it starts with has no orchestrator.
BeginEnsureOrchestrator(t) ==
    \E p \in Projects :
        /\ \A id \in Ids : ~ /\ rows[id] # Nil
                             /\ rows[id].project = p
                             /\ rows[id].kind = "orchestrator"
        /\ BeginCreate(t, "EnsureOrchestrator", p, "orchestrator", FALSE, FALSE)

\* git worktree add.  A git killed halfway leaves what it has made, and
\* this error path has no rollback.
CreateWorktree(t) ==
    /\ pc[t] = "worktree"
    /\ \/ /\ live[t]
          /\ worktrees' = worktrees \union {sid[t]}
          /\ Continue(t, "prepare")
          /\ UNCHANGED strays
       \/ /\ MayFail(t, "git")
          /\ \E made \in SUBSET {sid[t]} :
                /\ worktrees' = worktrees \union made
                /\ strays' = strays \union made
          /\ Return(t)
    /\ UNCHANGED <<rows, zellij, minted, events>>

\* Command, hooks and PreLaunch.  A fork, a restart and a revive build their
\* command from the native id in row, and give up without one.
Prepare(t) ==
    /\ pc[t] = "prepare"
    /\ LET hasCommand == call[t] \in {"Fork", "Restart", "Revive"} => row[t].native
       IN  \/ /\ live[t]
              /\ hasCommand
              /\ Continue(t, IF Spawning(t) THEN "insert" ELSE "killProbe")
           \/ /\ MayFail(t, "agent") \/ ~hasCommand
              /\ IF Spawning(t) THEN Continue(t, "undoTree") ELSE Return(t)
    /\ UNCHANGED <<stores, minted, events, strays>>

Insert(t) ==
    /\ pc[t] = "insert"
    /\ \/ /\ live[t]
          /\ rows' = [rows EXCEPT ![sid[t]] = [row[t] EXCEPT !.native = FALSE]]
          /\ Continue(t, "create")
       \/ /\ MayFail(t, "store")
          /\ Continue(t, "undoTree")
          /\ UNCHANGED rows
    /\ UNCHANGED <<zellij, worktrees, minted, events, strays>>

CreateFailed(t) == IF Spawning(t) THEN Continue(t, "undoRow") ELSE Return(t)

\* CreateSession, first half: start the zellij client.  A name zellij
\* already lists makes that client exit and leaves the session as it is.
CreateSession(t) ==
    /\ pc[t] = "create"
    /\ \/ /\ live[t]
          /\ zellij' = IF Listed(sid[t]) THEN zellij
                       ELSE [zellij EXCEPT ![sid[t]] = "coming"]
          /\ Continue(t, "await")
       \/ /\ MayFail(t, "zellij")
          /\ CreateFailed(t)
          /\ UNCHANGED zellij
    /\ UNCHANGED <<rows, worktrees, minted, events, strays>>

\* CreateSession, second half: poll until zellij lists the name, passing over
\* errors of list-sessions.  At the deadline only the client is killed: the
\* session may be running unseen, or still come up.
WaitForSessionUp(t) ==
    /\ pc[t] = "await"
    /\ \/ /\ live[t]
          /\ Listed(sid[t])
          /\ Continue(t, IF Spawning(t) THEN "announce" ELSE "merge")
          /\ UNCHANGED zellij
       \/ /\ \/ MayFail(t, "blind")
             \/ "slow" \in Faults /\ ~Listed(sid[t])
             \/ zellij[sid[t]] = "none"
          /\ \/ UNCHANGED zellij
             \/ /\ zellij[sid[t]] = "coming"
                /\ zellij' = [zellij EXCEPT ![sid[t]] = "none"]
          /\ CreateFailed(t)
    /\ UNCHANGED <<rows, worktrees, minted, events, strays>>

\* Mistaken: the rollback forgets the row.
UndoRowSkipped(t) ==
    /\ pc[t] = "undoRow"
    /\ Continue(t, "undoTree")
    /\ UNCHANGED <<stores, minted, events, strays>>

\* `_ = e.repo.Delete(ctx, id)`: the error is dropped.
UndoRow(t) ==
    /\ pc[t] = "undoRow"
    /\ \/ live[t] /\ rows' = [rows EXCEPT ![sid[t]] = Nil] /\ UNCHANGED strays
       \/ MayFail(t, "store") /\ Stray(sid[t]) /\ UNCHANGED rows
    /\ Continue(t, "undoTree")
    /\ UNCHANGED <<zellij, worktrees, minted, events>>

\* worktree.Remove as its callers use it: the error is dropped.
RemoveWorktree(t) ==
    \/ live[t] /\ worktrees' = worktrees \ {sid[t]} /\ UNCHANGED strays
    \/ /\ MayFail(t, "git")
       /\ strays' = strays \union ({sid[t]} \intersect worktrees)
       /\ UNCHANGED worktrees

\* Mistaken: an error path without rollbackWorktree.
UndoTreeSkipped(t) ==
    /\ pc[t] = "undoTree"
    /\ Return(t)
    /\ UNCHANGED <<stores, minted, events, strays>>

UndoTree(t) ==
    /\ pc[t] = "undoTree"
    /\ IF row[t].isolated THEN RemoveWorktree(t)
                          ELSE UNCHANGED <<worktrees, strays>>
    /\ Return(t)
    /\ UNCHANGED <<rows, zellij, minted, events>>

Announce(t) ==
    /\ pc[t] = "announce"
    /\ created' = created \union {sid[t]}
    /\ Return(t)
    /\ UNCHANGED <<stores, minted, terminated, strays>>

-----------------------------------------------------------------------------
(* Restart and Revive.                                                     *)

BeginRestart(t, m) ==
    /\ \E id \in minted : Begin(t, m, id, Nil, {}, "lock")
    /\ UNCHANGED minted

\* Wait for lifecycleLock(id); Revive then loads the row it will judge.
AcquireLock(t) ==
    /\ pc[t] = "lock"
    /\ lifecycleLocks[EngineOf[t]][sid[t]] = Nil
    /\ \/ /\ call[t] = "Restart" \/ (live[t] /\ rows[sid[t]] # Nil)
          /\ lifecycleLocks' = [lifecycleLocks EXCEPT ![EngineOf[t]][sid[t]] = t]
          /\ row' = [row EXCEPT ![t] = IF call[t] = "Restart" THEN @ ELSE rows[sid[t]]]
          /\ Goto(t, IF call[t] = "Restart" THEN "load" ELSE "probe")
          /\ UNCHANGED <<call, sid, todo, live>>
       \/ /\ call[t] = "Revive"
          /\ MayFail(t, "store") \/ rows[sid[t]] = Nil
          /\ Return(t)
    /\ UNCHANGED <<stores, minted, events, strays>>

\* Mistaken: no grace for a session that is still starting.
ProbeAgentWithoutGrace(t) ==
    /\ pc[t] = "probe"
    /\ IF live[t] /\ zellij[sid[t]] # "up"
       THEN Continue(t, "load")
       ELSE Return(t)
    /\ UNCHANGED <<stores, minted, events, strays>>

\* A reachable host or a session within its grace period is left alone.  A
\* cancelled probe is an error; any other failed dial reads as "unreachable".
ProbeAgent(t) ==
    /\ pc[t] = "probe"
    /\ \/ /\ ~live[t] \/ zellij[sid[t]] = "up" \/ row[t].fresh
          /\ Return(t)
       \/ /\ live[t]
          /\ zellij[sid[t]] # "up" \/ "deaf" \in Faults
          /\ ~row[t].fresh
          /\ Continue(t, "load")
    /\ UNCHANGED <<stores, minted, events, strays>>

LoadSource(t) ==
    /\ pc[t] = "load"
    /\ \/ /\ live[t] /\ rows[sid[t]] # Nil
          /\ row' = [row EXCEPT ![t] = rows[sid[t]]]
          /\ Goto(t, "prepare")
          /\ UNCHANGED <<call, sid, todo, live, lifecycleLocks>>
       \/ /\ MayFail(t, "store") \/ rows[sid[t]] = Nil
          /\ Return(t)
    /\ UNCHANGED <<stores, minted, events, strays>>

\* Mistaken: an upsert, which leaves half a row for a session that is gone.
MergeRestartUpserts(t) ==
    /\ pc[t] = "merge"
    /\ live[t]
    /\ rows' = [rows EXCEPT ![sid[t]] =
           IF @ = Nil THEN [fresh |-> TRUE] ELSE [@ EXCEPT !.fresh = TRUE]]
    /\ Return(t)
    /\ UNCHANGED <<zellij, worktrees, minted, events, strays>>

\* MergeMetadata(restartMetadataFields): restartedAt starts a new grace.
MergeRestart(t) ==
    /\ pc[t] = "merge"
    /\ \/ /\ live[t] /\ rows[sid[t]] # Nil
          /\ rows' = [rows EXCEPT ![sid[t]].fresh = TRUE]
          /\ IF call[t] = "Revive" THEN Continue(t, "awaitAgent") ELSE Return(t)
       \/ /\ MayFail(t, "store") \/ rows[sid[t]] = Nil
          /\ Return(t)
          /\ UNCHANGED rows
    /\ UNCHANGED <<zellij, worktrees, minted, events, strays>>

\* Bounded by reviveReadyBudget: it may return whatever it has seen.
AwaitAgent(t) ==
    /\ pc[t] = "awaitAgent"
    /\ Return(t)
    /\ UNCHANGED <<stores, minted, events, strays>>

-----------------------------------------------------------------------------
(* KillSession, for Restart and Stop.                                      *)

AfterKill(t) == Continue(t, IF Restarting(t) THEN "create" ELSE "tree")

\* Mistaken: takes every session for gone.
KillProbeAssumesGone(t) ==
    /\ pc[t] = "killProbe"
    /\ AfterKill(t)
    /\ UNCHANGED <<stores, minted, events, strays>>

KillProbe(t) ==
    /\ pc[t] = "killProbe"
    /\ \/ /\ live[t]
          /\ IF Listed(sid[t]) THEN Continue(t, "killDelete") ELSE AfterKill(t)
       \/ /\ MayFail(t, "zellij")
          /\ Return(t)
    /\ UNCHANGED <<stores, minted, events, strays>>

KillDelete(t) ==
    /\ pc[t] = "killDelete"
    /\ \/ /\ live[t]
          /\ zellij' = IF Listed(sid[t]) THEN [zellij EXCEPT ![sid[t]] = "none"]
                       ELSE zellij
          /\ AfterKill(t)
       \/ /\ MayFail(t, "zellij")
          /\ Return(t)
          /\ UNCHANGED zellij
    /\ UNCHANGED <<rows, worktrees, minted, events, strays>>

-----------------------------------------------------------------------------
(* Stop, RemoveProject, Reconcile and ReconcileAll: loops that remove.     *)

BeginStop(t) ==
    /\ \E id \in minted : Begin(t, "Stop", Nil, Nil, {id}, "next")
    /\ UNCHANGED minted

BeginRemoveProject(t) ==
    /\ \E p \in Projects :
          Begin(t, "RemoveProject", Nil, Nil,
                {id \in Ids : rows[id] # Nil /\ rows[id].project = p}, "next")
    /\ UNCHANGED minted

\* The rows without a native id, as they are when the sweep lists them.
BeginReconcileAll(t) ==
    /\ \E id \in Ids : rows[id] # Nil
    /\ Begin(t, "ReconcileAll", Nil, Nil,
             {id \in Ids : rows[id] # Nil /\ ~rows[id].native}, "sweepProbe")
    /\ UNCHANGED minted

BeginReconcile(t) ==
    /\ \E id \in Ids :
          /\ rows[id] # Nil
          /\ Begin(t, "Reconcile", Nil, Nil,
                   IF rows[id].native THEN {} ELSE {id}, "sweepProbe")
    /\ UNCHANGED minted

\* Mistaken: sweeps what is alive too.
SweepWithoutProbe(t) ==
    /\ pc[t] = "sweepProbe"
    /\ Goto(t, "next")
    /\ UNCHANGED <<stores, minted, locals, events, strays>>

\* ListSessionNames, once, for the whole sweep.
SweepProbe(t) ==
    /\ pc[t] = "sweepProbe"
    /\ \/ /\ live[t]
          /\ todo' = [todo EXCEPT ![t] = {id \in @ : ~Listed(id)}]
          /\ Goto(t, "next")
          /\ UNCHANGED <<call, sid, row, live, lifecycleLocks>>
       \/ /\ MayFail(t, "zellij")
          /\ Return(t)
    /\ UNCHANGED <<stores, minted, events, strays>>

\* The next session of the loop; Stop loads its row, a sweep does not.
NextSession(t) ==
    /\ pc[t] = "next"
    /\ \/ todo[t] = {} /\ Return(t)
       \/ Stopping(t) /\ MayFail(t, "store") /\ Return(t)
       \/ \E id \in todo[t] :
             /\ Stopping(t) => live[t]
             /\ todo' = [todo EXCEPT ![t] = @ \ {id}]
             /\ IF Stopping(t) /\ rows[id] = Nil
                THEN UNCHANGED <<pc, sid>>
                ELSE /\ sid' = [sid EXCEPT ![t] = id]
                     /\ Goto(t, IF Stopping(t) THEN "killProbe" ELSE "tree")
             /\ UNCHANGED <<call, row, live, lifecycleLocks>>
    /\ UNCHANGED <<stores, minted, events, strays>>

RemoveSessionWorktree(t) ==
    /\ pc[t] = "tree"
    /\ RemoveWorktree(t)
    /\ Continue(t, "delete")
    /\ UNCHANGED <<rows, zellij, minted, events>>

\* Mistaken: drops the error of the delete, as the worktree's is dropped.
DeleteRowIgnoringError(t) ==
    /\ pc[t] = "delete"
    /\ \/ live[t] /\ rows' = [rows EXCEPT ![sid[t]] = Nil]
       \/ MayFail(t, "store") /\ UNCHANGED rows
    /\ Continue(t, "announceEnd")
    /\ UNCHANGED <<zellij, worktrees, minted, events, strays>>

\* Mistaken: publishes nothing.
DeleteRowInSilence(t) ==
    /\ pc[t] = "delete"
    /\ rows' = [rows EXCEPT ![sid[t]] = Nil]
    /\ sid' = [sid EXCEPT ![t] = Nil]
    /\ Goto(t, "next")
    /\ UNCHANGED <<zellij, worktrees, minted, call, todo, row, live,
                   lifecycleLocks, events, strays>>

DeleteRow(t) ==
    /\ pc[t] = "delete"
    /\ \/ /\ live[t]
          /\ rows' = [rows EXCEPT ![sid[t]] = Nil]
          /\ Continue(t, "announceEnd")
          /\ UNCHANGED strays
       \/ /\ MayFail(t, "store")
          /\ Stray(sid[t])
          /\ Return(t)
          /\ UNCHANGED rows
    /\ UNCHANGED <<zellij, worktrees, minted, events>>

AnnounceEnd(t) ==
    /\ pc[t] = "announceEnd"
    /\ terminated' = terminated \union {sid[t]}
    /\ sid' = [sid EXCEPT ![t] = Nil]
    /\ Goto(t, "next")
    /\ UNCHANGED <<stores, minted, call, todo, row, live, lifecycleLocks,
                   created, strays>>

-----------------------------------------------------------------------------
(* What happens around the engines.                                        *)

Cancel(t) ==
    /\ "cancel" \in Faults
    /\ pc[t] # "idle" /\ live[t]
    /\ live' = [live EXCEPT ![t] = FALSE]
    /\ UNCHANGED <<stores, minted, pc, call, sid, todo, row, lifecycleLocks,
                   events, strays>>

\* The calls of the threads in T vanish with their process.
Vanish(T) ==
    /\ pc' = [t \in Threads |-> IF t \in T THEN "idle" ELSE pc[t]]
    /\ call' = [t \in Threads |-> IF t \in T THEN Nil ELSE call[t]]
    /\ sid' = [t \in Threads |-> IF t \in T THEN Nil ELSE sid[t]]
    /\ todo' = [t \in Threads |-> IF t \in T THEN {} ELSE todo[t]]
    /\ row' = [t \in Threads |-> IF t \in T THEN Nil ELSE row[t]]
    /\ live' = [t \in Threads |-> IF t \in T THEN TRUE ELSE live[t]]
    /\ lifecycleLocks' = [e \in Engines |-> [id \in Ids |->
           IF lifecycleLocks[e][id] \in T THEN Nil ELSE lifecycleLocks[e][id]]]
    /\ strays' = strays \union {id \in Ids : \E t \in T : WorksOn(t, id)}
    /\ UNCHANGED <<rows, worktrees, minted, events>>

Crash(e) ==
    /\ "crash" \in Faults
    /\ \E t \in Threads : EngineOf[t] = e /\ pc[t] # "idle"
    /\ Vanish({t \in Threads : EngineOf[t] = e})
    /\ UNCHANGED zellij

\* After a reboot zellij lists some of the dead sessions as EXITED.
Reboot ==
    /\ "reboot" \in Faults
    /\ \E kept \in SUBSET {id \in Ids : Listed(id)} :
          zellij' = [id \in Ids |-> IF id \in kept THEN "exited" ELSE "none"]
    /\ Vanish(Threads)

\* The zellij server registers the session, then its host listens.
SessionAppears(id) ==
    /\ zellij[id] \in {"coming", "starting"}
    /\ zellij' = [zellij EXCEPT ![id] = IF @ = "coming" THEN "starting" ELSE "up"]
    /\ UNCHANGED <<rows, worktrees, minted, pc, locals, events, strays>>

\* The pane's shell exits, the user kills the session, its cache is cleaned,
\* the host loses its socket, or an attach resurrects an EXITED session.
Decay == ({"starting", "up", "bare"} \X {"exited", "none"})
         \union {<<"up", "bare">>, <<"exited", "bare">>, <<"exited", "none">>}

SessionDecays(id) ==
    /\ \E z \in ZellijState : /\ <<zellij[id], z>> \in Decay
                              /\ zellij' = [zellij EXCEPT ![id] = z]
    /\ UNCHANGED <<rows, worktrees, minted, pc, locals, events, strays>>

\* The agent's session-start hook merges agentSessionId into its row.
HookRecordsNative(id) ==
    /\ zellij[id] \in Healthy
    /\ rows[id] # Nil
    /\ ~rows[id].native
    /\ rows' = [rows EXCEPT ![id].native = TRUE]
    /\ UNCHANGED <<zellij, worktrees, minted, pc, locals, events, strays>>

\* reviveStartupGrace (15s) passes.  It outlasts the 2.5s of CreateSession
\* and a host that comes up at all does so within it: the timing assumption
\* the constant stands for.
GraceExpires(id) ==
    /\ rows[id] # Nil
    /\ rows[id].fresh
    /\ zellij[id] \notin {"coming", "starting"}
    /\ \A t \in Threads : WorksOn(t, id) => pc[t] \notin {"create", "await"}
    /\ rows' = [rows EXCEPT ![id].fresh = FALSE]
    /\ UNCHANGED <<zellij, worktrees, minted, pc, locals, events, strays>>

-----------------------------------------------------------------------------
Start(t) ==
    \/ BeginSpawn(t) \/ BeginFork(t) \/ BeginEnsureOrchestrator(t)
    \/ BeginRestart(t, "Restart") \/ BeginRestart(t, "Revive")
    \/ BeginStop(t) \/ BeginRemoveProject(t)
    \/ BeginReconcile(t) \/ BeginReconcileAll(t)

Step(t) ==
    \/ CreateWorktree(t) \/ Prepare(t) \/ Insert(t) \/ CreateSession(t)
    \/ WaitForSessionUp(t) \/ UndoRow(t) \/ UndoTree(t) \/ Announce(t)
    \/ ProbeAgent(t) \/ LoadSource(t) \/ MergeRestart(t) \/ AwaitAgent(t)
    \/ KillProbe(t) \/ KillDelete(t)
    \/ SweepProbe(t) \/ NextSession(t) \/ RemoveSessionWorktree(t)
    \/ DeleteRow(t) \/ AnnounceEnd(t)

Environment ==
    \/ \E t \in Threads : Cancel(t)
    \/ \E e \in Engines : Crash(e)
    \/ Reboot
    \/ \E id \in Ids : SessionAppears(id) \/ SessionDecays(id)
                       \/ HookRecordsNative(id) \/ GraceExpires(id)

Next == Environment \/ \E t \in Threads : Start(t) \/ AcquireLock(t) \/ Step(t)

Spec == Init /\ [][Next]_vars

\* A goroutine that can run does run; sync.Mutex hands itself to a waiter
\* that has starved; the wait for a session has a deadline, so restarts beside
\* it cannot make it wait for ever; zellij finishes starting a session.
Fairness ==
    /\ \A t \in Threads : /\ WF_vars(Step(t))
                          /\ SF_vars(AcquireLock(t))
                          /\ SF_vars(WaitForSessionUp(t))
    /\ \A id \in Ids : WF_vars(SessionAppears(id))

FairSpec == Spec /\ Fairness
-----------------------------------------------------------------------------
(* Properties.                                                             *)

\* Every variable has its type; ids in use were minted.
TypeOK ==
    /\ rows \in [Ids -> Row \union {Nil}]
    /\ zellij \in [Ids -> ZellijState]
    /\ worktrees \subseteq Ids
    /\ minted \subseteq Ids
    /\ pc \in [Threads -> Pc]
    /\ call \in [Threads -> Calls \union {Nil}]
    /\ sid \in [Threads -> Ids \union {Nil}]
    /\ todo \in [Threads -> SUBSET Ids]
    /\ row \in [Threads -> Row \union {Nil}]
    /\ live \in [Threads -> BOOLEAN]
    /\ lifecycleLocks \in [Engines -> [Ids -> Threads \union {Nil}]]
    /\ created \subseteq Ids
    /\ terminated \subseteq Ids
    /\ strays \subseteq Ids

\* No worktree leaks, however calls interleave: one on disk belongs to a row,
\* to a spawn that has not reached its row or is undoing itself, or to a
\* session whose best-effort cleanup failed or was cut off by a crash.
WorktreesAccounted ==
    \A id \in worktrees \ strays :
        \/ rows[id] # Nil
        \/ \E t \in Threads : /\ Spawning(t)
                              /\ sid[t] = id
                              /\ pc[t] \in {"prepare", "insert", "undoTree"}

\* No row points at a worktree that is gone, except between the two steps
\* of its own removal: what Revive would restart still has its workspace.
RowsKeepWorktree ==
    \A id \in Ids \ strays :
        rows[id] # Nil =>
            \/ rows[id].isolated => id \in worktrees
            \/ \E t \in Threads : sid[t] = id /\ pc[t] = "delete"

\* session.terminated is final: the row it announces is gone and no late
\* insert, metadata merge or restart brings it back.
EndIsFinal == \A id \in terminated : rows[id] = Nil

\* A row the board was told of does not disappear in silence: whoever deletes
\* it is about to publish session.terminated, or has.
EndIsAnnounced ==
    \A id \in created \ (terminated \union strays) :
        rows[id] = Nil =>
            \E t \in Threads : sid[t] = id /\ pc[t] = "announceEnd"

\* "A row exists if and only if the session is alive" (store/sessions.go),
\* the direction a reboot leaves true: between calls, a zellij session that
\* is coming up or running has a row.  It takes that CreateSession sees what
\* it started, and that no two calls about one session overlap.
LiveSessionHasRow ==
    \A id \in Ids :
        /\ zellij[id] \in Healthy \union {"coming"}
        /\ \A t \in Threads : ~WorksOn(t, id)
        => rows[id] # Nil

\* "A healthy session costs one socket probe and is returned unchanged"
\* (Engine.Revive): while hosts that run answer their dial, it never kills a
\* session whose host is up or still coming up, by the probe, the grace
\* period and the per-session lock together.
ReviveSparesHealthy ==
    [][\A t \in Threads :
           call[t] = "Revive" /\ pc[t] = "killDelete" /\ pc'[t] = "create"
               => zellij[sid[t]] \notin Healthy]_vars

\* A sweep clears "sessions that died" (Engine.ReconcileAll): the worktree it
\* removes is not under a session that runs or is being started.
SweepOnlyDead ==
    [][\A t \in Threads :
           Sweeping(t) /\ pc[t] = "tree" /\ pc'[t] = "delete"
               => zellij[sid[t]] \notin Healthy \union {"coming"}]_vars

\* Where an id stands: no row yet and a spawn that may still insert one (or
\* nobody has drawn it), a row, or no row for good.
BeforeRow == {"worktree", "prepare", "insert"}

Unborn(id) ==
    \/ id \notin minted
    \/ \E t \in Threads : Spawning(t) /\ sid[t] = id /\ pc[t] \in BeforeRow

Life == [id \in Ids |-> CASE rows[id] # Nil -> "present"
                          [] rows[id] = Nil /\ Unborn(id) -> "unborn"
                          [] OTHER -> "gone"]

Board == INSTANCE SessionLife WITH life <- Life

\* Calls that interleave, fail and crash show the board what SessionLife
\* allows: no id enters the list twice, no event is ahead of the table.
RefinesBoard == Board!Spec

\* Every engine call returns: no error path keeps a lifecycle lock another
\* caller waits for, no loop runs on, no wait outlives its budget.
CallsReturn == \A t \in Threads : pc[t] # "idle" ~> pc[t] = "idle"
=============================================================================
