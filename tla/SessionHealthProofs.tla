-------------------------- MODULE SessionHealthProofs --------------------------
(***************************************************************************)
(* What the calls of SessionLifecycle do to running zellij sessions, for   *)
(* every set of ids and projects: a Revive spares a session that is up or  *)
(* coming up, a sweep removes what has died, and a session that runs has   *)
(* its row.  Each theorem names the conditions the runs of the module show *)
(* it needs.                                                               *)
(***************************************************************************)
EXTENDS SessionLifecycleProofs

\* The calls belong to one process, so that they share its lifecycle locks.
OneProcess == \A t, u \in Threads : EngineOf[t] = EngineOf[u]

\* No call is cancelled or cut off, and CreateSession sees the session it has
\* started within the time it waits: zellij lists it and answers once.
Undisturbed == Faults \intersect {"slow", "blind", "cancel", "crash"} = {}

\* Every context is live.
LivesOK == \A t \in Threads : live[t]

\* A client was started, or the session is listed and its host not yet up.
Rising == {"coming", "starting"}

-----------------------------------------------------------------------------
(* What a step does to locks, sessions and rows.                           *)

\* A step takes a lock nobody has or gives back its own, and leaves every
\* context live that was.
LEMMA LocksStep ==
    ASSUME NEW t \in Threads, LocalsOK, StoresOK, PcAt(t),
           AcquireLock(t) \/ Step(t)
    PROVE  /\ \A u \in Threads : live[u] => live'[u]
           /\ \A e \in Engines, id \in Ids :
                 lifecycleLocks[e][id] # Nil =>
                     \/ lifecycleLocks'[e][id] = lifecycleLocks[e][id]
                     \/ lifecycleLocks[e][id] = t /\ pc'[t] = "idle"
           /\ pc[t] = "lock" =>
                 \/ pc'[t] = "idle"
                 \/ /\ lifecycleLocks[EngineOf[t]][sid[t]] = Nil
                    /\ lifecycleLocks'[EngineOf[t]][sid[t]] = t
                    /\ sid'[t] = sid[t]
<1>1. CASE Return(t)
  <2>1. pc'[t] = "idle"
    BY <1>1, ReturnEffect
  <2> QED
    BY <1>1, <2>1, ConstantsAssumption DEF Return, LocalsOK
<1>2. CASE AcquireLock(t) /\ ~Return(t)
  <2>1. /\ sid[t] \in Ids /\ UNCHANGED <<sid, live>>
        /\ lifecycleLocks[EngineOf[t]][sid[t]] = Nil
        /\ lifecycleLocks' = [lifecycleLocks EXCEPT ![EngineOf[t]][sid[t]] = t]
    BY <1>2 DEF AcquireLock, PcAt
  <2> QED
    BY <2>1, ConstantsAssumption DEF LocalsOK
<1>3. CASE UNCHANGED <<live, lifecycleLocks>> /\ pc[t] # "lock"
  BY <1>3
<1>4. \/ Return(t) \/ AcquireLock(t)
      \/ UNCHANGED <<live, lifecycleLocks>> /\ pc[t] # "lock"
  BY DEF Step, CreateWorktree, Prepare, Insert, CreateSession, WaitForSessionUp,
     UndoRow, UndoTree, Announce, ProbeAgent, LoadSource, MergeRestart, AwaitAgent,
     KillProbe, KillDelete, SweepProbe, NextSession, RemoveSessionWorktree,
     DeleteRow, AnnounceEnd, CreateFailed, AfterKill, Continue, locals
<1> QED
  BY <1>1, <1>2, <1>3, <1>4

\* A step starts, gives up or kills its own session and no other.
LEMMA ZellijStep ==
    ASSUME NEW t \in Threads, LocalsOK, StoresOK, PcAt(t),
           AcquireLock(t) \/ Step(t)
    PROVE  /\ zellij' # zellij => pc[t] \in {"create", "await", "killDelete"}
           /\ \A id \in Ids : zellij'[id] # zellij[id] =>
                 /\ id = sid[t]
                 /\ \/ /\ zellij'[id] = "coming" /\ pc[t] = "create"
                       /\ pc'[t] = "await" /\ UNCHANGED locals
                    \/ /\ zellij'[id] = "none"
                       /\ pc[t] \in {"await", "killDelete"}
           /\ pc[t] = "killDelete" /\ pc'[t] # "idle" =>
                 ~Listed(sid[t])'
           /\ pc[t] = "killProbe" /\ pc'[t] \notin {"idle", "killDelete"} =>
                 ~Listed(sid[t])
<1>1. CASE CreateSession(t)
  <2>1. /\ sid[t] \in Ids /\ pc[t] = "create"
        /\ \/ /\ \/ UNCHANGED zellij
                 \/ zellij' = [zellij EXCEPT ![sid[t]] = "coming"]
              /\ Continue(t, "await")
           \/ UNCHANGED zellij
    BY <1>1 DEF CreateSession, PcAt
  <2> QED
    BY <2>1 DEF Continue, Goto, StoresOK, LocalsOK
<1>2. CASE WaitForSessionUp(t)
  BY <1>2 DEF WaitForSessionUp, PcAt, StoresOK
<1>3. CASE KillDelete(t)
  <2>1. /\ sid[t] \in Ids /\ pc[t] = "killDelete"
        /\ \/ /\ \/ ~Listed(sid[t]) /\ UNCHANGED zellij
                 \/ zellij' = [zellij EXCEPT ![sid[t]] = "none"]
              /\ AfterKill(t)
           \/ Return(t) /\ UNCHANGED zellij
    BY <1>3 DEF KillDelete, PcAt
  <2>2. CASE Return(t) /\ UNCHANGED zellij
    BY <2>1, <2>2, ReturnEffect
  <2>3. CASE AfterKill(t)
    <3>1. sid'[t] = sid[t]
      BY <2>3 DEF AfterKill, Continue, locals
    <3>2. CASE ~Listed(sid[t]) /\ UNCHANGED zellij
      BY <2>1, <3>1, <3>2 DEF Listed
    <3>3. CASE zellij' = [zellij EXCEPT ![sid[t]] = "none"]
      <4>1. zellij'[sid[t]] = "none"
        BY <2>1, <3>3 DEF StoresOK
      <4>2. ~Listed(sid[t])'
        BY <3>1, <4>1 DEF Listed
      <4> QED
        BY <2>1, <3>3, <4>1, <4>2 DEF StoresOK
    <3> QED
      BY <2>1, <2>2, <3>2, <3>3
  <2> QED
    BY <2>1, <2>2, <2>3
<1>4. CASE KillProbe(t)
  <2>1. pc[t] = "killProbe" /\ UNCHANGED zellij
    BY <1>4 DEF KillProbe, stores
  <2>2. pc'[t] \notin {"idle", "killDelete"} => ~Listed(sid[t])
    BY <1>4, ReturnEffect DEF KillProbe, Continue, Goto, LocalsOK
  <2> QED
    BY <2>1, <2>2
<1>5. \/ CreateSession(t) \/ WaitForSessionUp(t) \/ KillDelete(t) \/ KillProbe(t)
      \/ UNCHANGED zellij /\ pc[t] \notin {"killDelete", "killProbe"}
  BY DEF Step, AcquireLock, CreateWorktree, Prepare, Insert,
     UndoRow, UndoTree, Announce, ProbeAgent, LoadSource, MergeRestart, AwaitAgent,
     SweepProbe, NextSession, RemoveSessionWorktree,
     DeleteRow, AnnounceEnd, stores
<1> QED
  BY <1>1, <1>2, <1>3, <1>4, <1>5

\* A step writes the row of its own session: the insert stores what the spawn
\* holds, the merge starts a new grace, an undo or a delete removes it.
LEMMA RowsStep ==
    ASSUME NEW t \in Threads, LocalsOK, StoresOK, PcAt(t),
           AcquireLock(t) \/ Step(t)
    PROVE  \A id \in Ids : rows'[id] # rows[id] =>
               /\ id = sid[t]
               /\ \/ rows'[id] = Nil
                  \/ /\ pc[t] = "insert" /\ pc'[t] = "create" /\ UNCHANGED locals
                     /\ rows'[id].fresh = row[t].fresh
                  \/ /\ pc[t] = "merge" /\ rows[id] # Nil
                     /\ rows'[id].fresh
<1>1. CASE Insert(t)
  <2>1. sid[t] \in Ids /\ row[t] \in Row
    BY <1>1 DEF Insert, PcAt
  <2>2. [row[t] EXCEPT !.native = FALSE].fresh = row[t].fresh
    BY <2>1 DEF Row
  <2>3. CASE UNCHANGED rows
    BY <2>3
  <2>4. CASE /\ rows' = [rows EXCEPT ![sid[t]] = [row[t] EXCEPT !.native = FALSE]]
             /\ Continue(t, "create")
    BY <1>1, <2>1, <2>2, <2>4 DEF Insert, Continue, Goto, StoresOK, LocalsOK
  <2> QED
    BY <1>1, <2>3, <2>4 DEF Insert
<1>2. CASE MergeRestart(t)
  <2>1. CASE UNCHANGED rows
    BY <2>1
  <2>2. CASE rows[sid[t]] # Nil /\ rows' = [rows EXCEPT ![sid[t]].fresh = TRUE]
    <3>1. sid[t] \in Ids /\ rows[sid[t]] \in Row
      BY <1>2, <2>2 DEF MergeRestart, PcAt, StoresOK
    <3>2. [rows[sid[t]] EXCEPT !.fresh = TRUE].fresh
      BY <3>1 DEF Row
    <3> QED
      BY <1>2, <2>2, <3>1, <3>2 DEF MergeRestart, StoresOK
  <2> QED
    BY <1>2, <2>1, <2>2 DEF MergeRestart
<1>3. CASE UndoRow(t) \/ DeleteRow(t)
  BY <1>3 DEF UndoRow, DeleteRow, PcAt, StoresOK
<1>4. Insert(t) \/ MergeRestart(t) \/ UndoRow(t) \/ DeleteRow(t) \/ UNCHANGED rows
  BY DEF Step, AcquireLock, CreateWorktree, Prepare, CreateSession, WaitForSessionUp,
     UndoTree, Announce, ProbeAgent, LoadSource, AwaitAgent,
     KillProbe, KillDelete, SweepProbe, NextSession, RemoveSessionWorktree,
     AnnounceEnd, stores
<1> QED
  BY <1>1, <1>2, <1>3, <1>4

-----------------------------------------------------------------------------
(* Revive.                                                                 *)

\* No call is disturbed, every statement of a call's store succeeds, and a
\* host that runs answers its dial within the second SessionAgentReachable
\* gives it.
Smooth == Undisturbed /\ Faults \intersect {"store", "deaf"} = {}

\* Past the lock a restart holds it.
LockAt(t) ==
    Restarting(t) /\ pc[t] \notin {"idle", "lock"}
        => lifecycleLocks[EngineOf[t]][sid[t]] = t

\* The row a spawn holds is fresh, and so is the one it has inserted.
SpawnFreshAt(t) ==
    Spawning(t) =>
        /\ row[t].fresh
        /\ pc[t] \in {"create", "await"}
               => rows[sid[t]] = Nil \/ rows[sid[t]].fresh

\* A session that is coming up is within its grace, or the restart that
\* started it is about to begin that grace, or its row is gone.
GraceFor(id) ==
    zellij[id] \in Rising =>
        \/ rows[id] = Nil
        \/ rows[id].fresh
        \/ \E t \in Threads : /\ Restarting(t) /\ sid[t] = id
                              /\ pc[t] \in {"await", "merge"}

\* No spawn of the session is on its way to start it.
Starts == BeforeRow \union {"create", "await"}
Settled(id) == \A u \in Threads : Spawning(u) /\ sid[u] = id => pc[u] \notin Starts

\* A Revive that goes on to restart: it has seen a row out of its grace.
Judged(t) ==
    /\ call[t] = "Revive"
    /\ \/ pc[t] \in {"load", "prepare", "killProbe", "killDelete"}
       \/ pc[t] = "probe" /\ ~row[t].fresh

ReviveAt(t) ==
    Judged(t) =>
        /\ Settled(sid[t])
        /\ zellij[sid[t]] \notin Rising
        /\ pc[t] # "probe" => zellij[sid[t]] # "up"

ReviveInv ==
    /\ LivesOK
    /\ \A t \in Threads : LockAt(t)
    /\ \A t \in Threads : SpawnFreshAt(t)
    /\ \A id \in Ids : GraceFor(id)
    /\ \A t \in Threads : ReviveAt(t)

\* How a Revive comes to the steps at which it has judged the session dead.
LEMMA JudgedStep ==
    ASSUME Smooth, NEW t \in Threads, LocalsOK, StoresOK, PcAt(t),
           AcquireLock(t) \/ Step(t), call'[t] = "Revive",
           pc'[t] \in {"probe", "load", "prepare", "killProbe", "killDelete"}
    PROVE  /\ call[t] = "Revive" /\ sid'[t] = sid[t] /\ sid[t] \in Ids
           /\ UNCHANGED <<rows, zellij>>
           /\ \/ /\ pc[t] = "lock" /\ pc'[t] = "probe"
                 /\ lifecycleLocks[EngineOf[t]][sid[t]] = Nil
                 /\ rows[sid[t]] # Nil /\ row'[t] = rows[sid[t]]
              \/ /\ pc[t] = "probe" /\ pc'[t] = "load"
                 /\ zellij[sid[t]] # "up" /\ ~row[t].fresh
              \/ pc[t] \in {"load", "prepare", "killProbe"} /\ pc'[t] # "probe"
<1>1. ~Return(t)
  BY ReturnEffect
<1>2. CASE AcquireLock(t)
  BY <1>1, <1>2 DEF AcquireLock, Goto, LocalsOK, PcAt, stores
<1>3. CASE ProbeAgent(t)
  BY <1>1, <1>3 DEF ProbeAgent, Continue, Goto, LocalsOK, PcAt, stores, locals, Smooth
<1>4. CASE LoadSource(t)
  BY <1>1, <1>4 DEF LoadSource, Goto, LocalsOK, PcAt, stores
<1>5. CASE Prepare(t)
  BY <1>1, <1>5 DEF Prepare, Continue, Goto, LocalsOK, PcAt, stores, locals, Spawning
<1>6. CASE KillProbe(t)
  BY <1>1, <1>6 DEF KillProbe, AfterKill, Continue, Goto, LocalsOK, PcAt, stores,
     locals
<1>7. CASE NextSession(t)
  BY <1>1, <1>7 DEF NextSession, Goto, LocalsOK, PcAt, Stopping, Sweeping
<1>8. CASE \/ CreateWorktree(t) \/ Insert(t) \/ CreateSession(t)
           \/ WaitForSessionUp(t) \/ UndoRow(t) \/ UndoTree(t) \/ Announce(t)
           \/ MergeRestart(t) \/ AwaitAgent(t) \/ KillDelete(t)
  BY <1>1, <1>8 DEF CreateWorktree, Insert, CreateSession, CreateFailed,
     WaitForSessionUp, UndoRow, UndoTree, Announce, MergeRestart, AwaitAgent,
     KillDelete, AfterKill, Continue, Goto, LocalsOK, locals, Spawning, PcAt
<1>9. CASE \/ SweepProbe(t) \/ RemoveSessionWorktree(t) \/ DeleteRow(t)
           \/ AnnounceEnd(t)
  BY <1>1, <1>9 DEF SweepProbe, RemoveSessionWorktree, DeleteRow, AnnounceEnd,
     Continue, Goto, LocalsOK, locals
<1> QED
  BY <1>2, <1>3, <1>4, <1>5, <1>6, <1>7, <1>8, <1>9 DEF Step

\* How a spawn comes to its two steps before the session is listed.
LEMMA StartingStep ==
    ASSUME NEW t \in Threads, LocalsOK, StoresOK, PcAt(t),
           AcquireLock(t) \/ Step(t), Spawning(t)'
    PROVE  /\ Spawning(t) /\ sid'[t] = sid[t] /\ row'[t] = row[t]
           /\ sid[t] \in Ids /\ row[t] \in Row
           /\ pc'[t] \in Starts => pc[t] \in Starts
           /\ pc'[t] = "create" => pc[t] = "insert"
           /\ pc'[t] = "await" => pc[t] = "create"
<1>0. call'[t] = call[t] /\ Spawning(t)
  BY StepEffect, ConstantsAssumption DEF Spawning, AllCalls
<1>1. ~Return(t)
  BY ReturnEffect, ConstantsAssumption DEF Spawning, AllCalls
<1>2. sid[t] \in Ids /\ row[t] \in Row /\ pc[t] \in SpawnPc
  BY <1>0, SpawningHasId
<1>3. \/ CreateWorktree(t) \/ Prepare(t) \/ Insert(t) \/ CreateSession(t)
      \/ WaitForSessionUp(t) \/ UndoRow(t)
  BY <1>1, <1>2 DEF Step, AcquireLock, UndoTree, Announce, ProbeAgent, LoadSource,
     MergeRestart, AwaitAgent, KillProbe, KillDelete, SweepProbe, NextSession,
     RemoveSessionWorktree, DeleteRow, AnnounceEnd, SpawnPc
<1>4. \E label \in {"prepare", "insert", "undoTree", "create", "undoRow",
                    "announce", "await"} :
         /\ Continue(t, label)
         /\ label \in Starts => pc[t] \in Starts
         /\ label = "create" => pc[t] = "insert"
         /\ label = "await" => pc[t] = "create"
  BY <1>0, <1>1, <1>3 DEF CreateWorktree, Prepare, Insert, CreateSession, CreateFailed,
     WaitForSessionUp, UndoRow, Starts, BeforeRow
<1> QED
  BY <1>0, <1>2, <1>4 DEF Continue, Goto, locals, LocalsOK

\* The beginning of a call leaves contexts and locks alone.
LEMMA StartKeeps ==
    ASSUME NEW t \in Threads, Start(t)
    PROVE  UNCHANGED <<live, lifecycleLocks>>
BY DEF Start, BeginSpawn, BeginFork, BeginEnsureOrchestrator, BeginCreate,
   BeginRestart, BeginStop, BeginRemoveProject, BeginReconcile,
   BeginReconcileAll, Begin

\* A spawn begins with a fresh row.
LEMMA StartFresh ==
    ASSUME NEW t \in Threads, LocalsOK, Start(t), Spawning(t)'
    PROVE  row'[t].fresh
<1>1. ASSUME NEW m, NEW id, NEW r, NEW ids, NEW label, Begin(t, m, id, r, ids, label)
      PROVE  call'[t] = m /\ row'[t] = r
  BY <1>1 DEF Begin, LocalsOK
<1>2. CASE BeginSpawn(t) \/ BeginFork(t) \/ BeginEnsureOrchestrator(t)
  <2>1. \E m, p, k, isolated, native : BeginCreate(t, m, p, k, isolated, native)
    BY <1>2 DEF BeginSpawn, BeginFork, BeginEnsureOrchestrator
  <2>2. PICK m, p, k, isolated, native : BeginCreate(t, m, p, k, isolated, native)
    BY <2>1
  <2>3. row'[t] = [project |-> p, kind |-> k, isolated |-> isolated,
                   native |-> native, fresh |-> TRUE]
    BY <2>2, <1>1 DEF BeginCreate
  <2> QED
    BY <2>3
<1>3. CASE BeginRestart(t, "Restart") \/ BeginRestart(t, "Revive")
  <2>1. call'[t] \in {"Restart", "Revive"}
    BY <1>1, <1>3 DEF BeginRestart
  <2> QED
    BY <2>1 DEF Spawning
<1>4. CASE BeginStop(t) \/ BeginRemoveProject(t) \/ BeginReconcile(t) \/ BeginReconcileAll(t)
  <2>1. call'[t] \in {"Stop", "RemoveProject", "Reconcile", "ReconcileAll"}
    BY <1>1, <1>4 DEF BeginStop, BeginRemoveProject, BeginReconcile, BeginReconcileAll
  <2> QED
    BY <2>1 DEF Spawning
<1> QED
  BY <1>2, <1>3, <1>4 DEF Start

\* The start of a call keeps the invariant of Revive.
LEMMA ReviveStart ==
    ASSUME IInv, ReviveInv, NEW t \in Threads, Start(t)
    PROVE  ReviveInv'
<1>1. LocalsOK /\ StoresOK /\ PcOK
  BY TypeParts DEF IInv
<1>2. /\ LocalsOK' /\ OthersStay(t) /\ pc[t] = "idle"
      /\ UNCHANGED <<rows, zellij, live, lifecycleLocks>>
      /\ StartsNew(t) \/ StartsRestart(t) \/ StartsLoop(t)
  BY <1>1, StartEffect, StartKeeps
<1>3. call[t] = Nil /\ sid[t] = Nil
  BY <1>1, <1>2 DEF PcOK, PcAt
<1>4. pc'[t] \in {"worktree", "prepare", "lock", "next", "sweepProbe"}
  BY <1>2 DEF StartsNew, StartsRestart, StartsLoop
<1>5. pc'[t] = "prepare" => call'[t] \in {"Spawn", "Fork", "EnsureOrchestrator"}
  BY <1>2 DEF StartsNew, StartsRestart, StartsLoop
<1>6. LivesOK'
  BY <1>2 DEF ReviveInv, LivesOK
<1>7. ASSUME NEW u \in Threads PROVE LockAt(u)'
  <2>1. CASE u = t
    BY <1>2, <2>1 DEF LockAt, Restarting, StartsLoop, StartsRestart, StartsNew
  <2>2. CASE u # t
    BY <1>2, <2>2 DEF ReviveInv, LockAt, Restarting, OthersStay
  <2> QED
    BY <2>1, <2>2
<1>8. ASSUME NEW u \in Threads PROVE SpawnFreshAt(u)'
  <2>1. CASE u = t
    BY <1>1, <1>4, <2>1, StartFresh DEF SpawnFreshAt
  <2>2. CASE u # t
    BY <1>2, <2>2 DEF ReviveInv, SpawnFreshAt, Spawning, OthersStay
  <2> QED
    BY <2>1, <2>2
<1>9. ASSUME NEW id \in Ids PROVE GraceFor(id)'
  BY <1>2 DEF ReviveInv, GraceFor, Restarting, OthersStay
<1>10. ASSUME NEW u \in Threads PROVE ReviveAt(u)'
  <2>1. CASE u = t
    BY <1>4, <1>5, <2>1 DEF ReviveAt, Judged
  <2>2. CASE u # t /\ Judged(u)'
    <3>1. /\ Judged(u) /\ sid'[u] = sid[u] /\ pc'[u] = pc[u]
      BY <1>2, <2>2 DEF OthersStay, Judged
    <3>2. sid[u] \in Ids /\ sid[u] \in minted
      BY <1>1, <3>1, ConstantsAssumption DEF Judged, PcOK, PcAt, IInv, MintedOK
    <3>3. Spawning(t)' => sid'[t] # sid[u]
      BY <1>2, <3>2 DEF StartsNew, StartsRestart, StartsLoop, Spawning
    <3>4. Settled(sid[u]) /\ ReviveAt(u)
      BY <3>1 DEF ReviveInv, ReviveAt
    <3>5. Settled(sid[u])'
      BY <1>2, <3>1, <3>3, <3>4 DEF Settled, Spawning, OthersStay
    <3> QED
      BY <1>2, <3>1, <3>4, <3>5 DEF ReviveAt
  <2> QED
    BY <2>1, <2>2 DEF ReviveAt
<1> QED
  BY <1>6, <1>7, <1>8, <1>9, <1>10 DEF ReviveInv

\* A restart that has started the session waits until it is listed, and then
\* begins its grace or finds the row gone.
LEMMA GraceStep ==
    ASSUME Smooth, NEW t \in Threads, LocalsOK, StoresOK, PcAt(t), live[t],
           AcquireLock(t) \/ Step(t), Restarting(t),
           pc[t] \in {"await", "merge"}, zellij[sid[t]] \in Rising
    PROVE  \/ pc[t] = "await" /\ pc'[t] = "merge" /\ UNCHANGED locals
           \/ pc[t] = "merge" /\ (rows'[sid[t]] = Nil \/ rows'[sid[t]].fresh)
<1>1. sid[t] \in Ids /\ ~Spawning(t)
  BY DEF PcAt, Restarting, Spawning
<1>2. Faults \intersect {"slow", "blind", "store"} = {}
  BY DEF Smooth, Undisturbed
<1>3. CASE pc[t] = "await"
  <2>1. WaitForSessionUp(t)
    BY <1>3 DEF Step, AcquireLock, CreateWorktree, Prepare, Insert, CreateSession,
       UndoRow, UndoTree, Announce, ProbeAgent, LoadSource, MergeRestart, AwaitAgent,
       KillProbe, KillDelete, SweepProbe, NextSession, RemoveSessionWorktree,
       DeleteRow, AnnounceEnd
  <2>2. Continue(t, "merge")
    BY <1>1, <1>2, <2>1 DEF WaitForSessionUp, MayFail, Rising
  <2> QED
    BY <1>3, <2>2 DEF Continue, Goto, LocalsOK
<1>4. CASE pc[t] = "merge"
  <2>1. MergeRestart(t)
    BY <1>4 DEF Step, AcquireLock, CreateWorktree, Prepare, Insert, CreateSession,
       WaitForSessionUp, UndoRow, UndoTree, Announce, ProbeAgent, LoadSource,
       AwaitAgent, KillProbe, KillDelete, SweepProbe, NextSession,
       RemoveSessionWorktree, DeleteRow, AnnounceEnd
  <2>2. CASE rows[sid[t]] = Nil
    BY <1>4, <2>1, <2>2 DEF MergeRestart
  <2>3. CASE rows[sid[t]] # Nil
    <3>1. rows' = [rows EXCEPT ![sid[t]].fresh = TRUE]
      BY <1>2, <2>1, <2>3 DEF MergeRestart, MayFail
    <3>2. [rows[sid[t]] EXCEPT !.fresh = TRUE].fresh
      BY <1>1, <2>3 DEF StoresOK, Row
    <3>3. rows'[sid[t]] = [rows[sid[t]] EXCEPT !.fresh = TRUE]
      BY <1>1, <3>1 DEF StoresOK
    <3>4. rows'[sid[t]].fresh
      BY <3>2, <3>3
    <3> QED
      BY <1>4, <3>4
  <2> QED
    BY <2>2, <2>3
<1> QED
  BY <1>3, <1>4

\* A step of a call keeps the invariant of Revive.  The lock of the session is
\* what keeps a second restart from starting it, the grace and the order of a
\* spawn's steps what keeps a spawn from it.
LEMMA ReviveStep ==
    ASSUME OneProcess, Smooth, IInv, ReviveInv,
           NEW t \in Threads, AcquireLock(t) \/ Step(t)
    PROVE  ReviveInv'
<1>1. LocalsOK /\ StoresOK /\ PcAt(t) /\ live[t] /\ t # Nil
  BY TypeParts, ConstantsAssumption DEF IInv, PcOK, ReviveInv, LivesOK
<1>2. LocalsOK' /\ StoresOK' /\ OthersStay(t) /\ PcAt(t)'
  BY <1>1, ControlStep, StoresStep
<1>3. \A u \in Threads : EngineOf[u] = EngineOf[t] /\ EngineOf[u] \in Engines
  BY ConstantsAssumption DEF OneProcess
<1>4. LivesOK'
  BY <1>1, LocksStep DEF ReviveInv, LivesOK
<1>5. ASSUME NEW u \in Threads PROVE LockAt(u)'
  <2>1. CASE u = t /\ Restarting(t)' /\ pc'[t] \notin {"idle", "lock"}
    <3>1. Restarting(t) /\ pc[t] # "idle"
      BY <1>1, <2>1, StepEffect, ConstantsAssumption DEF Restarting, PcAt, AllCalls
    <3>2. CASE pc[t] = "lock"
      BY <1>1, <2>1, <3>2, LocksStep DEF LockAt
    <3>3. CASE pc[t] # "lock"
      <4>1. sid[t] \in Ids /\ sid'[t] = sid[t]
        BY <1>1, <1>2, <2>1, <3>1, StepEffect, ConstantsAssumption
           DEF Restarting, Stopping, Sweeping, PcAt, AllCalls, LocalsOK, Pc,
               SpawnPc, RestartPc, StopPc, SweepPc, Spawning
      <4>2. lifecycleLocks[EngineOf[t]][sid[t]] = t
        BY <3>1, <3>3 DEF ReviveInv, LockAt
      <4>3. lifecycleLocks'[EngineOf[t]][sid[t]] = t
        BY <1>1, <1>3, <2>1, <4>1, <4>2, LocksStep
      <4> QED
        BY <2>1, <4>1, <4>3 DEF LockAt
    <3> QED
      BY <3>2, <3>3
  <2>2. CASE u # t /\ Restarting(u)' /\ pc'[u] \notin {"idle", "lock"}
    <3>1. /\ Restarting(u) /\ pc[u] \notin {"idle", "lock"}
          /\ sid'[u] = sid[u]
      BY <1>2, <2>2 DEF OthersStay, Restarting
    <3>2. sid[u] \in Ids /\ u # Nil
      BY <3>1, ConstantsAssumption
         DEF IInv, PcOK, PcAt, Restarting, Stopping, Sweeping
    <3>3. lifecycleLocks[EngineOf[u]][sid[u]] = u
      BY <3>1 DEF ReviveInv, LockAt
    <3>4. lifecycleLocks'[EngineOf[u]][sid[u]] = u
      BY <1>1, <1>3, <2>2, <3>2, <3>3, LocksStep
    <3> QED
      BY <3>1, <3>4 DEF LockAt
  <2> QED
    BY <2>1, <2>2 DEF LockAt
<1>6. ASSUME NEW u \in Threads PROVE SpawnFreshAt(u)'
  <2>1. ASSUME Spawning(u)'
        PROVE  /\ Spawning(u) /\ sid'[u] = sid[u] /\ row'[u] = row[u]
               /\ sid[u] \in Ids /\ row[u].fresh
               /\ pc'[u] \in {"create", "await"} =>
                     \/ pc[u] \in {"create", "await"}
                     \/ u = t /\ pc[u] = "insert" /\ pc'[u] = "create"
    <3>1. CASE u = t
      BY <1>1, <2>1, <3>1, StartingStep DEF ReviveInv, SpawnFreshAt
    <3>2. CASE u # t
      <4>1. Spawning(u) /\ sid'[u] = sid[u] /\ row'[u] = row[u] /\ pc'[u] = pc[u]
        BY <1>2, <2>1, <3>2 DEF OthersStay, Spawning
      <4>2. sid[u] \in Ids
        BY <1>1, <4>1, SpawningHasId DEF IInv, PcOK
      <4> QED
        BY <4>1, <4>2 DEF ReviveInv, SpawnFreshAt
    <3> QED
      BY <3>1, <3>2
  <2>2. CASE Spawning(u)' /\ pc'[u] \in {"create", "await"}
    <3>1. CASE u = t /\ pc[u] = "insert" /\ pc'[u] = "create"
      <4>1. rows[sid[t]] = Nil
        BY <2>1, <2>2, <3>1 DEF IInv, FreshOK, FreshAt, BeforeRow
      <4>2. rows'[sid[t]] = Nil \/ rows'[sid[t]].fresh
        BY <1>1, <2>1, <2>2, <3>1, <4>1, RowsStep
      <4> QED
        BY <2>1, <2>2, <3>1, <4>2 DEF SpawnFreshAt
    <3>2. CASE pc[u] \in {"create", "await"}
      <4>1. rows[sid[u]] = Nil \/ rows[sid[u]].fresh
        BY <2>1, <2>2, <3>2 DEF ReviveInv, SpawnFreshAt
      <4>2. pc[t] = "insert" /\ sid[t] = sid[u] => FALSE
        <5>1. ASSUME pc[t] = "insert", sid[t] = sid[u] PROVE FALSE
          <6>1. Spawning(t) /\ t # u
            BY <1>1, <3>2, <5>1 DEF PcAt
          <6>2. FreshAt(t)
            BY <6>1 DEF IInv, FreshOK
          <6> QED
            BY <3>2, <5>1, <6>1, <6>2 DEF FreshAt, BeforeRow
        <5> QED
          BY <5>1
      <4>3. rows'[sid[u]] = Nil \/ rows'[sid[u]].fresh
        BY <1>1, <2>1, <2>2, <4>1, <4>2, RowsStep
      <4> QED
        BY <2>1, <2>2, <4>3 DEF SpawnFreshAt
    <3> QED
      BY <2>1, <2>2, <3>1, <3>2
  <2> QED
    BY <2>1, <2>2 DEF SpawnFreshAt
<1>7. ASSUME NEW id \in Ids, zellij'[id] \in Rising PROVE GraceFor(id)'
  <2>1. CASE zellij'[id] # zellij[id]
    <3>1. /\ id = sid[t] /\ pc[t] = "create" /\ pc'[t] = "await"
          /\ UNCHANGED locals
      BY <1>1, <1>7, <2>1, ZellijStep DEF Rising
    <3>2. CASE Spawning(t)
      <4>1. Spawning(t)' /\ sid'[t] = id
        BY <3>1, <3>2 DEF locals, Spawning
      <4> QED
        BY <1>6, <3>1, <4>1 DEF SpawnFreshAt, GraceFor
    <3>3. CASE Restarting(t)
      <4>1. Restarting(t)' /\ sid'[t] = id
        BY <3>1, <3>3 DEF locals, Restarting
      <4> QED
        BY <3>1, <4>1 DEF GraceFor
    <3> QED
      BY <1>1, <3>1, <3>2, <3>3 DEF PcAt
  <2>2. CASE zellij'[id] = zellij[id]
    <3>1. GraceFor(id) /\ zellij[id] \in Rising
      BY <1>7, <2>2 DEF ReviveInv
    <3>2. CASE rows[id] = Nil \/ rows[id].fresh
      <4>1. pc[t] = "insert" => row[t].fresh
        BY <1>1 DEF PcAt, ReviveInv, SpawnFreshAt
      <4>2. rows'[id] = Nil \/ rows'[id].fresh
        BY <1>1, <3>2, <4>1, RowsStep
      <4> QED
        BY <4>2 DEF GraceFor
    <3>3. ASSUME NEW u \in Threads, Restarting(u), sid[u] = id,
                 pc[u] \in {"await", "merge"}
          PROVE  GraceFor(id)'
      <4>1. CASE u = t
        <5>1. \/ pc[t] = "await" /\ pc'[t] = "merge" /\ UNCHANGED locals
              \/ rows'[id] = Nil \/ rows'[id].fresh
          BY <1>1, <3>1, <3>3, <4>1, GraceStep
        <5> QED
          BY <3>3, <4>1, <5>1 DEF GraceFor, locals, Restarting
      <4>2. CASE u # t
        BY <1>2, <3>3, <4>2 DEF GraceFor, OthersStay, Restarting
      <4> QED
        BY <4>1, <4>2
    <3> QED
      BY <3>1, <3>2, <3>3 DEF GraceFor
  <2> QED
    BY <2>1, <2>2
<1>8. ASSUME NEW u \in Threads, Judged(u)' PROVE ReviveAt(u)'
  <2>1. CASE u = t
    <3>1. /\ call[t] = "Revive" /\ sid'[t] = sid[t] /\ sid[t] \in Ids
          /\ call'[t] = "Revive" /\ UNCHANGED <<rows, zellij>>
          /\ \/ /\ pc[t] = "lock" /\ pc'[t] = "probe"
                /\ lifecycleLocks[EngineOf[t]][sid[t]] = Nil
                /\ rows[sid[t]] # Nil /\ row'[t] = rows[sid[t]]
             \/ /\ pc[t] = "probe" /\ pc'[t] = "load"
                /\ zellij[sid[t]] # "up" /\ ~row[t].fresh
             \/ pc[t] \in {"load", "prepare", "killProbe"} /\ pc'[t] # "probe"
      BY <1>1, <1>8, <2>1, JudgedStep DEF Judged
    <3>2. Settled(sid[t]) => Settled(sid[t])'
      BY <1>2, <3>1 DEF Settled, Spawning, OthersStay
    <3>3. CASE pc[t] # "lock"
      <4>1. Judged(t)
        BY <3>1, <3>3 DEF Judged
      <4> QED
        BY <2>1, <3>1, <3>2, <3>3, <4>1 DEF ReviveInv, ReviveAt
    <3>4. CASE pc[t] = "lock"
      <4>1. rows[sid[t]] # Nil /\ ~rows[sid[t]].fresh /\ pc'[t] = "probe"
        BY <1>8, <2>1, <3>1, <3>4 DEF Judged
      <4>2. ASSUME NEW v \in Threads, Restarting(v), sid[v] = sid[t],
                   pc[v] \in {"await", "merge"}
            PROVE  FALSE
        <5>1. lifecycleLocks[EngineOf[v]][sid[v]] = v
          BY <4>2 DEF ReviveInv, LockAt
        <5> QED
          BY <1>3, <3>1, <3>4, <4>2, <5>1, ConstantsAssumption
      <4>3. zellij[sid[t]] \notin Rising
        BY <3>1, <4>1, <4>2 DEF ReviveInv, GraceFor
      <4>4. ASSUME NEW v \in Threads, Spawning(v), sid[v] = sid[t]
            PROVE  pc[v] \notin Starts
        <5>1. pc[v] \notin BeforeRow
          BY <4>1, <4>4 DEF IInv, FreshOK, FreshAt
        <5>2. pc[v] \notin {"create", "await"}
          BY <4>1, <4>4 DEF ReviveInv, SpawnFreshAt
        <5> QED
          BY <5>1, <5>2 DEF Starts
      <4>5. Settled(sid[t])'
        BY <3>2, <4>4 DEF Settled
      <4> QED
        BY <2>1, <3>1, <4>1, <4>3, <4>5 DEF ReviveAt
    <3> QED
      BY <3>3, <3>4
  <2>2. CASE u # t
    <3>1. Judged(u) /\ sid'[u] = sid[u] /\ pc'[u] = pc[u]
      BY <1>2, <1>8, <2>2 DEF OthersStay, Judged
    <3>2. ReviveAt(u) /\ Settled(sid[u]) /\ sid[u] \in Ids
      BY <3>1, ConstantsAssumption DEF ReviveInv, ReviveAt, Judged, IInv, PcOK, PcAt
    <3>3. Settled(sid[u])'
      <4>1. ASSUME NEW v \in Threads, Spawning(v)', sid'[v] = sid[u]
            PROVE  pc'[v] \notin Starts
        <5>1. CASE v = t
          BY <1>1, <3>2, <4>1, <5>1, StartingStep DEF Settled
        <5>2. CASE v # t
          BY <1>2, <3>2, <4>1, <5>2 DEF Settled, Spawning, OthersStay
        <5> QED
          BY <5>1, <5>2
      <4> QED
        BY <3>1, <4>1 DEF Settled
    <3>4. ASSUME pc[t] = "create", sid[t] = sid[u] PROVE FALSE
      <4>1. ~Spawning(t)
        BY <3>2, <3>4 DEF Settled, Starts
      <4>2. Restarting(t)
        BY <1>1, <3>4, <4>1 DEF PcAt
      <4>3. /\ lifecycleLocks[EngineOf[t]][sid[t]] = t
            /\ lifecycleLocks[EngineOf[u]][sid[u]] = u
        BY <3>1, <3>4, <4>2 DEF ReviveInv, LockAt, Judged, Restarting
      <4> QED
        BY <1>3, <2>2, <3>4, <4>3
    <3>5. zellij'[sid[u]] \in {zellij[sid[u]], "none"}
      BY <1>1, <3>2, <3>4, ZellijStep
    <3>6. /\ zellij'[sid[u]] \notin Rising
          /\ pc[u] # "probe" => zellij'[sid[u]] # "up"
      BY <3>1, <3>2, <3>5 DEF ReviveAt, Rising
    <3> QED
      BY <3>1, <3>3, <3>6 DEF ReviveAt
  <2> QED
    BY <2>1, <2>2
<1> QED
  BY <1>4, <1>5, <1>6, <1>7, <1>8 DEF ReviveInv, GraceFor, ReviveAt

\* Without cancellations and crashes the calls are moved by a reboot, which
\* ends them all, or not at all.
LEMMA UndisturbedEnvironment ==
    ASSUME Undisturbed, Environment
    PROVE  \/ Reboot
           \/ /\ UNCHANGED <<minted, pc, locals, events>>
              /\ \E id \in Ids : \/ SessionAppears(id) \/ SessionDecays(id)
                                 \/ HookRecordsNative(id) \/ GraceExpires(id)
BY DEF Undisturbed, Environment, Cancel, Crash, SessionAppears, SessionDecays,
   HookRecordsNative, GraceExpires, locals

\* A reboot leaves every thread idle and live, and nothing running.
LEMMA RebootEffect ==
    ASSUME LocalsOK, StoresOK, PcOK, Reboot
    PROVE  /\ \A t \in Threads : /\ pc'[t] = "idle" /\ call'[t] = Nil
                                 /\ todo'[t] = {} /\ live'[t]
           /\ \A id \in Ids : zellij'[id] \in {"exited", "none"}
           /\ UNCHANGED rows
<1>1. Vanish(Threads)
  BY DEF Reboot
<1>2. \A t \in Threads : live'[t]
  BY <1>1 DEF Vanish
<1> QED
  BY <1>1, <1>2, VanishEffect DEF Reboot, Vanish

\* What zellij and the user do to a session: it appears, step by step, or it
\* ends; its row stays, and loses its grace only when it is not coming up.
LEMMA SurroundingsEffect ==
    ASSUME LocalsOK, StoresOK, NEW id \in Ids,
           \/ SessionAppears(id) \/ SessionDecays(id)
           \/ HookRecordsNative(id) \/ GraceExpires(id)
    PROVE  \A i \in Ids :
              /\ rows'[i] = Nil <=> rows[i] = Nil
              /\ \/ zellij'[i] = zellij[i]
                 \/ zellij'[i] \in {"exited", "none", "bare"}
                 \/ zellij[i] = "coming" /\ zellij'[i] = "starting"
                 \/ zellij[i] = "starting" /\ zellij'[i] = "up"
              /\ rows[i] # Nil /\ rows[i].fresh =>
                 \/ rows'[i].fresh
                 \/ /\ zellij[i] \notin Rising /\ zellij'[i] = zellij[i]
                    /\ \A t \in Threads : WorksOn(t, i) => pc[t] \notin {"create", "await"}
<1>1. CASE SessionAppears(id)
  BY <1>1 DEF SessionAppears, StoresOK
<1>2. CASE SessionDecays(id)
  <2>1. PICK z \in {"exited", "none", "bare"} : zellij' = [zellij EXCEPT ![id] = z]
    BY <1>2 DEF SessionDecays, Decay
  <2> QED
    BY <1>2, <2>1 DEF SessionDecays, StoresOK
<1>3. CASE HookRecordsNative(id)
  <2>1. rows[id] \in Row /\ rows' = [rows EXCEPT ![id] = [@ EXCEPT !.native = TRUE]]
    BY <1>3 DEF HookRecordsNative, StoresOK
  <2>2. /\ [rows[id] EXCEPT !.native = TRUE] \in Row
        /\ [rows[id] EXCEPT !.native = TRUE].fresh = rows[id].fresh
    BY <2>1 DEF Row
  <2>3. \A i \in Ids : /\ rows'[i] = Nil <=> rows[i] = Nil
                       /\ rows[i] # Nil /\ rows[i].fresh => rows'[i].fresh
    BY <2>1, <2>2, ConstantsAssumption DEF StoresOK
  <2> QED
    BY <1>3, <2>3 DEF HookRecordsNative
<1>4. CASE GraceExpires(id)
  <2>1. rows[id] \in Row /\ rows' = [rows EXCEPT ![id] = [@ EXCEPT !.fresh = FALSE]]
    BY <1>4 DEF GraceExpires, StoresOK
  <2>2. [rows[id] EXCEPT !.fresh = FALSE] \in Row
    BY <2>1 DEF Row
  <2>3. \A i \in Ids : /\ rows'[i] = Nil <=> rows[i] = Nil
                       /\ i # id => rows'[i] = rows[i]
    BY <2>1, <2>2, ConstantsAssumption DEF StoresOK
  <2> QED
    BY <1>4, <2>3 DEF GraceExpires, Rising
<1> QED
  BY <1>1, <1>2, <1>3, <1>4

\* Reboots, and what zellij and the user do, keep the invariant of Revive.
LEMMA ReviveEnvironment ==
    ASSUME Smooth, IInv, ReviveInv, Environment
    PROVE  ReviveInv'
<1>1. LocalsOK /\ StoresOK /\ PcOK
  BY TypeParts DEF IInv
<1>2. CASE Reboot
  <2>1. /\ \A t \in Threads : pc'[t] = "idle" /\ call'[t] = Nil /\ live'[t]
        /\ \A id \in Ids : zellij'[id] \in {"exited", "none"}
    BY <1>1, <1>2, RebootEffect
  <2>2. \A t \in Threads : ~Spawning(t)' /\ ~Restarting(t)' /\ ~Judged(t)'
    BY <2>1, ConstantsAssumption DEF Spawning, Restarting, Judged, AllCalls
  <2>3. \A t \in Threads : LockAt(t)' /\ SpawnFreshAt(t)' /\ ReviveAt(t)'
    BY <2>2 DEF LockAt, SpawnFreshAt, ReviveAt
  <2>4. \A id \in Ids : GraceFor(id)'
    BY <2>1 DEF GraceFor, Rising
  <2> QED
    BY <2>1, <2>3, <2>4 DEF ReviveInv, LivesOK
<1>3. ASSUME UNCHANGED <<pc, locals>>, NEW id \in Ids,
             \/ SessionAppears(id) \/ SessionDecays(id)
             \/ HookRecordsNative(id) \/ GraceExpires(id)
      PROVE  ReviveInv'
  <2>1. \A i \in Ids :
          /\ rows'[i] = Nil <=> rows[i] = Nil
          /\ \/ zellij'[i] = zellij[i]
             \/ zellij'[i] \in {"exited", "none", "bare"}
             \/ zellij[i] = "coming" /\ zellij'[i] = "starting"
             \/ zellij[i] = "starting" /\ zellij'[i] = "up"
          /\ rows[i] # Nil /\ rows[i].fresh =>
             \/ rows'[i].fresh
             \/ /\ zellij[i] \notin Rising /\ zellij'[i] = zellij[i]
                /\ \A t \in Threads : WorksOn(t, i) => pc[t] \notin {"create", "await"}
    BY <1>1, <1>3, SurroundingsEffect
  <2>2. /\ UNCHANGED <<pc, call, sid, row, live, lifecycleLocks>>
        /\ \A t \in Threads : /\ Spawning(t)' <=> Spawning(t)
                              /\ Restarting(t)' <=> Restarting(t)
                              /\ Judged(t)' <=> Judged(t)
    BY <1>3 DEF locals, Spawning, Restarting, Judged
  <2>3. LivesOK' /\ \A t \in Threads : LockAt(t)'
    BY <2>2 DEF ReviveInv, LivesOK, LockAt
  <2>4. ASSUME NEW t \in Threads, Spawning(t) PROVE SpawnFreshAt(t)'
    <3>1. sid[t] \in Ids /\ row[t].fresh
      BY <1>1, <2>4, SpawningHasId DEF PcOK, ReviveInv, SpawnFreshAt
    <3>2. pc[t] \in {"create", "await"} => rows[sid[t]] = Nil \/ rows[sid[t]].fresh
      BY <2>4 DEF ReviveInv, SpawnFreshAt
    <3>3. pc[t] \in {"create", "await"} => rows'[sid[t]] = Nil \/ rows'[sid[t]].fresh
      BY <2>1, <3>1, <3>2 DEF WorksOn
    <3> QED
      BY <2>2, <3>1, <3>3 DEF SpawnFreshAt
  <2>5. ASSUME NEW i \in Ids, zellij'[i] \in Rising PROVE GraceFor(i)'
    <3>1. zellij[i] \in Rising
      BY <2>1, <2>5 DEF Rising
    <3>2. \/ rows[i] = Nil \/ rows[i].fresh
          \/ \E t \in Threads : /\ Restarting(t) /\ sid[t] = i
                                /\ pc[t] \in {"await", "merge"}
      BY <3>1 DEF ReviveInv, GraceFor
    <3> QED
      BY <2>1, <2>2, <3>1, <3>2 DEF GraceFor
  <2>6. ASSUME NEW t \in Threads, Judged(t) PROVE ReviveAt(t)'
    <3>1. ReviveAt(t) /\ sid[t] \in Ids
      BY <1>1, <2>6, ConstantsAssumption DEF ReviveInv, Judged, PcOK, PcAt
    <3>2. Settled(sid[t])'
      BY <2>2, <2>6, <3>1 DEF ReviveAt, Settled
    <3> QED
      BY <2>1, <2>2, <2>6, <3>1, <3>2 DEF ReviveAt, Rising
  <2> QED
    BY <2>2, <2>3, <2>4, <2>5, <2>6 DEF ReviveInv, SpawnFreshAt, GraceFor, ReviveAt
<1> QED
  BY <1>2, <1>3, UndisturbedEnvironment DEF Smooth

\* The invariant of Revive holds at the start and after every step.
LEMMA ReviveInit == Init => ReviveInv
BY ConstantsAssumption DEF Init, ReviveInv, LivesOK, LockAt, SpawnFreshAt, GraceFor,
   ReviveAt, Judged, Spawning, Restarting, AllCalls, Rising

LEMMA ReviveNext ==
    ASSUME OneProcess, Smooth
    PROVE  IInv /\ ReviveInv /\ [Next]_vars => ReviveInv'
<1>1. CASE IInv /\ ReviveInv /\ UNCHANGED vars
  BY <1>1 DEF vars, ReviveInv, LivesOK, LockAt, SpawnFreshAt, GraceFor, ReviveAt,
     Judged, Settled, Spawning, Restarting
<1>2. CASE IInv /\ ReviveInv /\ Next
  BY <1>2, ReviveStart, ReviveStep, ReviveEnvironment DEF Next
<1> QED
  BY <1>1, <1>2

\* Revive never kills a session whose host is up or still coming up, for every
\* number of calls in the process: the probe, the grace period and the
\* per-session lock of restartLocked together.  Each condition is one the code
\* needs: a dial that fails reads as a host that is down; a merge that fails, or
\* a CreateSession that gives up on a session it cannot see, begins no grace.
THEOREM RevivesSpareHealthy ==
    ASSUME OneProcess, Smooth
    PROVE  Spec => ReviveSparesHealthy
<1>1. IInv /\ ReviveInv =>
        \A t \in Threads :
            call[t] = "Revive" /\ pc[t] = "killDelete" => zellij[sid[t]] \notin Healthy
  BY DEF ReviveInv, ReviveAt, Judged, Healthy, Rising
<1>2. Spec => []ReviveInv
  BY ReviveInit, ReviveNext, Invariant, PTL DEF Spec
<1> DEFINE Spared == \A t \in Threads :
              call[t] = "Revive" /\ pc[t] = "killDelete" /\ pc'[t] = "create"
                  => zellij[sid[t]] \notin Healthy
<1>3. IInv /\ ReviveInv /\ [Next]_vars => [Spared]_vars
  BY <1>1
<1> QED
  BY <1>2, <1>3, Invariant, PTL DEF Spec, ReviveSparesHealthy

-----------------------------------------------------------------------------
(* Running sessions and their rows.                                        *)

\* The sessions a call is about: the one it works on, and for a sweep those it
\* has listed and not visited yet.
Uses(t) == ({sid[t]} \ {Nil}) \union (IF Sweeping(t) THEN todo[t] ELSE {})

\* Calls overlap in time, and no two of them are about one session.
Apart == \A t, u \in Threads : t # u => Uses(t) \intersect Uses(u) = {}

\* A session that runs or was started.
Alive == Healthy \union {"coming"}

\* Whoever started a session waits for it.
ComingFor(id) ==
    zellij[id] = "coming" => \E t \in Threads : pc[t] = "await" /\ sid[t] = id

AliveFor(id) == zellij[id] \in Alive => rows[id] # Nil

\* Where a call is about to create a session or to remove its row, the session
\* does not run; where it is about to start one, there is a row.
ClearAt(t) ==
    /\ pc[t] \in {"undoRow", "tree", "delete"} => zellij[sid[t]] \notin Alive
    /\ Spawning(t) /\ pc[t] = "create" => zellij[sid[t]] \notin Alive
    /\ pc[t] = "create" => rows[sid[t]] # Nil
    /\ Restarting(t) /\ pc[t] \in {"prepare", "killProbe", "killDelete"}
           => rows[sid[t]] # Nil

\* Past its listing a sweep has only sessions that do not run before it.
SweepAt(t) ==
    Sweeping(t) /\ pc[t] # "sweepProbe" => \A id \in todo[t] : zellij[id] \notin Alive

AliveInv ==
    /\ LivesOK
    /\ \A id \in Ids : ComingFor(id) /\ AliveFor(id)
    /\ \A t \in Threads : ClearAt(t) /\ SweepAt(t)

\* How a call comes to the steps ClearAt is about.
LEMMA ClearStep ==
    ASSUME Undisturbed, NEW t \in Threads, LocalsOK, StoresOK, PcAt(t), live[t],
           AcquireLock(t) \/ Step(t),
           pc'[t] \in {"undoRow", "tree", "delete", "create",
                       "prepare", "killProbe", "killDelete"}
    PROVE  /\ call'[t] = call[t]
           /\ \/ /\ pc[t] # "next" /\ sid'[t] = sid[t] /\ sid[t] \in Ids
                 /\ pc'[t] = "undoRow" => /\ pc[t] \in {"create", "await"} /\ Spawning(t)
                                          /\ UNCHANGED zellij
                                          /\ pc[t] = "await" => zellij[sid[t]] = "none"
                 /\ pc'[t] = "delete" => pc[t] = "tree" /\ UNCHANGED zellij
                 /\ pc'[t] = "tree" => pc[t] \in {"killProbe", "killDelete"}
                 /\ pc'[t] = "create" =>
                       \/ pc[t] = "insert" /\ rows'[sid[t]] # Nil /\ UNCHANGED zellij
                       \/ /\ pc[t] \in {"killProbe", "killDelete"}
                          /\ Restarting(t) /\ UNCHANGED rows
                 /\ Restarting(t) /\ pc'[t] \in {"prepare", "killProbe", "killDelete"} =>
                       /\ UNCHANGED rows
                       /\ \/ pc[t] = "load" /\ rows[sid[t]] # Nil
                          \/ pc[t] \in {"prepare", "killProbe"}
              \/ /\ pc[t] = "next" /\ sid'[t] \in todo[t]
                 /\ UNCHANGED <<rows, zellij>>
                 /\ \/ Sweeping(t) /\ pc'[t] = "tree"
                    \/ Stopping(t) /\ pc'[t] = "killProbe"
<1>1. ~Return(t)
  BY ReturnEffect
<1>2. "slow" \notin Faults /\ "blind" \notin Faults
  BY DEF Undisturbed
<1>3. CASE Prepare(t)
  BY <1>1, <1>3 DEF Prepare, Continue, Goto, LocalsOK, PcAt, stores, locals, Spawning,
     Restarting
<1>4. CASE Insert(t)
  <2>1. sid[t] \in Ids /\ row[t] \in Row /\ ~Restarting(t)
    BY <1>4 DEF Insert, PcAt, Spawning, Restarting
  <2>2. [row[t] EXCEPT !.native = FALSE] # Nil
    <3>1. [row[t] EXCEPT !.native = FALSE] \in Row
      BY <2>1 DEF Row
    <3> QED
      BY <3>1, ConstantsAssumption
  <2> QED
    BY <1>1, <1>4, <2>1, <2>2 DEF Insert, Continue, Goto, LocalsOK, StoresOK, locals
<1>5. CASE CreateSession(t)
  BY <1>1, <1>5 DEF CreateSession, CreateFailed, Continue, Goto, LocalsOK, PcAt, locals
<1>6. CASE WaitForSessionUp(t)
  BY <1>1, <1>2, <1>6 DEF WaitForSessionUp, CreateFailed, MayFail, Continue, Goto,
     LocalsOK, PcAt, locals
<1>7. CASE LoadSource(t)
  BY <1>1, <1>7 DEF LoadSource, Goto, LocalsOK, PcAt, stores
<1>8. CASE KillProbe(t)
  BY <1>1, <1>8 DEF KillProbe, AfterKill, Continue, Goto, LocalsOK, PcAt, stores, locals
<1>9. CASE KillDelete(t)
  BY <1>1, <1>9 DEF KillDelete, AfterKill, Continue, Goto, LocalsOK, PcAt, locals
<1>10. CASE NextSession(t)
  <2>0. pc[t] = "next" /\ UNCHANGED stores /\ (Stopping(t) \/ Sweeping(t))
    BY <1>10 DEF NextSession, PcAt
  <2>1. PICK id \in todo[t] :
           /\ sid' = [sid EXCEPT ![t] = id]
           /\ Goto(t, IF Stopping(t) THEN "killProbe" ELSE "tree")
           /\ UNCHANGED call
    BY <1>1, <1>10, <2>0 DEF NextSession
  <2>2. sid'[t] = id
    BY <2>1 DEF LocalsOK
  <2>3. pc'[t] = IF Stopping(t) THEN "killProbe" ELSE "tree"
    BY <2>1 DEF LocalsOK, Goto
  <2>4. call'[t] = call[t] /\ sid'[t] \in todo[t] /\ UNCHANGED <<rows, zellij>>
    BY <2>0, <2>1, <2>2 DEF stores
  <2>5. CASE Stopping(t)
    BY <2>0, <2>3, <2>4, <2>5
  <2>6. CASE Sweeping(t) /\ ~Stopping(t)
    BY <2>0, <2>3, <2>4, <2>6
  <2> QED
    BY <2>0, <2>5, <2>6
<1>11. CASE RemoveSessionWorktree(t)
  BY <1>1, <1>11 DEF RemoveSessionWorktree, Continue, Goto, LocalsOK, PcAt, locals,
     Restarting, Stopping, Sweeping
<1>12. CASE CreateWorktree(t)
  BY <1>1, <1>12 DEF CreateWorktree, Continue, Goto, LocalsOK, PcAt, locals,
     Restarting, Spawning
<1>13. CASE \/ UndoRow(t) \/ UndoTree(t) \/ Announce(t) \/ ProbeAgent(t)
            \/ MergeRestart(t) \/ AwaitAgent(t) \/ SweepProbe(t) \/ DeleteRow(t)
            \/ AnnounceEnd(t) \/ AcquireLock(t)
  BY <1>1, <1>13 DEF UndoRow, UndoTree, Announce, ProbeAgent, MergeRestart, AwaitAgent,
     SweepProbe, DeleteRow, AnnounceEnd, AcquireLock, Continue, Goto, LocalsOK
<1> QED
  BY <1>3, <1>4, <1>5, <1>6, <1>7, <1>8, <1>9, <1>10, <1>11, <1>12, <1>13 DEF Step

\* Nobody leaves the wait for a session it has started before it is listed.
LEMMA AwaitStep ==
    ASSUME Undisturbed, NEW t \in Threads, LocalsOK, StoresOK, PcAt(t), live[t],
           AcquireLock(t) \/ Step(t), pc[t] = "await"
    PROVE  zellij[sid[t]] # "coming"
<1>1. WaitForSessionUp(t)
  BY DEF Step, AcquireLock, CreateWorktree, Prepare, Insert, CreateSession,
     UndoRow, UndoTree, Announce, ProbeAgent, LoadSource, MergeRestart, AwaitAgent,
     KillProbe, KillDelete, SweepProbe, NextSession, RemoveSessionWorktree,
     DeleteRow, AnnounceEnd
<1> QED
  BY <1>1 DEF WaitForSessionUp, Undisturbed, MayFail, Listed

\* A sweep keeps the sessions its listing does not show.
LEMMA SweepStep ==
    ASSUME NEW t \in Threads, LocalsOK, AcquireLock(t) \/ Step(t),
           pc[t] = "sweepProbe"
    PROVE  \A id \in todo'[t] : id \in todo[t] /\ ~Listed(id)
<1>1. SweepProbe(t)
  BY DEF Step, AcquireLock, CreateWorktree, Prepare, Insert, CreateSession,
     WaitForSessionUp, UndoRow, UndoTree, Announce, ProbeAgent, LoadSource,
     MergeRestart, AwaitAgent, KillProbe, KillDelete, NextSession,
     RemoveSessionWorktree, DeleteRow, AnnounceEnd
<1>2. CASE Return(t)
  BY <1>2, ReturnEffect
<1>3. CASE todo' = [todo EXCEPT ![t] = {id \in @ : ~Listed(id)}]
  BY <1>3 DEF LocalsOK
<1> QED
  BY <1>1, <1>2, <1>3 DEF SweepProbe

\* Two calls that work on a session each work on different ones.
LEMMA ApartSids ==
    ASSUME Apart, NEW t \in Threads, NEW u \in Threads \ {t}, sid[u] \in Ids
    PROVE  /\ sid[t] # sid[u]
           /\ Sweeping(t) => sid[u] \notin todo[t]
BY ConstantsAssumption DEF Apart, Uses

\* A step of a call, while no other call is about its session, keeps the
\* invariant of running sessions.
LEMMA AliveStep ==
    ASSUME Undisturbed, Apart, IInv, AliveInv,
           NEW t \in Threads, AcquireLock(t) \/ Step(t)
    PROVE  AliveInv'
<1>1. LocalsOK /\ StoresOK /\ PcAt(t) /\ live[t] /\ ClearAt(t) /\ SweepAt(t)
  BY TypeParts DEF IInv, PcOK, AliveInv, LivesOK
<1>2. LocalsOK' /\ StoresOK' /\ OthersStay(t) /\ PcAt(t)'
  BY <1>1, ControlStep, StoresStep
<1>3. LivesOK'
  BY <1>1, LocksStep DEF AliveInv, LivesOK
<1>4. ASSUME NEW id \in Ids, zellij'[id] = "coming" PROVE ComingFor(id)'
  <2>1. CASE zellij'[id] # zellij[id]
    <3>1. id = sid[t] /\ pc'[t] = "await" /\ UNCHANGED locals
      BY <1>1, <1>4, <2>1, ZellijStep
    <3> QED
      BY <3>1 DEF ComingFor, locals
  <2>2. CASE zellij'[id] = zellij[id]
    <3>1. PICK v \in Threads : pc[v] = "await" /\ sid[v] = id
      BY <1>4, <2>2 DEF AliveInv, ComingFor
    <3>2. v # t
      BY <1>1, <1>4, <2>2, <3>1, AwaitStep
    <3> QED
      BY <1>2, <3>1, <3>2 DEF ComingFor, OthersStay
  <2> QED
    BY <2>1, <2>2
<1>5. ASSUME NEW id \in Ids, zellij'[id] \in Alive PROVE rows'[id] # Nil
  <2>1. CASE zellij'[id] # zellij[id]
    <3>1. id = sid[t] /\ pc[t] = "create"
      BY <1>1, <1>5, <2>1, ZellijStep DEF Alive, Healthy
    <3>2. rows[id] # Nil
      BY <1>1, <3>1 DEF ClearAt
    <3> QED
      BY <1>1, <3>1, <3>2, StepEffect
  <2>2. CASE zellij'[id] = zellij[id]
    <3>1. rows[id] # Nil
      BY <1>5, <2>2 DEF AliveInv, AliveFor
    <3>2. ASSUME rows'[id] = Nil PROVE FALSE
      <4>1. id = sid[t] /\ pc[t] \in {"undoRow", "delete"}
        BY <1>1, <3>1, <3>2, StepEffect
      <4> QED
        BY <1>1, <1>5, <2>2, <4>1 DEF ClearAt
    <3> QED
      BY <3>2
  <2> QED
    BY <2>1, <2>2
<1>6. ASSUME NEW id \in Ids, NEW v \in Threads, pc[v] # "await",
             id \in Uses(v), zellij[id] = "coming"
      PROVE  FALSE
  <2>1. PICK w \in Threads : pc[w] = "await" /\ sid[w] = id
    BY <1>6 DEF AliveInv, ComingFor
  <2>2. w # v /\ id \in Uses(w)
    BY <1>6, <2>1, ConstantsAssumption DEF Uses
  <2> QED
    BY <1>6, <2>2 DEF Apart
<1>7. ClearAt(t)'
  <2> DEFINE s == sid[t]
  <2>1. CASE pc'[t] \in {"undoRow", "tree", "delete", "create",
                         "prepare", "killProbe", "killDelete"}
    <3>0. call'[t] = call[t]
      BY <1>1, <2>1, ClearStep
    <3>1. CASE pc[t] = "next"
      <4>1. /\ sid'[t] \in todo[t] /\ UNCHANGED <<rows, zellij>>
            /\ \/ Sweeping(t) /\ pc'[t] = "tree"
               \/ Stopping(t) /\ pc'[t] = "killProbe"
        BY <1>1, <2>1, <3>1, ClearStep
      <4>2. CASE Sweeping(t) /\ pc'[t] = "tree"
        BY <1>1, <3>1, <4>1, <4>2 DEF SweepAt, ClearAt
      <4>3. CASE Stopping(t) /\ pc'[t] = "killProbe"
        <5>1. ~Restarting(t)'
          BY <3>0, <4>3 DEF Stopping, Restarting
        <5> QED
          BY <4>3, <5>1 DEF ClearAt
      <4> QED
        BY <4>1, <4>2, <4>3
    <3>2. CASE pc[t] # "next"
      <4>0. s \in Ids /\ sid'[t] = s
        BY <1>1, <2>1, <3>2, ClearStep
      <4>1. CASE pc'[t] = "undoRow"
        <5>1. /\ UNCHANGED zellij /\ zellij[s] \notin Alive
          BY <1>1, <3>2, <4>1, ClearStep DEF ClearAt, Alive, Healthy
        <5> QED
          BY <4>0, <4>1, <5>1 DEF ClearAt
      <4>2. CASE pc'[t] = "delete"
        <5>1. UNCHANGED zellij /\ pc[t] = "tree"
          BY <1>1, <3>2, <4>2, ClearStep
        <5> QED
          BY <1>1, <4>0, <4>2, <5>1 DEF ClearAt
      <4>3. CASE pc'[t] = "tree"
        <5>1. pc[t] \in {"killProbe", "killDelete"}
          BY <1>1, <3>2, <4>3, ClearStep
        <5>2. zellij'[s] \in {zellij[s], "none"}
          BY <1>1, <4>0, <5>1, ZellijStep
        <5>3. zellij[s] # "coming"
          BY <1>1, <1>6, <4>0, <5>1, ConstantsAssumption DEF Uses
        <5>4. ~Listed(s)'
          <6>1. CASE pc[t] = "killProbe"
            BY <1>1, <4>0, <4>3, <6>1, ZellijStep DEF Listed
          <6>2. CASE pc[t] = "killDelete"
            BY <1>1, <4>0, <4>3, <6>2, ZellijStep DEF Listed
          <6> QED
            BY <5>1, <6>1, <6>2
        <5>5. zellij'[s] = "none"
          BY <4>0, <5>2, <5>3, <5>4 DEF Listed
        <5> QED
          BY <4>0, <4>3, <5>5 DEF ClearAt, Alive, Healthy
      <4>4. CASE pc'[t] = "create"
        <5>1. \/ pc[t] = "insert" /\ rows'[s] # Nil /\ UNCHANGED zellij
              \/ /\ pc[t] \in {"killProbe", "killDelete"}
                 /\ Restarting(t) /\ UNCHANGED rows
          BY <1>1, <3>2, <4>4, ClearStep
        <5>2. rows'[s] # Nil
          BY <1>1, <5>1 DEF ClearAt
        <5>3. Spawning(t)' => zellij'[s] \notin Alive
          <6>1. ASSUME Spawning(t)' PROVE zellij'[s] \notin Alive
            <7>1. pc[t] = "insert" /\ Spawning(t)
              BY <1>1, <4>4, <6>1, StartingStep
            <7>2. rows[s] = Nil
              BY <7>1 DEF IInv, FreshOK, FreshAt, BeforeRow
            <7> QED
              BY <4>0, <5>1, <7>1, <7>2 DEF AliveInv, AliveFor
          <6> QED
            BY <6>1
        <5> QED
          BY <4>0, <4>4, <5>2, <5>3 DEF ClearAt
      <4>5. CASE pc'[t] \in {"prepare", "killProbe", "killDelete"}
        <5>1. ASSUME Restarting(t)' PROVE rows'[s] # Nil
          <6>1. Restarting(t)
            BY <3>0, <5>1 DEF Restarting
          <6>2. /\ UNCHANGED rows
                /\ \/ pc[t] = "load" /\ rows[s] # Nil
                   \/ pc[t] \in {"prepare", "killProbe"}
            BY <1>1, <3>2, <4>5, <6>1, ClearStep
          <6> QED
            BY <1>1, <6>1, <6>2 DEF ClearAt
        <5> QED
          BY <4>0, <4>5, <5>1 DEF ClearAt
      <4> QED
        BY <2>1, <4>1, <4>2, <4>3, <4>4, <4>5
    <3> QED
      BY <3>1, <3>2
  <2>2. CASE pc'[t] \notin {"undoRow", "tree", "delete", "create",
                            "prepare", "killProbe", "killDelete"}
    BY <2>2 DEF ClearAt
  <2> QED
    BY <2>1, <2>2
<1>8. ASSUME Sweeping(t)', pc'[t] # "sweepProbe", NEW id \in todo'[t]
      PROVE  zellij'[id] \notin Alive
  <2>1. Sweeping(t) /\ id \in todo[t] /\ id \in Ids
    BY <1>1, <1>8, StepEffect, ConstantsAssumption DEF Sweeping, AllCalls, LocalsOK
  <2>2. UNCHANGED zellij
    BY <1>1, <2>1, ZellijStep DEF PcAt, Sweeping, Spawning, Restarting, Stopping
  <2>3. CASE pc[t] = "sweepProbe"
    <3>1. ~Listed(id)
      BY <1>1, <1>8, <2>3, SweepStep
    <3>2. zellij[id] # "coming"
      BY <1>6, <2>1, <2>3 DEF Uses
    <3> QED
      BY <2>2, <3>1, <3>2 DEF Listed, Alive, Healthy
  <2>4. CASE pc[t] # "sweepProbe"
    BY <1>1, <2>1, <2>2, <2>4 DEF SweepAt
  <2> QED
    BY <2>3, <2>4
<1>9. ASSUME NEW u \in Threads \ {t} PROVE ClearAt(u)' /\ SweepAt(u)'
  <2>1. ClearAt(u) /\ SweepAt(u) /\ PcAt(u)
    BY DEF AliveInv, IInv, PcOK
  <2>2. /\ pc'[u] = pc[u] /\ sid'[u] = sid[u] /\ todo'[u] = todo[u]
        /\ Spawning(u)' <=> Spawning(u)
        /\ Restarting(u)' <=> Restarting(u)
        /\ Sweeping(u)' <=> Sweeping(u)
    BY <1>2 DEF OthersStay, Spawning, Restarting, Sweeping
  <2>3. sid[u] \in Ids =>
            zellij'[sid[u]] = zellij[sid[u]] /\ rows'[sid[u]] = rows[sid[u]]
    BY <1>1, ApartSids, ZellijStep, RowsStep
  <2>4. ClearAt(u)'
    BY <2>1, <2>2, <2>3 DEF ClearAt, PcAt
  <2>5. ASSUME Sweeping(u), NEW id \in todo[u] PROVE zellij'[id] = zellij[id]
    <3>1. id \in Ids
      BY <1>1, <2>5 DEF LocalsOK
    <3>2. id # sid[t]
      BY <2>5, <3>1, ConstantsAssumption DEF Apart, Uses
    <3> QED
      BY <1>1, <3>1, <3>2, ZellijStep
  <2>6. SweepAt(u)'
    BY <2>1, <2>2, <2>5 DEF SweepAt
  <2> QED
    BY <2>4, <2>6
<1> QED
  BY <1>3, <1>4, <1>5, <1>7, <1>8, <1>9 DEF AliveInv, ComingFor, AliveFor, SweepAt

\* The beginning of a call keeps the invariant of running sessions.
LEMMA AliveStart ==
    ASSUME IInv, AliveInv, NEW t \in Threads, Start(t)
    PROVE  AliveInv'
<1>1. LocalsOK /\ StoresOK /\ PcOK
  BY TypeParts DEF IInv
<1>2. /\ OthersStay(t) /\ pc[t] = "idle"
      /\ UNCHANGED <<rows, zellij, live>>
      /\ StartsNew(t) \/ StartsRestart(t) \/ StartsLoop(t)
  BY <1>1, StartEffect, StartKeeps
<1>3. LivesOK'
  BY <1>2 DEF AliveInv, LivesOK
<1>4. \A id \in Ids : ComingFor(id)' /\ AliveFor(id)'
  BY <1>2 DEF AliveInv, ComingFor, AliveFor, OthersStay
<1>5. ClearAt(t)' /\ SweepAt(t)'
  BY <1>2 DEF StartsNew, StartsRestart, StartsLoop, ClearAt, SweepAt, Restarting,
     Sweeping
<1>6. ASSUME NEW u \in Threads \ {t} PROVE ClearAt(u)' /\ SweepAt(u)'
  <2>1. ClearAt(u) /\ SweepAt(u)
    BY DEF AliveInv
  <2>2. /\ pc'[u] = pc[u] /\ sid'[u] = sid[u] /\ todo'[u] = todo[u]
        /\ Spawning(u)' <=> Spawning(u)
        /\ Restarting(u)' <=> Restarting(u)
        /\ Sweeping(u)' <=> Sweeping(u)
    BY <1>2 DEF OthersStay, Spawning, Restarting, Sweeping
  <2> QED
    BY <1>2, <2>1, <2>2 DEF ClearAt, SweepAt
<1> QED
  BY <1>3, <1>4, <1>5, <1>6 DEF AliveInv

\* Reboots, and what zellij and the user do, start no session nobody waits for.
LEMMA AliveEnvironment ==
    ASSUME Undisturbed, IInv, AliveInv, Environment
    PROVE  AliveInv'
<1>1. LocalsOK /\ StoresOK /\ PcOK
  BY TypeParts DEF IInv
<1>2. CASE Reboot
  <2>1. /\ \A t \in Threads : pc'[t] = "idle" /\ todo'[t] = {} /\ live'[t]
        /\ \A id \in Ids : zellij'[id] \in {"exited", "none"}
    BY <1>1, <1>2, RebootEffect
  <2>2. LivesOK' /\ \A id \in Ids : ComingFor(id)' /\ AliveFor(id)'
    BY <2>1 DEF LivesOK, ComingFor, AliveFor, Alive, Healthy
  <2>3. \A t \in Threads : ClearAt(t)' /\ SweepAt(t)'
    BY <2>1 DEF ClearAt, SweepAt
  <2> QED
    BY <2>2, <2>3 DEF AliveInv
<1>3. ASSUME UNCHANGED <<pc, locals>>, NEW id \in Ids,
             \/ SessionAppears(id) \/ SessionDecays(id)
             \/ HookRecordsNative(id) \/ GraceExpires(id)
      PROVE  AliveInv'
  <2>1. \A i \in Ids : /\ rows'[i] = Nil <=> rows[i] = Nil
                       /\ zellij'[i] \in Alive => zellij[i] \in Alive
                       /\ zellij'[i] = "coming" => zellij[i] = "coming"
    BY <1>1, <1>3, SurroundingsEffect DEF Alive, Healthy
  <2>2. /\ UNCHANGED <<pc, call, sid, todo, live>>
        /\ \A t \in Threads : /\ Spawning(t)' <=> Spawning(t)
                              /\ Restarting(t)' <=> Restarting(t)
                              /\ Sweeping(t)' <=> Sweeping(t)
    BY <1>3 DEF locals, Spawning, Restarting, Sweeping
  <2>3. LivesOK' /\ \A i \in Ids : ComingFor(i)' /\ AliveFor(i)'
    BY <2>1, <2>2 DEF AliveInv, LivesOK, ComingFor, AliveFor
  <2>4. ASSUME NEW t \in Threads PROVE ClearAt(t)' /\ SweepAt(t)'
    <3>1. ClearAt(t) /\ SweepAt(t) /\ PcAt(t) /\ todo[t] \subseteq Ids
      BY <1>1 DEF AliveInv, PcOK, LocalsOK
    <3>2. ClearAt(t)'
      BY <2>1, <2>2, <3>1 DEF ClearAt, PcAt
    <3>3. SweepAt(t)'
      BY <2>1, <2>2, <3>1 DEF SweepAt
    <3> QED
      BY <3>2, <3>3
  <2> QED
    BY <2>3, <2>4 DEF AliveInv
<1> QED
  BY <1>2, <1>3, UndisturbedEnvironment

\* The invariant of running sessions holds at the start, and as long as no two
\* calls are about one session.
LEMMA AliveInit == Init => AliveInv
BY DEF Init, AliveInv, LivesOK, ComingFor, AliveFor, ClearAt, SweepAt, Alive, Healthy

LEMMA AliveNext ==
    ASSUME Undisturbed
    PROVE  IInv /\ Apart /\ AliveInv /\ [Next]_vars => AliveInv'
<1>1. CASE IInv /\ AliveInv /\ UNCHANGED vars
  BY <1>1 DEF vars, AliveInv, LivesOK, ComingFor, AliveFor, ClearAt, SweepAt,
     Spawning, Restarting, Sweeping
<1>2. CASE IInv /\ Apart /\ AliveInv /\ Next
  BY <1>2, AliveStart, AliveStep, AliveEnvironment DEF Next
<1> QED
  BY <1>1, <1>2

LEMMA AliveAlways ==
    ASSUME Undisturbed
    PROVE  Spec /\ []Apart => []AliveInv
BY AliveInit, AliveNext, Invariant, PTL DEF Spec

\* A session that runs or is coming up has its row, whichever statements of the
\* store and commands of git fail and however often the machine restarts, in
\* each behaviour in which no two overlapping calls are about one session.  A
\* zellij command may fail too, but not list-sessions for all of the 2.5 s
\* CreateSession waits: Spawn then rolls back the row of a running session.
THEOREM LiveSessionsHaveRows ==
    ASSUME Undisturbed
    PROVE  Spec /\ []Apart => []LiveSessionHasRow
<1>1. AliveInv => LiveSessionHasRow
  BY DEF AliveInv, AliveFor, Alive, LiveSessionHasRow
<1> QED
  BY <1>1, AliveAlways, PTL

\* A sweep removes the worktree of no session that runs or is being started,
\* under the same conditions: a Reconcile or ReconcileAll may overlap with
\* calls about sessions it has not listed.
THEOREM SweepsOnlyDead ==
    ASSUME Undisturbed
    PROVE  Spec /\ []Apart => SweepOnlyDead
<1> DEFINE Dead == \A t \in Threads :
              Sweeping(t) /\ pc[t] = "tree" /\ pc'[t] = "delete"
                  => zellij[sid[t]] \notin Healthy \union {"coming"}
<1>1. AliveInv /\ [Next]_vars => [Dead]_vars
  BY DEF AliveInv, ClearAt, Alive
<1> QED
  BY <1>1, AliveAlways, PTL DEF Spec, SweepOnlyDead
=============================================================================
