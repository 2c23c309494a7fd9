------------------------ MODULE SessionLifecycleProofs ------------------------
(***************************************************************************)
(* The safety invariants of SessionLifecycle for every set of ids,         *)
(* processes, threads, calls and faults.                                   *)
(***************************************************************************)
EXTENDS SessionLifecycle, TLAPS

-----------------------------------------------------------------------------
(* The inductive invariant.                                                *)

\* Which methods run which steps, and what a thread holds there.
PcAt(t) ==
    /\ pc[t] \in {"worktree", "insert", "announce", "undoRow", "undoTree"}
           => Spawning(t)
    /\ pc[t] \in {"lock", "probe", "load", "merge", "awaitAgent"}
           => Restarting(t)
    /\ pc[t] \in {"prepare", "create", "await"}
           => Spawning(t) \/ Restarting(t)
    /\ pc[t] \in {"killProbe", "killDelete"} => Restarting(t) \/ Stopping(t)
    /\ pc[t] \in {"next", "tree", "delete", "announceEnd"}
           => Stopping(t) \/ Sweeping(t)
    /\ pc[t] = "sweepProbe" => Sweeping(t)
    /\ pc[t] = "idle" => call[t] = Nil /\ sid[t] = Nil
    /\ pc[t] \notin {"idle", "next", "sweepProbe"} => sid[t] \in Ids
    /\ Spawning(t) => row[t] \in Row

PcOK == \A t \in Threads : PcAt(t)

\* An id nobody has drawn appears nowhere.
MintedOK ==
    /\ \A id \in Ids : rows[id] # Nil => id \in minted
    /\ \A t \in Threads : sid[t] # Nil => sid[t] \in minted
    /\ \A t \in Threads : todo[t] \subseteq minted
    /\ worktrees \subseteq minted
    /\ created \subseteq minted
    /\ terminated \subseteq minted

\* Until its row is inserted a spawn has its id to itself.
FreshAt(t) ==
    Spawning(t) /\ pc[t] \in BeforeRow =>
        /\ rows[sid[t]] = Nil
        /\ sid[t] \notin terminated
        /\ \A u \in Threads \ {t} : sid[u] = sid[t] => pc[u] \in {"lock", "load"}
        /\ \A u \in Threads : Sweeping(u) => sid[t] \notin todo[u]
        /\ pc[t] = "worktree" => row[t].isolated
        /\ pc[t] # "worktree" /\ row[t].isolated => sid[t] \in worktrees

FreshOK == \A t \in Threads : FreshAt(t)

\* A spawn that has its row keeps it, or its end is under way.
Ending(id) ==
    id \in terminated \/ \E u \in Threads : sid[u] = id /\ pc[u] = "announceEnd"

\* One spawn per id, and what holds until it has announced it.
SpawnAt(t) ==
    Spawning(t) =>
        /\ sid[t] \notin created
        /\ ~row[t].isolated => sid[t] \notin worktrees
        /\ pc[t] = "undoTree" => rows[sid[t]] = Nil \/ sid[t] \in strays
        /\ pc[t] \in {"create", "await", "announce"} /\ sid[t] \notin strays
               => rows[sid[t]] # Nil \/ Ending(sid[t])
        /\ \A u \in Threads \ {t} : Spawning(u) => sid[u] # sid[t]

SpawnOK == \A t \in Threads : SpawnAt(t)

\* The order of removal: worktree, row, event.
RemoveAt(t) ==
    /\ pc[t] = "delete" => sid[t] \notin worktrees \/ sid[t] \in strays
    /\ pc[t] = "announceEnd" => rows[sid[t]] = Nil

RemoveOK == \A t \in Threads : RemoveAt(t)

IInv ==
    /\ TypeOK
    /\ PcOK
    /\ MintedOK
    /\ FreshOK
    /\ SpawnOK
    /\ RemoveOK
    /\ WorktreesAccounted
    /\ RowsKeepWorktree
    /\ EndIsFinal
    /\ EndIsAnnounced

-----------------------------------------------------------------------------
(* Types and control.  What a thread holds, and what the stores hold.      *)

LocalsOK ==
    /\ pc \in [Threads -> Pc]
    /\ call \in [Threads -> Calls \union {Nil}]
    /\ sid \in [Threads -> Ids \union {Nil}]
    /\ todo \in [Threads -> SUBSET Ids]
    /\ row \in [Threads -> Row \union {Nil}]
    /\ live \in [Threads -> BOOLEAN]
    /\ lifecycleLocks \in [Engines -> [Ids -> Threads \union {Nil}]]

StoresOK ==
    /\ rows \in [Ids -> Row \union {Nil}]
    /\ zellij \in [Ids -> ZellijState]
    /\ worktrees \subseteq Ids
    /\ minted \subseteq Ids
    /\ created \subseteq Ids
    /\ terminated \subseteq Ids
    /\ strays \subseteq Ids

\* Every thread but t is where it was.
OthersStay(t) ==
    \A u \in Threads \ {t} :
        /\ pc'[u] = pc[u]
        /\ call'[u] = call[u]
        /\ sid'[u] = sid[u]
        /\ todo'[u] = todo[u]
        /\ row'[u] = row[u]

\* TypeOK is the two halves together.
LEMMA TypeParts == TypeOK <=> LocalsOK /\ StoresOK
BY DEF TypeOK, LocalsOK, StoresOK

\* Returning clears what the thread holds and touches no other thread.
LEMMA ReturnEffect ==
    ASSUME NEW t \in Threads, LocalsOK, Return(t)
    PROVE  /\ LocalsOK'
           /\ OthersStay(t)
           /\ pc'[t] = "idle" /\ call'[t] = Nil /\ sid'[t] = Nil
           /\ todo'[t] = {} /\ row'[t] = Nil
<1>1. "idle" \in Pc
  BY DEF Pc
<1>2. lifecycleLocks' \in [Engines -> [Ids -> Threads \union {Nil}]]
  BY DEF LocalsOK, Return
<1>3. LocalsOK'
  BY <1>1, <1>2 DEF LocalsOK, Return, Goto
<1> QED
  BY <1>3 DEF LocalsOK, Return, Goto, OthersStay

\* Continuing moves the thread's pc and nothing else of any thread.
LEMMA ContinueEffect ==
    ASSUME NEW t \in Threads, NEW label \in Pc, LocalsOK, Continue(t, label)
    PROVE  /\ LocalsOK'
           /\ OthersStay(t)
           /\ pc'[t] = label
           /\ UNCHANGED locals
BY DEF LocalsOK, Continue, Goto, locals, OthersStay

\* A call begins on an idle thread with the values it is given.
LEMMA BeginEffect ==
    ASSUME NEW t \in Threads, NEW m, NEW id \in Ids \union {Nil},
           NEW r \in Row \union {Nil}, NEW ids \in SUBSET Ids,
           NEW label \in Pc, LocalsOK, Begin(t, m, id, r, ids, label)
    PROVE  /\ LocalsOK'
           /\ OthersStay(t)
           /\ pc[t] = "idle"
           /\ pc'[t] = label /\ call'[t] = m /\ sid'[t] = id
           /\ todo'[t] = ids /\ row'[t] = r
BY DEF LocalsOK, Begin, Goto, OthersStay

\* An idle thread without a call satisfies PcAt.
LEMMA IdleAt ==
    ASSUME NEW t \in Threads, pc'[t] = "idle", call'[t] = Nil, sid'[t] = Nil
    PROVE  PcAt(t)'
BY ConstantsAssumption DEF PcAt, Spawning, AllCalls

\* Every step of a call keeps the types of all threads, moves one thread, and
\* takes it from one place of its own method to another.
LEMMA ControlStep ==
    ASSUME NEW t \in Threads, LocalsOK, StoresOK, PcAt(t),
           AcquireLock(t) \/ Step(t)
    PROVE  LocalsOK' /\ OthersStay(t) /\ PcAt(t)'
<1>1. CASE Return(t)
  BY <1>1, ReturnEffect, IdleAt
<1>2. ASSUME NEW label \in Pc, Continue(t, label), ~Return(t)
      PROVE  LocalsOK' /\ OthersStay(t) /\ PcAt(t)'
  <2>1. LocalsOK' /\ OthersStay(t) /\ pc'[t] = label /\ UNCHANGED locals
    BY <1>2, ContinueEffect
  <2>2. /\ Spawning(t)' <=> Spawning(t)
        /\ Restarting(t)' <=> Restarting(t)
        /\ Stopping(t)' <=> Stopping(t)
        /\ Sweeping(t)' <=> Sweeping(t)
        /\ sid'[t] = sid[t] /\ row'[t] = row[t]
    BY <2>1 DEF locals, Spawning, Restarting, Stopping, Sweeping
  <2>0. pc \in [Threads -> Pc]
    BY DEF LocalsOK
  <2> USE <2>0, <2>1, <2>2 DEF PcAt, Continue, Goto
  <2>3. CASE CreateWorktree(t)
    BY <2>3, <1>2 DEF CreateWorktree
  <2>4. CASE Prepare(t)
    BY <2>4, <1>2 DEF Prepare
  <2>5. CASE Insert(t)
    BY <2>5, <1>2 DEF Insert
  <2>6. CASE CreateSession(t)
    BY <2>6, <1>2 DEF CreateSession, CreateFailed
  <2>7. CASE WaitForSessionUp(t)
    BY <2>7, <1>2 DEF WaitForSessionUp, CreateFailed, Return
  <2>8. CASE UndoRow(t)
    BY <2>8, <1>2 DEF UndoRow
  <2>9. CASE UndoTree(t)
    BY <2>9, <1>2 DEF UndoTree
  <2>10. CASE Announce(t)
    BY <2>10, <1>2 DEF Announce
  <2>11. CASE ProbeAgent(t)
    BY <2>11, <1>2 DEF ProbeAgent
  <2>12. CASE MergeRestart(t)
    BY <2>12, <1>2 DEF MergeRestart
  <2>13. CASE AwaitAgent(t)
    BY <2>13, <1>2 DEF AwaitAgent
  <2>14. CASE KillProbe(t)
    BY <2>14, <1>2 DEF KillProbe, AfterKill
  <2>15. CASE KillDelete(t)
    BY <2>15, <1>2 DEF KillDelete, AfterKill, Return
  <2>16. CASE RemoveSessionWorktree(t)
    BY <2>16, <1>2 DEF RemoveSessionWorktree
  <2>17. CASE DeleteRow(t)
    BY <2>17, <1>2 DEF DeleteRow
  <2>18. CASE AcquireLock(t)
    BY <2>18, <1>2 DEF AcquireLock, Return, locals, LocalsOK
  <2>19. CASE LoadSource(t)
    BY <2>19, <1>2 DEF LoadSource, Return, locals, LocalsOK
  <2>20. CASE SweepProbe(t)
    BY <2>20, <1>2 DEF SweepProbe, Return, locals, LocalsOK
  <2>21. CASE NextSession(t)
    BY <2>21, <1>2 DEF NextSession, Return, locals, LocalsOK
  <2>22. CASE AnnounceEnd(t)
    BY <2>22, <1>2 DEF AnnounceEnd, Return, locals, LocalsOK
  <2> QED
    BY <2>3, <2>4, <2>5, <2>6, <2>7, <2>8, <2>9, <2>10, <2>11, <2>12, <2>13, <2>14, <2>15, <2>16, <2>17, <2>18, <2>19, <2>20, <2>21, <2>22 DEF Step
<1>3. CASE AcquireLock(t)
  <2>1. CASE ~Return(t)
    <3>1. \E label \in {"load", "probe"} : Goto(t, label) /\ Restarting(t)
      BY <2>1, <1>3 DEF AcquireLock, PcAt
    <3>2. lifecycleLocks' \in [Engines -> [Ids -> Threads \union {Nil}]]
      <4>1. lifecycleLocks' =
              [lifecycleLocks EXCEPT ![EngineOf[t]][sid[t]] = t]
        BY <2>1, <1>3 DEF AcquireLock
      <4>2. [lifecycleLocks[EngineOf[t]] EXCEPT ![sid[t]] = t]
               \in [Ids -> Threads \union {Nil}]
        BY ConstantsAssumption DEF LocalsOK
      <4> QED
        BY <4>1, <4>2 DEF LocalsOK
    <3>3. row' \in [Threads -> Row \union {Nil}]
      BY <2>1, <1>3, <3>1 DEF AcquireLock, LocalsOK, StoresOK, PcAt
    <3>4. LocalsOK' /\ OthersStay(t)
      BY <2>1, <1>3, <3>1, <3>2, <3>3
         DEF AcquireLock, Goto, LocalsOK, OthersStay, Pc, RestartPc
    <3>5. PcAt(t)'
      BY <2>1, <1>3, <3>1 DEF AcquireLock, Goto, LocalsOK, PcAt, Spawning, Restarting
    <3> QED
      BY <3>4, <3>5
  <2> QED
    BY <1>1, <2>1
<1>4. CASE LoadSource(t)
  <2>1. CASE ~Return(t)
    <3>1. Goto(t, "prepare") /\ Restarting(t) /\ sid[t] \in Ids
      BY <2>1, <1>4 DEF LoadSource, PcAt
    <3>2. LocalsOK' /\ OthersStay(t)
      BY <2>1, <1>4, <3>1 DEF LoadSource, Goto, LocalsOK, StoresOK, OthersStay, Pc, RestartPc
    <3>3. PcAt(t)'
      BY <2>1, <1>4, <3>1 DEF LoadSource, Goto, LocalsOK, PcAt, Spawning, Restarting
    <3> QED
      BY <3>2, <3>3
  <2> QED
    BY <1>1, <2>1
<1>5. CASE SweepProbe(t)
  <2>1. CASE ~Return(t)
    <3>1. Goto(t, "next") /\ Sweeping(t)
      BY <2>1, <1>5 DEF SweepProbe, PcAt
    <3>2. LocalsOK' /\ OthersStay(t)
      BY <2>1, <1>5, <3>1 DEF SweepProbe, Goto, LocalsOK, OthersStay, Pc, SweepPc
    <3>3. PcAt(t)'
      BY <2>1, <1>5, <3>1 DEF SweepProbe, Goto, LocalsOK, PcAt, Spawning, Sweeping
    <3> QED
      BY <3>2, <3>3
  <2> QED
    BY <1>1, <2>1
<1>6. CASE NextSession(t)
  <2>1. CASE ~Return(t)
    <3>1. PICK id \in todo[t] :
             /\ todo' = [todo EXCEPT ![t] = @ \ {id}]
             /\ \/ UNCHANGED <<pc, sid>>
                \/ /\ sid' = [sid EXCEPT ![t] = id]
                   /\ Goto(t, IF Stopping(t) THEN "killProbe" ELSE "tree")
             /\ UNCHANGED <<call, row, live, lifecycleLocks>>
      BY <2>1, <1>6 DEF NextSession
    <3>2. id \in Ids /\ (Stopping(t) \/ Sweeping(t))
      BY <1>6, <3>1 DEF NextSession, LocalsOK, PcAt
    <3>3. LocalsOK' /\ OthersStay(t)
      BY <3>1, <3>2 DEF Goto, LocalsOK, OthersStay, Pc, StopPc
    <3>4. PcAt(t)'
      BY <1>6, <3>1, <3>2 DEF NextSession, Goto, LocalsOK, PcAt, Spawning, Stopping, Sweeping
    <3> QED
      BY <3>3, <3>4
  <2> QED
    BY <1>1, <2>1
<1>7. CASE AnnounceEnd(t)
  BY <1>7, ConstantsAssumption DEF AnnounceEnd, Goto, LocalsOK, OthersStay, PcAt, Pc, StopPc, Spawning, Stopping, Sweeping
<1>8. CASE CreateWorktree(t)
  BY <1>8, <1>1, <1>2 DEF CreateWorktree, CreateFailed, AfterKill, Pc, SpawnPc, RestartPc, StopPc, SweepPc
<1>9. CASE Prepare(t)
  BY <1>9, <1>1, <1>2 DEF Prepare, CreateFailed, AfterKill, Pc, SpawnPc, RestartPc, StopPc, SweepPc
<1>10. CASE Insert(t)
  BY <1>10, <1>1, <1>2 DEF Insert, CreateFailed, AfterKill, Pc, SpawnPc, RestartPc, StopPc, SweepPc
<1>11. CASE CreateSession(t)
  BY <1>11, <1>1, <1>2 DEF CreateSession, CreateFailed, AfterKill, Pc, SpawnPc, RestartPc, StopPc, SweepPc
<1>12. CASE WaitForSessionUp(t)
  BY <1>12, <1>1, <1>2 DEF WaitForSessionUp, CreateFailed, AfterKill, Pc, SpawnPc, RestartPc, StopPc, SweepPc
<1>13. CASE UndoRow(t)
  BY <1>13, <1>1, <1>2 DEF UndoRow, CreateFailed, AfterKill, Pc, SpawnPc, RestartPc, StopPc, SweepPc
<1>14. CASE UndoTree(t)
  BY <1>14, <1>1, <1>2 DEF UndoTree, CreateFailed, AfterKill, Pc, SpawnPc, RestartPc, StopPc, SweepPc
<1>15. CASE Announce(t)
  BY <1>15, <1>1, <1>2 DEF Announce, CreateFailed, AfterKill, Pc, SpawnPc, RestartPc, StopPc, SweepPc
<1>16. CASE ProbeAgent(t)
  BY <1>16, <1>1, <1>2 DEF ProbeAgent, CreateFailed, AfterKill, Pc, SpawnPc, RestartPc, StopPc, SweepPc
<1>17. CASE MergeRestart(t)
  BY <1>17, <1>1, <1>2 DEF MergeRestart, CreateFailed, AfterKill, Pc, SpawnPc, RestartPc, StopPc, SweepPc
<1>18. CASE AwaitAgent(t)
  BY <1>18, <1>1, <1>2 DEF AwaitAgent, CreateFailed, AfterKill, Pc, SpawnPc, RestartPc, StopPc, SweepPc
<1>19. CASE KillProbe(t)
  BY <1>19, <1>1, <1>2 DEF KillProbe, CreateFailed, AfterKill, Pc, SpawnPc, RestartPc, StopPc, SweepPc
<1>20. CASE KillDelete(t)
  BY <1>20, <1>1, <1>2 DEF KillDelete, CreateFailed, AfterKill, Pc, SpawnPc, RestartPc, StopPc, SweepPc
<1>21. CASE RemoveSessionWorktree(t)
  BY <1>21, <1>1, <1>2 DEF RemoveSessionWorktree, CreateFailed, AfterKill, Pc, SpawnPc, RestartPc, StopPc, SweepPc
<1>22. CASE DeleteRow(t)
  BY <1>22, <1>1, <1>2 DEF DeleteRow, CreateFailed, AfterKill, Pc, SpawnPc, RestartPc, StopPc, SweepPc
<1> QED
  BY <1>3, <1>4, <1>5, <1>6, <1>7, <1>8, <1>9, <1>10, <1>11, <1>12, <1>13, <1>14, <1>15, <1>16, <1>17, <1>18, <1>19, <1>20, <1>21, <1>22 DEF Step

\* A step of a call leaves the stores well typed.
LEMMA StoresStep ==
    ASSUME NEW t \in Threads, LocalsOK, StoresOK, PcAt(t),
           AcquireLock(t) \/ Step(t)
    PROVE  StoresOK'
<1> USE DEF StoresOK
<1>1. CASE Insert(t) \/ UndoRow(t) \/ MergeRestart(t) \/ DeleteRow(t)
  <2>1. sid[t] \in Ids /\ zellij' = zellij /\ worktrees' = worktrees
    BY <1>1 DEF Insert, UndoRow, MergeRestart, DeleteRow, PcAt
  <2>2. rows' \in [Ids -> Row \union {Nil}]
    <3>1. CASE Insert(t)
      <4>1. [row[t] EXCEPT !.native = FALSE] \in Row
        BY <3>1 DEF Insert, PcAt, Row
      <4> QED
        BY <3>1, <4>1 DEF Insert
    <3>2. CASE MergeRestart(t)
      <4>1. CASE rows[sid[t]] # Nil
        <5>1. [rows[sid[t]] EXCEPT !.fresh = TRUE] \in Row
          BY <2>1, <4>1 DEF Row
        <5> QED
          BY <3>2, <5>1 DEF MergeRestart
      <4> QED
        BY <3>2, <4>1 DEF MergeRestart
    <3> QED
      BY <1>1, <3>1, <3>2 DEF UndoRow, DeleteRow
  <2> QED
    BY <1>1, <2>1, <2>2 DEF Insert, UndoRow, MergeRestart, DeleteRow, events, Stray
<1>2. CASE CreateSession(t) \/ WaitForSessionUp(t) \/ KillDelete(t)
  <2>1. zellij' \in [Ids -> ZellijState]
    BY <1>2 DEF CreateSession, WaitForSessionUp, KillDelete, ZellijState
  <2> QED
    BY <1>2, <2>1 DEF CreateSession, WaitForSessionUp, KillDelete, events
<1>3. CASE CreateWorktree(t)
  BY <1>3 DEF CreateWorktree, PcAt, events
<1>4. CASE UndoTree(t) \/ RemoveSessionWorktree(t)
  BY <1>4 DEF UndoTree, RemoveSessionWorktree, RemoveWorktree, PcAt, events
<1>5. CASE Announce(t) \/ AnnounceEnd(t)
  BY <1>5 DEF Announce, AnnounceEnd, PcAt, stores
<1>6. CASE \/ AcquireLock(t) \/ Prepare(t) \/ ProbeAgent(t) \/ LoadSource(t)
           \/ AwaitAgent(t) \/ KillProbe(t) \/ SweepProbe(t) \/ NextSession(t)
  BY <1>6 DEF AcquireLock, Prepare, ProbeAgent, LoadSource, AwaitAgent,
     KillProbe, SweepProbe, NextSession, stores, events
<1> QED
  BY <1>1, <1>2, <1>3, <1>4, <1>5, <1>6 DEF Step

\* The three ways a call begins: with an id of its own, with a session of the
\* caller's choice, or with the sessions a loop will visit.
StartsNew(t) ==
    \E id \in Ids \ minted :
        /\ minted' = minted \union {id}
        /\ sid'[t] = id /\ todo'[t] = {} /\ row'[t] \in Row
        /\ call'[t] \in {"Spawn", "Fork", "EnsureOrchestrator"}
        /\ pc'[t] = IF row'[t].isolated THEN "worktree" ELSE "prepare"

StartsRestart(t) ==
    /\ minted' = minted
    /\ sid'[t] \in minted /\ todo'[t] = {}
    /\ call'[t] \in {"Restart", "Revive"}
    /\ pc'[t] = "lock"

StartsLoop(t) ==
    /\ minted' = minted
    /\ sid'[t] = Nil
    /\ \/ /\ call'[t] \in {"Stop", "RemoveProject"}
          /\ pc'[t] = "next"
          /\ \A id \in todo'[t] : id \in minted \/ rows[id] # Nil
       \/ /\ call'[t] \in {"Reconcile", "ReconcileAll"}
          /\ pc'[t] = "sweepProbe"
          /\ \A id \in todo'[t] : rows[id] # Nil

\* The beginning of a call touches no store.
LEMMA StartEffect ==
    ASSUME NEW t \in Threads, LocalsOK, StoresOK, Start(t)
    PROVE  /\ LocalsOK' /\ OthersStay(t) /\ pc[t] = "idle"
           /\ UNCHANGED <<rows, zellij, worktrees, created, terminated, strays>>
           /\ StartsNew(t) \/ StartsRestart(t) \/ StartsLoop(t)
<1>1. CASE BeginSpawn(t) \/ BeginFork(t) \/ BeginEnsureOrchestrator(t)
  <2>1. \E m \in {"Spawn", "Fork", "EnsureOrchestrator"},
           p \in Projects, k \in {"worker", "orchestrator"},
           isolated \in BOOLEAN, native \in BOOLEAN :
           BeginCreate(t, m, p, k, isolated, native)
    <3>1. CASE BeginFork(t)
      <4>1. PICK src \in Ids :
              /\ rows[src] \in Row
              /\ BeginCreate(t, "Fork", rows[src].project, "worker", TRUE,
                             rows[src].native)
        BY <3>1 DEF BeginFork, StoresOK
      <4>2. rows[src].project \in Projects /\ rows[src].native \in BOOLEAN
        BY <4>1 DEF Row
      <4> QED
        BY <4>1, <4>2
    <3> QED
      BY <1>1, <3>1 DEF BeginSpawn, BeginEnsureOrchestrator
  <2>2. PICK m \in {"Spawn", "Fork", "EnsureOrchestrator"},
             p \in Projects, k \in {"worker", "orchestrator"},
             isolated \in BOOLEAN, native \in BOOLEAN :
             BeginCreate(t, m, p, k, isolated, native)
    BY <2>1
  <2> DEFINE r == [project |-> p, kind |-> k, isolated |-> isolated,
                   native |-> native, fresh |-> TRUE]
             label == IF isolated THEN "worktree" ELSE "prepare"
  <2>3. PICK id \in Ids \ minted :
             minted' = minted \union {id} /\ Begin(t, m, id, r, {}, label)
    BY <2>2 DEF BeginCreate
  <2>4. r \in Row /\ label \in Pc /\ r.isolated = isolated
    BY DEF Row, Pc, SpawnPc
  <2> HIDE DEF r
  <2>5. /\ LocalsOK' /\ OthersStay(t) /\ pc[t] = "idle"
        /\ pc'[t] = label /\ call'[t] = m /\ sid'[t] = id
        /\ todo'[t] = {} /\ row'[t] = r
    BY <2>3, <2>4, BeginEffect
  <2>6. StartsNew(t)
    BY <2>3, <2>4, <2>5 DEF StartsNew
  <2> QED
    BY <2>3, <2>5, <2>6 DEF Begin, stores, events
<1>2. CASE BeginRestart(t, "Restart") \/ BeginRestart(t, "Revive")
  <2>1. PICK m \in {"Restart", "Revive"}, id \in minted :
             Begin(t, m, id, Nil, {}, "lock")
    BY <1>2 DEF BeginRestart
  <2>2. id \in Ids /\ "lock" \in Pc
    BY <2>1 DEF StoresOK, Pc, RestartPc
  <2>3. /\ LocalsOK' /\ OthersStay(t) /\ pc[t] = "idle"
        /\ pc'[t] = "lock" /\ call'[t] = m /\ sid'[t] = id /\ todo'[t] = {}
    BY <2>1, <2>2, BeginEffect
  <2>4. StartsRestart(t)
    BY <1>2, <2>3 DEF BeginRestart, StartsRestart
  <2> QED
    BY <2>1, <2>3, <2>4 DEF Begin, stores, events
<1>3. CASE \/ BeginStop(t) \/ BeginRemoveProject(t)
           \/ BeginReconcile(t) \/ BeginReconcileAll(t)
  <2>1. PICK m \in {"Stop", "RemoveProject", "Reconcile", "ReconcileAll"},
             ids \in SUBSET Ids :
             /\ Begin(t, m, Nil, Nil, ids,
                      IF m \in {"Stop", "RemoveProject"} THEN "next" ELSE "sweepProbe")
             /\ \A id \in ids : \/ rows[id] # Nil
                                \/ m \in {"Stop", "RemoveProject"} /\ id \in minted
    <3>1. CASE BeginStop(t)
      BY <3>1 DEF BeginStop, StoresOK
    <3>2. CASE BeginRemoveProject(t)
      <4>1. PICK p \in Projects :
              Begin(t, "RemoveProject", Nil, Nil,
                    {id \in Ids : rows[id] # Nil /\ rows[id].project = p}, "next")
        BY <3>2 DEF BeginRemoveProject
      <4> QED
        BY <4>1
    <3>3. CASE BeginReconcile(t)
      <4>1. PICK id \in Ids :
              /\ rows[id] # Nil
              /\ Begin(t, "Reconcile", Nil, Nil,
                       IF rows[id].native THEN {} ELSE {id}, "sweepProbe")
        BY <3>3 DEF BeginReconcile
      <4> QED
        BY <4>1
    <3>4. CASE BeginReconcileAll(t)
      BY <3>4 DEF BeginReconcileAll
    <3> QED
      BY <1>3, <3>1, <3>2, <3>3, <3>4
  <2> DEFINE label == IF m \in {"Stop", "RemoveProject"} THEN "next" ELSE "sweepProbe"
  <2>2. label \in Pc
    BY DEF Pc, StopPc, SweepPc
  <2> HIDE DEF label
  <2>3. /\ LocalsOK' /\ OthersStay(t) /\ pc[t] = "idle"
        /\ pc'[t] = label /\ call'[t] = m /\ sid'[t] = Nil /\ todo'[t] = ids
    BY <2>1, <2>2, BeginEffect DEF label
  <2>4. minted' = minted
    BY <1>3 DEF BeginStop, BeginRemoveProject, BeginReconcile, BeginReconcileAll
  <2>5. StartsLoop(t)
    BY <2>1, <2>3, <2>4 DEF StartsLoop, label
  <2> QED
    BY <2>1, <2>3, <2>5 DEF Begin, stores, events
<1> QED
  BY <1>1, <1>2, <1>3 DEF Start

\* A call that begins is well typed and at its first step.
LEMMA ControlStart ==
    ASSUME NEW t \in Threads, LocalsOK, StoresOK, Start(t)
    PROVE  LocalsOK' /\ StoresOK' /\ OthersStay(t) /\ PcAt(t)'
<1>1. /\ LocalsOK' /\ OthersStay(t)
      /\ UNCHANGED <<rows, zellij, worktrees, created, terminated, strays>>
      /\ StartsNew(t) \/ StartsRestart(t) \/ StartsLoop(t)
  BY StartEffect
<1>2. StoresOK'
  BY <1>1 DEF StoresOK, StartsNew, StartsRestart, StartsLoop
<1>3. PcAt(t)'
  <2>1. CASE StartsNew(t)
    BY <2>1 DEF StartsNew, PcAt, Spawning
  <2>2. CASE StartsRestart(t)
    BY <2>2 DEF StartsRestart, StoresOK, PcAt, Spawning, Restarting
  <2>3. CASE StartsLoop(t)
    BY <2>3 DEF StartsLoop, PcAt, Spawning, Stopping, Sweeping
  <2> QED
    BY <1>1, <2>1, <2>2, <2>3
<1> QED
  BY <1>1, <1>2, <1>3

\* Threads that vanish are idle, the others are where they were.
LEMMA VanishEffect ==
    ASSUME NEW T \in SUBSET Threads, LocalsOK, StoresOK, PcOK, Vanish(T)
    PROVE  /\ LocalsOK'
           /\ PcOK'
           /\ \A t \in T : pc'[t] = "idle" /\ call'[t] = Nil /\ sid'[t] = Nil
                           /\ todo'[t] = {}
           /\ \A u \in Threads \ T : /\ pc'[u] = pc[u]
                                     /\ call'[u] = call[u]
                                     /\ sid'[u] = sid[u]
                                     /\ todo'[u] = todo[u]
                                     /\ row'[u] = row[u]
           /\ strays' \subseteq Ids
           /\ strays \subseteq strays'
           /\ \A t \in T : WorksOn(t, sid[t]) /\ sid[t] \in Ids => sid[t] \in strays'
<1>1. "idle" \in Pc
  BY DEF Pc
<1>2. LocalsOK'
  <2>1. lifecycleLocks' \in [Engines -> [Ids -> Threads \union {Nil}]]
    BY DEF Vanish, LocalsOK
  <2> QED
    BY <1>1, <2>1 DEF Vanish, LocalsOK
<1>3. /\ \A t \in T : pc'[t] = "idle" /\ call'[t] = Nil /\ sid'[t] = Nil
                      /\ todo'[t] = {}
      /\ \A u \in Threads \ T : /\ pc'[u] = pc[u]
                                /\ call'[u] = call[u]
                                /\ sid'[u] = sid[u]
                                /\ todo'[u] = todo[u]
                                /\ row'[u] = row[u]
  BY DEF Vanish, LocalsOK
<1>4. PcOK'
  <2>1. ASSUME NEW t \in T PROVE PcAt(t)'
    BY <1>3, <2>1, IdleAt
  <2>2. ASSUME NEW u \in Threads \ T PROVE PcAt(u)'
    BY <1>3, <2>2 DEF PcOK, PcAt, Spawning, Restarting, Stopping, Sweeping
  <2> QED
    BY <2>1, <2>2 DEF PcOK
<1>5. /\ strays' \subseteq Ids
      /\ strays \subseteq strays'
      /\ \A t \in T : WorksOn(t, sid[t]) /\ sid[t] \in Ids => sid[t] \in strays'
  BY DEF Vanish, StoresOK
<1> QED
  BY <1>2, <1>3, <1>4, <1>5

\* What happens around the engines keeps types and control.
LEMMA ControlEnvironment ==
    ASSUME LocalsOK, StoresOK, PcOK, Environment
    PROVE  LocalsOK' /\ StoresOK' /\ PcOK'
<1>1. ASSUME NEW t \in Threads, Cancel(t)
      PROVE  LocalsOK' /\ StoresOK' /\ PcOK'
  BY <1>1 DEF Cancel, LocalsOK, StoresOK, PcOK, PcAt, Spawning, Restarting,
     Stopping, Sweeping, stores, events
<1>2. ASSUME NEW e \in Engines, Crash(e)
      PROVE  LocalsOK' /\ StoresOK' /\ PcOK'
  <2>1. LocalsOK' /\ PcOK' /\ strays' \subseteq Ids
    BY <1>2, VanishEffect DEF Crash
  <2> QED
    BY <1>2, <2>1 DEF Crash, Vanish, StoresOK, events
<1>3. CASE Reboot
  <2>1. LocalsOK' /\ PcOK' /\ strays' \subseteq Ids
    BY <1>3, VanishEffect DEF Reboot
  <2>2. zellij' \in [Ids -> ZellijState]
    BY <1>3 DEF Reboot, ZellijState
  <2> QED
    BY <1>3, <2>1, <2>2 DEF Reboot, Vanish, StoresOK, events
<1>4. ASSUME NEW id \in Ids,
             SessionAppears(id) \/ SessionDecays(id)
             \/ HookRecordsNative(id) \/ GraceExpires(id)
      PROVE  LocalsOK' /\ StoresOK' /\ PcOK'
  <2>1. UNCHANGED <<pc, locals, worktrees, minted, events, strays>>
    BY <1>4 DEF SessionAppears, SessionDecays, HookRecordsNative, GraceExpires
  <2>2. LocalsOK' /\ PcOK'
    BY <2>1 DEF locals, LocalsOK, PcOK, PcAt, Spawning, Restarting, Stopping, Sweeping
  <2>3. zellij' \in [Ids -> ZellijState]
    BY <1>4 DEF SessionAppears, SessionDecays, HookRecordsNative, GraceExpires,
       StoresOK, ZellijState
  <2>4. rows' \in [Ids -> Row \union {Nil}]
    <3>1. CASE HookRecordsNative(id)
      <4>1. [rows[id] EXCEPT !.native = TRUE] \in Row
        BY <3>1 DEF HookRecordsNative, StoresOK, Row
      <4> QED
        BY <3>1, <4>1 DEF HookRecordsNative, StoresOK
    <3>2. CASE GraceExpires(id)
      <4>1. [rows[id] EXCEPT !.fresh = FALSE] \in Row
        BY <3>2 DEF GraceExpires, StoresOK, Row
      <4> QED
        BY <3>2, <4>1 DEF GraceExpires, StoresOK
    <3> QED
      BY <1>4, <3>1, <3>2 DEF SessionAppears, SessionDecays, StoresOK
  <2> QED
    BY <2>1, <2>2, <2>3, <2>4 DEF StoresOK, events
<1> QED
  BY <1>1, <1>2, <1>3, <1>4 DEF Environment

\* Types and control together are inductive.
LEMMA ControlNext ==
    ASSUME LocalsOK, StoresOK, PcOK, [Next]_vars
    PROVE  LocalsOK' /\ StoresOK' /\ PcOK'
<1>1. CASE UNCHANGED vars
  BY <1>1 DEF vars, LocalsOK, StoresOK, PcOK, PcAt, Spawning, Restarting,
     Stopping, Sweeping
<1>2. ASSUME NEW t \in Threads, Start(t) \/ AcquireLock(t) \/ Step(t)
      PROVE  LocalsOK' /\ StoresOK' /\ PcOK'
  <2>1. LocalsOK' /\ StoresOK' /\ OthersStay(t) /\ PcAt(t)'
    BY <1>2, ControlStart, ControlStep, StoresStep DEF PcOK
  <2>2. ASSUME NEW u \in Threads \ {t} PROVE PcAt(u)'
    BY <2>1, <2>2 DEF OthersStay, PcOK, PcAt, Spawning, Restarting, Stopping, Sweeping
  <2> QED
    BY <2>1, <2>2 DEF PcOK
<1> QED
  BY <1>1, <1>2, ControlEnvironment DEF Next

\* Types and control at the start.
LEMMA ControlInit == Init => LocalsOK /\ StoresOK /\ PcOK
<1>1. Init => LocalsOK
  BY DEF Init, LocalsOK, Pc
<1>2. Init => StoresOK
  BY DEF Init, StoresOK, ZellijState
<1>3. Init => PcOK
  BY ConstantsAssumption DEF Init, PcOK, PcAt, Spawning, AllCalls
<1> QED
  BY <1>1, <1>2, <1>3

\* Every variable keeps its type, for all sets of ids, threads and processes,
\* whichever engine calls interleave and whatever fails.
THEOREM TypeCorrect == Spec => []TypeOK
<1>1. Init => LocalsOK /\ StoresOK /\ PcOK
  BY ControlInit
<1>2. LocalsOK /\ StoresOK /\ PcOK /\ [Next]_vars => (LocalsOK /\ StoresOK /\ PcOK)'
  BY ControlNext
<1> QED
  BY <1>1, <1>2, TypeParts, PTL DEF Spec

-----------------------------------------------------------------------------
(* The steps of the invariant.  A thread that is not moved either stays or, *)
(* with its process, is gone.                                               *)

Stays(u) ==
    /\ pc'[u] = pc[u]
    /\ call'[u] = call[u]
    /\ sid'[u] = sid[u]
    /\ todo'[u] = todo[u]
    /\ row'[u] = row[u]

Gone(u) ==
    /\ pc'[u] = "idle" /\ call'[u] = Nil /\ sid'[u] = Nil /\ todo'[u] = {}
    /\ pc[u] # "idle" /\ sid[u] \in Ids => sid[u] \in strays'

\* What the environment cannot do: remove or add a row, a worktree or an event.
LEMMA EnvironmentEffect ==
    ASSUME LocalsOK, StoresOK, PcOK, Environment
    PROVE  /\ UNCHANGED <<worktrees, minted, created, terminated>>
           /\ strays \subseteq strays'
           /\ \A id \in Ids : rows'[id] = Nil <=> rows[id] = Nil
           /\ \A id \in Ids : rows[id] # Nil => rows'[id].isolated = rows[id].isolated
           /\ \A u \in Threads : Stays(u) \/ Gone(u)
<1>1. ASSUME NEW T \in SUBSET Threads, Vanish(T)
      PROVE  /\ UNCHANGED <<worktrees, minted, created, terminated, rows>>
             /\ strays \subseteq strays'
             /\ \A u \in Threads : Stays(u) \/ Gone(u)
  <2>1. \A u \in Threads : Stays(u) \/ Gone(u)
    BY <1>1, VanishEffect DEF Stays, Gone, WorksOn
  <2> QED
    BY <1>1, <2>1 DEF Vanish, events
<1>2. ASSUME NEW e \in Engines, Crash(e)
      PROVE  /\ UNCHANGED <<worktrees, minted, created, terminated, rows>>
             /\ strays \subseteq strays'
             /\ \A u \in Threads : Stays(u) \/ Gone(u)
  BY <1>1, <1>2 DEF Crash
<1>3. CASE Reboot
  BY <1>1, <1>3 DEF Reboot
<1>4. ASSUME NEW t \in Threads, Cancel(t)
      PROVE  /\ UNCHANGED <<worktrees, minted, created, terminated, rows, strays>>
             /\ \A u \in Threads : Stays(u)
  BY <1>4 DEF Cancel, stores, events, Stays
<1>5. ASSUME NEW id \in Ids,
             SessionAppears(id) \/ SessionDecays(id)
             \/ HookRecordsNative(id) \/ GraceExpires(id)
      PROVE  /\ UNCHANGED <<worktrees, minted, created, terminated, strays>>
             /\ \A i \in Ids : rows'[i] = Nil <=> rows[i] = Nil
             /\ \A i \in Ids : rows[i] # Nil => rows'[i].isolated = rows[i].isolated
             /\ \A u \in Threads : Stays(u)
  <2>1. /\ UNCHANGED <<worktrees, minted, created, terminated, strays>>
        /\ \A u \in Threads : Stays(u)
    BY <1>5 DEF SessionAppears, SessionDecays, HookRecordsNative, GraceExpires,
       locals, events, Stays
  <2>2. CASE HookRecordsNative(id)
    <3>1. rows[id] \in Row /\ rows' = [rows EXCEPT ![id] = [@ EXCEPT !.native = TRUE]]
      BY <2>2 DEF HookRecordsNative, StoresOK
    <3>2. /\ [rows[id] EXCEPT !.native = TRUE] \in Row
          /\ [rows[id] EXCEPT !.native = TRUE].isolated = rows[id].isolated
      BY <3>1 DEF Row
    <3> QED
      BY <2>1, <3>1, <3>2, ConstantsAssumption DEF StoresOK
  <2>3. CASE GraceExpires(id)
    <3>1. rows[id] \in Row /\ rows' = [rows EXCEPT ![id] = [@ EXCEPT !.fresh = FALSE]]
      BY <2>3 DEF GraceExpires, StoresOK
    <3>2. /\ [rows[id] EXCEPT !.fresh = FALSE] \in Row
          /\ [rows[id] EXCEPT !.fresh = FALSE].isolated = rows[id].isolated
      BY <3>1 DEF Row
    <3> QED
      BY <2>1, <3>1, <3>2, ConstantsAssumption DEF StoresOK
  <2> QED
    BY <1>5, <2>1, <2>2, <2>3 DEF SessionAppears, SessionDecays
<1> QED
  BY <1>2, <1>3, <1>4, <1>5 DEF Environment

\* Crashes, cancellations and everything zellij does keep the invariant.
LEMMA EnvironmentStep == ASSUME IInv, Environment PROVE IInv'
<1>1. LocalsOK /\ StoresOK /\ PcOK
  BY TypeParts DEF IInv
<1>2. TypeOK' /\ PcOK'
  <2>1. LocalsOK' /\ StoresOK' /\ PcOK'
    BY <1>1, ControlEnvironment
  <2> QED
    BY <2>1 DEF TypeOK, LocalsOK, StoresOK
<1>3. /\ UNCHANGED <<worktrees, minted, created, terminated>>
      /\ strays \subseteq strays'
      /\ \A id \in Ids : rows'[id] = Nil <=> rows[id] = Nil
      /\ \A id \in Ids : rows[id] # Nil => rows'[id].isolated = rows[id].isolated
      /\ \A u \in Threads : Stays(u) \/ Gone(u)
  BY <1>1, EnvironmentEffect
<1>4. MintedOK'
  BY <1>1, <1>3 DEF IInv, MintedOK, Stays, Gone, StoresOK
<1>5. \A u \in Threads : Spawning(u)' => Stays(u) /\ Spawning(u) /\ sid[u] \in Ids
  BY <1>1, <1>3, ConstantsAssumption DEF Stays, Gone, Spawning, AllCalls, PcOK, PcAt, LocalsOK, Pc,
     SpawnPc, RestartPc, StopPc, SweepPc, Stopping, Sweeping, Restarting
<1>6. \A u \in Threads : Sweeping(u)' => Stays(u) /\ Sweeping(u)
  BY <1>3, ConstantsAssumption DEF Stays, Gone, Sweeping, AllCalls
<1>7. \A id \in Ids : Ending(id) => Ending(id)' \/ id \in strays'
  BY <1>3 DEF Ending, Stays, Gone
<1>8. FreshOK'
  <2>1. ASSUME NEW t \in Threads, Spawning(t)', pc'[t] \in BeforeRow
        PROVE  FreshAt(t)'
    <3>1. Stays(t) /\ Spawning(t) /\ FreshAt(t) /\ sid[t] \in Ids
      BY <1>5, <2>1 DEF IInv, FreshOK
    <3>2. \A u \in Threads : sid'[u] = sid'[t] => Stays(u)
      BY <1>3, <3>1, ConstantsAssumption DEF Stays, Gone
    <3> QED
      BY <1>3, <1>6, <2>1, <3>1, <3>2 DEF FreshAt, Stays
  <2> QED
    BY <2>1 DEF FreshOK, FreshAt
<1>9. SpawnOK'
  <2>1. ASSUME NEW t \in Threads, Spawning(t)'
        PROVE  SpawnAt(t)'
    <3>1. Stays(t) /\ Spawning(t) /\ SpawnAt(t) /\ sid[t] \in Ids
      BY <1>5, <2>1 DEF IInv, SpawnOK
    <3> QED
      BY <1>3, <1>5, <1>7, <2>1, <3>1 DEF SpawnAt, Stays
  <2> QED
    BY <2>1 DEF SpawnOK, SpawnAt
<1>10. RemoveOK'
  <2>1. ASSUME NEW t \in Threads PROVE RemoveAt(t)'
    <3>1. pc'[t] \in {"delete", "announceEnd"} => Stays(t) /\ sid[t] \in Ids
      BY <1>1, <1>3 DEF Stays, Gone, PcOK, PcAt
    <3> QED
      BY <1>3, <3>1 DEF IInv, RemoveOK, RemoveAt, Stays
  <2> QED
    BY <2>1 DEF RemoveOK
<1>11. WorktreesAccounted'
  <2>1. ASSUME NEW id \in worktrees \ strays', rows[id] = Nil,
               NEW t \in Threads, Spawning(t), sid[t] = id,
               pc[t] \in {"prepare", "insert", "undoTree"}
        PROVE  Stays(t)
    BY <1>1, <1>3, <2>1 DEF Gone, StoresOK
  <2> QED
    BY <1>1, <1>3, <2>1 DEF IInv, WorktreesAccounted, Stays, Spawning, StoresOK
<1>12. RowsKeepWorktree'
  BY <1>3 DEF IInv, RowsKeepWorktree, Stays, Gone
<1>13. EndIsFinal'
  BY <1>1, <1>3 DEF IInv, EndIsFinal, StoresOK
<1>14. EndIsAnnounced'
  BY <1>1, <1>3 DEF IInv, EndIsAnnounced, StoresOK, Stays, Gone
<1> QED
  BY <1>2, <1>4, <1>8, <1>9, <1>10, <1>11, <1>12, <1>13, <1>14 DEF IInv

\* A spawn in progress has its id and its row, and is at a step of its own.
LEMMA SpawningHasId ==
    ASSUME NEW t \in Threads, LocalsOK, PcAt(t), Spawning(t)
    PROVE  sid[t] \in Ids /\ row[t] \in Row /\ pc[t] \in SpawnPc
BY ConstantsAssumption DEF LocalsOK, PcAt, Spawning, Restarting, Stopping, Sweeping,
   Pc, SpawnPc, RestartPc, StopPc, SweepPc, AllCalls

\* The beginning of a call keeps the invariant.
LEMMA StartStep == ASSUME IInv, NEW t \in Threads, Start(t) PROVE IInv'
<1>1. LocalsOK /\ StoresOK /\ PcOK
  BY TypeParts DEF IInv
<1>2. TypeOK' /\ PcOK'
  <2>1. LocalsOK' /\ StoresOK' /\ PcOK'
    BY <1>1, ControlNext DEF Next
  <2> QED
    BY <2>1 DEF TypeOK, LocalsOK, StoresOK
<1>3. /\ OthersStay(t) /\ pc[t] = "idle"
      /\ UNCHANGED <<rows, worktrees, created, terminated, strays>>
      /\ StartsNew(t) \/ StartsRestart(t) \/ StartsLoop(t)
  BY <1>1, StartEffect
<1>4. /\ minted \subseteq minted'
      /\ sid'[t] # Nil => sid'[t] \in minted'
      /\ todo'[t] \subseteq minted
      /\ Sweeping(t)' => \A id \in todo'[t] : rows[id] # Nil
      /\ Spawning(t)' => StartsNew(t)
  <2>1. todo'[t] \subseteq Ids
    BY <1>2 DEF TypeOK
  <2> QED
    BY <1>3, <2>1 DEF StartsNew, StartsRestart, StartsLoop, Sweeping, Spawning,
       IInv, MintedOK
<1>5. MintedOK'
  BY <1>3, <1>4 DEF IInv, MintedOK, OthersStay
<1>6. ~Spawning(t) /\ sid[t] = Nil /\ call[t] = Nil
  BY <1>1, <1>3, ConstantsAssumption DEF PcOK, PcAt, Spawning, AllCalls
<1>7. \A id \in Ids : Ending(id) => Ending(id)'
  BY <1>3 DEF Ending, OthersStay
<1>8. FreshOK'
  <2>1. ASSUME NEW u \in Threads, Spawning(u)', pc'[u] \in BeforeRow
        PROVE  FreshAt(u)'
    <3>1. CASE u = t
      <4>1. /\ sid'[t] \in Ids \ minted
            /\ pc'[t] = IF row'[t].isolated THEN "worktree" ELSE "prepare"
        BY <1>4, <2>1, <3>1 DEF StartsNew
      <4>2. /\ rows[sid'[t]] = Nil
            /\ sid'[t] \notin terminated
        BY <4>1 DEF IInv, MintedOK
      <4>3. \A v \in Threads \ {t} : sid'[v] # sid'[t]
        BY <1>3, <4>1, ConstantsAssumption DEF OthersStay, IInv, MintedOK
      <4>4. \A v \in Threads : sid'[t] \notin todo'[v]
        BY <1>3, <1>4, <4>1 DEF OthersStay, IInv, MintedOK
      <4> QED
        BY <1>3, <3>1, <4>1, <4>2, <4>3, <4>4 DEF FreshAt
    <3>2. CASE u # t
      <4>1. /\ Spawning(u) /\ FreshAt(u) /\ pc[u] \in BeforeRow
            /\ sid[u] \in Ids /\ sid[u] \in minted
        BY <1>1, <1>3, <2>1, <3>2, SpawningHasId, ConstantsAssumption
           DEF OthersStay, Spawning, IInv, FreshOK, PcOK, MintedOK
      <4>2. sid'[t] = sid[u] => pc'[t] = "lock"
        BY <1>3, <4>1, ConstantsAssumption DEF StartsNew, StartsRestart, StartsLoop
      <4>3. Sweeping(t)' => sid[u] \notin todo'[t]
        BY <1>4, <4>1 DEF FreshAt
      <4> QED
        BY <1>3, <2>1, <3>2, <4>1, <4>2, <4>3 DEF FreshAt, OthersStay, Sweeping
    <3> QED
      BY <3>1, <3>2
  <2> QED
    BY <2>1 DEF FreshOK, FreshAt
<1>9. SpawnOK'
  <2>1. ASSUME NEW u \in Threads, Spawning(u)'
        PROVE  SpawnAt(u)'
    <3>1. CASE u = t
      <4>1. sid'[t] \in Ids \ minted /\ pc'[t] \in BeforeRow
        BY <1>4, <2>1, <3>1 DEF StartsNew, BeforeRow
      <4>2. \A v \in Threads \ {t} : sid'[v] # sid'[t]
        BY <1>3, <4>1, ConstantsAssumption DEF OthersStay, IInv, MintedOK
      <4> QED
        BY <1>3, <3>1, <4>1, <4>2 DEF SpawnAt, IInv, MintedOK, BeforeRow
    <3>2. CASE u # t
      <4>1. /\ Spawning(u) /\ SpawnAt(u)
            /\ sid[u] \in Ids /\ sid[u] \in minted
        BY <1>1, <1>3, <2>1, <3>2, SpawningHasId, ConstantsAssumption
           DEF OthersStay, Spawning, IInv, SpawnOK, PcOK, MintedOK
      <4>2. Spawning(t)' => sid'[t] # sid[u]
        BY <1>4, <4>1 DEF StartsNew
      <4> QED
        BY <1>3, <1>7, <2>1, <3>2, <4>1, <4>2 DEF SpawnAt, OthersStay, Spawning
    <3> QED
      BY <3>1, <3>2
  <2> QED
    BY <2>1 DEF SpawnOK, SpawnAt
<1>10. RemoveOK'
  <2>1. pc'[t] \notin {"delete", "announceEnd"}
    BY <1>3 DEF StartsNew, StartsRestart, StartsLoop
  <2> QED
    BY <1>3, <2>1 DEF IInv, RemoveOK, RemoveAt, OthersStay
<1>11. WorktreesAccounted'
  <2>1. \A u \in Threads : Spawning(u) => u # t /\ Spawning(u)'
    BY <1>3, <1>6 DEF OthersStay, Spawning
  <2> QED
    BY <1>3, <2>1 DEF IInv, WorktreesAccounted, OthersStay
<1>12. RowsKeepWorktree'
  BY <1>3 DEF IInv, RowsKeepWorktree, OthersStay
<1>13. EndIsFinal' /\ EndIsAnnounced'
  BY <1>3 DEF IInv, EndIsFinal, EndIsAnnounced, OthersStay
<1> QED
  BY <1>2, <1>5, <1>8, <1>9, <1>10, <1>11, <1>12, <1>13 DEF IInv

\* All a step of a call can do to what other calls see: it adds or removes one
\* row, one worktree or one event, of its own session, at one place in its code.
LEMMA StepEffect ==
    ASSUME NEW t \in Threads, LocalsOK, StoresOK, PcAt(t),
           AcquireLock(t) \/ Step(t)
    PROVE  /\ minted' = minted /\ strays \subseteq strays'
           /\ created \subseteq created' /\ terminated \subseteq terminated'
           /\ todo'[t] \subseteq todo[t]
           /\ call'[t] \in {call[t], Nil}
           /\ \/ sid'[t] \in {sid[t], Nil}
              \/ /\ sid'[t] \in todo[t] /\ pc[t] = "next"
                 /\ Sweeping(t) \/ rows[sid'[t]] # Nil
           /\ \A id \in Ids : rows[id] = Nil /\ rows'[id] # Nil =>
                 /\ id = sid[t] /\ pc[t] = "insert" /\ pc'[t] = "create"
                 /\ rows'[id].isolated = row[t].isolated
           /\ \A id \in Ids : rows[id] # Nil /\ rows'[id] = Nil =>
                 /\ id = sid[t] /\ sid'[t] = sid[t]
                 /\ \/ pc[t] = "undoRow" /\ pc'[t] = "undoTree"
                    \/ pc[t] = "delete" /\ pc'[t] = "announceEnd"
           /\ \A id \in Ids : rows[id] # Nil /\ rows'[id] # Nil =>
                 \/ rows'[id].isolated = rows[id].isolated
                 \/ id = sid[t] /\ pc[t] = "insert"
           /\ \A id \in worktrees' \ worktrees :
                 /\ id = sid[t] /\ pc[t] = "worktree"
                 /\ \/ pc'[t] = "prepare" /\ call'[t] = call[t] /\ sid'[t] = sid[t]
                    \/ id \in strays'
           /\ \A id \in worktrees \ worktrees' :
                 /\ id = sid[t]
                 /\ \/ pc[t] = "undoTree"
                    \/ pc[t] = "tree" /\ pc'[t] = "delete" /\ sid'[t] = sid[t]
           /\ \A id \in created' \ created : id = sid[t] /\ pc[t] = "announce"
           /\ \A id \in terminated' \ terminated : id = sid[t] /\ pc[t] = "announceEnd"
<1>0. LocalsOK' /\ StoresOK'
  BY ControlStep, StoresStep
<1>1. CASE CreateWorktree(t)
  BY <1>0, <1>1 DEF CreateWorktree, Continue, Return, Goto, locals, events, LocalsOK
<1>2. CASE Insert(t)
  <2>1. sid[t] \in Ids /\ row[t] \in Row
    BY <1>2 DEF Insert, PcAt
  <2>2. /\ [row[t] EXCEPT !.native = FALSE] \in Row
        /\ [row[t] EXCEPT !.native = FALSE].isolated = row[t].isolated
    BY <2>1 DEF Row
  <2>3. /\ UNCHANGED <<minted, strays, events, worktrees>>
        /\ \/ UNCHANGED rows
           \/ /\ rows' = [rows EXCEPT ![sid[t]] = [row[t] EXCEPT !.native = FALSE]]
              /\ Continue(t, "create")
        /\ pc[t] = "insert"
        /\ Continue(t, "create") \/ Continue(t, "undoTree")
    BY <1>2 DEF Insert
  <2>4. UNCHANGED locals /\ (UNCHANGED rows \/ pc'[t] = "create")
    BY <2>3 DEF Continue, Goto, LocalsOK
  <2>5. \A id \in Ids : \/ rows'[id] = rows[id]
                        \/ /\ id = sid[t] /\ pc'[t] = "create"
                           /\ rows'[id] # Nil
                           /\ rows'[id].isolated = row[t].isolated
    BY <2>1, <2>2, <2>3, <2>4, ConstantsAssumption DEF StoresOK
  <2> QED
    BY <2>3, <2>4, <2>5 DEF locals, events
<1>3. CASE UndoRow(t)
  <2>1. sid[t] \in Ids
    BY <1>3 DEF UndoRow, PcAt
  <2> QED
    BY <1>3, <2>1 DEF UndoRow, Stray, Continue, Goto, locals, events, LocalsOK, StoresOK
<1>4. CASE MergeRestart(t)
  <2>1. /\ UNCHANGED <<minted, strays, events, worktrees>>
        /\ \/ UNCHANGED rows
           \/ /\ rows[sid[t]] # Nil
              /\ rows' = [rows EXCEPT ![sid[t]].fresh = TRUE]
        /\ Continue(t, "awaitAgent") \/ Return(t)
        /\ sid[t] \in Ids
    BY <1>4 DEF MergeRestart, PcAt
  <2>2. rows[sid[t]] # Nil =>
           /\ [rows[sid[t]] EXCEPT !.fresh = TRUE] \in Row
           /\ [rows[sid[t]] EXCEPT !.fresh = TRUE].isolated = rows[sid[t]].isolated
    BY <2>1 DEF StoresOK, Row
  <2>3. \A id \in Ids : \/ rows'[id] = rows[id]
                        \/ /\ rows[id] # Nil /\ rows'[id] # Nil
                           /\ rows'[id].isolated = rows[id].isolated
    BY <2>1, <2>2, ConstantsAssumption DEF StoresOK
  <2>4. /\ todo'[t] \subseteq todo[t]
        /\ call'[t] \in {call[t], Nil}
        /\ sid'[t] \in {sid[t], Nil}
    BY <2>1 DEF Continue, Return, locals, LocalsOK
  <2> QED
    BY <2>1, <2>3, <2>4 DEF events
<1>5. CASE DeleteRow(t)
  <2>1. sid[t] \in Ids
    BY <1>5 DEF DeleteRow, PcAt
  <2> QED
    BY <1>5, <2>1 DEF DeleteRow, Stray, Continue, Return, Goto, locals, events, LocalsOK, StoresOK
<1>6. CASE UndoTree(t)
  BY <1>6 DEF UndoTree, RemoveWorktree, Return, events, LocalsOK
<1>7. CASE RemoveSessionWorktree(t)
  BY <1>7 DEF RemoveSessionWorktree, RemoveWorktree, Continue, Goto, locals, events, LocalsOK
<1>8. CASE Announce(t)
  BY <1>8 DEF Announce, Return, stores, LocalsOK
<1>9. CASE AnnounceEnd(t)
  BY <1>9 DEF AnnounceEnd, stores, LocalsOK
<1>10. CASE NextSession(t)
  <2>1. UNCHANGED <<stores, minted, events, strays>>
    BY <1>10 DEF NextSession
  <2>2. \/ Return(t)
        \/ /\ todo'[t] \subseteq todo[t] /\ call' = call /\ pc[t] = "next"
           /\ \/ sid'[t] = sid[t]
              \/ sid'[t] \in todo[t] /\ (Sweeping(t) \/ rows[sid'[t]] # Nil)
    BY <1>10 DEF NextSession, LocalsOK, PcAt
  <2> QED
    BY <2>1, <2>2 DEF Return, stores, events, LocalsOK
<1>11. CASE \/ Prepare(t) \/ ProbeAgent(t) \/ AwaitAgent(t) \/ KillProbe(t)
            \/ CreateSession(t) \/ WaitForSessionUp(t) \/ KillDelete(t)
            \/ AcquireLock(t) \/ LoadSource(t) \/ SweepProbe(t)
  <2>1. UNCHANGED <<rows, worktrees, minted, events, strays>>
    BY <1>11 DEF Prepare, ProbeAgent, AwaitAgent, KillProbe, CreateSession,
       WaitForSessionUp, KillDelete, AcquireLock, LoadSource, SweepProbe, stores
  <2>2. /\ todo'[t] \subseteq todo[t]
        /\ call'[t] \in {call[t], Nil}
        /\ sid'[t] \in {sid[t], Nil}
    BY <1>11 DEF Prepare, ProbeAgent, AwaitAgent, KillProbe, CreateSession,
       WaitForSessionUp, KillDelete, AcquireLock, LoadSource, SweepProbe,
       CreateFailed, AfterKill, Continue, Return, locals, LocalsOK
  <2> QED
    BY <2>1, <2>2 DEF events
<1> QED
  BY <1>1, <1>2, <1>3, <1>4, <1>5, <1>6, <1>7, <1>8, <1>9, <1>10, <1>11 DEF Step

\* A step leaves the other threads' methods alone.
LEMMA OthersKeepMethod ==
    ASSUME NEW t \in Threads, OthersStay(t), NEW u \in Threads \ {t}
    PROVE  /\ Spawning(u)' <=> Spawning(u)
           /\ Sweeping(u)' <=> Sweeping(u)
           /\ pc'[u] = pc[u] /\ sid'[u] = sid[u] /\ todo'[u] = todo[u]
           /\ row'[u] = row[u]
BY DEF OthersStay, Spawning, Sweeping

\* An end under way is announced before the thread moves on, or is a stray.
LEMMA EndingStep ==
    ASSUME NEW t \in Threads, LocalsOK, StoresOK, PcAt(t),
           AcquireLock(t) \/ Step(t), NEW id \in Ids, Ending(id)
    PROVE  Ending(id)'
<1>1. OthersStay(t) /\ terminated \subseteq terminated'
  BY ControlStep, StepEffect
<1>2. ASSUME pc[t] = "announceEnd" PROVE sid[t] \in terminated'
  BY <1>2 DEF Step, AcquireLock, CreateWorktree, Prepare, Insert, CreateSession,
     WaitForSessionUp, UndoRow, UndoTree, Announce, ProbeAgent, LoadSource,
     MergeRestart, AwaitAgent, KillProbe, KillDelete, SweepProbe, NextSession,
     RemoveSessionWorktree, DeleteRow, AnnounceEnd
<1> QED
  BY <1>1, <1>2 DEF Ending, OthersStay

\* Another call on a spawn's id, before the row exists, sees no row and leaves.
LEMMA VisitorLeaves ==
    ASSUME NEW t \in Threads, LocalsOK, StoresOK, PcAt(t),
           AcquireLock(t) \/ Step(t),
           sid[t] \in Ids, rows[sid[t]] = Nil, pc[t] \in {"lock", "load"}
    PROVE  /\ UNCHANGED <<rows, worktrees, created, terminated>>
           /\ sid'[t] = Nil \/ (sid'[t] = sid[t] /\ pc'[t] = "load")
<1>1. AcquireLock(t) \/ LoadSource(t)
  BY DEF Step, CreateWorktree, Prepare, Insert, CreateSession,
     WaitForSessionUp, UndoRow, UndoTree, Announce, ProbeAgent,
     MergeRestart, AwaitAgent, KillProbe, KillDelete, SweepProbe, NextSession,
     RemoveSessionWorktree, DeleteRow, AnnounceEnd
<1>2. UNCHANGED <<rows, worktrees, created, terminated>>
  BY <1>1 DEF AcquireLock, LoadSource, stores, events
<1>3. sid'[t] = Nil \/ (sid'[t] = sid[t] /\ pc'[t] = "load")
  BY <1>1 DEF AcquireLock, LoadSource, Return, Goto, LocalsOK, PcAt, Restarting
<1> QED
  BY <1>2, <1>3

\* The step lemma for FreshOK.
LEMMA StepFresh ==
    ASSUME IInv, NEW t \in Threads, AcquireLock(t) \/ Step(t)
    PROVE  FreshOK'
<1>1. LocalsOK /\ StoresOK /\ PcOK /\ PcAt(t) /\ OthersStay(t)
  BY TypeParts, ControlStep DEF IInv, PcOK
<1>2. ASSUME NEW u \in Threads \ {t}, Spawning(u)', pc'[u] \in BeforeRow
      PROVE  FreshAt(u)'
  <2>1. /\ Spawning(u) /\ pc[u] \in BeforeRow /\ sid'[u] = sid[u] /\ sid[u] \in Ids
        /\ pc'[u] = pc[u] /\ row'[u] = row[u]
    BY <1>1, <1>2, OthersKeepMethod, SpawningHasId DEF PcOK
  <2>2. FreshAt(u) /\ rows[sid[u]] = Nil
    BY <2>1 DEF IInv, FreshOK, FreshAt
  <2>3. sid[t] = sid[u] => pc[t] \in {"lock", "load"}
    BY <2>1, <2>2 DEF FreshAt
  <2>4. /\ rows'[sid[u]] = rows[sid[u]]
        /\ sid[u] \in worktrees' <=> sid[u] \in worktrees
        /\ sid[u] \in terminated' <=> sid[u] \in terminated
        /\ sid'[t] = sid[u] => pc'[t] = "load"
    <3>1. CASE sid[t] = sid[u]
      BY <1>1, <2>1, <2>2, <2>3, <3>1, VisitorLeaves, ConstantsAssumption
    <3>2. CASE sid[t] # sid[u]
      <4>1. /\ rows'[sid[u]] = rows[sid[u]]
            /\ sid[u] \in worktrees' <=> sid[u] \in worktrees
            /\ sid[u] \in terminated' <=> sid[u] \in terminated
        BY <1>1, <2>1, <2>2, <3>2, StepEffect
      <4>2. sid'[t] = sid[u] => sid'[t] \in todo[t] /\ Sweeping(t)
        BY <1>1, <2>1, <2>2, <3>2, StepEffect, ConstantsAssumption
      <4> QED
        BY <2>1, <2>2, <4>1, <4>2 DEF FreshAt
    <3> QED
      BY <3>1, <3>2
  <2>5. Sweeping(t)' => sid[u] \notin todo'[t]
    <3>1. Sweeping(t)' => Sweeping(t)
      BY <1>1, StepEffect, ConstantsAssumption DEF Sweeping, AllCalls
    <3>2. todo'[t] \subseteq todo[t]
      BY <1>1, StepEffect
    <3> QED
      BY <2>1, <2>2, <3>1, <3>2 DEF FreshAt
  <2>6. \A v \in Threads \ {t, u} : sid'[v] = sid'[u] => pc'[v] \in {"lock", "load"}
    BY <1>1, <2>1, <2>2 DEF FreshAt, OthersStay
  <2>7. \A v \in Threads \ {t} : Sweeping(v)' => sid'[u] \notin todo'[v]
    BY <1>1, <2>1, <2>2 DEF FreshAt, OthersStay, Sweeping
  <2> QED
    BY <1>2, <2>1, <2>2, <2>4, <2>5, <2>6, <2>7 DEF FreshAt
<1>3. ASSUME Spawning(t)', pc'[t] \in BeforeRow
      PROVE  FreshAt(t)'
  <2>1. Spawning(t) /\ call'[t] = call[t] /\ sid[t] \in Ids /\ pc[t] \in SpawnPc
    BY <1>1, <1>3, StepEffect, SpawningHasId, ConstantsAssumption DEF Spawning, AllCalls
  <2>2. \/ CreateWorktree(t) /\ Continue(t, "prepare") /\ worktrees' = worktrees \union {sid[t]}
        \/ Prepare(t) /\ Continue(t, "insert") /\ worktrees' = worktrees
    <3>1. ~Return(t)
      BY <1>1, <1>3, ReturnEffect, ConstantsAssumption DEF Spawning, AllCalls
    <3>2. ~Restarting(t) /\ ~Stopping(t) /\ ~Sweeping(t)
      BY <2>1 DEF Spawning, Restarting, Stopping, Sweeping
    <3>3. CASE CreateWorktree(t)
      BY <3>1, <3>3 DEF CreateWorktree
    <3>4. CASE Prepare(t)
      BY <1>1, <1>3, <2>1, <3>1, <3>4 DEF Prepare, Continue, Goto, LocalsOK, BeforeRow, stores
    <3>5. CASE Insert(t) \/ CreateSession(t) \/ WaitForSessionUp(t) \/ UndoRow(t)
      BY <1>1, <1>3, <2>1, <3>1, <3>5 DEF Insert, CreateSession, WaitForSessionUp,
         UndoRow, CreateFailed, Continue, Goto, LocalsOK, BeforeRow
    <3>6. CASE UndoTree(t) \/ Announce(t)
      BY <3>1, <3>6 DEF UndoTree, Announce
    <3> QED
      BY <1>1, <2>1, <3>2, <3>3, <3>4, <3>5, <3>6 DEF Step, AcquireLock, ProbeAgent,
         LoadSource, MergeRestart, AwaitAgent, KillProbe, KillDelete, SweepProbe,
         NextSession, RemoveSessionWorktree, DeleteRow, AnnounceEnd, SpawnPc
  <2>3. /\ UNCHANGED <<rows, terminated>> /\ UNCHANGED locals
        /\ pc[t] \in {"worktree", "prepare"} /\ pc'[t] \in {"prepare", "insert"}
    BY <1>1, <2>2 DEF CreateWorktree, Prepare, stores, events, Continue, Goto, LocalsOK
  <2>4. FreshAt(t) /\ pc[t] \in BeforeRow
    BY <2>3 DEF IInv, FreshOK, BeforeRow
  <2>5. \A v \in Threads \ {t} : sid'[v] = sid'[t] => pc'[v] \in {"lock", "load"}
    BY <1>1, <2>1, <2>3, <2>4 DEF FreshAt, OthersStay, locals
  <2>6. row'[t].isolated => sid[t] \in worktrees'
    BY <2>1, <2>2, <2>3, <2>4 DEF FreshAt, CreateWorktree, Prepare, locals
  <2> QED
    BY <2>1, <2>3, <2>4, <2>5, <2>6 DEF FreshAt, locals, Sweeping
<1> QED
  BY <1>2, <1>3 DEF FreshOK, FreshAt

\* The step lemma for SpawnOK.
LEMMA StepSpawn ==
    ASSUME IInv, NEW t \in Threads, AcquireLock(t) \/ Step(t)
    PROVE  SpawnOK'
<1>1. LocalsOK /\ StoresOK /\ PcOK /\ PcAt(t) /\ OthersStay(t)
  BY TypeParts, ControlStep DEF IInv, PcOK
<1>2. \A id \in Ids : Ending(id) => Ending(id)'
  BY <1>1, EndingStep
<1>3. Spawning(t)' => Spawning(t) /\ sid'[t] = sid[t]
  <2>1. ASSUME Spawning(t)' PROVE Spawning(t) /\ pc[t] \in SpawnPc /\ sid[t] \in Ids
    BY <1>1, <2>1, StepEffect, SpawningHasId, ConstantsAssumption DEF Spawning, AllCalls
  <2>2. ASSUME Spawning(t)' PROVE sid'[t] # Nil
    BY <1>1, <2>2, ControlStep, SpawningHasId, ConstantsAssumption
       DEF Spawning, PcAt, AllCalls, LocalsOK, Pc, SpawnPc, RestartPc, StopPc,
           SweepPc, Restarting, Stopping, Sweeping
  <2> QED
    BY <1>1, <2>1, <2>2, StepEffect DEF SpawnPc
<1>4. ASSUME NEW u \in Threads \ {t}, Spawning(u)'
      PROVE  SpawnAt(u)'
  <2>1. /\ Spawning(u) /\ sid'[u] = sid[u] /\ sid[u] \in Ids /\ pc'[u] = pc[u]
        /\ row'[u] = row[u] /\ SpawnAt(u)
    BY <1>1, <1>4, OthersKeepMethod, SpawningHasId DEF PcOK, IInv, SpawnOK
  <2>2. sid[t] = sid[u] => ~Spawning(t)
    BY <2>1 DEF SpawnAt
  <2>3. sid[t] = sid[u] =>
            pc[t] \notin {"worktree", "insert", "undoRow", "undoTree", "announce"}
    BY <1>1, <2>2 DEF PcAt
  <2>4. /\ sid[u] \notin created'
        /\ ~row[u].isolated => sid[u] \notin worktrees'
        /\ rows[sid[u]] = Nil => rows'[sid[u]] = Nil
        /\ strays \subseteq strays'
    BY <1>1, <2>1, <2>3, StepEffect DEF SpawnAt
  <2>5. rows[sid[u]] # Nil => rows'[sid[u]] # Nil \/ Ending(sid[u])'
    BY <1>1, <2>1, <2>3, StepEffect DEF Ending
  <2>6. \A v \in Threads \ {u} : Spawning(v)' => sid'[v] # sid'[u]
    BY <1>1, <1>3, <2>1, OthersKeepMethod DEF SpawnAt
  <2> QED
    BY <1>2, <2>1, <2>4, <2>5, <2>6 DEF SpawnAt
<1>5. ASSUME Spawning(t)'
      PROVE  SpawnAt(t)'
  <2>1. /\ Spawning(t) /\ SpawnAt(t) /\ FreshAt(t)
        /\ sid'[t] = sid[t] /\ sid[t] \in Ids
        /\ row[t] \in Row /\ pc[t] \in SpawnPc
    BY <1>1, <1>3, <1>5, SpawningHasId DEF IInv, SpawnOK, FreshOK
  <2>2. ~Return(t)
    BY <1>1, <1>5, ReturnEffect, ConstantsAssumption DEF Spawning, AllCalls
  <2>3. PICK label \in SpawnPc : Continue(t, label) /\
           \/ CreateWorktree(t) /\ label = "prepare"
           \/ Prepare(t) /\ label \in {"insert", "undoTree"}
           \/ Insert(t) /\ label \in {"create", "undoTree"}
           \/ CreateSession(t) /\ label \in {"await", "undoRow"}
           \/ WaitForSessionUp(t) /\ label \in {"announce", "undoRow"}
           \/ UndoRow(t) /\ label = "undoTree"
    <3>1. ~Restarting(t) /\ ~Stopping(t) /\ ~Sweeping(t)
      BY <2>1 DEF Spawning, Restarting, Stopping, Sweeping
    <3>2. \/ CreateWorktree(t) \/ Prepare(t) \/ Insert(t) \/ CreateSession(t)
          \/ WaitForSessionUp(t) \/ UndoRow(t)
      BY <1>1, <2>1, <2>2, <3>1 DEF Step, AcquireLock, ProbeAgent, LoadSource, MergeRestart,
         AwaitAgent, KillProbe, KillDelete, SweepProbe, NextSession,
         RemoveSessionWorktree, DeleteRow, AnnounceEnd, UndoTree, Announce, SpawnPc
    <3> QED
      BY <2>1, <2>2, <3>2 DEF CreateWorktree, Prepare, Insert, CreateSession,
         WaitForSessionUp, UndoRow, CreateFailed, SpawnPc
  <2>4. /\ pc'[t] = label /\ UNCHANGED locals
        /\ pc[t] = CASE CreateWorktree(t) -> "worktree" [] Prepare(t) -> "prepare"
                     [] Insert(t) -> "insert" [] CreateSession(t) -> "create"
                     [] WaitForSessionUp(t) -> "await" [] UndoRow(t) -> "undoRow"
    BY <1>1, <2>3 DEF Continue, Goto, LocalsOK, CreateWorktree, Prepare, Insert,
       CreateSession, WaitForSessionUp, UndoRow
  <2>5. sid[t] \notin created'
    BY <1>1, <2>1, <2>3, <2>4, StepEffect DEF SpawnAt, CreateWorktree, Prepare, Insert,
       CreateSession, WaitForSessionUp, UndoRow
  <2>6. ~row[t].isolated => sid[t] \notin worktrees'
    <3>1. pc[t] = "worktree" => row[t].isolated
      BY <2>1 DEF FreshAt, BeforeRow
    <3> QED
      BY <1>1, <2>1, <3>1, StepEffect DEF SpawnAt
  <2>7. label = "undoTree" => rows'[sid[t]] = Nil \/ sid[t] \in strays'
    <3>1. CASE Prepare(t) \/ Insert(t)
      <4>1. rows[sid[t]] = Nil
        BY <2>1, <3>1 DEF Prepare, Insert, FreshAt, BeforeRow
      <4> QED
        BY <1>1, <2>1, <2>4, <4>1, StepEffect
    <3>2. CASE UndoRow(t)
      BY <1>1, <2>1, <3>2 DEF UndoRow, Stray, StoresOK
    <3> QED
      BY <2>3, <3>1, <3>2
  <2>8. ASSUME label \in {"create", "await", "announce"}, sid[t] \notin strays'
        PROVE  rows'[sid[t]] # Nil \/ Ending(sid[t])'
    <3>1. CASE Insert(t)
      <4>1. [row[t] EXCEPT !.native = FALSE] \in Row
        BY <2>1 DEF Row
      <4>2. Continue(t, "create") /\ rows' = [rows EXCEPT ![sid[t]] = [row[t] EXCEPT !.native = FALSE]]
        BY <1>1, <2>2, <2>4, <2>8, <3>1 DEF Insert, Continue, Goto, LocalsOK
      <4> QED
        BY <1>1, <2>1, <4>1, <4>2, ConstantsAssumption DEF StoresOK
    <3>2. CASE CreateSession(t) \/ WaitForSessionUp(t)
      <4>1. rows' = rows /\ pc[t] \in {"create", "await"} /\ strays' = strays
        BY <3>2 DEF CreateSession, WaitForSessionUp
      <4> QED
        BY <1>2, <2>1, <2>8, <4>1 DEF SpawnAt
    <3> QED
      BY <2>3, <2>8, <3>1, <3>2
  <2>9. \A v \in Threads \ {t} : Spawning(v)' => sid'[v] # sid'[t]
    BY <1>1, <2>1, OthersKeepMethod DEF SpawnAt
  <2> QED
    BY <2>1, <2>4, <2>5, <2>6, <2>7, <2>8, <2>9 DEF SpawnAt, locals
<1> QED
  BY <1>4, <1>5 DEF SpawnOK, SpawnAt

\* The step lemma for RemoveOK.
LEMMA StepRemove ==
    ASSUME IInv, NEW t \in Threads, AcquireLock(t) \/ Step(t)
    PROVE  RemoveOK'
<1>1. LocalsOK /\ StoresOK /\ PcOK /\ PcAt(t) /\ OthersStay(t)
  BY TypeParts, ControlStep DEF IInv, PcOK
<1>2. ASSUME NEW u \in Threads \ {t} PROVE RemoveAt(u)'
  <2>1. pc'[u] = pc[u] /\ sid'[u] = sid[u] /\ RemoveAt(u)
    BY <1>1, OthersKeepMethod DEF IInv, RemoveOK
  <2>2. pc[u] \in {"delete", "announceEnd"} => sid[u] \in Ids
    BY <1>1 DEF PcOK, PcAt
  <2>3. pc[t] \in {"worktree", "insert"} /\ sid[t] = sid[u] =>
            pc[u] \notin {"delete", "announceEnd"}
    BY <1>1 DEF IInv, FreshOK, FreshAt, BeforeRow, PcAt
  <2> QED
    BY <1>1, <2>1, <2>2, <2>3, StepEffect DEF RemoveAt
<1>3. RemoveAt(t)'
  <2>1. pc'[t] = "delete" =>
           RemoveSessionWorktree(t) /\ sid'[t] = sid[t]
    BY <1>1 DEF Step, AcquireLock, CreateWorktree, Prepare, Insert, CreateSession,
       WaitForSessionUp, UndoRow, UndoTree, Announce, ProbeAgent, LoadSource,
       MergeRestart, AwaitAgent, KillProbe, KillDelete, SweepProbe, NextSession,
       RemoveSessionWorktree, DeleteRow, AnnounceEnd, CreateFailed, AfterKill,
       Continue, Return, Goto, LocalsOK, locals
  <2>2. pc'[t] = "announceEnd" => DeleteRow(t) /\ sid'[t] = sid[t] /\ sid[t] \in Ids
    BY <1>1 DEF Step, AcquireLock, CreateWorktree, Prepare, Insert, CreateSession,
       WaitForSessionUp, UndoRow, UndoTree, Announce, ProbeAgent, LoadSource,
       MergeRestart, AwaitAgent, KillProbe, KillDelete, SweepProbe, NextSession,
       RemoveSessionWorktree, DeleteRow, AnnounceEnd, CreateFailed, AfterKill,
       Continue, Return, Goto, LocalsOK, locals, PcAt
  <2>3. pc'[t] = "delete" => sid'[t] \notin worktrees' \/ sid'[t] \in strays'
    BY <2>1 DEF RemoveSessionWorktree, RemoveWorktree
  <2>4. pc'[t] = "announceEnd" => rows'[sid'[t]] = Nil
    BY <1>1, <2>2 DEF DeleteRow, StoresOK, Return, Goto, LocalsOK
  <2> QED
    BY <2>3, <2>4 DEF RemoveAt
<1> QED
  BY <1>2, <1>3 DEF RemoveOK

\* The step lemma for MintedOK.
LEMMA StepMinted ==
    ASSUME IInv, NEW t \in Threads, AcquireLock(t) \/ Step(t)
    PROVE  MintedOK'
<1>1. LocalsOK /\ StoresOK /\ PcAt(t) /\ OthersStay(t) /\ StoresOK'
  BY TypeParts, ControlStep, StoresStep DEF IInv, PcOK
<1>2. /\ minted' = minted /\ todo'[t] \subseteq minted
      /\ sid[t] # Nil => sid[t] \in minted
      /\ sid'[t] # Nil => sid'[t] \in minted
  BY <1>1, StepEffect DEF IInv, MintedOK
<1>3. \A id \in Ids : rows'[id] # Nil => id \in minted
  BY <1>1, <1>2, StepEffect, ConstantsAssumption DEF IInv, MintedOK
<1>4. worktrees' \subseteq minted /\ created' \subseteq minted /\ terminated' \subseteq minted
  BY <1>1, <1>2, StepEffect, ConstantsAssumption DEF IInv, MintedOK, StoresOK
<1> QED
  BY <1>1, <1>2, <1>3, <1>4 DEF MintedOK, OthersStay, IInv

\* The step lemma for WorktreesAccounted: who leaves the places that account
\* for a worktree hands it on, to its row or to the list of strays.
LEMMA StepAccounted ==
    ASSUME IInv, NEW t \in Threads, AcquireLock(t) \/ Step(t)
    PROVE  WorktreesAccounted'
<1>1. LocalsOK /\ StoresOK /\ PcAt(t) /\ OthersStay(t) /\ StoresOK'
  BY TypeParts, ControlStep, StoresStep DEF IInv, PcOK
<1> DEFINE Held(id) == \E u \in Threads : /\ Spawning(u)
                                          /\ sid[u] = id
                                          /\ pc[u] \in {"prepare", "insert", "undoTree"}
<1>2. ASSUME NEW id \in worktrees' \ strays', rows'[id] = Nil
      PROVE  Held(id)'
  <2>1. id \in Ids /\ id \notin strays
    BY <1>1, <1>2, StepEffect DEF StoresOK
  <2>2. CASE id \notin worktrees
    <3>1. id = sid[t] /\ pc[t] = "worktree" /\ pc'[t] = "prepare"
          /\ call'[t] = call[t] /\ sid'[t] = sid[t]
      BY <1>1, <1>2, <2>2, StepEffect
    <3> QED
      BY <1>1, <3>1 DEF PcAt, Spawning
  <2>3. CASE id \in worktrees /\ rows[id] # Nil
    <3>1. id = sid[t] /\ pc[t] = "undoRow" /\ pc'[t] = "undoTree" /\ sid'[t] = sid[t]
      <4>1. pc[t] = "delete" => sid[t] # id
        BY <2>1, <2>3 DEF IInv, RemoveOK, RemoveAt
      <4> QED
        BY <1>1, <1>2, <2>1, <2>3, <4>1, StepEffect
    <3>2. PcAt(t)'
      BY <1>1, ControlStep
    <3> QED
      BY <3>1, <3>2 DEF PcAt
  <2>4. CASE id \in worktrees /\ rows[id] = Nil
    <3>1. PICK u \in Threads : /\ Spawning(u)
                               /\ sid[u] = id
                               /\ pc[u] \in {"prepare", "insert", "undoTree"}
      BY <2>1, <2>4 DEF IInv, WorktreesAccounted
    <3>2. CASE u # t
      BY <1>1, <3>1, <3>2, OthersKeepMethod
    <3>3. CASE u = t
      <4>1. pc[t] # "undoTree"
        BY <1>2, <2>4, <3>1, <3>3 DEF UndoTree, RemoveWorktree, Step, AcquireLock,
           CreateWorktree, Prepare, Insert, CreateSession, WaitForSessionUp, UndoRow,
           Announce, ProbeAgent, LoadSource, MergeRestart, AwaitAgent, KillProbe,
           KillDelete, SweepProbe, NextSession, RemoveSessionWorktree, DeleteRow,
           AnnounceEnd, IInv, SpawnOK, SpawnAt
      <4>2. Prepare(t) \/ Insert(t)
        BY <3>1, <3>3, <4>1 DEF Step, AcquireLock, UndoTree,
           CreateWorktree, CreateSession, WaitForSessionUp, UndoRow,
           Announce, ProbeAgent, LoadSource, MergeRestart, AwaitAgent, KillProbe,
           KillDelete, SweepProbe, NextSession, RemoveSessionWorktree, DeleteRow,
           AnnounceEnd
      <4>3. row[t] \in Row
        BY <1>1, <3>1, <3>3 DEF PcAt
      <4>4. [row[t] EXCEPT !.native = FALSE] # Nil
        BY <4>3, ConstantsAssumption DEF Row
      <4>5. \/ Continue(t, "insert") \/ Continue(t, "undoTree")
        BY <1>1, <1>2, <2>1, <3>1, <3>3, <4>2, <4>4 DEF Prepare, Insert, StoresOK
      <4> QED
        BY <1>1, <3>1, <3>3, <4>5 DEF Continue, Goto, locals, LocalsOK, Spawning
    <3> QED
      BY <3>2, <3>3
  <2> QED
    BY <2>2, <2>3, <2>4
<1> QED
  BY <1>2 DEF WorktreesAccounted

\* The step lemma for RowsKeepWorktree.
LEMMA StepKeepsWorktree ==
    ASSUME IInv, NEW t \in Threads, AcquireLock(t) \/ Step(t)
    PROVE  RowsKeepWorktree'
<1>1. LocalsOK /\ StoresOK /\ PcAt(t) /\ OthersStay(t)
  BY TypeParts, ControlStep DEF IInv, PcOK
<1>2. ASSUME NEW id \in Ids \ strays', rows'[id] # Nil
      PROVE  \/ rows'[id].isolated => id \in worktrees'
             \/ \E u \in Threads : sid'[u] = id /\ pc'[u] = "delete"
  <2>1. id \notin strays
    BY <1>1, <1>2, StepEffect
  <2>2. CASE pc[t] = "insert" /\ sid[t] = id /\ pc'[t] = "create"
    <3>1. FreshAt(t) /\ Spawning(t) /\ rows[id] = Nil
      BY <1>1, <2>2 DEF IInv, FreshOK, FreshAt, BeforeRow, PcAt
    <3>2. row[t].isolated => id \in worktrees
      BY <2>2, <3>1 DEF FreshAt, BeforeRow
    <3>3. rows'[id].isolated = row[t].isolated
      BY <1>1, <1>2, <3>1, StepEffect
    <3>4. id \in worktrees => id \in worktrees'
      BY <1>1, <2>2, StepEffect
    <3> QED
      BY <3>2, <3>3, <3>4
  <2>3. CASE ~(pc[t] = "insert" /\ sid[t] = id)
    <3>1. rows[id] # Nil /\ rows'[id].isolated = rows[id].isolated
      BY <1>1, <1>2, <2>3, StepEffect
    <3>2. CASE rows[id].isolated => id \in worktrees
      <4>1. CASE id \in worktrees \ worktrees'
        <5>1. pc[t] # "undoTree"
          <6>1. id = sid[t]
            BY <1>1, <4>1, StepEffect
          <6> QED
            BY <1>1, <2>1, <3>1, <6>1 DEF IInv, SpawnOK, SpawnAt, PcAt
        <5> QED
          BY <1>1, <4>1, <5>1, StepEffect
      <4> QED
        BY <3>1, <3>2, <4>1
    <3>3. CASE \E u \in Threads : sid[u] = id /\ pc[u] = "delete"
      <4>1. PICK u \in Threads : sid[u] = id /\ pc[u] = "delete"
        BY <3>3
      <4>2. CASE u # t
        BY <1>1, <4>1, <4>2, OthersKeepMethod
      <4>3. CASE u = t
        BY <1>1, <1>2, <4>1, <4>3 DEF Step, AcquireLock, UndoTree, Prepare, Insert,
           CreateWorktree, CreateSession, WaitForSessionUp, UndoRow,
           Announce, ProbeAgent, LoadSource, MergeRestart, AwaitAgent, KillProbe,
           KillDelete, SweepProbe, NextSession, RemoveSessionWorktree, DeleteRow,
           AnnounceEnd, StoresOK, Stray
      <4> QED
        BY <4>2, <4>3
    <3> QED
      BY <2>1, <3>1, <3>2, <3>3 DEF IInv, RowsKeepWorktree
  <2>4. CASE pc[t] = "insert" /\ sid[t] = id /\ pc'[t] # "create"
    <3>1. rows[id] = Nil
      BY <1>1, <2>4 DEF IInv, FreshOK, FreshAt, BeforeRow, PcAt
    <3> QED
      BY <1>1, <1>2, <2>4, <3>1, StepEffect
  <2> QED
    BY <2>2, <2>3, <2>4
<1> QED
  BY <1>2 DEF RowsKeepWorktree

\* The step lemma for EndIsFinal and EndIsAnnounced.
LEMMA StepEnds ==
    ASSUME IInv, NEW t \in Threads, AcquireLock(t) \/ Step(t)
    PROVE  EndIsFinal' /\ EndIsAnnounced'
<1>1. LocalsOK /\ StoresOK /\ PcAt(t) /\ OthersStay(t) /\ StoresOK'
  BY TypeParts, ControlStep, StoresStep DEF IInv, PcOK
<1>2. ASSUME NEW id \in terminated' PROVE rows'[id] = Nil
  <2>1. id \in Ids
    BY <1>1, <1>2 DEF StoresOK
  <2>2. rows[id] = Nil
    BY <1>1, <1>2, StepEffect DEF IInv, EndIsFinal, RemoveOK, RemoveAt
  <2>3. ~(pc[t] = "insert" /\ sid[t] = id)
    <3>1. pc[t] = "insert" => id \in terminated
      BY <1>1, <1>2, StepEffect
    <3> QED
      BY <1>1, <3>1 DEF IInv, FreshOK, FreshAt, BeforeRow, PcAt
  <2> QED
    BY <1>1, <2>1, <2>2, <2>3, StepEffect
<1>3. ASSUME NEW id \in created' \ (terminated' \union strays'), rows'[id] = Nil
      PROVE  \E u \in Threads : sid'[u] = id /\ pc'[u] = "announceEnd"
  <2>1. id \in Ids /\ id \notin strays /\ id \notin terminated
    BY <1>1, <1>3, StepEffect DEF StoresOK
  <2>2. CASE rows[id] # Nil
    <3>1. id = sid[t] /\ sid'[t] = sid[t]
          /\ (pc[t] = "undoRow" \/ pc'[t] = "announceEnd")
      BY <1>1, <1>3, <2>1, <2>2, StepEffect
    <3>2. pc[t] # "undoRow"
      <4>1. pc[t] = "undoRow" => id \in created
        BY <1>1, <1>3, StepEffect
      <4> QED
        BY <1>1, <3>1, <4>1 DEF IInv, SpawnOK, SpawnAt, PcAt
    <3> QED
      BY <3>1, <3>2
  <2>3. CASE rows[id] = Nil
    <3>1. Ending(id)
      <4>1. CASE id \in created
        BY <2>1, <2>3, <4>1 DEF IInv, EndIsAnnounced, Ending
      <4>2. CASE id \notin created
        <5>1. id = sid[t] /\ pc[t] = "announce"
          BY <1>1, <1>3, <4>2, StepEffect
        <5> QED
          BY <1>1, <2>1, <2>3, <5>1 DEF IInv, SpawnOK, SpawnAt, PcAt
      <4> QED
        BY <4>1, <4>2
    <3> QED
      BY <1>1, <1>3, <2>1, <3>1, EndingStep DEF Ending
  <2> QED
    BY <2>2, <2>3
<1> QED
  BY <1>2, <1>3 DEF EndIsFinal, EndIsAnnounced

-----------------------------------------------------------------------------
(* The theorems.                                                           *)

\* The invariant holds at the start.
LEMMA InitInvariant == Init => IInv
<1>1. SUFFICES ASSUME Init PROVE IInv
  OBVIOUS
<1>2. LocalsOK /\ StoresOK /\ PcOK
  BY <1>1, ControlInit
<1>3. TypeOK
  BY <1>2, TypeParts
<1>4. \A t \in Threads : ~Spawning(t)
  BY <1>1, ConstantsAssumption DEF Init, Spawning, AllCalls
<1>5. MintedOK /\ FreshOK /\ SpawnOK /\ RemoveOK
  BY <1>1, <1>4 DEF Init, MintedOK, FreshOK, FreshAt, SpawnOK, SpawnAt, RemoveOK, RemoveAt
<1>6. WorktreesAccounted /\ RowsKeepWorktree /\ EndIsFinal /\ EndIsAnnounced
  BY <1>1 DEF Init, WorktreesAccounted, RowsKeepWorktree, EndIsFinal, EndIsAnnounced
<1> QED
  BY <1>2, <1>3, <1>5, <1>6 DEF IInv

\* Every step keeps the invariant.
LEMMA NextInvariant == IInv /\ [Next]_vars => IInv'
<1>1. SUFFICES ASSUME IInv, [Next]_vars PROVE IInv'
  OBVIOUS
<1>2. ASSUME NEW t \in Threads, AcquireLock(t) \/ Step(t) PROVE IInv'
  <2>1. TypeOK' /\ PcOK'
    <3>1. LocalsOK /\ StoresOK /\ PcOK
      BY TypeParts, <1>1 DEF IInv
    <3>2. LocalsOK' /\ StoresOK' /\ PcOK'
      BY <1>2, <3>1, ControlNext DEF Next
    <3> QED
      BY <3>2 DEF TypeOK, LocalsOK, StoresOK
  <2> QED
    BY <1>1, <1>2, <2>1, StepMinted, StepFresh, StepSpawn, StepRemove, StepAccounted,
       StepKeepsWorktree, StepEnds DEF IInv
<1>3. CASE UNCHANGED vars
  BY <1>1, <1>3 DEF vars, IInv, TypeOK, PcOK, PcAt, MintedOK, FreshOK, FreshAt,
     SpawnOK, SpawnAt, Ending, RemoveOK, RemoveAt, WorktreesAccounted,
     RowsKeepWorktree, EndIsFinal, EndIsAnnounced,
     Spawning, Restarting, Stopping, Sweeping
<1> QED
  BY <1>1, <1>2, <1>3, StartStep, EnvironmentStep DEF Next

\* The inductive invariant holds throughout.
LEMMA Invariant == Spec => []IInv
BY InitInvariant, NextInvariant, PTL DEF Spec

\* No worktree leaks: whatever calls interleave, crash, fail or are cancelled
\* (Spawn, Fork, Stop, RemoveProject, Reconcile, ReconcileAll), a worktree on
\* disk has a row, a spawn that will give it one or remove it, or is a stray.
THEOREM NoWorktreeLeaks == Spec => []WorktreesAccounted
<1>1. IInv => WorktreesAccounted
  BY DEF IInv
<1> QED
  BY <1>1, Invariant, PTL

\* A row's worktree is there as long as the row is, outside its own removal.
THEOREM RowsHaveWorktrees == Spec => []RowsKeepWorktree
<1>1. IInv => RowsKeepWorktree
  BY DEF IInv
<1> QED
  BY <1>1, Invariant, PTL

\* No Insert, MergeMetadata or restart brings back a row whose end was announced.
THEOREM TerminatedIsFinal == Spec => []EndIsFinal
<1>1. IInv => EndIsFinal
  BY DEF IInv
<1> QED
  BY <1>1, Invariant, PTL

\* A row whose session.created was published is not deleted in silence by any
\* of Stop, RemoveProject, Reconcile and ReconcileAll, or by a spawn's rollback.
THEOREM DeletionIsAnnounced == Spec => []EndIsAnnounced
<1>1. IInv => EndIsAnnounced
  BY DEF IInv
<1> QED
  BY <1>1, Invariant, PTL

-----------------------------------------------------------------------------
(* SessionLifecycle implements SessionLife.                                *)

\* A spawn before its row was one before the step.
LEMMA BeforeRowStep ==
    ASSUME NEW t \in Threads, LocalsOK, StoresOK, PcAt(t), AcquireLock(t) \/ Step(t),
           Spawning(t)', pc'[t] \in BeforeRow
    PROVE  Spawning(t) /\ pc[t] \in BeforeRow /\ sid'[t] = sid[t]
<1>1. Spawning(t) /\ pc[t] \in SpawnPc /\ ~Return(t)
  BY StepEffect, SpawningHasId, ReturnEffect, ConstantsAssumption DEF Spawning, AllCalls
<1>2. ~Restarting(t) /\ ~Stopping(t) /\ ~Sweeping(t)
  BY <1>1 DEF Spawning, Restarting, Stopping, Sweeping
<1>3. CASE CreateWorktree(t) \/ Prepare(t)
  BY <1>1, <1>3 DEF CreateWorktree, Prepare, Continue, locals, BeforeRow
<1>4. CASE Insert(t) \/ CreateSession(t) \/ WaitForSessionUp(t) \/ UndoRow(t)
  BY <1>1, <1>4 DEF Insert, CreateSession, WaitForSessionUp,
     UndoRow, CreateFailed, Continue, Goto, LocalsOK, BeforeRow
<1>5. CASE UndoTree(t) \/ Announce(t)
  BY <1>1, <1>5 DEF UndoTree, Announce
<1> QED
  BY <1>1, <1>2, <1>3, <1>4, <1>5 DEF Step, AcquireLock, ProbeAgent,
     LoadSource, MergeRestart, AwaitAgent, KillProbe, KillDelete, SweepProbe,
     NextSession, RemoveSessionWorktree, DeleteRow, AnnounceEnd, SpawnPc

\* What Life says of one id.
LEMMA LifeOf ==
    ASSUME NEW id \in Ids
    PROVE  /\ Life[id] \in {"unborn", "present", "gone"}
           /\ Life[id] = "present" <=> rows[id] # Nil
           /\ Life[id] = "unborn" <=> rows[id] = Nil /\ Unborn(id)
BY DEF Life

\* At the start every id is unborn and nothing is announced.
LEMMA BoardInit == Init => Board!Init
BY DEF Init, Board!Init, Life, Unborn

\* The environment inserts and deletes nothing; the spawns it ends are abandoned.
LEMMA BoardEnvironment ==
    ASSUME IInv, Environment
    PROVE  Board!Next
<1>1. LocalsOK /\ StoresOK /\ PcOK
  BY TypeParts DEF IInv
<1>2. /\ UNCHANGED <<minted, created, terminated>>
      /\ \A id \in Ids : rows'[id] = Nil <=> rows[id] = Nil
      /\ \A u \in Threads : Stays(u) \/ Gone(u)
  BY <1>1, EnvironmentEffect
<1>3. \A id \in Ids : Unborn(id)' => Unborn(id)
  BY <1>2, ConstantsAssumption DEF Unborn, Stays, Gone, Spawning, AllCalls
<1> DEFINE S == {id \in Ids : Life[id] = "unborn" /\ Life'[id] = "gone"}
<1>4. \A id \in Ids : Life'[id] = IF id \in S THEN "gone" ELSE Life[id]
  BY <1>2, <1>3, LifeOf DEF Life
<1>5. Board!Abandon(S)
  BY <1>2, <1>4 DEF Board!Abandon, Life
<1> QED
  BY <1>5 DEF Board!Next

\* A call that begins shows the board nothing.
LEMMA BoardStart ==
    ASSUME IInv, NEW t \in Threads, Start(t)
    PROVE  UNCHANGED Board!vars
<1>1. LocalsOK /\ StoresOK /\ PcOK
  BY TypeParts DEF IInv
<1>2. /\ OthersStay(t) /\ pc[t] = "idle"
      /\ UNCHANGED <<rows, created, terminated>>
      /\ StartsNew(t) \/ StartsRestart(t) \/ StartsLoop(t)
  BY <1>1, StartEffect
<1>3. ~Spawning(t)
  BY <1>1, <1>2, ConstantsAssumption DEF PcOK, PcAt, Spawning, AllCalls
<1>4. \A id \in Ids, u \in Threads \ {t} :
          /\ Spawning(u)' <=> Spawning(u)
          /\ sid'[u] = sid[u] /\ pc'[u] = pc[u]
  BY <1>2, OthersKeepMethod
<1>5. ASSUME NEW id \in Ids PROVE Unborn(id)' <=> Unborn(id)
  <2>1. CASE StartsNew(t)
    BY <1>3, <1>4, <2>1 DEF StartsNew, Unborn, Spawning, BeforeRow
  <2>2. CASE StartsRestart(t) \/ StartsLoop(t)
    <3>1. minted' = minted /\ ~Spawning(t)'
      BY <2>2 DEF StartsRestart, StartsLoop, Spawning
    <3> QED
      BY <1>3, <1>4, <3>1 DEF Unborn
  <2> QED
    BY <1>2, <2>1, <2>2
<1>6. Life' = Life
  BY <1>2, <1>5 DEF Life
<1> QED
  BY <1>2, <1>6 DEF Board!vars

\* A step of a call changes the place of its own id, or announces it.
LEMMA BoardStep ==
    ASSUME IInv, NEW t \in Threads, AcquireLock(t) \/ Step(t)
    PROVE  Board!Next \/ UNCHANGED Board!vars
<1>1. LocalsOK /\ StoresOK /\ PcOK /\ PcAt(t) /\ OthersStay(t) /\ StoresOK'
  BY TypeParts, ControlStep, StoresStep DEF IInv, PcOK
<1>2. minted' = minted
  BY <1>1, StepEffect
<1>3. \A id \in Ids : Unborn(id)' => Unborn(id)
  BY <1>1, <1>2, BeforeRowStep, OthersKeepMethod DEF Unborn
<1>4. ASSUME NEW id \in Ids, id # sid[t] PROVE Life'[id] = Life[id]
  <2>1. rows'[id] = Nil <=> rows[id] = Nil
    BY <1>1, <1>4, StepEffect
  <2>2. Unborn(id) => Unborn(id)'
    BY <1>1, <1>2, <1>4, OthersKeepMethod DEF Unborn
  <2> QED
    BY <1>3, <2>1, <2>2 DEF Life
<1>5. CASE sid[t] \notin Ids
  <2>1. Life' = Life
    BY <1>4, <1>5 DEF Life
  <2>2. created' \ created = {} /\ terminated' \ terminated = {}
    BY <1>1, <1>5, StepEffect DEF StoresOK
  <2>3. created' = created /\ terminated' = terminated
    BY <1>1, <2>2, StepEffect
  <2> QED
    BY <2>1, <2>3 DEF Board!vars
<1>6. CASE sid[t] \in Ids
  <2>0. PICK s \in Ids : s = sid[t]
    BY <1>6
  <2>1. s \in minted
    BY <2>0, ConstantsAssumption DEF IInv, MintedOK
  <2>2. rows[s] # Nil => ~Unborn(s) /\ ~Unborn(s)'
    <3>1. ASSUME NEW u \in Threads, Spawning(u), sid[u] = s, pc[u] \in BeforeRow
          PROVE  rows[s] = Nil
      BY <2>0, <3>1 DEF IInv, FreshOK, FreshAt
    <3>2. rows[s] # Nil => ~Unborn(s)
      BY <2>0, <2>1, <3>1 DEF Unborn
    <3>3. Unborn(s)' => Unborn(s)
      BY <1>3, <2>0
    <3> QED
      BY <3>2, <3>3
  <2>3. pc[t] = "announce" => ~Unborn(s)
    <3>1. ASSUME pc[t] = "announce", NEW u \in Threads, Spawning(u), sid[u] = s
          PROVE  u = t
      BY <2>0, <1>1, <3>1 DEF IInv, SpawnOK, SpawnAt, PcAt
    <3> QED
      BY <2>0, <2>1, <3>1 DEF Unborn, BeforeRow
  <2>4. pc[t] = "announceEnd" => rows[s] = Nil /\ ~Unborn(s)
    BY <2>0, <1>1, <2>1 DEF Unborn, IInv, FreshOK, FreshAt, RemoveOK, RemoveAt, PcAt,
       Spawning, Stopping, Sweeping, BeforeRow
  <2>5. /\ created' \subseteq created \union {s} /\ terminated' \subseteq terminated \union {s}
        /\ created \subseteq created' /\ terminated \subseteq terminated'
        /\ created' # created => pc[t] = "announce"
        /\ terminated' # terminated => pc[t] = "announceEnd"
    BY <2>0, <1>1, StepEffect
  <2>6. CASE created' = created /\ terminated' = terminated
    <3>1. CASE rows[s] = Nil /\ rows'[s] # Nil
      <4>1. Unborn(s)
        BY <1>1, <2>0, <3>1, StepEffect DEF Unborn, PcAt, BeforeRow
      <4>2. Life[s] = "unborn" /\ Life'[s] = "present"
        BY <2>0, <3>1, <4>1 DEF Life
      <4>3. Life' = [Life EXCEPT ![s] = "present"]
        BY <1>4, <2>0, <4>2 DEF Life
      <4> QED
        BY <2>0, <2>6, <4>2, <4>3 DEF Board!Next, Board!Appear
    <3>2. CASE rows[s] # Nil /\ rows'[s] = Nil
      <4>1. Life[s] = "present" /\ Life'[s] = "gone"
        <5>1. ~Unborn(s)'
          BY <2>2, <3>2
        <5> QED
          BY <2>0, <3>2, <5>1 DEF Life
      <4>2. Life' = [Life EXCEPT ![s] = "gone"]
        BY <1>4, <2>0, <4>1 DEF Life
      <4> QED
        BY <2>0, <2>6, <4>1, <4>2 DEF Board!Next, Board!Disappear
    <3>3. CASE rows[s] = Nil <=> rows'[s] = Nil
      <4>1. \/ Life'[s] = Life[s]
            \/ Life[s] = "unborn" /\ Life'[s] = "gone"
        BY <1>3, <2>0, <3>3 DEF Life
      <4>2. CASE Life'[s] = Life[s]
        BY <2>0, <1>4, <2>6, <4>2 DEF Life, Board!vars
      <4>3. CASE Life[s] = "unborn" /\ Life'[s] = "gone"
        <5>1. Life' = [id \in Ids |-> IF id \in {s} THEN "gone" ELSE Life[id]]
          BY <1>4, <2>0, <4>3 DEF Life
        <5>2. Board!Abandon({s})
          BY <2>0, <2>6, <4>3, <5>1 DEF Board!Abandon
        <5> QED
          BY <2>0, <5>2 DEF Board!Next
      <4> QED
        BY <4>1, <4>2, <4>3
    <3> QED
      BY <3>1, <3>2, <3>3
  <2>7. CASE pc[t] \in {"announce", "announceEnd"}
    <3>1. rows'[s] = Nil <=> rows[s] = Nil
      BY <1>1, <2>0, <2>7, StepEffect
    <3>2. Life[s] # "unborn" /\ Life' = Life
      BY <1>3, <1>4, <2>0, <2>3, <2>4, <2>7, <3>1 DEF Life
    <3>3. pc[t] = "announceEnd" => Life[s] = "gone"
      BY <2>0, <2>4 DEF Life
    <3>4. CASE pc[t] = "announce" /\ created' # created
      BY <2>0, <2>5, <3>2, <3>4 DEF Board!Next, Board!AnnounceCreated
    <3>5. CASE pc[t] = "announceEnd" /\ terminated' # terminated
      BY <2>0, <2>5, <3>2, <3>3, <3>5 DEF Board!Next, Board!AnnounceTerminated
    <3> QED
      BY <2>0, <2>5, <2>6, <3>4, <3>5
  <2> QED
    BY <2>5, <2>6, <2>7
<1> QED
  BY <1>5, <1>6

\* The engine's calls, however they interleave and fail, implement SessionLife:
\* an id's row is in the table for one stretch of time at most, session.created
\* names a row that was there and session.terminated one that is gone for good.
THEOREM EngineImplementsBoard == Spec => RefinesBoard
<1>1. IInv /\ [Next]_vars => [Board!Next]_(Board!vars)
  <2>1. CASE UNCHANGED vars
    BY <2>1 DEF vars, Board!vars, Life, Unborn, Spawning
  <2> QED
    BY <2>1, BoardEnvironment, BoardStart, BoardStep DEF Next
<1> QED
  BY <1>1, BoardInit, Invariant, PTL DEF Spec, RefinesBoard, Board!Spec
=============================================================================
