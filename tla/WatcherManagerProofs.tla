------------------------ MODULE WatcherManagerProofs ------------------------
(***************************************************************************)
(* Proofs of the safety invariants of WatcherManager, for any set of       *)
(* processes and any number of restarts.                                   *)
(***************************************************************************)
EXTENDS WatcherManager, TLAPS

\* Who is in _watched is in _locked, holds the lock and is alive, and either has a
\* task or is awaiting the end of one.
Holding ==
    /\ watched = locked
    /\ removing \subseteq watched
    /\ \A m \in watched : owner = m /\ up[m] # "dead"
    /\ \A m \in Managers : task[m] # "none" <=> m \in watched \ removing
    /\ \A m \in Managers : owner = m /\ up[m] # "dead" => m \in locked

\* Only who was asked to watch stands by, and only who stands by listens.
Standing ==
    /\ standby \subseteq wanted
    /\ standby \cap watched = {}
    /\ watched \ removing \subseteq wanted
    /\ \A m \in Managers : sig[m] # "none" => m \in standby

IInv == TypeOK /\ Holding /\ Standing

\* Nobody can be watching while the lock can be acquired.
LEMMA NoWatcher ==
  ASSUME IInv, Acquirable
  PROVE  watched = {} /\ removing = {} /\ locked = {}
  BY ManagerAssumption DEF IInv, TypeOK, Holding, Acquirable

\* Taking the lock, or standing by, keeps the invariant for a manager whose caller
\* wants the folder.
LEMMA TakeKeeps ==
  ASSUME IInv, NEW m \in Managers, NEW attempts \in SUBSET Managers,
         Serving(m), m \notin watched, TakeOrStandBy(m, attempts),
         UNCHANGED <<up, removing, orphans, restarts>>,
         wanted' \in {wanted, wanted \cup {m}}, m \in wanted',
         auto' \in [Managers -> {"idle", "ensure", "ensureThenAdd"}]
  PROVE  IInv'
<1>1. CASE Acquirable
  <2>1. watched = {} /\ removing = {} /\ locked = {}
    BY <1>1, NoWatcher
  <2>2. TypeOK'
    BY <1>1 DEF IInv, TypeOK, TaskPc, TakeOrStandBy, ClearStandby, StartTask
  <2>3. Holding'
    BY <1>1, <2>1 DEF IInv, TypeOK, TaskPc, Holding, Serving, TakeOrStandBy,
                     ClearStandby, StartTask
  <2>4. Standing'
    BY <1>1, <2>1 DEF IInv, TypeOK, Standing, TakeOrStandBy, ClearStandby, StartTask
  <2>5. QED BY <2>2, <2>3, <2>4 DEF IInv
<1>2. CASE ~Acquirable
  <2>1. TypeOK'
    BY <1>2 DEF IInv, TypeOK, TakeOrStandBy, MarkStandby
  <2>2. Holding'
    BY <1>2 DEF IInv, TypeOK, Holding, TakeOrStandBy, MarkStandby
  <2>3. Standing'
    BY <1>2 DEF IInv, TypeOK, Standing, TakeOrStandBy, MarkStandby
  <2>4. QED BY <2>1, <2>2, <2>3 DEF IInv
<1>3. QED BY <1>1, <1>2

LEMMA InitIInv == Init => IInv
  BY ManagerAssumption DEF Init, IInv, TypeOK, TaskPc, Holding, Standing

LEMMA StepIInv == IInv /\ [Next]_vars => IInv'
<1> SUFFICES ASSUME IInv, [Next]_vars PROVE IInv'
  OBVIOUS
<1> USE DEF IInv
<1>1. ASSUME NEW m \in Managers, AddFolder(m)
      PROVE  IInv'
  BY <1>1, TakeKeeps DEF AddFolder, TypeOK
<1>2. ASSUME NEW m \in Managers, RemoveStandby(m)
      PROVE  IInv'
  <2>1. TypeOK'
    BY <1>2 DEF TypeOK, RemoveStandby, ClearStandby
  <2>2. Holding'
    BY <1>2 DEF TypeOK, Holding, RemoveStandby, ClearStandby
  <2>3. Standing'
    BY <1>2 DEF TypeOK, Holding, Standing, RemoveStandby, ClearStandby
  <2>4. QED BY <2>1, <2>2, <2>3
<1>3. ASSUME NEW m \in Managers, RemoveBegin(m)
      PROVE  IInv'
  <2>1. TypeOK'
    BY <1>3 DEF TypeOK, TaskPc, RemoveBegin
  <2>2. Holding'
    BY <1>3 DEF TypeOK, TaskPc, Holding, RemoveBegin
  <2>3. Standing'
    BY <1>3 DEF TypeOK, Holding, Standing, RemoveBegin
  <2>4. QED BY <2>1, <2>2, <2>3
<1>4. ASSUME NEW m \in Managers, RemoveEnd(m)
      PROVE  IInv'
  <2>1. TypeOK'
    BY <1>4, ManagerAssumption DEF TypeOK, RemoveEnd, ReleaseLock
  <2>2. Holding'
    BY <1>4, ManagerAssumption DEF TypeOK, Holding, RemoveEnd, ReleaseLock
  <2>3. Standing'
    BY <1>4 DEF TypeOK, Holding, Standing, RemoveEnd, ReleaseLock
  <2>4. QED BY <2>1, <2>2, <2>3
<1>5. ASSUME NEW m \in Managers, BeginStop(m)
      PROVE  IInv'
  <2>1. TypeOK'
    BY <1>5 DEF TypeOK, BeginStop
  <2>2. Holding'
    BY <1>5 DEF TypeOK, Holding, BeginStop
  <2>3. Standing'
    BY <1>5 DEF TypeOK, Holding, Standing, BeginStop
  <2>4. QED BY <2>1, <2>2, <2>3
<1>6. ASSUME NEW m \in Managers, Stop(m)
      PROVE  IInv'
  <2>1. TypeOK'
    BY <1>6, ManagerAssumption DEF TypeOK, TaskPc, Stop, ReleaseLock, ClearStandby
  <2>2. Holding'
    BY <1>6, ManagerAssumption DEF TypeOK, TaskPc, Holding, Stop, ReleaseLock, ClearStandby
  <2>3. Standing'
    BY <1>6 DEF TypeOK, Holding, Standing, Stop, ReleaseLock, ClearStandby
  <2>4. QED BY <2>1, <2>2, <2>3
<1>7. ASSUME NEW m \in Managers, AutoWatch(m)
      PROVE  IInv'
  <2>1. CASE m \in throttled
    BY <1>7, <2>1 DEF AutoWatch, Attempt, TypeOK, Holding, Standing
  <2>2. CASE m \notin throttled
    <3>1. TakeOrStandBy(m, throttled \cup {m}) /\ m \notin watched /\ Serving(m)
      BY <1>7, <2>2 DEF AutoWatch, Attempt
    <3>2. wanted' = wanted \cup {m} /\ UNCHANGED <<up, removing, orphans, restarts>>
      BY <1>7 DEF AutoWatch
    <3>3. auto' \in [Managers -> {"idle", "ensure", "ensureThenAdd"}]
      BY <1>7, <2>2 DEF AutoWatch, TypeOK
    <3>4. throttled \cup {m} \in SUBSET Managers
      BY DEF TypeOK
    <3>5. QED BY <3>1, <3>2, <3>3, <3>4, TakeKeeps
  <2>3. QED BY <2>1, <2>2
<1>8. ASSUME NEW m \in Managers, AutoWatchIndexed(m)
      PROVE  IInv'
  <2> DEFINE adds == auto[m] = "ensureThenAdd" /\ Serving(m) /\ m \notin watched
  <2>1. CASE ~adds
    BY <1>8, <2>1 DEF AutoWatchIndexed, TypeOK, Holding, Standing
  <2>2. CASE adds
    <3>1. TakeOrStandBy(m, throttled) /\ wanted' = wanted \cup {m}
          /\ UNCHANGED <<up, removing, orphans, restarts>>
      BY <1>8, <2>2 DEF AutoWatchIndexed
    <3>2. auto' \in [Managers -> {"idle", "ensure", "ensureThenAdd"}]
      BY <1>8 DEF AutoWatchIndexed, TypeOK
    <3>3. throttled \in SUBSET Managers
      BY DEF TypeOK
    <3>4. QED BY <2>2, <3>1, <3>2, <3>3, TakeKeeps
  <2>3. QED BY <2>1, <2>2
<1>9. ASSUME NEW m \in Managers, TaskIndexed(m)
      PROVE  IInv'
  <2>1. TypeOK'
    BY <1>9 DEF TypeOK, TaskPc, TaskIndexed
  <2>2. Holding'
    BY <1>9 DEF TypeOK, TaskPc, Holding, TaskIndexed
  <2>3. Standing'
    BY <1>9 DEF TypeOK, Holding, Standing, TaskIndexed
  <2>4. QED BY <2>1, <2>2, <2>3
<1>10. ASSUME NEW m \in Managers, TaskRaises(m)
      PROVE  IInv'
  <2>1. TypeOK'
    BY <1>10 DEF TypeOK, TaskPc, TaskRaises
  <2>2. Holding'
    BY <1>10 DEF TypeOK, TaskPc, Holding, TaskRaises
  <2>3. Standing'
    BY <1>10 DEF TypeOK, Holding, Standing, TaskRaises
  <2>4. QED BY <2>1, <2>2, <2>3
<1>11. ASSUME NEW m \in Managers, RestartCrashed(m)
      PROVE  IInv'
  <2>1. TypeOK'
    BY <1>11 DEF TypeOK, TaskPc, RestartCrashed, StartTask
  <2>2. Holding'
    BY <1>11 DEF TypeOK, TaskPc, Holding, RestartCrashed, StartTask, Running, Serving
  <2>3. Standing'
    BY <1>11 DEF TypeOK, Holding, Standing, RestartCrashed, StartTask
  <2>4. QED BY <2>1, <2>2, <2>3
<1>12. ASSUME NEW m \in Managers, GiveUpFatal(m)
      PROVE  IInv'
  <2>1. TypeOK'
    BY <1>12, ManagerAssumption DEF TypeOK, TaskPc, GiveUpFatal, ReleaseLock
  <2>2. Holding'
    BY <1>12, ManagerAssumption DEF TypeOK, TaskPc, Holding, GiveUpFatal, ReleaseLock
  <2>3. Standing'
    BY <1>12 DEF TypeOK, Holding, Standing, GiveUpFatal, ReleaseLock
  <2>4. QED BY <2>1, <2>2, <2>3
<1>13. ASSUME NEW m \in Managers, RetryStandby(m)
      PROVE  IInv'
  BY <1>13, TakeKeeps DEF RetryStandby, Attempt, Running, Standing, TypeOK
<1>14. ASSUME NEW m \in Managers, RunPassRaises(m)
      PROVE  IInv'
  <2>1. TypeOK'
    BY <1>14, ManagerAssumption DEF TypeOK, RunPassRaises, Running, Serving
  <2>2. Holding'
    BY <1>14 DEF TypeOK, Holding, RunPassRaises
  <2>3. Standing'
    BY <1>14 DEF TypeOK, Holding, Standing, RunPassRaises
  <2>4. QED BY <2>1, <2>2, <2>3
<1>15. ASSUME NEW m \in Managers, ThrottleExpires(m)
      PROVE  IInv'
  <2>1. TypeOK'
    BY <1>15 DEF TypeOK, ThrottleExpires
  <2>2. Holding'
    BY <1>15 DEF TypeOK, Holding, ThrottleExpires
  <2>3. Standing'
    BY <1>15 DEF TypeOK, Holding, Standing, ThrottleExpires
  <2>4. QED BY <2>1, <2>2, <2>3
<1>16. ASSUME NEW m \in Managers, Subscribe(m)
      PROVE  IInv'
  <2>1. TypeOK'
    BY <1>16 DEF TypeOK, Subscribe
  <2>2. Holding'
    BY <1>16 DEF TypeOK, Holding, Subscribe
  <2>3. Standing'
    BY <1>16 DEF TypeOK, Holding, Standing, Subscribe
  <2>4. QED BY <2>1, <2>2, <2>3
<1>17. ASSUME NEW m \in Managers, HandleSignal(m)
      PROVE  IInv'
  <2>1. m \in standby /\ m \in wanted
    BY <1>17 DEF HandleSignal, Standing
  <2>2. CASE Attempt(m)
    <3>1. throttled \cup {m} \in SUBSET Managers
      BY DEF TypeOK
    <3>2. UNCHANGED <<up, removing, orphans, auto, restarts, wanted>> /\ Serving(m)
      BY <1>17 DEF HandleSignal
    <3>3. QED BY <2>1, <2>2, <3>1, <3>2, TakeKeeps DEF Attempt, TypeOK
  <2>3. CASE ~Attempt(m)
    BY <1>17, <2>3 DEF HandleSignal, TypeOK, Holding, Standing
  <2>4. QED BY <2>2, <2>3
<1>18. ASSUME NEW m \in Managers, SignalLoopFails(m)
      PROVE  IInv'
  <2>1. TypeOK'
    BY <1>18 DEF TypeOK, SignalLoopFails
  <2>2. Holding'
    BY <1>18 DEF TypeOK, Holding, SignalLoopFails
  <2>3. Standing'
    BY <1>18 DEF TypeOK, Holding, Standing, SignalLoopFails
  <2>4. QED BY <2>1, <2>2, <2>3
<1>19. ASSUME NEW m \in Managers, OrphanEnds(m)
      PROVE  IInv'
  <2>1. TypeOK'
    BY <1>19 DEF TypeOK, OrphanEnds
  <2>2. Holding'
    BY <1>19 DEF TypeOK, Holding, OrphanEnds
  <2>3. Standing'
    BY <1>19 DEF TypeOK, Holding, Standing, OrphanEnds
  <2>4. QED BY <2>1, <2>2, <2>3
<1>20. ASSUME NEW m \in Managers, Die(m)
      PROVE  IInv'
  <2>1. TypeOK'
    BY <1>20 DEF TypeOK, TaskPc, Die
  <2>2. Holding'
    BY <1>20 DEF TypeOK, TaskPc, Holding, Die
  <2>3. Standing'
    BY <1>20 DEF TypeOK, Holding, Standing, Die
  <2>4. QED BY <2>1, <2>2, <2>3
<1>21. CASE UNCHANGED vars
  BY <1>21 DEF vars, TypeOK, Holding, Standing
<1>22. QED
  BY <1>1, <1>2, <1>3, <1>4, <1>5, <1>6, <1>7, <1>8, <1>9, <1>10,
     <1>11, <1>12, <1>13, <1>14, <1>15, <1>16, <1>17, <1>18, <1>19, <1>20, <1>21
  DEF Next, CallerStep, LoopStep

THEOREM Invariance == Spec => []IInv
<1>1. QED BY InitIInv, StepIInv, PTL DEF Spec

\* Every reachable state is well typed.
THEOREM TypeCorrect == Spec => []TypeOK
<1>1. IInv => TypeOK
  BY DEF IInv
<1>2. QED BY Invariance, <1>1, PTL

\* At most one process watches the folder.
THEOREM SingleWatcher == Spec => []OneWatcher
<1>1. IInv => OneWatcher
  BY DEF IInv, TypeOK, Holding, OneWatcher
<1>2. QED BY Invariance, <1>1, PTL

\* A live process that neither watches nor is about to let go holds no lock.
THEOREM LockNotLeaked == Spec => []NoLockLeak
<1>1. IInv => NoLockLeak
  BY DEF IInv, TypeOK, Holding, NoLockLeak
<1>2. QED BY Invariance, <1>1, PTL

\* A folder its caller removed is not watched again before it is added again.
THEOREM NotResurrected == Spec => []OnlyWantedWatched
<1>1. IInv => OnlyWantedWatched
  BY DEF IInv, TypeOK, Holding, Standing, OnlyWantedWatched
<1>2. QED BY Invariance, <1>1, PTL
=============================================================================
