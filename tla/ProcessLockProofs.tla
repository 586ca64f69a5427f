------------------------- MODULE ProcessLockProofs -------------------------
(***************************************************************************)
(* Theorems about ProcessLock, for any number of processes and files.      *)
(***************************************************************************)
EXTENDS ProcessLock, TLAPS

LEMMA InitType == Init => TypeOK
  BY DEF Init, TypeOK, PcSet

LEMMA StepType ==
  ASSUME TypeOK, [Next]_vars
  PROVE  TypeOK'
<1> USE DEF TypeOK, PcSet, Goto
<1>1. CASE UNCHANGED vars
  BY <1>1 DEF vars
<1>2. ASSUME NEW p \in Procs, Acquire(p) \/ PollAgain(p) \/ GiveUp(p)
      PROVE  TypeOK'
  BY <1>2 DEF Acquire, PollAgain, GiveUp
<1>3. ASSUME NEW p \in Procs, TryCreate(p)
      PROVE  TypeOK'
  BY <1>3 DEF TryCreate
<1>4. ASSUME NEW p \in Procs, WritePayload(p)
      PROVE  TypeOK'
  BY <1>4 DEF WritePayload
<1>5. ASSUME NEW p \in Procs, OpenByName(p) \/ Flock(p) \/ UndoFlock(p)
      PROVE  TypeOK'
  BY <1>5 DEF OpenByName, Flock, UndoFlock
<1>6. ASSUME NEW p \in Procs, InspectHolder(p) \/ RemoveStale(p)
      PROVE  TypeOK'
  BY <1>6 DEF InspectHolder, RemoveStale
<1>7. ASSUME NEW p \in Procs, CloseHeld(p) \/ UnlinkHeld(p) \/ Die(p)
      PROVE  TypeOK'
  BY <1>7 DEF CloseHeld, UnlinkHeld, Die
<1>8. QED BY <1>1, <1>2, <1>3, <1>4, <1>5, <1>6, <1>7 DEF Next, AcquireStep

\* Every reachable state is well typed.
THEOREM TypeCorrect == Spec => []TypeOK
  BY InitType, StepType, PTL DEF Spec

----------------------------------------------------------------------------
LEMMA StepOwned ==
  ASSUME TypeOK, LockFileOwned, [Next]_vars
  PROVE  LockFileOwned'
<1> USE DEF LockFileOwned, Inside, Goto, TypeOK
\* A step that leaves no file at the path, or leaves the file and its owner as
\* they are, disturbs nothing.
<1>1. ASSUME lockFile' = NoFile
      PROVE  LockFileOwned'
  BY <1>1
<1>2. ASSUME UNCHANGED <<lockFile, payload>>, NEW p \in Procs, NEW to \in PcSet,
             pc' = [pc EXCEPT ![p] = to],
             pc[p] \notin Inside \cup {"dead"} \/ to \in Inside \cup {"dead"}
                \/ lockFile = NoFile
      PROVE  LockFileOwned'
  BY <1>2
<1>3. CASE UNCHANGED vars
  BY <1>3 DEF vars
<1>4. ASSUME NEW p \in Procs, Acquire(p) \/ PollAgain(p) \/ GiveUp(p) \/ InspectHolder(p)
      PROVE  LockFileOwned'
  BY <1>2, <1>4 DEF Acquire, PollAgain, GiveUp, InspectHolder, PcSet
\* A new file is empty, so it names nobody.
<1>5. ASSUME NEW p \in Procs, TryCreate(p)
      PROVE  LockFileOwned'
  <2>1. CASE lockFile = NoFile
    BY <1>5, <2>1, LockAssumption DEF TryCreate
  <2>2. CASE lockFile # NoFile
    BY <1>2, <1>5, <2>2 DEF TryCreate, PcSet
  <2>3. QED BY <2>1, <2>2
\* Writing the payload makes the writer the only process the file names.
<1>6. ASSUME NEW p \in Procs, WritePayload(p)
      PROVE  LockFileOwned'
  <2> SUFFICES ASSUME NEW q \in Procs, lockFile' # NoFile, payload'[lockFile'] = q
               PROVE  pc'[q] \in Inside \cup {"dead"}
    OBVIOUS
  <2>1. CASE q = p
    BY <1>6, <2>1 DEF WritePayload
  <2>2. CASE q # p
    BY <1>6, <2>2 DEF WritePayload
  <2>3. QED BY <2>1, <2>2
<1>7. ASSUME NEW p \in Procs, OpenByName(p) \/ Flock(p) \/ CloseHeld(p) \/ Die(p)
      PROVE  LockFileOwned'
  BY <1>2, <1>7 DEF OpenByName, Flock, CloseHeld, Die, PcSet
<1>8. ASSUME NEW p \in Procs, UndoFlock(p) \/ RemoveStale(p) \/ UnlinkHeld(p)
      PROVE  LockFileOwned'
  BY <1>1, <1>8 DEF UndoFlock, RemoveStale, UnlinkHeld
<1>9. QED BY <1>3, <1>4, <1>5, <1>6, <1>7, <1>8 DEF Next, AcquireStep

\* For any number of processes, whatever they do and whenever they die: a lock
\* file naming a live process is this process's own, inside acquire..release, so
\* a process that is outside never blocks another one.
THEOREM FileOwned == Spec => []LockFileOwned
<1>1. Init => LockFileOwned
  BY DEF Init, LockFileOwned
<1>2. TypeOK /\ LockFileOwned /\ [Next]_vars => LockFileOwned'
  BY StepOwned
<1>3. QED BY TypeCorrect, <1>1, <1>2, PTL DEF Spec
=============================================================================
