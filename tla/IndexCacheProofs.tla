-------------------------- MODULE IndexCacheProofs --------------------------
(***************************************************************************)
(* Theorems about IndexCache, for any processes, files and threads: its    *)
(* type invariant, and that the modification time is a sound cache key as  *)
(* long as no two calls overlap and every changed file could be read.      *)
(***************************************************************************)
EXTENDS IndexCache, TLAPS

LEMMA NoIndexType == NoRows \in [Files -> SaveNo] /\ NoIndex \in Index /\ NoEntry \in Entry
  BY CacheAssumption DEF NoRows, NoIndex, NoEntry, Index, Entry, SaveNo

LEMMA PatchType ==
  ASSUME NEW rows \in [Files -> SaveNo], NEW n \in SaveNo, NEW R, NEW D
  PROVE  Patch(rows, n, R, D) \in [Files -> SaveNo]
  BY CacheAssumption DEF Patch, SaveNo

LEMMA InitType == Init => TypeOK
  BY NoIndexType, CacheAssumption DEF Init, TypeOK, PcSet, NoIndex, Threads

LEMMA StepType ==
  ASSUME TypeOK, [Next]_vars
  PROVE  TypeOK'
<1> USE DEF TypeOK, PcSet, Goto, Threads
<1>1. CASE UNCHANGED vars
  BY <1>1 DEF vars
<1>2. ASSUME NEW o \in Loads, NEW p \in Procs, LookupHit(o, p) \/ ReadMeta(o, p)
      PROVE  TypeOK'
  <2>1. entry[p].index \in Index /\ [NoIndex EXCEPT !.meta = db.meta] \in Index
    BY NoIndexType DEF Entry, Index
  <2>2. o \notin locked
    BY CacheAssumption
  <2>3. QED BY <1>2, <2>1, <2>2 DEF LookupHit, ReadMeta, Enter
<1>3. ASSUME NEW o \in Loads, ReadSymbols(o) \/ ReadFiles(o)
      PROVE  TypeOK'
  <2>1. /\ [built[o] EXCEPT !.symbols = db.symbols] \in Index
        /\ [built[o] EXCEPT !.files = db.files] \in Index
    BY DEF Index
  <2>2. o \notin locked
    BY CacheAssumption
  <2>3. QED BY <1>3, <2>1, <2>2 DEF ReadSymbols, ReadFiles
<1>4. ASSUME NEW o \in Threads, StatAndPut(o) \/ PutSaved(o)
      PROVE  TypeOK'
  <2>1. [stamp |-> stamp, index |-> built[o]] \in Entry
    BY DEF Entry
  <2>2. entry' \in [Procs -> Entry]
    BY <1>4, <2>1 DEF StatAndPut, PutSaved, CachePut
  <2>3. QED BY <1>4, <2>2, NoIndexType DEF StatAndPut, PutSaved, Leave
<1>5. ASSUME NEW o \in Threads, Return(o) \/ RaiseAfterCommit(o)
      PROVE  TypeOK'
  BY <1>5, NoIndexType DEF Return, RaiseAfterCommit, Leave
<1>6. ASSUME NEW o \in Saves, NEW p \in Procs, SaveIndex(o, p) \/ IncrementalSave(o, p)
      PROVE  TypeOK'
  BY <1>6, NoIndexType DEF SaveIndex, IncrementalSave, Enter
<1>7. ASSUME NEW o \in Saves, Replace(o)
      PROVE  TypeOK'
  <2>1. PICK present \in SUBSET Files :
          LET rows == [f \in Files |-> IF f \in present THEN db.meta + 1 ELSE 0]
              new  == [meta |-> db.meta + 1, symbols |-> rows, files |-> rows] IN
          db' = new /\ built' = [built EXCEPT ![o] = new]
    BY <1>7 DEF Replace
  <2>2. db.meta + 1 \in SaveNo /\ 0 \in SaveNo
    BY <1>7, CacheAssumption DEF Replace, Index, SaveNo
  <2> DEFINE rows == [f \in Files |-> IF f \in present THEN db.meta + 1 ELSE 0]
             new  == [meta |-> db.meta + 1, symbols |-> rows, files |-> rows]
  <2>3. new \in Index
    BY <2>2 DEF Index
  <2>4. db' = new /\ built' = [built EXCEPT ![o] = new]
    BY <2>1
  <2> HIDE DEF new
  <2>5. QED BY <1>7, <2>3, <2>4 DEF Replace
<1>8. ASSUME NEW o \in Saves, Delta(o)
      PROVE  TypeOK'
  <2> DEFINE n == db.meta + 1
  <2>1. PICK d \in DeltaSets :
          /\ db' = Written(n, d)
          /\ built' = [built EXCEPT ![o] = IF old[o].stamp = 0 THEN Written(n, d)
                                           ELSE Patched(old[o].index, n, d)]
    BY <1>8 DEF Delta
  <2>2. n \in SaveNo
    BY <1>8, CacheAssumption DEF Delta, Index, SaveNo
  <2> HIDE DEF n
  <2>3. Written(n, d) \in Index
    BY <2>2, PatchType DEF Written, Index
  <2>4. Patched(old[o].index, n, d) \in Index
    <3>1. old[o].index \in Index
      BY DEF Entry
    <3>2. QED BY <2>2, <3>1, PatchType DEF Patched, Index
  <2>5. QED BY <1>8, <2>1, <2>3, <2>4 DEF Delta
<1>9. ASSUME NEW o \in Saves, Touch(o)
      PROVE  TypeOK'
  BY <1>9 DEF Touch
<1>10. ASSUME NEW p \in Procs, Evict(p) \/ Die(p)
       PROVE  TypeOK'
  BY <1>10, NoIndexType DEF Evict, Die
<1>11. CASE Checkpoint
  BY <1>11 DEF Checkpoint
<1>12. QED
  BY <1>1, <1>2, <1>3, <1>4, <1>5, <1>6, <1>7, <1>8, <1>9, <1>10, <1>11
  DEF Next, LoadStep, SaveStep

\* Every reachable state is well typed, and the thread that holds the write lock is
\* inside save_index, however its call ends.
THEOREM TypeCorrect == Spec => []TypeOK
  BY InitType, StepType, PTL DEF Spec
----------------------------------------------------------------------------
\* No entry is from the future: a new time makes every entry stale.
Timely == \A p \in Procs : entry[p].stamp <= stamp

\* At most one thread is inside a call ...
Alone == \A o, q \in Threads : pc[o] # "idle" /\ pc[q] # "idle" => o = q

\* ... and what it has read or built so far is that part of the database.
InStep(o) ==
    /\ pc[o] = "symbols" => built[o].meta = db.meta
    /\ pc[o] = "files"   => built[o].meta = db.meta /\ built[o].symbols = db.symbols
    /\ pc[o] \in {"stat", "return", "touch", "put"} => built[o] = db
    /\ pc[o] = "delta" /\ old[o].stamp # 0 => old[o].index = db

Serial == Timely /\ Alone /\ CacheCoherent /\ \A o \in Threads : InStep(o)

\* A patched copy of the database is the database after the same delta.
LEMMA PatchedIsWritten ==
  ASSUME ~CanLose, NEW n, NEW d \in DeltaSets
  PROVE  Patched(db, n, d) = Written(n, d)
<1>1. d.lost = {}
  BY DEF DeltaSets
<1>2. QED BY <1>1 DEF Patched, Written

LEMMA InitSerial == Init => Serial
  BY DEF Init, Serial, Timely, Alone, CacheCoherent, Fresh, InStep, NoEntry

\* The thread that enters is alone, so nothing is said of the others.
LEMMA EnterAlone ==
  ASSUME TypeOK, ~Overlap, NEW o \in Threads, NEW p \in Procs, Enter(o, p),
         NEW to \in PcSet, Goto(o, to)
  PROVE  Alone' /\ \A q \in Threads \ {o} : pc'[q] = "idle"
  BY DEF TypeOK, Enter, Goto, Alone

\* A new time leaves no fresh entry.
LEMMA NewTime ==
  ASSUME TypeOK, Timely, stamp' = stamp + 1, UNCHANGED entry
  PROVE  Timely' /\ CacheCoherent'
  BY DEF TypeOK, Timely, CacheCoherent, Fresh, Entry

\* An entry that holds the database under its time is coherent.
LEMMA OnePut ==
  ASSUME TypeOK, Timely, CacheCoherent, NEW p \in Procs, UNCHANGED <<db, stamp>>,
         entry' = [entry EXCEPT ![p] = [stamp |-> stamp, index |-> db]]
  PROVE  Timely' /\ CacheCoherent'
<1>1. ASSUME NEW q \in Procs
      PROVE  entry'[q].stamp <= stamp /\ (entry'[q].stamp = stamp => entry'[q].index = db)
  <2>1. CASE q = p
    <3>1. entry'[q].stamp = stamp /\ entry'[q].index = db
      BY <2>1 DEF TypeOK
    <3>2. QED BY <3>1 DEF TypeOK
  <2>2. CASE q # p
    <3>1. entry'[q] = entry[q]
      BY <2>2 DEF TypeOK
    <3>2. QED BY <3>1 DEF Timely, CacheCoherent, Fresh
  <2>3. QED BY <2>1, <2>2
<1>2. QED BY <1>1 DEF Timely, CacheCoherent, Fresh

LEMMA StepSerial ==
  ASSUME TypeOK, TypeOK', Serial, [Next]_vars, ~Overlap, ~CanLose
  PROVE  Serial'
<1> USE DEF Serial, TypeOK
<1>1. CASE UNCHANGED vars
  BY <1>1 DEF vars, Timely, Alone, CacheCoherent, Fresh, InStep
<1>2. ASSUME NEW o \in Loads, NEW p \in Procs, LookupHit(o, p) \/ ReadMeta(o, p)
      PROVE  Serial'
  <2>1. Alone' /\ \A q \in Threads \ {o} : pc'[q] = "idle"
    BY <1>2, EnterAlone DEF LookupHit, ReadMeta, Threads, PcSet
  <2>2. InStep(o)'
    <3>1. CASE LookupHit(o, p)
      BY <3>1 DEF LookupHit, Goto, InStep, CacheCoherent, Fresh, Threads
    <3>2. CASE ReadMeta(o, p)
      BY <3>2, NoIndexType DEF ReadMeta, Goto, InStep, Threads, Index
    <3>3. QED BY <1>2, <3>1, <3>2
  <2>3. \A q \in Threads \ {o} : InStep(q)'
    BY <2>1 DEF InStep
  <2>4. Timely' /\ CacheCoherent'
    BY <1>2 DEF LookupHit, ReadMeta, Timely, CacheCoherent, Fresh
  <2>5. QED BY <2>1, <2>2, <2>3, <2>4
<1>3. ASSUME NEW o \in Loads, ReadSymbols(o) \/ ReadFiles(o)
      PROVE  Serial'
  <2>1. Alone'
    BY <1>3 DEF ReadSymbols, ReadFiles, Goto, Alone, Threads
  <2>2. InStep(o)'
    <3>1. o \in Threads /\ built[o] \in Index /\ db \in Index
      BY DEF Threads
    <3>2. CASE ReadSymbols(o)
      BY <3>1, <3>2 DEF ReadSymbols, Goto, InStep, Index
    <3>3. CASE ReadFiles(o)
      BY <3>1, <3>3 DEF ReadFiles, Goto, InStep, Index
    <3>4. QED BY <1>3, <3>2, <3>3
  <2>3. \A q \in Threads \ {o} : InStep(q)'
    BY <1>3 DEF ReadSymbols, ReadFiles, Goto, InStep, Threads
  <2>4. Timely' /\ CacheCoherent'
    BY <1>3 DEF ReadSymbols, ReadFiles, Timely, CacheCoherent, Fresh
  <2>5. QED BY <2>1, <2>2, <2>3, <2>4
<1>4. ASSUME NEW o \in Threads, StatAndPut(o) \/ PutSaved(o)
      PROVE  Serial'
  <2>1. built[o] = db
    BY <1>4 DEF StatAndPut, PutSaved, InStep
  <2>2. Timely' /\ CacheCoherent'
    <3>1. /\ entry' = [entry EXCEPT ![at[o]] = [stamp |-> stamp, index |-> db]]
          /\ UNCHANGED <<db, stamp>>
      BY <1>4, <2>1 DEF StatAndPut, PutSaved, CachePut
    <3>2. QED BY <3>1, OnePut
  <2>3. Alone'
    BY <1>4 DEF StatAndPut, PutSaved, Leave, Goto, Alone
  <2>4. \A q \in Threads : InStep(q)'
    BY <1>4, <2>1 DEF StatAndPut, PutSaved, Leave, Goto, InStep
  <2>5. QED BY <2>2, <2>3, <2>4
<1>5. ASSUME NEW o \in Threads, Return(o) \/ RaiseAfterCommit(o)
      PROVE  Serial'
  <2>1. Alone' /\ \A q \in Threads : InStep(q)'
    BY <1>5 DEF Return, RaiseAfterCommit, Leave, Goto, Alone, InStep
  <2>2. Timely' /\ CacheCoherent'
    BY <1>5 DEF Return, RaiseAfterCommit, Timely, CacheCoherent, Fresh
  <2>3. QED BY <2>1, <2>2
<1>6. ASSUME NEW o \in Saves, NEW p \in Procs, SaveIndex(o, p) \/ IncrementalSave(o, p)
      PROVE  Serial'
  <2>1. Alone' /\ \A q \in Threads \ {o} : pc'[q] = "idle"
    BY <1>6, EnterAlone DEF SaveIndex, IncrementalSave, Threads, PcSet
  <2>2. InStep(o)'
    BY <1>6 DEF SaveIndex, IncrementalSave, Goto, InStep, CacheCoherent, Fresh, Threads, NoEntry
  <2>3. \A q \in Threads \ {o} : InStep(q)'
    BY <2>1 DEF InStep
  <2>4. Timely' /\ CacheCoherent'
    BY <1>6 DEF SaveIndex, IncrementalSave, Timely, CacheCoherent, Fresh
  <2>5. QED BY <2>1, <2>2, <2>3, <2>4
\* A commit: no other thread is inside a call, and no entry is fresh any more.
<1>7. ASSUME NEW o \in Saves, Replace(o) \/ Delta(o)
      PROVE  Serial'
  <2>1. Alone' /\ \A q \in Threads \ {o} : pc'[q] = "idle"
    BY <1>7 DEF Replace, Delta, Goto, Alone, Threads
  <2>2. built'[o] = db'
    <3>1. CASE Replace(o)
      BY <3>1 DEF Replace, Threads
    <3>2. CASE Delta(o)
      <4>1. PICK d \in DeltaSets :
              /\ db' = Written(db.meta + 1, d)
              /\ built' = [built EXCEPT ![o] =
                    IF old[o].stamp = 0 THEN Written(db.meta + 1, d)
                    ELSE Patched(old[o].index, db.meta + 1, d)]
        BY <3>2 DEF Delta
      <4>2. old[o].stamp # 0 => old[o].index = db
        BY <3>2 DEF Delta, InStep, Threads
      <4>3. QED BY <4>1, <4>2, PatchedIsWritten DEF Threads
    <3>3. QED BY <1>7, <3>1, <3>2
  <2>3. pc'[o] = "touch"
    BY <1>7 DEF Replace, Delta, Goto, Threads
  <2>4. \A q \in Threads : InStep(q)'
    BY <2>1, <2>2, <2>3 DEF InStep
  <2>5. Timely' /\ CacheCoherent'
    BY <1>7, NewTime DEF Replace, Delta
  <2>6. QED BY <2>1, <2>4, <2>5
<1>8. ASSUME NEW o \in Saves, Touch(o)
      PROVE  Serial'
  <2>1. Timely' /\ CacheCoherent'
    BY <1>8, NewTime DEF Touch
  <2>2. Alone' /\ \A q \in Threads : InStep(q)'
    BY <1>8 DEF Touch, Goto, Alone, InStep, Threads
  <2>3. QED BY <2>1, <2>2
<1>9. CASE Checkpoint
  <2>1. Timely' /\ CacheCoherent'
    BY <1>9, NewTime DEF Checkpoint
  <2>2. Alone' /\ \A q \in Threads : InStep(q)'
    BY <1>9 DEF Checkpoint, Alone, InStep
  <2>3. QED BY <2>1, <2>2
\* A process without an entry has none that could be taken for fresh.
<1>10. ASSUME NEW p \in Procs, Evict(p) \/ Die(p)
       PROVE  Serial'
  <2>1. Timely' /\ CacheCoherent'
    <3>1. entry' = [entry EXCEPT ![p] = NoEntry] /\ UNCHANGED <<db, stamp>>
      BY <1>10 DEF Evict, Die
    <3>2. NoEntry.stamp = 0 /\ stamp > 0
      BY DEF NoEntry
    <3>3. ASSUME NEW q \in Procs
          PROVE  entry'[q].stamp <= stamp /\ (entry'[q].stamp = stamp => entry'[q].index = db)
      <4>1. CASE q = p
        BY <3>1, <3>2, <4>1
      <4>2. CASE q # p
        <5>1. entry'[q] = entry[q]
          BY <3>1, <4>2
        <5>2. QED BY <5>1 DEF Timely, CacheCoherent, Fresh
      <4>3. QED BY <4>1, <4>2
    <3>4. QED BY <3>1, <3>3 DEF Timely, CacheCoherent, Fresh
  <2>2. Alone' /\ \A q \in Threads : InStep(q)'
    BY <1>10 DEF Evict, Die, Alone, InStep
  <2>3. QED BY <2>1, <2>2
<1>11. QED
  BY <1>1, <1>2, <1>3, <1>4, <1>5, <1>6, <1>7, <1>8, <1>9, <1>10
  DEF Next, LoadStep, SaveStep, Threads

\* As long as no two calls overlap and no changed file is lost, Serial is inductive.
LEMMA SerialInvariant ==
  ASSUME ~Overlap, ~CanLose
  PROVE  Spec => []Serial
<1>1. TypeOK /\ TypeOK' /\ Serial /\ [Next]_vars => Serial'
  BY StepSerial
<1>2. QED BY TypeCorrect, InitSerial, <1>1, PTL DEF Spec

\* Without overlapping calls and lost files, in no process a cache entry with the
\* database's time differs from the database, whichever process saved, whether it
\* patched or rebuilt, and wherever it died or raised.
THEOREM Coherence ==
  ASSUME ~Overlap, ~CanLose
  PROVE  Spec => []CacheCoherent
<1>1. Serial => CacheCoherent
  BY DEF Serial
<1>2. QED BY SerialInvariant, <1>1, PTL

\* Under the same assumptions every load answers with the committed database.
THEOREM LoadsAnswerLatest ==
  ASSUME ~Overlap, ~CanLose
  PROVE  Spec => []LoadsLatest
<1>1. Serial => LoadsLatest
  BY DEF Serial, InStep, LoadsLatest, Threads
<1>2. QED BY SerialInvariant, <1>1, PTL
=============================================================================
