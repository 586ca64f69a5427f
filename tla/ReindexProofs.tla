--------------------------- MODULE ReindexProofs ---------------------------
(***************************************************************************)
(* Theorems about Reindex, for every set of files, workers, threads and    *)
(* callers and every bound.                                                *)
(***************************************************************************)
EXTENDS Reindex, TLAPS

----------------------------------------------------------------------------
(* Type correctness *)

LEMMA IdleTypes == IdleJob \in Job /\ IdleThr \in Summarizer /\ NoRows \in [Files -> Versions]
  BY ReindexAssumption
  DEF IdleJob, IdleThr, NoRows, Job, Summarizer, Versions, Callers, JobPc, Working, JobKind, ThrPc

LEMMA OnDiskType ==
  ASSUME TypeOK, NEW F \in SUBSET Files
  PROVE  OnDisk(F) \in [Files -> Versions]
  BY ReindexAssumption DEF OnDisk, TypeOK, Versions

LEMMA MarksType ==
  ASSUME TypeOK, NEW b \in BOOLEAN, MarkStart \/ MarkDone \/ MarkFailed(b)
  PROVE  st' \in RepoState
<1>1. CASE MarkStart
  <2>1. st.generation + 1 \in 0..MaxGen
    BY <1>1, ReindexAssumption DEF TypeOK, RepoState, MarkStart
  <2>2. QED BY <1>1, <2>1 DEF TypeOK, RepoState, MarkStart
<1>2. CASE MarkDone
  <2>1. 0 \in 0..2
    OBVIOUS
  <2>2. QED BY <1>2, <2>1 DEF TypeOK, RepoState, MarkDone
<1>3. CASE MarkFailed(b)
  <2> DEFINE n == IF st.failures < 2 THEN st.failures + 1 ELSE 2
             g == IF b THEN TRUE ELSE st.fatal
  <2>1. n \in 0..2
    BY DEF TypeOK, RepoState
  <2>2. g \in BOOLEAN
    BY DEF TypeOK, RepoState
  <2>3. st' = [st EXCEPT !.reindexing = FALSE, !.error = TRUE, !.failures = n, !.fatal = g]
    BY <1>3 DEF MarkFailed
  <2> HIDE DEF n, g
  <2>4. QED BY <2>1, <2>2, <2>3 DEF TypeOK, RepoState
<1>4. QED BY <1>1, <1>2, <1>3

\* Replacing one worker's job, or one summariser, by a well-typed one.
LEMMA JobUpdate ==
  ASSUME TypeOK, NEW w \in Workers, NEW j \in Job, job' = [job EXCEPT ![w] = j]
  PROVE  job' \in [Workers -> Job]
  BY DEF TypeOK

LEMMA ThrUpdate ==
  ASSUME TypeOK, NEW t \in Threads, NEW s \in Summarizer, thr' = [thr EXCEPT ![t] = s]
  PROVE  thr' \in [Threads -> Summarizer]
  BY DEF TypeOK

LEMMA SubmitType ==
  ASSUME TypeOK, NEW w \in Workers, NEW c \in Callers, NEW k \in JobKind,
         NEW F \in SUBSET Files, NEW old \in [Files -> Versions], Submit(w, c, k, F, old)
  PROVE  job' \in [Workers -> Job]
  BY IdleTypes DEF TypeOK, Submit, Job, JobPc, Working

LEMMA ReturnType ==
  ASSUME TypeOK, NEW w \in Workers, NEW r \in JobPc, Return(w, r)
  PROVE  job' \in [Workers -> Job]
  BY IdleTypes DEF TypeOK, Return, Job

LEMMA HashesType ==
  ASSUME TypeOK
  PROVE  LoadedHashes \subseteq [Files -> Versions]
<1>1. idx.hash \in [Files -> Versions] /\ 0 \in Versions
  BY ReindexAssumption DEF TypeOK, Index, Versions
<1>2. QED BY <1>1 DEF LoadedHashes

LEMMA InitType == Init => TypeOK
  BY ReindexAssumption, IdleTypes
  DEF Init, TypeOK, RepoState, Index, LoopPc, Versions, NoRows

LEMMA StepType ==
  ASSUME TypeOK, [Next]_vars
  PROVE  TypeOK'
<1> USE DEF TypeOK
<1>1. CASE UNCHANGED vars
  BY <1>1 DEF vars
<1>2. ASSUME NEW f \in Files, Edit(f)
      PROVE  TypeOK'
  BY <1>2, ReindexAssumption DEF Edit, Versions
<1>3. ASSUME NEW w \in Workers, DetectChanges(w)
      PROVE  TypeOK'
  <2> DEFINE suspect == {f \in Files : idx.hash[f] = 0 \/ job[w].mtime[f] # idx.mtime[f]}
             changed == {f \in suspect : disk[f] # idx.hash[f]}
  <2>1. OnDisk(changed) \in [Files -> Versions]
    BY OnDiskType
  <2>2. job' \in [Workers -> Job]
    <3>1. CASE Return(w, "nochange")
      BY <3>1, ReturnType DEF JobPc, Working
    <3>2. CASE job' = [job EXCEPT ![w] = [@ EXCEPT
                    !.pc = "reread", !.files = changed, !.hash = OnDisk(changed)]]
      <4>1. job[w] \in Job
        OBVIOUS
      <4>2. [job[w] EXCEPT !.pc = "reread", !.files = changed, !.hash = OnDisk(changed)] \in Job
        <5> HIDE DEF changed
        <5>1. changed \in SUBSET Files
          BY DEF changed
        <5>2. QED BY <4>1, <2>1, <5>1 DEF Job, JobPc, Working
      <4>3. QED BY <3>2, <4>2, JobUpdate
    <3>3. QED BY <1>3, <3>1, <3>2 DEF DetectChanges
  <2>3. QED BY <1>3, <2>2 DEF DetectChanges
<1>4. ASSUME NEW w \in Workers, Reread(w)
      PROVE  TypeOK'
  <2>1. PICK unread \in SUBSET job[w].files : Reread(w)!(unread)
    BY <1>4 DEF Reread
  <2>2. job[w].files \ unread \in SUBSET Files
    BY DEF Job
  <2>3. OnDisk(job[w].files \ unread) \in [Files -> Versions]
    BY <2>2, OnDiskType
  <2>4. [job[w] EXCEPT !.pc = "save", !.content = OnDisk(job[w].files \ unread)] \in Job
    <3>1. job[w] \in Job
      OBVIOUS
    <3>2. QED BY <3>1, <2>3 DEF Job, JobPc, Working
  <2>5. job' \in [Workers -> Job]
    BY <2>1, <2>4, JobUpdate
  <2>6. QED BY <2>1, <2>5
<1>5. ASSUME NEW w \in Workers, ReadChanged(w)
      PROVE  TypeOK'
  <2>1. PICK unread \in SUBSET job[w].files : ReadChanged(w)!(unread)
    BY <1>5 DEF ReadChanged
  <2> DEFINE seen    == job[w].files \ unread
             changed == {f \in seen : job[w].kind = "file" \/ disk[f] # job[w].old[f]}
  <2>2. seen \in SUBSET Files /\ changed \in SUBSET Files
    BY DEF Job
  <2>3. OnDisk(changed) \in [Files -> Versions]
    BY <2>2, OnDiskType
  <2>4. [job[w] EXCEPT !.pc = "stat", !.files = changed, !.stamped = seen, !.old = NoRows,
           !.hash = OnDisk(changed), !.content = OnDisk(changed)] \in Job
    <3>1. job[w] \in Job
      OBVIOUS
    <3> HIDE DEF seen, changed
    <3>2. QED BY <3>1, <2>2, <2>3, IdleTypes DEF Job, JobPc, Working
  <2>5. job' \in [Workers -> Job]
    BY <2>1, <2>4, JobUpdate
  <2>6. QED BY <2>1, <2>5
<1>6. ASSUME NEW w \in Workers, CaptureGeneration(w)
      PROVE  TypeOK'
  <2>1. st.generation \in 0..MaxGen
    BY DEF RepoState
  <2>2. [job[w] EXCEPT !.pc = "save", !.gen = st.generation] \in Job
    <3>1. job[w] \in Job
      OBVIOUS
    <3>2. QED BY <3>1, <2>1 DEF Job, JobPc, Working
  <2>3. job' \in [Workers -> Job]
    BY <1>6, <2>2, JobUpdate DEF CaptureGeneration
  <2>4. QED BY <1>6, <2>3 DEF CaptureGeneration
<1>7. ASSUME NEW w \in Workers, SaveIndex(w)
      PROVE  TypeOK'
  <2>1. job' \in [Workers -> Job]
    <3>1. PICK r \in {"ok", "nochange", "failed"} : Return(w, r)
      BY <1>7 DEF SaveIndex
    <3>2. QED BY <3>1, ReturnType DEF JobPc, Working
  <2>2. idx' \in Index
    BY <1>7 DEF SaveIndex, Index, Job
  <2>3. thr' \in [Threads -> Summarizer]
    <3>1. CASE thr' = thr
      BY <3>1
    <3>2. ASSUME NEW t \in Threads,
                 thr' = [thr EXCEPT ![t] = [pc |-> "check1", gen |-> job[w].gen,
                           files |-> job[w].files, content |-> job[w].content]]
          PROVE  thr' \in [Threads -> Summarizer]
      <4>1. [pc |-> "check1", gen |-> job[w].gen, files |-> job[w].files,
             content |-> job[w].content] \in Summarizer
        BY DEF Job, Summarizer, ThrPc
      <4>2. QED BY <3>2, <4>1, ThrUpdate
    <3>3. QED BY <1>7, <3>1, <3>2 DEF SaveIndex
  <2>4. QED BY <1>7, <2>1, <2>2, <2>3 DEF SaveIndex
<1>8. ASSUME NEW w \in Workers, FailJob(w)
      PROVE  TypeOK'
  BY <1>8, ReturnType DEF FailJob, JobPc, Working
<1>9. ASSUME NEW t \in Threads, Check1(t) \/ NothingSummarized(t)
      PROVE  TypeOK'
  <2>1. [thr[t] EXCEPT !.pc = "summarize"] \in Summarizer
    BY DEF Summarizer, ThrPc
  <2>2. thr' \in [Threads -> Summarizer]
    BY <1>9, <2>1, IdleTypes, ThrUpdate DEF Check1, NothingSummarized
  <2>3. QED BY <1>9, <2>2 DEF Check1, NothingSummarized
<1>10. ASSUME NEW t \in Threads, Check2(t)
       PROVE  TypeOK'
  <2>1. [thr[t] EXCEPT !.pc = "saving"] \in Summarizer
    BY DEF Summarizer, ThrPc
  <2>2. thr' \in [Threads -> Summarizer]
    BY <1>10, <2>1, IdleTypes, ThrUpdate DEF Check2
  <2>3. lock' \in {Nobody} \cup {u \in Threads : thr'[u].pc = "saving"}
    <3>1. CASE thr[t].gen # st.generation
      BY <1>10, <3>1 DEF Check2
    <3>2. CASE thr[t].gen = st.generation
      <4>1. lock' = t /\ thr'[t].pc = "saving"
        BY <1>10, <3>2 DEF Check2, Summarizer
      <4>2. QED BY <4>1
    <3>3. QED BY <3>1, <3>2
  <2>4. QED BY <1>10, <2>2, <2>3 DEF Check2
<1>11. ASSUME NEW t \in Threads, SaveSummaries(t)
       PROVE  TypeOK'
  <2>1. thr' \in [Threads -> Summarizer]
    BY <1>11, IdleTypes DEF SaveSummaries
  <2>2. idx' \in Index
    <3>1. thr[t].content \in [Files -> Versions]
      BY DEF Summarizer
    <3>2. [f \in Files |-> IF f \in thr[t].files THEN thr[t].content[f] ELSE idx.syms[f]]
             \in [Files -> Versions]
      BY <3>1 DEF Index
    <3>3. QED BY <1>11, <3>2 DEF SaveSummaries, Index
  <2>3. QED BY <1>11, <2>1, <2>2 DEF SaveSummaries
<1>12. CASE StartLoop
  BY <1>12, IdleTypes DEF StartLoop, LoopPc
<1>13. CASE DependencyMissing
  BY <1>13, MarksType DEF DependencyMissing, LoopPc
<1>14. CASE StartInitialIndex
  <2>1. job' \in [Workers -> Job]
    BY <1>14, SubmitType, IdleTypes DEF StartInitialIndex, Callers, JobKind
  <2>2. QED BY <1>14, <2>1, MarksType DEF StartInitialIndex, LoopPc
<1>15. CASE InitialIndexDone
  BY <1>15, MarksType DEF InitialIndexDone, LoopPc
<1>16. CASE StartEventReindex
  <2>1. job' \in [Workers -> Job]
    BY <1>16, SubmitType DEF StartEventReindex, Callers, JobKind
  <2>2. QED BY <1>16, <2>1, MarksType DEF StartEventReindex, LoopPc
<1>17. CASE RebuildCache
  BY <1>17, HashesType DEF RebuildCache, LoopPc
<1>18. CASE CancelLoop
  <2>1. job' \in [Workers -> Job]
    BY <1>18, IdleTypes DEF CancelLoop, Job
  <2>2. QED BY <1>18, <2>1 DEF CancelLoop, LoopPc
<1>19. ASSUME NEW w \in Workers, InitialIndexReturned(w)
       PROVE  TypeOK'
  <2>1. job' \in [Workers -> Job]
    BY <1>19, IdleTypes DEF InitialIndexReturned
  <2>2. st' \in RepoState
    BY <1>19, MarksType DEF InitialIndexReturned
  <2>3. QED BY <1>19, <2>1, <2>2, HashesType DEF InitialIndexReturned, LoopPc
<1>20. ASSUME NEW w \in Workers, EventReindexReturned(w)
       PROVE  TypeOK'
  <2>1. job' \in [Workers -> Job]
    BY <1>20, IdleTypes DEF EventReindexReturned
  <2>2. st' \in RepoState
    BY <1>20, MarksType DEF EventReindexReturned
  <2>3. QED BY <1>20, <2>1, <2>2 DEF EventReindexReturned, LoopPc
<1>21. ASSUME NEW w \in Workers, EnsureReturned(w)
       PROVE  TypeOK'
  <2>1. job' \in [Workers -> Job]
    BY <1>21, IdleTypes DEF EnsureReturned
  <2>2. st' \in RepoState
    BY <1>21, MarksType DEF EnsureReturned
  <2>3. QED BY <1>21, <2>1, <2>2 DEF EnsureReturned
<1>22. ASSUME NEW w \in Workers, ToolReturned(w)
       PROVE  TypeOK'
  BY <1>22, IdleTypes DEF ToolReturned
<1>23. ASSUME NEW c \in Ensurers, StartEnsure(c)
       PROVE  TypeOK'
  <2>1. job' \in [Workers -> Job]
    BY <1>23, SubmitType, IdleTypes DEF StartEnsure, Callers, JobKind
  <2>2. QED BY <1>23, <2>1, MarksType DEF StartEnsure
<1>24. ASSUME NEW c \in Tools, NEW f \in Files, StartTool(c, f)
       PROVE  TypeOK'
  <2>1. job' \in [Workers -> Job]
    BY <1>24, SubmitType, IdleTypes DEF StartTool, Callers, JobKind
  <2>2. QED BY <1>24, <2>1 DEF StartTool
<1>25. ASSUME NEW w \in Workers, StatAll(w) \/ StatAfterRead(w)
       PROVE  TypeOK'
  <2>1. job[w] \in Job /\ disk \in [Files -> Versions]
    OBVIOUS
  <2>2. [job[w] EXCEPT !.pc = "detect", !.stamped = Files, !.mtime = disk] \in Job
    BY <2>1 DEF Job, JobPc, Working
  <2>3. ASSUME NEW pc \in JobPc
        PROVE  [job[w] EXCEPT !.pc = pc, !.mtime = OnDisk(job[w].stamped)] \in Job
    <3>1. OnDisk(job[w].stamped) \in [Files -> Versions]
      BY <2>1, OnDiskType DEF Job
    <3>2. QED BY <2>1, <3>1 DEF Job
  <2>4. {"compare", "capture", "save"} \subseteq JobPc
    BY DEF JobPc, Working
  <2>5. job' \in [Workers -> Job]
    BY <1>25, <2>2, <2>3, <2>4, JobUpdate DEF StatAll, StatAfterRead
  <2>6. QED BY <1>25, <2>5 DEF StatAll, StatAfterRead
<1>26. CASE RecordCrash
  <2>1. (loop = "fatal") \in BOOLEAN
    OBVIOUS
  <2>2. st' \in RepoState
    BY <1>26, <2>1, MarksType DEF RecordCrash
  <2>3. QED BY <1>26, <2>2, IdleTypes DEF RecordCrash, LoopPc
<1>27. ASSUME NEW w \in Workers, CompareWithIndex(w)
       PROVE  TypeOK'
  <2> DEFINE F == {f \in job[w].files : job[w].hash[f] # idx.hash[f]}
  <2>1. F \in SUBSET Files
    BY DEF Job
  <2>2. [job[w] EXCEPT !.pc = "save", !.files = F] \in Job
    <3>1. job[w] \in Job
      OBVIOUS
    <3> HIDE DEF F
    <3>2. QED BY <2>1, <3>1 DEF Job, JobPc, Working
  <2>3. job' \in [Workers -> Job]
    BY <1>27, <2>2, JobUpdate DEF CompareWithIndex
  <2>4. QED BY <1>27, <2>3 DEF CompareWithIndex
<1>28. QED
  BY <1>1, <1>2, <1>3, <1>4, <1>5, <1>6, <1>7, <1>8, <1>9, <1>10, <1>11, <1>12, <1>13,
     <1>14, <1>15, <1>16, <1>17, <1>18, <1>19, <1>20, <1>21, <1>22, <1>23, <1>24, <1>25, <1>26,
     <1>27
  DEF Next, WorkerStep, ResultStep, ThreadStep, LoopStep

\* Every reachable state is well typed (the state of reindex_state.py, the watch
\* loop, the worker calls and the deferred summarisers).
THEOREM TypeCorrect == Spec => []TypeOK
  BY InitType, StepType, PTL DEF Spec

----------------------------------------------------------------------------
(* The save lock: nobody bumps the generation under a deferred save *)

LEMMA InitGenerationFixed == Init => GenerationFixedWhileSaving
  BY DEF Init, IdleThr, GenerationFixedWhileSaving

LEMMA StepGenerationFixed ==
  ASSUME TypeOK, GenerationFixedWhileSaving, [Next]_vars
  PROVE  GenerationFixedWhileSaving'
<1> USE DEF GenerationFixedWhileSaving
<1>1. \A t \in Threads : t # Nobody
  BY ReindexAssumption
\* A thread that does not hold the lock is not saving, so what happens while the
\* lock is free disturbs no save.
<1>2. ASSUME lock = Nobody
      PROVE  \A t \in Threads : thr[t].pc # "saving"
  BY <1>1, <1>2
<1>4. ASSUME MarkStart, UNCHANGED thr
      PROVE  GenerationFixedWhileSaving'
  BY <1>2, <1>4 DEF MarkStart
<1>5. ASSUME NEW b \in BOOLEAN, MarkDone \/ MarkFailed(b), UNCHANGED <<thr, lock>>
      PROVE  GenerationFixedWhileSaving'
  <2>1. st'.generation = st.generation
    BY <1>5 DEF MarkDone, MarkFailed, TypeOK, RepoState
  <2>2. QED BY <1>5, <2>1
<1>6. ASSUME NEW w \in Workers, SaveIndex(w)
      PROVE  GenerationFixedWhileSaving'
  <2>1. CASE thr' = thr
    BY <1>6, <2>1 DEF SaveIndex
  <2>2. ASSUME NEW t \in Threads,
               thr' = [thr EXCEPT ![t] = [pc |-> "check1", gen |-> job[w].gen,
                         files |-> job[w].files, content |-> job[w].content]]
        PROVE  GenerationFixedWhileSaving'
    BY <1>6, <2>2 DEF SaveIndex, TypeOK
  <2>3. QED BY <1>6, <2>1, <2>2 DEF SaveIndex
<1>7. ASSUME NEW t \in Threads, ThreadStep(t)
      PROVE  GenerationFixedWhileSaving'
  <2>1. CASE Check1(t)
    BY <2>1 DEF Check1, IdleThr, TypeOK, Summarizer
  <2>2. CASE NothingSummarized(t)
    BY <2>2 DEF NothingSummarized, IdleThr, TypeOK
  <2>3. CASE Check2(t)
    <3>1. \A u \in Threads : thr[u].pc # "saving"
      BY <2>3, <1>2 DEF Check2
    <3>2. CASE thr[t].gen # st.generation
      BY <2>3, <3>1, <3>2 DEF Check2, IdleThr, TypeOK
    <3>3. CASE thr[t].gen = st.generation
      BY <2>3, <3>1, <3>3 DEF Check2, TypeOK, Summarizer
    <3>4. QED BY <3>2, <3>3
  <2>4. CASE SaveSummaries(t)
    BY <2>4, <1>1 DEF SaveSummaries, IdleThr, TypeOK
  <2>5. QED BY <1>7, <2>1, <2>2, <2>3, <2>4 DEF ThreadStep
<1>8. CASE StartInitialIndex
  BY <1>8, <1>4 DEF StartInitialIndex
<1>9. CASE StartEventReindex
  BY <1>9, <1>4 DEF StartEventReindex
<1>10. ASSUME NEW c \in Ensurers, StartEnsure(c)
       PROVE  GenerationFixedWhileSaving'
  BY <1>10, <1>4 DEF StartEnsure
<1>11. CASE DependencyMissing \/ RecordCrash
  BY <1>11, <1>5 DEF DependencyMissing, RecordCrash
<1>12. CASE InitialIndexDone
  BY <1>12, <1>5 DEF InitialIndexDone
<1>13. ASSUME NEW w \in Workers, ResultStep(w)
       PROVE  GenerationFixedWhileSaving'
  BY <1>13, <1>5 DEF ResultStep, InitialIndexReturned, EventReindexReturned,
                     EnsureReturned, ToolReturned
\* Everything else leaves the lock, the generation and the summarisers alone.
<1>14. ASSUME UNCHANGED <<st, lock, thr>>
       PROVE  GenerationFixedWhileSaving'
  BY <1>14
<1>15. CASE UNCHANGED vars
  BY <1>15, <1>14 DEF vars
<1>16. CASE StartLoop \/ RebuildCache \/ CancelLoop
  BY <1>16, <1>14 DEF StartLoop, RebuildCache, CancelLoop
<1>17. ASSUME NEW f \in Files, Edit(f) \/ \E c \in Tools : StartTool(c, f)
       PROVE  GenerationFixedWhileSaving'
  BY <1>17, <1>14 DEF Edit, StartTool
<1>18. ASSUME NEW w \in Workers, \/ StatAll(w) \/ DetectChanges(w) \/ Reread(w)
                                  \/ ReadChanged(w) \/ StatAfterRead(w)
                                  \/ CompareWithIndex(w) \/ CaptureGeneration(w)
                                  \/ FailJob(w)
       PROVE  GenerationFixedWhileSaving'
  BY <1>18, <1>14 DEF StatAll, DetectChanges, Reread, ReadChanged, StatAfterRead,
                      CompareWithIndex, CaptureGeneration, FailJob
<1>19. QED
  BY <1>6, <1>7, <1>8, <1>9, <1>10, <1>11, <1>12, <1>13, <1>15, <1>16, <1>17, <1>18
  DEF Next, WorkerStep, LoopStep

\* Whoever reindexes, and however the calls overlap: from the second generation
\* check of a deferred summariser to the end of its save, mark_reindex_start does
\* not get through (the claim of index_folder.py 1193-1196).
THEOREM GenerationFixed == Spec => []GenerationFixedWhileSaving
  BY TypeCorrect, InitGenerationFixed, StepGenerationFixed, PTL DEF Spec

----------------------------------------------------------------------------
(* T7 for the watch loop on its own                                        *)
(*                                                                         *)
(* SoleWriter is what T7 needs and reindex_state.py does not provide: the  *)
(* loop is the only caller, and it is never cancelled.  Its calls are then *)
(* one at a time, and every call bumped the generation before it read a    *)
(* file.                                                                   *)

SoleWriter == Ensurers = {} /\ Tools = {} /\ CanCancel = FALSE

Live(t) == thr[t].pc # "idle"

\* One call at a time, made by the loop while it awaits it.
OneCall ==
    /\ \A w \in Workers : job[w].pc # "idle" =>
          job[w].owner = Watch /\ loop \in {"initWait", "eventWait"}
    /\ \A v, w \in Workers : job[v].pc # "idle" /\ job[w].pc # "idle" => v = w

\* What a call is about to save is missing, or not older than the hash it will
\* record.
JobContent ==
    \A w \in Workers :
      /\ job[w].gen <= st.generation
      /\ job[w].pc = "reread" =>
            \A f \in job[w].files : job[w].hash[f] <= disk[f]
      /\ job[w].pc \in {"stat", "compare", "capture", "save"} =>
            \A f \in job[w].files : \/ job[w].content[f] = 0
                                    \/ job[w].hash[f] <= job[w].content[f]

\* No summariser is ahead of the generation, each is behind it while a call has
\* not saved yet, and one that is not behind carries rows the index may take.
ThreadsBehind ==
    \A t \in Threads : Live(t) =>
      /\ thr[t].gen <= st.generation
      /\ \A w \in Workers : Active(w) => thr[t].gen < st.generation
      /\ thr[t].gen = st.generation =>
            \A f \in thr[t].files : \/ thr[t].content[f] = 0
                                    \/ idx.hash[f] <= thr[t].content[f]

T7Inv == /\ TypeOK /\ GenerationFixedWhileSaving
         /\ OneCall /\ JobContent /\ ThreadsBehind /\ NoStaleOverwrite

LEMMA InitT7 == Init => T7Inv
<1> SUFFICES ASSUME Init PROVE T7Inv
  OBVIOUS
<1>1. TypeOK /\ GenerationFixedWhileSaving
  BY InitType, InitGenerationFixed
<1>2. OneCall /\ ThreadsBehind
  BY DEF Init, IdleJob, IdleThr, OneCall, ThreadsBehind, Live
<1>3. JobContent
  BY DEF Init, IdleJob, JobContent
<1>4. NoStaleOverwrite
  <2>1. PICK rows \in {NoRows, disk} :
             idx = [hash |-> rows, mtime |-> rows, syms |-> rows]
    BY DEF Init
  <2>2. \A f \in Files : rows[f] \in {0, 1}
    BY <2>1 DEF Init, NoRows
  <2>3. ASSUME NEW f \in Files PROVE idx.hash[f] <= idx.syms[f]
    <3>1. idx.hash[f] = rows[f] /\ idx.syms[f] = rows[f]
      BY <2>1
    <3>2. rows[f] <= rows[f]
      BY <2>2
    <3>3. QED BY <3>1, <3>2
  <2>4. QED BY <2>3 DEF NoStaleOverwrite
<1>5. QED BY <1>1, <1>2, <1>3, <1>4 DEF T7Inv

\* A step that leaves the calls, the index and the summarisers as they are.
LEMMA QuietStep ==
  ASSUME T7Inv, TypeOK', UNCHANGED <<idx, thr, job>>, st'.generation = st.generation,
         \A f \in Files : disk[f] <= disk'[f],
         (\E w \in Workers : job[w].pc # "idle") => loop' = loop
  PROVE  OneCall' /\ JobContent' /\ ThreadsBehind' /\ NoStaleOverwrite'
<1> USE DEF T7Inv
<1>1. OneCall'
  BY DEF OneCall
<1>2. JobContent'
  <2>1. \A w \in Workers : job[w].hash \in [Files -> Nat] /\ job[w].files \subseteq Files
    BY DEF TypeOK, Job, Versions
  <2>2. disk \in [Files -> Nat] /\ disk' \in [Files -> Nat]
    BY DEF TypeOK, Versions
  <2>3. QED BY <2>1, <2>2 DEF JobContent
<1>3. ThreadsBehind'
  BY DEF ThreadsBehind, Live, Active, Working
<1>4. NoStaleOverwrite'
  BY DEF NoStaleOverwrite
<1>5. QED BY <1>1, <1>2, <1>3, <1>4

\* The loop starts a call: the new generation leaves every summariser behind.
LEMMA StartStep ==
  ASSUME T7Inv, TypeOK', loop \in {"init", "listen"}, loop' \in {"initWait", "eventWait"},
         MarkStart, NEW w \in Workers, NEW k, NEW F, NEW old, Submit(w, Watch, k, F, old),
         UNCHANGED <<disk, idx, thr>>
  PROVE  OneCall' /\ JobContent' /\ ThreadsBehind' /\ NoStaleOverwrite'
<1> USE DEF T7Inv
<1>1. \A v \in Workers : job[v].pc = "idle"
  BY DEF OneCall
<1>2. st'.generation = st.generation + 1 /\ st.generation \in Nat
  BY ReindexAssumption DEF MarkStart, TypeOK, RepoState
<1>3. /\ \A v \in Workers : v # w => job'[v] = job[v]
      /\ job'[w].pc = "read" /\ job'[w].owner = Watch /\ job'[w].gen = 0
  BY DEF Submit, TypeOK, IdleJob
<1>4. OneCall'
  BY <1>1, <1>3 DEF OneCall
<1>5. JobContent'
  <2>1. \A v \in Workers : job'[v].gen <= st'.generation
    <3>1. \A v \in Workers : job[v].gen \in Nat /\ job[v].gen <= st.generation
      BY DEF JobContent, TypeOK, Job
    <3>2. QED BY <1>2, <1>3, <3>1
  <2>2. QED BY <1>1, <1>3, <2>1 DEF JobContent
<1>6. ThreadsBehind'
  <2>1. \A t \in Threads : thr[t].gen \in Nat
    BY DEF TypeOK, Summarizer
  <2>2. \A t \in Threads : Live(t) => thr[t].gen < st'.generation
    BY <1>2, <2>1 DEF ThreadsBehind
  <2>3. QED BY <1>2, <2>1, <2>2 DEF ThreadsBehind, Live
<1>7. NoStaleOverwrite'
  BY DEF NoStaleOverwrite
<1>8. QED BY <1>4, <1>5, <1>6, <1>7

\* A call takes a step, or returns, without writing the index.
LEMMA CallStep ==
  ASSUME T7Inv, TypeOK', NEW w \in Workers, NEW j \in Job, Active(w),
         job' = [job EXCEPT ![w] = j],
         j.pc # "idle" => j.owner = Watch,
         j.gen <= st.generation,
         j.pc = "reread" => \A f \in j.files : j.hash[f] <= disk[f],
         j.pc \in {"stat", "compare", "capture", "save"} =>
            \A f \in j.files : j.content[f] = 0 \/ j.hash[f] <= j.content[f],
         UNCHANGED <<disk, idx, st, loop, thr>>
  PROVE  OneCall' /\ JobContent' /\ ThreadsBehind' /\ NoStaleOverwrite'
<1> USE DEF T7Inv
<1>1. job'[w] = j /\ \A v \in Workers : v # w => job'[v] = job[v]
  BY DEF TypeOK
<1>2. OneCall'
  BY <1>1 DEF OneCall, Active, Working
<1>3. JobContent'
  BY <1>1 DEF JobContent
<1>4. ThreadsBehind'
  BY DEF ThreadsBehind, Live, Active, Working
<1>5. NoStaleOverwrite'
  BY DEF NoStaleOverwrite
<1>6. QED BY <1>2, <1>3, <1>4, <1>5

\* What Return leaves in the worker's slot.
LEMMA ReturnStep ==
  ASSUME T7Inv, TypeOK', NEW w \in Workers, NEW r \in {"ok", "nochange", "failed"},
         Active(w), Return(w, r), UNCHANGED <<disk, idx, st, loop, thr>>
  PROVE  OneCall' /\ JobContent' /\ ThreadsBehind' /\ NoStaleOverwrite'
<1> DEFINE j == [IdleJob EXCEPT !.pc = r, !.owner = job[w].owner]
<1>1. job[w].owner = Watch /\ Watch # Nobody
  BY ReindexAssumption DEF T7Inv, OneCall, Active, Working
<1>2. j \in Job
  BY <1>1, IdleTypes DEF Job, JobPc, Working, Callers
<1>3. job' = [job EXCEPT ![w] = j]
  BY <1>1 DEF Return
<1>4. j.pc = r /\ j.owner = Watch /\ j.gen = 0
  BY <1>1 DEF IdleJob
<1>5. 0 <= st.generation
  BY DEF T7Inv, TypeOK, RepoState
<1> HIDE DEF j
<1>6. QED BY <1>2, <1>3, <1>4, <1>5, CallStep

\* The save of a call: the rows it writes are not older than their hash, every
\* live summariser is behind, and the one it starts carries the rows just saved.
LEMMA SaveStep ==
  ASSUME T7Inv, TypeOK', NEW w \in Workers, SaveIndex(w)
  PROVE  OneCall' /\ JobContent' /\ ThreadsBehind' /\ NoStaleOverwrite'
<1> USE DEF T7Inv
<1>0. PICK r \in {"ok", "nochange", "failed"} : Return(w, r)
  BY DEF SaveIndex
<1> DEFINE j == [IdleJob EXCEPT !.pc = r, !.owner = job[w].owner]
<1>1. Active(w) /\ job[w].pc = "save"
  BY DEF SaveIndex, Active, Working
<1>2. job[w].owner = Watch /\ Watch # Nobody
  BY <1>1, ReindexAssumption DEF OneCall
<1>3. /\ job' = [job EXCEPT ![w] = j] /\ j.owner = Watch /\ j.gen = 0
      /\ j.pc \in {"ok", "nochange", "failed"}
  BY <1>0, <1>2 DEF Return, IdleJob
<1>4. job'[w] = j /\ \A v \in Workers : v # w => job'[v] = job[v] /\ job[v].pc = "idle"
  BY <1>1, <1>3 DEF TypeOK, OneCall
<1> HIDE DEF j
<1>5. st' = st /\ disk' = disk /\ loop' = loop
  BY DEF SaveIndex
<1>6. \A f \in Files : /\ f \in job[w].files =>
                             /\ job[w].content[f] # 0 => idx'.hash[f] = job[w].hash[f]
                             /\ idx'.syms[f] = job[w].content[f]
                       /\ f \notin job[w].files => /\ idx'.hash[f] = idx.hash[f]
                                                   /\ idx'.syms[f] = idx.syms[f]
  BY DEF SaveIndex
<1>7. OneCall'
  BY <1>1, <1>3, <1>4, <1>5 DEF OneCall
<1>8. JobContent'
  <2>1. 0 <= st.generation
    BY DEF TypeOK, RepoState
  <2>2. QED BY <1>3, <1>4, <1>5, <2>1 DEF JobContent
<1>9. NoStaleOverwrite'
  <2> SUFFICES ASSUME NEW f \in Files PROVE idx'.syms[f] = 0 \/ idx'.hash[f] <= idx'.syms[f]
    BY DEF NoStaleOverwrite
  <2>1. CASE f \in job[w].files
    <3>1. job[w].content[f] = 0 \/ job[w].hash[f] <= job[w].content[f]
      BY <1>1, <2>1 DEF JobContent
    <3>2. QED BY <1>6, <2>1, <3>1
  <2>2. CASE f \notin job[w].files
    BY <1>6, <2>2 DEF NoStaleOverwrite
  <2>3. QED BY <2>1, <2>2
<1>10. ThreadsBehind'
  <2> SUFFICES ASSUME NEW t \in Threads, Live(t)'
               PROVE  /\ thr'[t].gen <= st.generation
                      /\ \A v \in Workers : Active(v)' => thr'[t].gen < st.generation
                      /\ thr'[t].gen = st.generation =>
                           \A f \in thr'[t].files : \/ thr'[t].content[f] = 0
                                                     \/ idx'.hash[f] <= thr'[t].content[f]
    BY <1>5 DEF ThreadsBehind
  <2>1. \A v \in Workers : ~Active(v)'
    BY <1>3, <1>4 DEF Active, Working
  <2>2. CASE thr'[t] = thr[t]
    <3>1. thr[t].gen < st.generation
      BY <1>1, <2>2 DEF ThreadsBehind, Live
    <3>2. thr[t].gen \in Nat /\ st.generation \in Nat
      BY DEF TypeOK, Summarizer, RepoState
    <3>3. QED BY <2>1, <2>2, <3>1, <3>2
  <2>3. CASE thr'[t] = [pc |-> "check1", gen |-> job[w].gen,
                        files |-> job[w].files, content |-> job[w].content]
    <3>1. job[w].gen <= st.generation
      BY DEF JobContent
    <3>2. \A f \in job[w].files : /\ f \in Files
                                   /\ \/ job[w].content[f] = 0
                                      \/ job[w].hash[f] <= job[w].content[f]
      BY <1>1 DEF JobContent, TypeOK, Job
    <3>3. QED BY <1>6, <2>1, <2>3, <3>1, <3>2
  <2>4. thr'[t] = thr[t] \/ thr'[t] = [pc |-> "check1", gen |-> job[w].gen,
                        files |-> job[w].files, content |-> job[w].content]
    BY DEF SaveIndex, TypeOK
  <2>5. QED BY <2>2, <2>3, <2>4
<1>11. QED BY <1>7, <1>8, <1>9, <1>10

\* The loop takes a result: the slot is idle again.
LEMMA TakeResultStep ==
  ASSUME T7Inv, TypeOK', NEW w \in Workers, job[w].pc # "idle",
         job' = [job EXCEPT ![w] = IdleJob],
         st'.generation = st.generation, UNCHANGED <<disk, idx, thr>>
  PROVE  OneCall' /\ JobContent' /\ ThreadsBehind' /\ NoStaleOverwrite'
<1> USE DEF T7Inv
<1>1. \A v \in Workers : job'[v].pc = "idle"
  BY DEF TypeOK, OneCall, IdleJob
<1>2. OneCall'
  BY <1>1 DEF OneCall
<1>3. JobContent'
  <2>1. \A v \in Workers : job'[v].gen = job[v].gen \/ job'[v].gen = 0
    BY DEF TypeOK, IdleJob
  <2>2. \A v \in Workers : job[v].gen <= st.generation /\ 0 <= st.generation
    BY DEF TypeOK, RepoState, JobContent
  <2>3. QED BY <1>1, <2>1, <2>2 DEF JobContent
<1>4. ThreadsBehind'
  BY <1>1 DEF ThreadsBehind, Live, Active, Working
<1>5. NoStaleOverwrite'
  BY DEF NoStaleOverwrite
<1>6. QED BY <1>2, <1>3, <1>4, <1>5

\* A summariser ends, or goes on with the generation and the rows it has.
LEMMA ThreadGoesOn ==
  ASSUME T7Inv, TypeOK', NEW t \in Threads, NEW s \in Summarizer, Live(t),
         thr' = [thr EXCEPT ![t] = s],
         s.pc # "idle" => s.gen = thr[t].gen /\ s.files = thr[t].files
                          /\ s.content = thr[t].content,
         UNCHANGED <<disk, idx, st, loop, job>>
  PROVE  OneCall' /\ JobContent' /\ ThreadsBehind' /\ NoStaleOverwrite'
<1> USE DEF T7Inv
<1>1. thr'[t] = s /\ \A u \in Threads : u # t => thr'[u] = thr[u]
  BY DEF TypeOK
<1>2. OneCall' /\ NoStaleOverwrite'
  BY DEF OneCall, NoStaleOverwrite
<1>3. JobContent'
  BY DEF JobContent
<1>4. ThreadsBehind'
  BY <1>1 DEF ThreadsBehind, Live, Active, Working
<1>5. QED BY <1>2, <1>3, <1>4

\* A deferred save: its generation is the current one, so no call is between its
\* start and its save, and the rows it writes are those of the recorded hash.
LEMMA DeferredSaveStep ==
  ASSUME T7Inv, TypeOK', NEW t \in Threads, SaveSummaries(t)
  PROVE  OneCall' /\ JobContent' /\ ThreadsBehind' /\ NoStaleOverwrite'
<1> USE DEF T7Inv
<1>1. thr[t].pc = "saving" /\ thr[t].gen = st.generation
  BY DEF SaveSummaries, GenerationFixedWhileSaving
<1>2. \A f \in thr[t].files : thr[t].content[f] = 0 \/ idx.hash[f] <= thr[t].content[f]
  BY <1>1 DEF ThreadsBehind, Live
<1>3. thr'[t] = IdleThr /\ \A u \in Threads : u # t => thr'[u] = thr[u]
  BY DEF SaveSummaries, TypeOK
<1>4. idx'.hash = idx.hash
  BY DEF SaveSummaries, TypeOK, Index
<1>5. OneCall'
  BY DEF SaveSummaries, OneCall
<1>6. JobContent'
  BY DEF SaveSummaries, JobContent
<1>7. ThreadsBehind'
  BY <1>3, <1>4 DEF SaveSummaries, ThreadsBehind, Live, Active, Working, IdleThr
<1>8. NoStaleOverwrite'
  <2>1. CASE idx' = idx
    BY <2>1 DEF NoStaleOverwrite
  <2>2. CASE idx' = [idx EXCEPT !.syms = [f \in Files |->
                      IF f \in thr[t].files THEN thr[t].content[f] ELSE idx.syms[f]]]
    <3> SUFFICES ASSUME NEW f \in Files
                 PROVE  idx'.syms[f] = 0 \/ idx'.hash[f] <= idx'.syms[f]
      BY DEF NoStaleOverwrite
    <3>1. idx.syms[f] = 0 \/ idx.hash[f] <= idx.syms[f]
      BY DEF NoStaleOverwrite
    <3>2. idx'.syms[f] = IF f \in thr[t].files THEN thr[t].content[f] ELSE idx.syms[f]
      BY <2>2 DEF TypeOK, Index
    <3>3. QED BY <1>2, <1>4, <3>1, <3>2
  <2>3. QED BY <2>1, <2>2 DEF SaveSummaries
<1>9. QED BY <1>5, <1>6, <1>7, <1>8

LEMMA StepT7 ==
  ASSUME SoleWriter, T7Inv, TypeOK', GenerationFixedWhileSaving', [Next]_vars
  PROVE  T7Inv'
<1> DEFINE Goal == OneCall' /\ JobContent' /\ ThreadsBehind' /\ NoStaleOverwrite'
<1> SUFFICES Goal
  BY DEF T7Inv
<1>1. TypeOK
  BY DEF T7Inv
<1>2. \A w \in Workers : job[w].pc # "idle" =>
         job[w].owner = Watch /\ loop \in {"initWait", "eventWait"}
  BY DEF T7Inv, OneCall
\* Comparisons of versions need to know that versions are numbers.
<1>3. /\ disk \in [Files -> Nat]
      /\ \A F \in SUBSET Files : \A f \in F : OnDisk(F)[f] = disk[f]
  BY <1>1 DEF TypeOK, Versions, OnDisk
<1>4. CASE UNCHANGED vars
  BY <1>3, <1>4, QuietStep DEF vars
<1>5. ASSUME NEW f \in Files, Edit(f)
      PROVE  Goal
  <2>1. \A g \in Files : disk[g] <= disk'[g]
    BY <1>3, <1>5 DEF Edit
  <2>2. QED BY <1>5, <2>1, QuietStep DEF Edit
<1>6. CASE StartLoop \/ DependencyMissing \/ RecordCrash \/ InitialIndexDone \/ RebuildCache
  <2>1. st'.generation = st.generation
    BY <1>1, <1>6 DEF StartLoop, DependencyMissing, RecordCrash, InitialIndexDone, RebuildCache,
                      MarkDone, MarkFailed, TypeOK, RepoState
  <2>2. \A w \in Workers : job[w].pc = "idle"
    BY <1>2, <1>6 DEF StartLoop, DependencyMissing, RecordCrash, InitialIndexDone, RebuildCache
  <2>3. UNCHANGED <<idx, thr, job, disk>>
    BY <1>6 DEF StartLoop, DependencyMissing, RecordCrash, InitialIndexDone, RebuildCache
  <2>4. QED BY <1>3, <2>1, <2>2, <2>3, QuietStep
<1>7. CASE StartInitialIndex
  BY <1>7, StartStep DEF StartInitialIndex
<1>8. CASE StartEventReindex
  BY <1>8, StartStep DEF StartEventReindex
<1>9. ASSUME NEW w \in Workers, DetectChanges(w)
      PROVE  Goal
  <2> DEFINE suspect == {f \in Files : idx.hash[f] = 0 \/ job[w].mtime[f] # idx.mtime[f]}
             changed == {f \in suspect : disk[f] # idx.hash[f]}
             j == [job[w] EXCEPT !.pc = "reread", !.files = changed, !.hash = OnDisk(changed)]
  <2>1. Active(w)
    BY <1>9 DEF DetectChanges, Active, Working
  <2>2. CASE Return(w, "nochange")
    BY <1>9, <2>1, <2>2, ReturnStep DEF DetectChanges
  <2>3. CASE job' = [job EXCEPT ![w] = j]
    <3>1. j \in Job
      BY <2>3, <1>1 DEF TypeOK
    <3>2. j.pc = "reread" /\ j.owner = Watch /\ j.gen <= st.generation
      BY <1>1, <1>2, <2>1 DEF TypeOK, Job, T7Inv, JobContent, Active, Working
    <3>3. \A f \in j.files : j.hash[f] <= disk[f]
      <4>1. j.files = changed /\ j.hash = OnDisk(changed)
        BY <1>1 DEF TypeOK, Job
      <4>2. QED BY <1>3, <4>1
    <3> HIDE DEF j
    <3>4. QED BY <1>9, <2>1, <2>3, <3>1, <3>2, <3>3, CallStep DEF DetectChanges
  <2>4. QED BY <1>9, <2>2, <2>3 DEF DetectChanges
<1>10. ASSUME NEW w \in Workers, Reread(w)
       PROVE  Goal
  <2>1. PICK unread \in SUBSET job[w].files : Reread(w)!(unread)
    BY <1>10 DEF Reread
  <2> DEFINE found == job[w].files \ unread
             j == [job[w] EXCEPT !.pc = "save", !.content = OnDisk(found)]
  <2>2. Active(w) /\ job[w].pc = "reread" /\ job' = [job EXCEPT ![w] = j]
    BY <2>1 DEF Active, Working
  <2>3. j \in Job
    BY <2>2, <1>1 DEF TypeOK
  <2>4. j.pc = "save" /\ j.owner = Watch /\ j.gen <= st.generation
    BY <1>1, <1>2, <2>2 DEF TypeOK, Job, T7Inv, JobContent
  <2>5. \A f \in j.files : j.content[f] = 0 \/ j.hash[f] <= j.content[f]
    <3>1. j.files = job[w].files /\ j.hash = job[w].hash /\ j.content = OnDisk(found)
      BY <1>1 DEF TypeOK, Job
    <3>2. \A f \in job[w].files : f \in Files /\ job[w].hash[f] <= disk[f]
      BY <1>1, <2>2 DEF T7Inv, JobContent, TypeOK, Job
    <3>3. \A f \in job[w].files : OnDisk(found)[f] = IF f \in found THEN disk[f] ELSE 0
      BY <3>2 DEF OnDisk
    <3>4. QED BY <3>1, <3>2, <3>3
  <2> HIDE DEF j
  <2>6. QED BY <2>1, <2>2, <2>3, <2>4, <2>5, CallStep
<1>11. ASSUME NEW w \in Workers, ReadChanged(w)
       PROVE  Goal
  <2>1. PICK unread \in SUBSET job[w].files : ReadChanged(w)!(unread)
    BY <1>11 DEF ReadChanged
  <2> DEFINE seen    == job[w].files \ unread
             changed == {f \in seen : job[w].kind = "file" \/ disk[f] # job[w].old[f]}
             j == [job[w] EXCEPT !.pc = "stat", !.files = changed, !.stamped = seen,
                                 !.old = NoRows, !.hash = OnDisk(changed),
                                 !.content = OnDisk(changed)]
  <2>2. Active(w) /\ job' = [job EXCEPT ![w] = j]
    BY <2>1 DEF Active, Working
  <2>3. j \in Job
    BY <2>2, <1>1 DEF TypeOK
  <2>4. j.pc = "stat" /\ j.owner = Watch /\ j.gen <= st.generation
    <3>1. job[w] \in Job /\ job[w].owner = Watch /\ job[w].gen <= st.generation
      BY <1>1, <1>2, <2>2 DEF TypeOK, T7Inv, JobContent, Active, Working
    <3> HIDE DEF seen, changed
    <3>2. QED BY <3>1 DEF Job
  <2>5. \A f \in j.files : j.hash[f] <= j.content[f]
    <3>1. j.files = changed /\ j.hash = OnDisk(changed) /\ j.content = OnDisk(changed)
      BY <1>1 DEF TypeOK, Job
    <3>2. changed \in SUBSET Files
      BY <1>1 DEF TypeOK, Job
    <3>3. QED BY <1>3, <3>1, <3>2
  <2> HIDE DEF j
  <2>6. QED BY <2>1, <2>2, <2>3, <2>4, <2>5, CallStep
<1>12. ASSUME NEW w \in Workers, CaptureGeneration(w)
       PROVE  Goal
  <2> DEFINE j == [job[w] EXCEPT !.pc = "save", !.gen = st.generation]
  <2>1. Active(w) /\ job[w].pc = "capture" /\ job' = [job EXCEPT ![w] = j]
    BY <1>12 DEF CaptureGeneration, Active, Working
  <2>2. j \in Job
    BY <2>1, <1>1 DEF TypeOK
  <2>3. j.pc = "save" /\ j.owner = Watch /\ j.gen <= st.generation
    BY <1>1, <1>2, <2>1 DEF TypeOK, Job, RepoState
  <2>4. \A f \in j.files : j.content[f] = 0 \/ j.hash[f] <= j.content[f]
    <3>1. j.files = job[w].files /\ j.hash = job[w].hash /\ j.content = job[w].content
      BY <1>1 DEF TypeOK, Job
    <3>2. QED BY <2>1, <3>1 DEF T7Inv, JobContent
  <2> HIDE DEF j
  <2>5. QED BY <1>12, <2>1, <2>2, <2>3, <2>4, CallStep DEF CaptureGeneration
<1>13. ASSUME NEW w \in Workers, SaveIndex(w)
       PROVE  Goal
  BY <1>13, SaveStep
<1>14. ASSUME NEW w \in Workers, FailJob(w)
       PROVE  Goal
  BY <1>14, ReturnStep DEF FailJob
<1>15. ASSUME NEW w \in Workers, ResultStep(w)
       PROVE  Goal
  <2>1. InitialIndexReturned(w) \/ EventReindexReturned(w)
    BY <1>15 DEF ResultStep, EnsureReturned, ToolReturned, SoleWriter
  <2>2. st'.generation = st.generation
    BY <1>1, <2>1 DEF InitialIndexReturned, EventReindexReturned,
                      MarkDone, MarkFailed, TypeOK, RepoState
  <2>3. job[w].pc # "idle"
    BY <2>1 DEF InitialIndexReturned, EventReindexReturned, Returned
  <2>4. job' = [job EXCEPT ![w] = IdleJob] /\ UNCHANGED <<disk, idx, thr>>
    BY <2>1 DEF InitialIndexReturned, EventReindexReturned
  <2>5. QED BY <2>2, <2>3, <2>4, TakeResultStep
<1>16. ASSUME NEW t \in Threads, Check1(t) \/ NothingSummarized(t) \/ Check2(t)
       PROVE  Goal
  <2> DEFINE s(pc) == [thr[t] EXCEPT !.pc = pc]
  <2>1. Live(t)
    BY <1>16 DEF Check1, NothingSummarized, Check2, Live
  <2>2. ASSUME NEW pc \in ThrPc
        PROVE  s(pc) \in Summarizer /\ s(pc).gen = thr[t].gen
           /\ s(pc).files = thr[t].files /\ s(pc).content = thr[t].content
    <3>1. thr[t] \in Summarizer
      BY <1>1 DEF TypeOK
    <3>2. QED BY <3>1 DEF Summarizer
  <2>3. UNCHANGED <<disk, idx, st, loop, job>>
    BY <1>16 DEF Check1, NothingSummarized, Check2
  <2>4. CASE thr' = [thr EXCEPT ![t] = IdleThr]
    BY <2>1, <2>3, <2>4, IdleTypes, ThreadGoesOn DEF IdleThr
  <2>5. CASE thr' = [thr EXCEPT ![t] = s("summarize")] \/ thr' = [thr EXCEPT ![t] = s("saving")]
    <3>1. "summarize" \in ThrPc /\ "saving" \in ThrPc
      BY DEF ThrPc
    <3> HIDE DEF s
    <3>2. QED BY <2>1, <2>2, <2>3, <2>5, <3>1, ThreadGoesOn
  <2>6. QED BY <1>16, <2>4, <2>5 DEF Check1, NothingSummarized, Check2
<1>17. ASSUME NEW t \in Threads, SaveSummaries(t)
       PROVE  Goal
  BY <1>17, DeferredSaveStep
<1>18. ~CancelLoop
  BY DEF SoleWriter, CancelLoop
<1>19. ASSUME NEW w \in Workers, StatAll(w)
       PROVE  Goal
  <2> DEFINE j == [job[w] EXCEPT !.pc = "detect", !.stamped = Files, !.mtime = disk]
  <2>1. Active(w) /\ job' = [job EXCEPT ![w] = j]
    BY <1>19 DEF StatAll, Active, Working
  <2>2. j \in Job
    BY <2>1, <1>1 DEF TypeOK
  <2>3. j.pc = "detect" /\ j.owner = Watch /\ j.gen <= st.generation
    BY <1>1, <1>2, <2>1 DEF TypeOK, Job, T7Inv, JobContent, Active, Working
  <2> HIDE DEF j
  <2>4. QED BY <1>19, <2>1, <2>2, <2>3, CallStep DEF StatAll
<1>20. ASSUME NEW w \in Workers, StatAfterRead(w)
       PROVE  Goal
  <2> DEFINE next == IF job[w].kind = "file" THEN "compare"
                     ELSE IF job[w].files = {} THEN "save" ELSE "capture"
             j == [job[w] EXCEPT !.pc = next, !.mtime = OnDisk(job[w].stamped)]
  <2>1. Active(w) /\ job[w].pc = "stat" /\ job' = [job EXCEPT ![w] = j]
    BY <1>20 DEF StatAfterRead, Active, Working
  <2>2. j \in Job
    BY <2>1, <1>1 DEF TypeOK
  <2>3. j.pc \in {"compare", "capture", "save"} /\ j.owner = Watch /\ j.gen <= st.generation
    BY <1>1, <1>2, <2>1 DEF TypeOK, Job, T7Inv, JobContent
  <2>4. \A f \in j.files : j.content[f] = 0 \/ j.hash[f] <= j.content[f]
    <3>1. j.files = job[w].files /\ j.hash = job[w].hash /\ j.content = job[w].content
      BY <1>1 DEF TypeOK, Job
    <3>2. QED BY <2>1, <3>1 DEF T7Inv, JobContent
  <2> HIDE DEF j
  <2>5. QED BY <1>20, <2>1, <2>2, <2>3, <2>4, CallStep DEF StatAfterRead
<1>21. ASSUME NEW w \in Workers, CompareWithIndex(w)
       PROVE  Goal
  <2> DEFINE F == {f \in job[w].files : job[w].hash[f] # idx.hash[f]}
             j == [job[w] EXCEPT !.pc = "save", !.files = F]
  <2>1. Active(w) /\ job[w].pc = "compare" /\ job' = [job EXCEPT ![w] = j]
    BY <1>21 DEF CompareWithIndex, Active, Working
  <2>2. j \in Job
    BY <2>1, <1>1 DEF TypeOK
  <2>3. j.pc = "save" /\ j.owner = Watch /\ j.gen <= st.generation
    <3>1. job[w] \in Job /\ job[w].owner = Watch /\ job[w].gen <= st.generation
      BY <1>1, <1>2, <2>1 DEF TypeOK, T7Inv, JobContent
    <3> HIDE DEF F
    <3>2. QED BY <3>1 DEF Job
  <2>4. \A f \in j.files : j.content[f] = 0 \/ j.hash[f] <= j.content[f]
    <3>1. j.files \subseteq job[w].files /\ j.hash = job[w].hash /\ j.content = job[w].content
      BY <1>1 DEF TypeOK, Job
    <3>2. QED BY <2>1, <3>1 DEF T7Inv, JobContent
  <2> HIDE DEF j
  <2>5. QED BY <1>21, <2>1, <2>2, <2>3, <2>4, CallStep DEF CompareWithIndex
<1>22. QED
  BY <1>4, <1>5, <1>6, <1>7, <1>8, <1>9, <1>10, <1>11, <1>12, <1>13, <1>14, <1>15,
     <1>16, <1>17, <1>18, <1>19, <1>20, <1>21
  DEF Next, WorkerStep, ThreadStep, LoopStep, SoleWriter

\* T7: when the watch loop is the repository's only reindexer and is never
\* cancelled, no deferred save puts older symbol rows under a newer hash.  (With
\* another caller it does: run reindex_clobber.)
THEOREM T7 == SoleWriter /\ Spec => []NoStaleOverwrite
<1> SUFFICES ASSUME SoleWriter PROVE Spec => []NoStaleOverwrite
  OBVIOUS
<1>1. T7Inv /\ TypeOK' /\ GenerationFixedWhileSaving' /\ [Next]_vars => T7Inv'
  BY StepT7
<1>2. T7Inv => NoStaleOverwrite
  BY DEF T7Inv
<1>3. QED BY TypeCorrect, GenerationFixed, InitT7, <1>1, <1>2, PTL DEF Spec

----------------------------------------------------------------------------
(* The status, for the watch loop on its own *)

\* While a call runs or waits to be marked, the repository is marked stale; and a
\* worker without a call has no owner.
Marked ==
    \A w \in Workers : /\ job[w].pc # "idle" => st.stale
                       /\ job[w].pc = "idle" => job[w].owner = Nobody

LEMMA InitMarked == Init => Marked
  BY DEF Init, Marked, IdleJob

\* A step of a worker that has a call leaves the status as it is.
LEMMA WorkerMarked ==
  ASSUME TypeOK, Marked, NEW w \in Workers, Active(w),
         \A v \in Workers : v # w => job'[v] = job[v],
         job'[w].pc = "idle" => job'[w].owner = Nobody, UNCHANGED st
  PROVE  Marked'
  BY DEF TypeOK, Marked, Active, Working

LEMMA ReturnMarked ==
  ASSUME TypeOK, Marked, NEW w \in Workers, Active(w), NEW r, r # "idle", Return(w, r),
         UNCHANGED st
  PROVE  Marked'
<1>1. /\ \A v \in Workers : v # w => job'[v] = job[v]
      /\ job'[w].pc = "idle" => job'[w].owner = Nobody
  BY DEF Return, TypeOK, IdleJob
<1>2. QED BY <1>1, WorkerMarked

\* The call of the worker that has just returned was the only one.
LEMMA ResultMarked ==
  ASSUME T7Inv, Marked, NEW w \in Workers, Returned(w), job' = [job EXCEPT ![w] = IdleJob]
  PROVE  Marked'
<1>1. \A v \in Workers : v # w => job[v].pc = "idle" /\ job'[v] = job[v]
  BY DEF T7Inv, OneCall, TypeOK, Returned
<1>2. job'[w] = IdleJob
  BY DEF T7Inv, TypeOK
<1>3. QED BY <1>1, <1>2 DEF Marked, IdleJob

LEMMA StartMarked ==
  ASSUME TypeOK, Marked, MarkStart, NEW w \in Workers, NEW c, NEW k, NEW F, NEW old,
         Submit(w, c, k, F, old)
  PROVE  Marked'
<1>1. st'.stale
  BY DEF MarkStart, TypeOK, RepoState
<1>2. job'[w].pc = "read" /\ \A v \in Workers : v # w => job'[v] = job[v]
  BY DEF Submit, TypeOK, IdleJob
<1>3. QED BY <1>1, <1>2 DEF Marked

LEMMA StepMarked ==
  ASSUME SoleWriter, T7Inv, Marked, [Next]_vars
  PROVE  Marked'
<1>1. TypeOK /\ OneCall
  BY DEF T7Inv
<1>2. ASSUME UNCHANGED <<st, job>>
      PROVE  Marked'
  BY <1>2 DEF Marked
<1>3. CASE UNCHANGED vars
  BY <1>2, <1>3 DEF vars
<1>4. CASE (\E f \in Files : Edit(f)) \/ (\E t \in Threads : ThreadStep(t))
           \/ StartLoop \/ RebuildCache
  BY <1>2, <1>4
  DEF Edit, ThreadStep, Check1, NothingSummarized, Check2, SaveSummaries, StartLoop, RebuildCache
\* A failure leaves the mark; the initial index is marked done when no call is left.
<1>5. CASE DependencyMissing \/ RecordCrash
  <2>1. job' = job
    BY <1>5 DEF DependencyMissing, RecordCrash
  <2>2. PICK b \in BOOLEAN : MarkFailed(b)
    BY <1>5 DEF DependencyMissing, RecordCrash
  <2>3. st'.stale = st.stale
    BY <1>1, <2>2 DEF MarkFailed, TypeOK, RepoState
  <2>4. QED BY <2>1, <2>3 DEF Marked
<1>6. CASE InitialIndexDone
  <2>1. \A w \in Workers : job[w].pc = "idle"
    BY <1>1, <1>6 DEF InitialIndexDone, OneCall
  <2>2. QED BY <1>6, <2>1 DEF InitialIndexDone, Marked
<1>7. CASE StartInitialIndex \/ StartEventReindex
  BY <1>1, <1>7, StartMarked DEF StartInitialIndex, StartEventReindex
<1>8. ASSUME NEW w \in Workers, FailJob(w)
      PROVE  Marked'
  BY <1>1, <1>8, ReturnMarked DEF FailJob
<1>9. ASSUME NEW w \in Workers, WorkerStep(w)
      PROVE  Marked'
  <2>1. job[w] \in Job /\ job \in [Workers -> Job]
    BY <1>1 DEF TypeOK
  <2>2. CASE DetectChanges(w)
    <3>1. CASE Return(w, "nochange")
      BY <1>1, <2>2, <3>1, ReturnMarked DEF DetectChanges, Active, Working
    <3>2. CASE ~Return(w, "nochange")
      <4>1. /\ \A v \in Workers : v # w => job'[v] = job[v]
            /\ job'[w].pc = "reread"
        BY <2>1, <2>2, <3>2 DEF DetectChanges, Job
      <4>2. QED BY <1>1, <2>2, <4>1, WorkerMarked DEF DetectChanges, Active, Working
    <3>3. QED BY <3>1, <3>2
  <2>3. CASE SaveIndex(w)
    BY <1>1, <2>3, ReturnMarked DEF SaveIndex, Active, Working
  <2>4. CASE StatAll(w)
    <3>1. /\ \A v \in Workers : v # w => job'[v] = job[v]
          /\ job'[w].pc = "detect"
      BY <2>1, <2>4 DEF StatAll, Job
    <3>2. QED BY <1>1, <2>4, <3>1, WorkerMarked DEF StatAll, Active, Working
  <2>5. CASE Reread(w)
    <3>1. PICK unread \in SUBSET job[w].files : Reread(w)!(unread)
      BY <2>5 DEF Reread
    <3>2. /\ \A v \in Workers : v # w => job'[v] = job[v]
          /\ job'[w].pc = "save"
      BY <2>1, <3>1 DEF Job
    <3>3. QED BY <1>1, <3>1, <3>2, WorkerMarked DEF Active, Working
  <2>6. CASE ReadChanged(w)
    <3>1. PICK unread \in SUBSET job[w].files : ReadChanged(w)!(unread)
      BY <2>6 DEF ReadChanged
    <3>2. /\ \A v \in Workers : v # w => job'[v] = job[v]
          /\ job'[w].pc = "stat"
      BY <2>1, <3>1 DEF Job
    <3>3. QED BY <1>1, <3>1, <3>2, WorkerMarked DEF Active, Working
  <2>7. CASE StatAfterRead(w)
    <3>1. /\ \A v \in Workers : v # w => job'[v] = job[v]
          /\ job'[w].pc \in {"compare", "save", "capture"}
      BY <2>1, <2>7 DEF StatAfterRead, Job
    <3>2. QED BY <1>1, <2>7, <3>1, WorkerMarked DEF StatAfterRead, Active, Working
  <2>8. CASE CompareWithIndex(w)
    <3>1. /\ \A v \in Workers : v # w => job'[v] = job[v]
          /\ job'[w].pc = "save"
      BY <2>1, <2>8 DEF CompareWithIndex, Job
    <3>2. QED BY <1>1, <2>8, <3>1, WorkerMarked DEF CompareWithIndex, Active, Working
  <2>9. CASE CaptureGeneration(w)
    <3>1. /\ \A v \in Workers : v # w => job'[v] = job[v]
          /\ job'[w].pc = "save"
      BY <2>1, <2>9 DEF CaptureGeneration, Job
    <3>2. QED BY <1>1, <2>9, <3>1, WorkerMarked DEF CaptureGeneration, Active, Working
  <2>10. QED BY <1>9, <2>2, <2>3, <2>4, <2>5, <2>6, <2>7, <2>8, <2>9 DEF WorkerStep
<1>10. ASSUME NEW w \in Workers, ResultStep(w)
      PROVE  Marked'
  BY <1>10, ResultMarked
  DEF ResultStep, InitialIndexReturned, EventReindexReturned, EnsureReturned, ToolReturned
<1>11. QED
  BY <1>3, <1>4, <1>5, <1>6, <1>7, <1>8, <1>9, <1>10
  DEF Next, LoopStep, SoleWriter, CancelLoop

\* The status, when the watch loop is the only reindexer and is never cancelled:
\* as long as its reindex runs or waits to be marked done, get_reindex_status
\* reports the index as stale.  (With a second caller it does not:
\* reindex_two_callers.cfg.)
THEOREM ReportedStale == SoleWriter /\ Spec => []StaleWhileReindexing
<1> SUFFICES ASSUME SoleWriter PROVE Spec => []StaleWhileReindexing
  OBVIOUS
<1>1. T7Inv /\ TypeOK' /\ GenerationFixedWhileSaving' /\ [Next]_vars => T7Inv'
  BY StepT7
<1>2. T7Inv /\ Marked /\ [Next]_vars => Marked'
  BY StepMarked
<1>3. Marked => StaleWhileReindexing
  <2>1. Nobody \notin Tracked
    BY ReindexAssumption DEF Tracked
  <2>2. QED BY <2>1 DEF Marked, StaleWhileReindexing, IndexStale
<1>4. QED BY TypeCorrect, GenerationFixed, InitT7, InitMarked, <1>1, <1>2, <1>3, PTL DEF Spec

----------------------------------------------------------------------------
(* T6, for the watch loop on its own *)

HasRead == {"reread", "stat", "compare", "capture", "save"}

\* What a call passes or has read: the hashes it compares with are not newer than
\* the index, those it will record are not older; what it could not read again is
\* something the index does not have.
Reads(j) ==
    /\ j.pc = "read" => \A f \in Files : j.old[f] <= idx.hash[f]
    /\ j.pc = "detect" => j.kind = "full"
    /\ j.pc \in {"read", "detect"} => \A f \in Files : j.content[f] = 0
    /\ j.pc = "reread" => \A f \in j.files : j.kind = "full" /\ idx.hash[f] < disk[f]
    /\ j.pc \in HasRead => \A f \in j.files :
          /\ idx.hash[f] <= j.hash[f] /\ j.hash[f] <= disk[f]
          /\ j.content[f] <= disk[f]
          /\ j.content[f] = 0 => j.kind = "full" /\ idx.hash[f] < disk[f]

\* The index has nothing newer than the disk, and where it has the hash of what is
\* on the disk it has its rows.
RowsCurrent ==
    \A f \in Files :
      /\ 0 < disk[f] /\ idx.hash[f] <= disk[f] /\ idx.syms[f] <= disk[f]
      /\ idx.hash[f] = disk[f] => idx.syms[f] = disk[f]

CacheBehind == \A f \in Files : cache[f] <= idx.hash[f]
CallReads   == \A w \in Workers : Reads(job[w])
Summarized  == \A t \in Threads : Live(t) => \A f \in thr[t].files :
                  thr[t].content[f] # 0 /\ thr[t].content[f] <= disk[f]

T6Inv == RowsCurrent /\ CacheBehind /\ CallReads /\ Summarized

\* Comparisons of versions need to know that versions are numbers.
LEMMA Numbers ==
  ASSUME TypeOK
  PROVE  /\ disk \in [Files -> Nat] /\ cache \in [Files -> Nat]
         /\ idx.hash \in [Files -> Nat] /\ idx.syms \in [Files -> Nat]
         /\ \A w \in Workers :
              /\ job[w].files \subseteq Files
              /\ job[w].old \in [Files -> Nat] /\ job[w].hash \in [Files -> Nat]
              /\ job[w].content \in [Files -> Nat]
         /\ \A t \in Threads :
              thr[t].files \subseteq Files /\ thr[t].content \in [Files -> Nat]
  BY DEF TypeOK, Versions, Index, Job, Summarizer

LEMMA HashBehind ==
  ASSUME TypeOK, RowsCurrent
  PROVE  \A f \in Files : /\ idx.hash[f] <= disk[f] /\ disk[f] # 0 /\ disk[f] <= disk[f]
                          /\ idx.hash[f] = disk[f] \/ idx.hash[f] < disk[f]
<1> SUFFICES ASSUME NEW f \in Files
             PROVE  /\ idx.hash[f] <= disk[f] /\ disk[f] # 0 /\ disk[f] <= disk[f]
                    /\ idx.hash[f] = disk[f] \/ idx.hash[f] < disk[f]
  OBVIOUS
<1>1. disk[f] \in Nat /\ idx.hash[f] \in Nat
  BY Numbers
<1>2. 0 < disk[f] /\ idx.hash[f] <= disk[f]
  BY DEF RowsCurrent
<1>3. QED BY <1>1, <1>2

LEMMA InitT6 == Init => T6Inv
<1> SUFFICES ASSUME Init PROVE T6Inv
  OBVIOUS
<1>1. PICK rows \in {NoRows, disk} : idx = [hash |-> rows, mtime |-> rows, syms |-> rows]
  BY DEF Init
<1>2. \A f \in Files : rows[f] \in {0, 1} /\ disk[f] = 1 /\ cache[f] = 0
  BY <1>1 DEF Init, NoRows
<1>3. RowsCurrent /\ CacheBehind
  BY <1>1, <1>2 DEF RowsCurrent, CacheBehind
<1>4. CallReads /\ Summarized
  BY DEF Init, IdleJob, IdleThr, CallReads, Reads, HasRead, Summarized, Live
<1>5. QED BY <1>3, <1>4 DEF T6Inv

\* Edits only raise versions.
LEMMA EditT6 ==
  ASSUME TypeOK, TypeOK', T6Inv, \A f \in Files : disk[f] <= disk'[f],
         UNCHANGED <<idx, cache, job, thr>>
  PROVE  T6Inv'
<1> USE Numbers DEF T6Inv
<1>0. disk' \in [Files -> Nat]
  BY DEF TypeOK, Versions
<1>1. RowsCurrent' /\ CacheBehind'
  BY <1>0 DEF RowsCurrent, CacheBehind
<1>2. CallReads'
  BY <1>0 DEF CallReads, Reads
<1>3. Summarized'
  BY <1>0 DEF Summarized, Live
<1>4. QED BY <1>1, <1>2, <1>3

\* A new cache, and a worker whose call has ended or just begun.
LEMMA LoopT6 ==
  ASSUME TypeOK, T6Inv, UNCHANGED <<disk, idx, thr>>,
         \A f \in Files : cache'[f] <= idx.hash[f],
         \A w \in Workers : job'[w] = job[w] \/ Reads(job'[w])
  PROVE  T6Inv'
<1> USE DEF T6Inv
<1>1. RowsCurrent' /\ CacheBehind' /\ Summarized'
  BY DEF RowsCurrent, CacheBehind, Summarized, Live
<1>2. \A w \in Workers : Reads(job'[w])
  BY DEF CallReads
<1>3. CallReads'
  BY <1>2 DEF CallReads, Reads
<1>4. QED BY <1>1, <1>3

LEMMA IdleReads == Reads(IdleJob)
  BY DEF IdleJob, Reads, HasRead

LEMMA SubmitReads ==
  ASSUME TypeOK, T6Inv, NEW w \in Workers, NEW c, NEW k, NEW F, NEW old \in {NoRows, cache},
         Submit(w, c, k, F, old)
  PROVE  \A v \in Workers : job'[v] = job[v] \/ Reads(job'[v])
<1>1. \A v \in Workers : v # w => job'[v] = job[v]
  BY DEF Submit, TypeOK
<1>2. job'[w].pc = "read" /\ job'[w].old = old /\ job'[w].content = NoRows
  BY DEF Submit, TypeOK, IdleJob
<1>3. \A f \in Files : old[f] <= idx.hash[f]
  <2>1. \A f \in Files : 0 <= idx.hash[f]
    BY Numbers
  <2>2. CASE old = NoRows
    <3>1. \A f \in Files : old[f] = 0
      BY <2>2 DEF NoRows
    <3>2. QED BY <2>1, <3>1
  <2>3. CASE old = cache
    BY <2>3 DEF T6Inv, CacheBehind
  <2>4. QED BY <2>2, <2>3
<1>4. QED BY <1>1, <1>2, <1>3 DEF Reads, HasRead, NoRows

LEMMA ReturnReads ==
  ASSUME TypeOK, NEW w \in Workers, NEW r \in {"ok", "nochange", "failed"}, Return(w, r)
  PROVE  /\ \A v \in Workers : v # w => job'[v] = job[v]
         /\ job'[w].pc \notin HasRead \cup {"read", "detect"}
  BY DEF Return, TypeOK, IdleJob, HasRead

LEMMA LoadedBehind ==
  ASSUME TypeOK, NEW h \in LoadedHashes
  PROVE  \A f \in Files : h[f] <= idx.hash[f]
<1>1. \A f \in Files : 0 <= idx.hash[f] /\ idx.hash[f] <= idx.hash[f]
  BY Numbers
<1>2. CASE h = idx.hash
  BY <1>1, <1>2
<1>3. CASE h = [f \in Files |-> IF idx.syms[f] = 0 THEN 0 ELSE idx.hash[f]]
  <2>1. \A f \in Files : h[f] \in {0, idx.hash[f]}
    BY <1>3
  <2>2. QED BY <1>1, <2>1
<1>4. QED BY <1>2, <1>3 DEF LoadedHashes

\* A call takes a step without writing the index.
LEMMA CallT6 ==
  ASSUME TypeOK, T6Inv, NEW w \in Workers, UNCHANGED <<disk, idx, cache, thr>>,
         \A v \in Workers : v # w => job'[v] = job[v], Reads(job'[w])
  PROVE  T6Inv'
<1>1. \A f \in Files : cache'[f] <= idx.hash[f]
  BY DEF T6Inv, CacheBehind
<1>2. QED BY <1>1, LoopT6

LEMMA WorkerT6 ==
  ASSUME T7Inv, T6Inv, NEW w \in Workers, WorkerStep(w), ~SaveIndex(w)
  PROVE  T6Inv'
<1>1. TypeOK /\ job[w] \in Job /\ job \in [Workers -> Job]
  BY DEF T7Inv, TypeOK
<1>2. Reads(job[w])
  BY DEF T6Inv, CallReads
<1>3. \A F \in SUBSET Files : \A f \in F : f \in Files /\ OnDisk(F)[f] = disk[f]
  BY DEF OnDisk
<1>4. CASE StatAll(w)
  <2>1. /\ job'[w].pc = "detect" /\ job[w].pc = "read" /\ job'[w].kind = "full"
        /\ job'[w].content = job[w].content
        /\ \A v \in Workers : v # w => job'[v] = job[v]
    BY <1>1, <1>4 DEF StatAll, Job
  <2>2. Reads(job'[w])
    BY <1>2, <2>1 DEF Reads, HasRead
  <2>3. QED BY <1>1, <1>4, <2>1, <2>2, CallT6 DEF StatAll
<1>5. CASE DetectChanges(w)
  <2> DEFINE suspect == {f \in Files : idx.hash[f] = 0 \/ job[w].mtime[f] # idx.mtime[f]}
             changed == {f \in suspect : disk[f] # idx.hash[f]}
  <2>1. CASE Return(w, "nochange")
    <3>1. /\ \A v \in Workers : v # w => job'[v] = job[v]
          /\ job'[w].pc \notin HasRead \cup {"read", "detect"}
      BY <1>1, <2>1, ReturnReads
    <3>2. Reads(job'[w])
      BY <3>1 DEF Reads, HasRead
    <3>3. QED BY <1>1, <1>5, <3>1, <3>2, CallT6 DEF DetectChanges
  <2>2. CASE job' = [job EXCEPT ![w] = [@ EXCEPT
                !.pc = "reread", !.files = changed, !.hash = OnDisk(changed)]]
    <3>1. /\ job'[w].pc = "reread" /\ job'[w].files = changed
          /\ job'[w].hash = OnDisk(changed) /\ job'[w].kind = job[w].kind
          /\ job'[w].content = job[w].content
          /\ \A v \in Workers : v # w => job'[v] = job[v]
      BY <1>1, <2>2 DEF Job
    <3>2. \A f \in changed : f \in Files /\ idx.hash[f] < disk[f]
      <4>1. \A f \in Files : idx.hash[f] = disk[f] \/ idx.hash[f] < disk[f]
        BY <1>1, HashBehind DEF T6Inv
      <4>2. \A f \in changed : f \in Files /\ disk[f] # idx.hash[f]
        OBVIOUS
      <4> HIDE DEF changed
      <4>3. QED BY <4>1, <4>2
    <3>3. \A f \in changed : OnDisk(changed)[f] = disk[f]
      BY <1>3
    <3>4. job[w].kind = "full" /\ \A f \in Files : job[w].content[f] = 0
      BY <1>2, <1>5 DEF DetectChanges, Reads
    <3> HIDE DEF changed
    <3>5. Reads(job'[w])
      BY <1>1, <3>1, <3>2, <3>3, <3>4, Numbers DEF Reads, HasRead
    <3>6. QED BY <1>1, <1>5, <3>1, <3>5, CallT6 DEF DetectChanges
  <2>3. QED BY <1>5, <2>1, <2>2 DEF DetectChanges
<1>6. CASE Reread(w)
  <2>1. PICK unread \in SUBSET job[w].files : Reread(w)!(unread)
    BY <1>6 DEF Reread
  <2> DEFINE F == job[w].files \ unread
  <2>2. /\ job'[w].pc = "save" /\ job'[w].files = job[w].files
        /\ job'[w].hash = job[w].hash /\ job'[w].kind = job[w].kind
        /\ job'[w].content = OnDisk(F)
        /\ \A v \in Workers : v # w => job'[v] = job[v]
    BY <1>1, <2>1 DEF Job
  <2>3. \A f \in job[w].files : OnDisk(F)[f] = disk[f] \/ (f \in unread /\ OnDisk(F)[f] = 0)
    BY <1>1, Numbers DEF OnDisk
  <2>4. \A f \in job[w].files : job[w].kind = "full" /\ idx.hash[f] < disk[f]
    BY <1>2, <2>1 DEF Reads
  <2>5. \A f \in job[w].files : /\ f \in Files /\ disk[f] \in Nat
                                /\ idx.hash[f] <= job[w].hash[f] /\ job[w].hash[f] <= disk[f]
    BY <1>1, <1>2, <2>1, Numbers DEF Reads, HasRead
  <2> HIDE DEF F
  <2>6. \A f \in job[w].files : OnDisk(F)[f] <= disk[f]
    BY <2>3, <2>5
  <2>7. Reads(job'[w])
    BY <2>2, <2>4, <2>5, <2>6 DEF Reads, HasRead
  <2>8. QED BY <1>1, <2>1, <2>2, <2>7, CallT6
<1>7. CASE ReadChanged(w)
  <2>1. PICK unread \in SUBSET job[w].files : ReadChanged(w)!(unread)
    BY <1>7 DEF ReadChanged
  <2> DEFINE seen    == job[w].files \ unread
             changed == {f \in seen : job[w].kind = "file" \/ disk[f] # job[w].old[f]}
  <2>2. /\ job'[w].pc = "stat" /\ job'[w].files = changed
        /\ job'[w].hash = OnDisk(changed) /\ job'[w].content = OnDisk(changed)
        /\ \A v \in Workers : v # w => job'[v] = job[v]
    BY <1>1, <2>1 DEF Job
  <2>3. changed \in SUBSET Files
    BY <1>1, Numbers
  <2>4. \A f \in changed : f \in Files /\ OnDisk(changed)[f] = disk[f]
    BY <1>3, <2>3
  <2> HIDE DEF changed
  <2>5. \A f \in changed : idx.hash[f] <= disk[f] /\ disk[f] # 0 /\ disk[f] <= disk[f]
    <3>1. \A f \in Files : idx.hash[f] <= disk[f] /\ disk[f] # 0 /\ disk[f] <= disk[f]
      BY <1>1, HashBehind DEF T6Inv
    <3>2. QED BY <2>3, <3>1
  <2>6. Reads(job'[w])
    BY <2>2, <2>4, <2>5 DEF Reads, HasRead
  <2>7. QED BY <1>1, <2>1, <2>2, <2>6, CallT6
<1>8. CASE StatAfterRead(w)
  <2>1. /\ job'[w].pc \in {"compare", "save", "capture"} /\ job[w].pc = "stat"
        /\ job'[w].files = job[w].files /\ job'[w].hash = job[w].hash
        /\ job'[w].content = job[w].content /\ job'[w].kind = job[w].kind
        /\ \A v \in Workers : v # w => job'[v] = job[v]
    BY <1>1, <1>8 DEF StatAfterRead, Job
  <2>2. Reads(job'[w])
    BY <1>2, <2>1 DEF Reads, HasRead
  <2>3. QED BY <1>1, <1>8, <2>1, <2>2, CallT6 DEF StatAfterRead
<1>9. CASE CompareWithIndex(w)
  <2>1. /\ job'[w].pc = "save" /\ job[w].pc = "compare"
        /\ job'[w].files \subseteq job[w].files /\ job'[w].hash = job[w].hash
        /\ job'[w].content = job[w].content /\ job'[w].kind = job[w].kind
        /\ \A v \in Workers : v # w => job'[v] = job[v]
    BY <1>1, <1>9 DEF CompareWithIndex, Job
  <2>2. Reads(job'[w])
    BY <1>2, <2>1 DEF Reads, HasRead
  <2>3. QED BY <1>1, <1>9, <2>1, <2>2, CallT6 DEF CompareWithIndex
<1>10. CASE CaptureGeneration(w)
  <2>1. /\ job'[w].pc = "save" /\ job[w].pc = "capture"
        /\ job'[w].files = job[w].files /\ job'[w].hash = job[w].hash
        /\ job'[w].content = job[w].content /\ job'[w].kind = job[w].kind
        /\ \A v \in Workers : v # w => job'[v] = job[v]
    BY <1>1, <1>10 DEF CaptureGeneration, Job
  <2>2. Reads(job'[w])
    BY <1>2, <2>1 DEF Reads, HasRead
  <2>3. QED BY <1>1, <1>10, <2>1, <2>2, CallT6 DEF CaptureGeneration
<1>11. QED BY <1>4, <1>5, <1>6, <1>7, <1>8, <1>9, <1>10 DEF WorkerStep

\* incremental_save: the hashes go up to what was read, the rows with them; what
\* could not be read again the index had in an older version.
LEMMA SaveT6 ==
  ASSUME T7Inv, T6Inv, NEW w \in Workers, SaveIndex(w)
  PROVE  T6Inv'
<1> DEFINE j == job[w]
<1>1. TypeOK /\ j \in Job /\ job \in [Workers -> Job] /\ idx \in Index
  BY DEF T7Inv, TypeOK
<1>2. /\ \A v \in Workers : v # w => job'[v] = job[v]
      /\ job'[w].pc \notin HasRead \cup {"read", "detect"}
  BY <1>1, ReturnReads DEF SaveIndex
<1>3. \A v \in Workers : v # w => job[v].pc = "idle"
  BY DEF T7Inv, OneCall, SaveIndex
<1>4. UNCHANGED <<disk, cache>>
  BY DEF SaveIndex
<1>5. ASSUME NEW f \in Files
      PROVE  /\ idx.hash[f] <= idx'.hash[f] /\ idx'.hash[f] <= disk[f]
             /\ idx'.syms[f] <= disk[f]
             /\ idx'.hash[f] = disk[f] => idx'.syms[f] = disk[f]
  <2>1. /\ disk[f] \in Nat /\ idx.hash[f] \in Nat /\ idx.syms[f] \in Nat
        /\ j.hash[f] \in Nat /\ j.content[f] \in Nat
    BY <1>1, Numbers
  <2>2. /\ idx'.hash[f] = IF f \in j.files /\ j.content[f] # 0 THEN j.hash[f] ELSE idx.hash[f]
        /\ idx'.syms[f] = IF f \in j.files THEN j.content[f] ELSE idx.syms[f]
    BY DEF SaveIndex
  <2>3. /\ idx.hash[f] <= disk[f] /\ idx.syms[f] <= disk[f]
        /\ idx.hash[f] = disk[f] => idx.syms[f] = disk[f]
    BY DEF T6Inv, RowsCurrent
  <2>4. f \in j.files => /\ idx.hash[f] <= j.hash[f] /\ j.hash[f] <= disk[f]
                         /\ j.content[f] <= disk[f]
                         /\ j.content[f] = 0 => idx.hash[f] < disk[f]
    BY DEF T6Inv, CallReads, Reads, HasRead, SaveIndex
  <2>5. f \in j.files => j.content[f] = 0 \/ j.hash[f] <= j.content[f]
    BY DEF T7Inv, JobContent, SaveIndex
  <2> HIDE DEF j
  <2>6. QED BY <2>1, <2>2, <2>3, <2>4, <2>5
<1>6. RowsCurrent'
  BY <1>4, <1>5 DEF T6Inv, RowsCurrent
<1>7. CacheBehind'
  <2>1. ASSUME NEW f \in Files PROVE cache[f] <= idx'.hash[f]
    <3>1. cache[f] <= idx.hash[f] /\ idx.hash[f] <= idx'.hash[f] /\ idx'.hash[f] <= disk[f]
      BY <1>5 DEF T6Inv, CacheBehind
    <3>2. cache[f] \in Nat /\ idx.hash[f] \in Nat /\ disk[f] \in Nat
      BY <1>1, Numbers
    <3>3. idx'.hash[f] \in Nat
      <4>1. idx'.hash[f] = j.hash[f] \/ idx'.hash[f] = idx.hash[f]
        BY DEF SaveIndex
      <4>2. QED BY <1>1, <4>1, Numbers
    <3>4. QED BY <3>1, <3>2, <3>3
  <2>2. QED BY <1>4, <2>1 DEF CacheBehind
<1>8. CallReads'
  <2>1. \A v \in Workers : job'[v].pc \notin HasRead \cup {"read", "detect"}
    BY <1>2, <1>3 DEF HasRead
  <2>2. QED BY <2>1 DEF CallReads, Reads, HasRead
<1>9. Summarized'
  <2>1. CASE thr' = thr
    BY <1>4, <2>1 DEF T6Inv, Summarized, Live
  <2>2. ASSUME NEW t \in Threads, j.kind = "fast",
               thr' = [thr EXCEPT ![t] = [pc |-> "check1", gen |-> j.gen,
                                          files |-> j.files, content |-> j.content]]
        PROVE  Summarized'
    <3>1. \A f \in j.files : j.content[f] # 0 /\ j.content[f] <= disk[f]
      BY <2>2 DEF T6Inv, CallReads, Reads, HasRead, SaveIndex
    <3>2. /\ thr'[t].files = j.files /\ thr'[t].content = j.content
          /\ \A u \in Threads : u # t => thr'[u] = thr[u]
      BY <1>1, <2>2 DEF TypeOK
    <3>3. QED BY <1>4, <3>1, <3>2 DEF T6Inv, Summarized, Live
  <2>3. QED BY <2>1, <2>2 DEF SaveIndex
<1>10. QED BY <1>6, <1>7, <1>8, <1>9 DEF T6Inv

\* A summariser ends or goes on with the rows it has.
LEMMA ThreadT6 ==
  ASSUME T7Inv, T6Inv, NEW t \in Threads, ThreadStep(t), ~SaveSummaries(t)
  PROVE  T6Inv'
<1>1. UNCHANGED <<disk, idx, cache, job>>
  BY DEF ThreadStep, Check1, NothingSummarized, Check2
<1>2. /\ \A u \in Threads : u # t => thr'[u] = thr[u]
      /\ Live(t)' => /\ Live(t) /\ thr'[t].files = thr[t].files
                     /\ thr'[t].content = thr[t].content
  BY DEF ThreadStep, Check1, NothingSummarized, Check2, Live, T7Inv, TypeOK, Summarizer, IdleThr
<1>3. Summarized'
  BY <1>1, <1>2 DEF T6Inv, Summarized, Live
<1>4. RowsCurrent' /\ CacheBehind' /\ CallReads'
  BY <1>1 DEF T6Inv, RowsCurrent, CacheBehind, CallReads, Reads
<1>5. QED BY <1>3, <1>4 DEF T6Inv

\* The deferred save: rows not older than the recorded hash, by T7, and not newer
\* than the disk.
LEMMA DeferredT6 ==
  ASSUME T7Inv, T6Inv, NEW t \in Threads, SaveSummaries(t)
  PROVE  T6Inv'
<1>1. TypeOK /\ idx \in Index
  BY DEF T7Inv, TypeOK
<1>2. UNCHANGED <<disk, cache, job>> /\ idx'.hash = idx.hash
  BY <1>1 DEF SaveSummaries, Index
<1>3. Live(t) /\ thr[t].gen = st.generation
  BY DEF SaveSummaries, Live, T7Inv, GenerationFixedWhileSaving
<1>4. ASSUME NEW f \in Files
      PROVE  idx'.syms[f] <= disk[f] /\ (idx.hash[f] = disk[f] => idx'.syms[f] = disk[f])
  <2>1. disk[f] \in Nat /\ idx.hash[f] \in Nat /\ idx.syms[f] \in Nat /\ thr[t].content[f] \in Nat
    BY <1>1, Numbers
  <2>2. \/ idx'.syms[f] = idx.syms[f]
        \/ f \in thr[t].files /\ idx'.syms[f] = thr[t].content[f]
    BY <1>1 DEF SaveSummaries, Index
  <2>3. /\ idx.hash[f] <= disk[f] /\ idx.syms[f] <= disk[f]
        /\ idx.hash[f] = disk[f] => idx.syms[f] = disk[f]
    BY DEF T6Inv, RowsCurrent
  <2>4. f \in thr[t].files => /\ thr[t].content[f] # 0 /\ thr[t].content[f] <= disk[f]
                              /\ thr[t].content[f] = 0 \/ idx.hash[f] <= thr[t].content[f]
    BY <1>3 DEF T6Inv, Summarized, T7Inv, ThreadsBehind
  <2>5. QED BY <2>1, <2>2, <2>3, <2>4
<1>5. RowsCurrent'
  BY <1>2, <1>4 DEF T6Inv, RowsCurrent
<1>6. CacheBehind' /\ CallReads'
  BY <1>2 DEF T6Inv, CacheBehind, CallReads, Reads
<1>7. Summarized'
  <2>1. \A u \in Threads : Live(u)' => thr'[u] = thr[u] /\ Live(u)
    BY <1>1 DEF SaveSummaries, TypeOK, IdleThr, Live
  <2>2. QED BY <1>2, <2>1 DEF T6Inv, Summarized
<1>8. QED BY <1>5, <1>6, <1>7 DEF T6Inv

LEMMA StepT6 ==
  ASSUME SoleWriter, T7Inv, TypeOK', T6Inv, [Next]_vars
  PROVE  T6Inv'
<1>1. TypeOK /\ CacheBehind
  BY DEF T7Inv, T6Inv
<1>2. disk \in [Files -> Nat] /\ idx.hash \in [Files -> Nat]
  BY <1>1, Numbers
<1>3. CASE UNCHANGED vars
  <2>1. \A f \in Files : disk[f] <= disk'[f]
    BY <1>2, <1>3 DEF vars
  <2>2. QED BY <1>1, <1>3, <2>1, EditT6 DEF vars
<1>4. ASSUME NEW f \in Files, Edit(f)
      PROVE  T6Inv'
  <2>1. \A g \in Files : disk[g] <= disk'[g]
    BY <1>2, <1>4 DEF Edit
  <2>2. QED BY <1>1, <1>4, <2>1, EditT6 DEF Edit
\* The loop forgets its cache, keeps it, or takes the hashes of the index.
<1>5. CASE StartLoop \/ RecordCrash
  <2>1. \A f \in Files : cache'[f] = 0 /\ 0 <= idx.hash[f]
    BY <1>2, <1>5 DEF StartLoop, RecordCrash, NoRows
  <2>2. \A f \in Files : cache'[f] <= idx.hash[f]
    BY <2>1
  <2>3. QED BY <1>1, <1>5, <2>2, LoopT6 DEF StartLoop, RecordCrash
<1>6. CASE RebuildCache
  BY <1>1, <1>6, LoopT6, LoadedBehind DEF RebuildCache
<1>7. CASE DependencyMissing \/ InitialIndexDone
  BY <1>1, <1>7, LoopT6 DEF DependencyMissing, InitialIndexDone, CacheBehind
<1>8. CASE StartInitialIndex
  <2>1. PICK w \in Workers : Submit(w, Watch, "full", {}, NoRows)
    BY <1>8 DEF StartInitialIndex
  <2>2. \A v \in Workers : job'[v] = job[v] \/ Reads(job'[v])
    BY <1>1, <2>1, SubmitReads
  <2>3. QED BY <1>1, <1>8, <2>2, LoopT6 DEF StartInitialIndex, CacheBehind
<1>9. CASE StartEventReindex
  <2>1. PICK w \in Workers : Submit(w, Watch, "fast", dirty, cache)
    BY <1>9 DEF StartEventReindex
  <2>2. \A v \in Workers : job'[v] = job[v] \/ Reads(job'[v])
    BY <1>1, <2>1, SubmitReads
  <2>3. QED BY <1>1, <1>9, <2>2, LoopT6 DEF StartEventReindex, CacheBehind
<1>10. ASSUME NEW w \in Workers, ResultStep(w)
      PROVE  T6Inv'
  <2>1. UNCHANGED <<disk, idx, thr>> /\ job' = [job EXCEPT ![w] = IdleJob]
    BY <1>10 DEF ResultStep, InitialIndexReturned, EventReindexReturned, EnsureReturned,
                 ToolReturned
  <2>2. \A v \in Workers : job'[v] = job[v] \/ Reads(job'[v])
    <3>1. \A v \in Workers : job'[v] = job[v] \/ job'[v] = IdleJob
      BY <1>1, <2>1 DEF TypeOK
    <3>2. QED BY <3>1, IdleReads
  <2>3. cache' = cache \/ cache' \in LoadedHashes
    BY <1>10 DEF ResultStep, InitialIndexReturned, EventReindexReturned, EnsureReturned,
                 ToolReturned
  <2>4. \A f \in Files : cache'[f] <= idx.hash[f]
    BY <1>1, <2>3, LoadedBehind DEF CacheBehind
  <2>5. QED BY <1>1, <2>1, <2>2, <2>4, LoopT6
<1>11. ASSUME NEW w \in Workers, FailJob(w)
      PROVE  T6Inv'
  <2>1. /\ \A v \in Workers : v # w => job'[v] = job[v]
        /\ job'[w].pc \notin HasRead \cup {"read", "detect"}
    BY <1>1, <1>11, ReturnReads DEF FailJob
  <2>2. Reads(job'[w])
    BY <2>1 DEF Reads, HasRead
  <2>3. QED BY <1>1, <1>11, <2>1, <2>2, CallT6 DEF FailJob
<1>12. ASSUME NEW w \in Workers, WorkerStep(w)
      PROVE  T6Inv'
  BY <1>12, WorkerT6, SaveT6
<1>13. ASSUME NEW t \in Threads, ThreadStep(t)
      PROVE  T6Inv'
  BY <1>13, ThreadT6, DeferredT6
<1>14. QED
  BY <1>3, <1>4, <1>5, <1>6, <1>7, <1>8, <1>9, <1>10, <1>11, <1>12, <1>13
  DEF Next, LoopStep, SoleWriter, CancelLoop

\* T6, when the watch loop is the repository's only reindexer and is never
\* cancelled: a file whose cached hash is that of the file on disk, and which the
\* fast path will skip for it, has its rows in the index.
THEOREM T6 == SoleWriter /\ Spec => []SkippedOnlyIfCurrent
<1> SUFFICES ASSUME SoleWriter PROVE Spec => []SkippedOnlyIfCurrent
  OBVIOUS
<1>1. T7Inv /\ TypeOK' /\ GenerationFixedWhileSaving' /\ [Next]_vars => T7Inv'
  BY StepT7
<1>2. T7Inv /\ TypeOK' /\ T6Inv /\ [Next]_vars => T6Inv'
  BY StepT6
<1>3. T7Inv /\ T6Inv => SkippedOnlyIfCurrent
  <2> SUFFICES ASSUME T7Inv, T6Inv, NEW w \in Workers, job[w].pc = "read",
                      job[w].kind = "fast", NEW f \in job[w].files, job[w].old[f] = disk[f]
               PROVE  idx.syms[f] = disk[f]
    BY DEF SkippedOnlyIfCurrent
  <2>1. TypeOK
    BY DEF T7Inv
  <2>2. f \in Files /\ disk[f] \in Nat /\ idx.hash[f] \in Nat
    BY <2>1, Numbers
  <2>3. disk[f] <= idx.hash[f]
    BY <2>2 DEF T6Inv, CallReads, Reads
  <2>4. idx.hash[f] <= disk[f] /\ (idx.hash[f] = disk[f] => idx.syms[f] = disk[f])
    BY <2>2 DEF T6Inv, RowsCurrent
  <2>5. QED BY <2>2, <2>3, <2>4
<1>4. QED BY TypeCorrect, GenerationFixed, InitT7, InitT6, <1>1, <1>2, <1>3, PTL DEF Spec

----------------------------------------------------------------------------
(* The index and the disk, for the watch loop on its own when nothing fails *)

\* What FreshWhenReportedFresh needs besides SoleWriter: no call fails, and no file
\* is edited before the loop has subscribed to its events.  (reindex_forgotten.cfg
\* and reindex_gap.cfg show what happens otherwise.)
Undisturbed == CanFail = FALSE /\ QuietStart = TRUE

Starting == {"off", "init", "initWait", "initDone"}
Parsed   == {"stat", "compare", "capture", "save"}

Settled(f) == idx.hash[f] = disk[f]

\* What a call has still to do, but for the files that were edited since and are
\* buffered for the next one: it was handed every file the index does not have, it
\* has read them, it has saved them.  Only the initial index walks the files.
Owes(j) ==
    /\ j.pc # "failed"
    /\ j.pc = "read" =>
          IF j.kind = "full" THEN loop = "initWait"
          ELSE \A f \in Files \ dirty : f \in j.files \/ Settled(f)
    /\ j.pc = "detect" => loop = "initWait"
    /\ j.pc \in HasRead => \A f \in Files \ dirty :
          IF f \in j.files THEN j.hash[f] = disk[f] ELSE Settled(f)
    /\ j.pc \in Parsed => \A f \in j.files : j.content[f] # 0
    /\ j.pc \in {"ok", "nochange"} => \A f \in Files \ dirty : Settled(f)

\* Before the loop listens nobody edits, so that the index has a file's content or
\* nothing of it; while it listens, what the index does not have is buffered.
NothingMissed ==
    /\ loop \notin {"crashed", "fatal"}
    /\ loop \in Starting => dirty = {} /\ \A f \in Files : idx.hash[f] = 0 \/ Settled(f)
    /\ loop \in {"initDone", "listen", "rebuild"} => \A f \in Files \ dirty : Settled(f)
    /\ \A w \in Workers : Owes(job[w])

LEMMA InitMissed == Init => NothingMissed
<1> SUFFICES ASSUME Init PROVE NothingMissed
  OBVIOUS
<1>1. PICK rows \in {NoRows, disk} : idx = [hash |-> rows, mtime |-> rows, syms |-> rows]
  BY DEF Init
<1>2. \A f \in Files : idx.hash[f] = 0 \/ Settled(f)
  BY <1>1 DEF NoRows, Settled
<1>3. \A w \in Workers : Owes(job[w])
  BY DEF Init, IdleJob, Owes, HasRead, Parsed
<1>4. QED BY <1>2, <1>3 DEF Init, NothingMissed, Starting

\* A call that returns has nothing to do but what was edited, and a slot nobody
\* uses has nothing at all.
LEMMA OwesAtEnd ==
  ASSUME NEW j, j.pc \in {"idle", "ok", "nochange"},
         j.pc # "idle" => \A f \in Files \ dirty : Settled(f)
  PROVE  Owes(j)
  BY DEF Owes, HasRead, Parsed

LEMMA ReturnOwes ==
  ASSUME TypeOK, NEW w \in Workers, NEW r \in {"ok", "nochange"}, Return(w, r)
  PROVE  /\ \A v \in Workers : v # w => job'[v] = job[v]
         /\ job'[w].pc \in {"idle", "ok", "nochange"}
  BY DEF Return, TypeOK, IdleJob

\* A step that changes neither the recorded hashes, nor the disk, nor the loop leaves
\* what is owed, but for what the one call owes that takes it.
LEMMA CallMissed ==
  ASSUME NothingMissed, NEW w \in Workers, UNCHANGED <<disk, loop, dirty>>,
         idx'.hash = idx.hash,
         \A v \in Workers : v # w => job'[v] = job[v], Owes(job'[w])
  PROVE  NothingMissed'
<1>1. \A v \in Workers : Owes(job'[v])
  BY DEF NothingMissed
<1>2. \A v \in Workers : Owes(job[v])'
  BY <1>1 DEF Owes, Settled
<1>3. QED BY <1>2 DEF NothingMissed, Settled

\* An edit is buffered.
LEMMA EditMissed ==
  ASSUME Undisturbed, TypeOK, NothingMissed, NEW e \in Files, Edit(e)
  PROVE  NothingMissed'
<1>1. /\ loop \in {"listen", "eventWait", "rebuild"} /\ dirty' = dirty \cup {e}
      /\ \A f \in Files : f # e => disk'[f] = disk[f]
      /\ UNCHANGED <<idx, loop, job>>
  BY DEF Undisturbed, Edit, Subscribed, TypeOK
<1>2. \A f \in Files \ dirty' : f \in Files \ dirty /\ disk'[f] = disk[f] /\ (Settled(f) => Settled(f)')
  BY <1>1 DEF Settled
<1>3. ASSUME NEW w \in Workers PROVE Owes(job[w])'
  <2>1. Owes(job[w])
    BY DEF NothingMissed
  <2>2. QED BY <1>1, <1>2, <2>1 DEF Owes
<1>4. QED BY <1>1, <1>2, <1>3 DEF NothingMissed, Starting

\* A call reads.
LEMMA WorkerMissed ==
  ASSUME Undisturbed, T7Inv, T6Inv, NothingMissed, NEW w \in Workers, WorkerStep(w),
         ~SaveIndex(w)
  PROVE  NothingMissed'
<1>1. TypeOK /\ job[w] \in Job /\ job \in [Workers -> Job]
  BY DEF T7Inv, TypeOK
<1>2. Owes(job[w]) /\ Reads(job[w])
  BY DEF NothingMissed, T6Inv, CallReads
<1>3. UNCHANGED <<disk, idx, loop, dirty>>
  BY DEF WorkerStep, StatAll, DetectChanges, Reread, ReadChanged, StatAfterRead,
         CompareWithIndex, CaptureGeneration
<1>4. \A F \in SUBSET Files : \A f \in F : f \in Files /\ OnDisk(F)[f] = disk[f]
  BY DEF OnDisk
<1>5. \A f \in Files : disk[f] # 0 /\ disk[f] \in Nat /\ idx.hash[f] \in Nat
  BY <1>1, Numbers, HashBehind DEF T6Inv
<1>6. SUFFICES /\ \A v \in Workers : v # w => job'[v] = job[v]
               /\ Owes(job'[w])
  BY <1>3, CallMissed
<1>7. CASE StatAll(w)
  <2>1. /\ job'[w].pc = "detect" /\ job[w].pc = "read" /\ job[w].kind = "full"
        /\ \A v \in Workers : v # w => job'[v] = job[v]
    BY <1>1, <1>7 DEF StatAll, Job
  <2>2. loop = "initWait"
    BY <1>2, <2>1 DEF Owes
  <2>3. QED BY <2>1, <2>2 DEF Owes, HasRead, Parsed
\* The files whose content the index does not have have no rows in it, so that the
\* walk suspects them all.
<1>8. CASE DetectChanges(w)
  <2> DEFINE suspect == {f \in Files : idx.hash[f] = 0 \/ job[w].mtime[f] # idx.mtime[f]}
             changed == {f \in suspect : disk[f] # idx.hash[f]}
  <2>1. loop = "initWait"
    BY <1>2, <1>8 DEF Owes, DetectChanges
  <2>2. \A f \in Files : f \in changed \/ Settled(f)
    BY <1>5, <2>1 DEF NothingMissed, Starting, Settled
  <2>3. CASE changed = {} /\ Return(w, "nochange")
    <3>1. \A f \in Files : Settled(f)
      BY <2>2, <2>3
    <3>2. QED BY <1>1, <2>3, <3>1, ReturnOwes, OwesAtEnd
  <2>4. CASE job' = [job EXCEPT ![w] = [@ EXCEPT
                !.pc = "reread", !.files = changed, !.hash = OnDisk(changed)]]
    <3>1. /\ job'[w].pc = "reread" /\ job'[w].files = changed
          /\ job'[w].hash = OnDisk(changed)
          /\ \A v \in Workers : v # w => job'[v] = job[v]
      BY <1>1, <2>4 DEF Job
    <3>2. \A f \in changed : OnDisk(changed)[f] = disk[f]
      BY <1>4
    <3> HIDE DEF changed
    <3>3. QED BY <2>2, <3>1, <3>2 DEF Owes, HasRead, Parsed
  <2>5. QED BY <1>8, <2>3, <2>4 DEF DetectChanges
<1>9. CASE Reread(w)
  <2>1. PICK unread \in SUBSET job[w].files : Reread(w)!(unread)
    BY <1>9 DEF Reread
  <2>2. unread = {}
    BY <2>1 DEF Undisturbed
  <2>3. /\ job'[w].pc = "save" /\ job[w].pc = "reread" /\ job'[w].files = job[w].files
        /\ job'[w].hash = job[w].hash /\ job'[w].content = OnDisk(job[w].files)
        /\ \A v \in Workers : v # w => job'[v] = job[v]
    BY <1>1, <2>1, <2>2 DEF Job
  <2>4. \A f \in job[w].files : OnDisk(job[w].files)[f] # 0
    BY <1>1, <1>4, <1>5 DEF Job
  <2>5. QED BY <1>2, <2>3, <2>4 DEF Owes, HasRead, Parsed
\* The fast path drops a file whose hash it was handed; that hash is not newer than
\* the index, nor the index than the disk.
<1>10. CASE ReadChanged(w)
  <2>1. PICK unread \in SUBSET job[w].files : ReadChanged(w)!(unread)
    BY <1>10 DEF ReadChanged
  <2> DEFINE seen    == job[w].files \ unread
             changed == {f \in seen : job[w].kind = "file" \/ disk[f] # job[w].old[f]}
  <2>2. unread = {}
    BY <2>1 DEF Undisturbed
  <2>3. /\ job'[w].pc = "stat" /\ job[w].pc = "read" /\ job'[w].files = changed
        /\ job'[w].hash = OnDisk(changed) /\ job'[w].content = OnDisk(changed)
        /\ \A v \in Workers : v # w => job'[v] = job[v]
    BY <1>1, <2>1 DEF Job
  <2>4. changed \in SUBSET Files
    BY <1>1 DEF Job
  <2>5. \A f \in changed : OnDisk(changed)[f] = disk[f] /\ OnDisk(changed)[f] # 0
    BY <1>4, <1>5, <2>4
  <2>6. \A f \in job[w].files : f \in changed \/ Settled(f)
    <3> SUFFICES ASSUME NEW f \in job[w].files, f \notin changed PROVE Settled(f)
      OBVIOUS
    <3>1. disk[f] = job[w].old[f] /\ f \in Files
      BY <1>1, <2>2 DEF Job
    <3>2. job[w].old[f] <= idx.hash[f] /\ idx.hash[f] <= disk[f]
      BY <1>2, <2>3, <3>1 DEF Reads, T6Inv, RowsCurrent
    <3>3. QED BY <1>5, <3>1, <3>2 DEF Settled
  <2>7. \A f \in Files \ dirty : f \in job[w].files \/ Settled(f)
    BY <1>2, <2>1 DEF Owes
  <2> HIDE DEF changed
  <2>8. QED BY <2>3, <2>5, <2>6, <2>7 DEF Owes, HasRead, Parsed
<1>11. CASE StatAfterRead(w)
  <2>1. /\ job'[w].pc \in {"compare", "save", "capture"} /\ job[w].pc = "stat"
        /\ job'[w].files = job[w].files /\ job'[w].hash = job[w].hash
        /\ job'[w].content = job[w].content
        /\ \A v \in Workers : v # w => job'[v] = job[v]
    BY <1>1, <1>11 DEF StatAfterRead, Job
  <2>2. QED BY <1>2, <2>1 DEF Owes, HasRead, Parsed
<1>12. CASE CompareWithIndex(w)
  <2>1. /\ job'[w].pc = "save" /\ job[w].pc = "compare"
        /\ job'[w].files \subseteq job[w].files /\ job'[w].hash = job[w].hash
        /\ \A f \in job[w].files : f \in job'[w].files \/ job[w].hash[f] = idx.hash[f]
        /\ job'[w].content = job[w].content
        /\ \A v \in Workers : v # w => job'[v] = job[v]
    BY <1>1, <1>12 DEF CompareWithIndex, Job
  <2>2. QED BY <1>2, <2>1 DEF Owes, HasRead, Parsed, Settled
<1>13. CASE CaptureGeneration(w)
  <2>1. /\ job'[w].pc = "save" /\ job[w].pc = "capture"
        /\ job'[w].files = job[w].files /\ job'[w].hash = job[w].hash
        /\ job'[w].content = job[w].content
        /\ \A v \in Workers : v # w => job'[v] = job[v]
    BY <1>1, <1>13 DEF CaptureGeneration, Job
  <2>2. QED BY <1>2, <2>1 DEF Owes, HasRead, Parsed
<1>14. QED BY <1>7, <1>8, <1>9, <1>10, <1>11, <1>12, <1>13 DEF WorkerStep

\* A call saves what it owes.
LEMMA SaveMissed ==
  ASSUME Undisturbed, T7Inv, NothingMissed, NEW w \in Workers, SaveIndex(w)
  PROVE  NothingMissed'
<1> DEFINE j == job[w]
<1>1. TypeOK /\ j \in Job /\ j.pc = "save"
  BY DEF T7Inv, TypeOK, SaveIndex
<1>2. PICK r \in {"ok", "nochange"} : Return(w, r)
  BY DEF Undisturbed, SaveIndex
<1>3. /\ UNCHANGED <<disk, loop, dirty>> /\ loop \in {"initWait", "eventWait"}
      /\ \A v \in Workers : v # w => job[v].pc = "idle" /\ job'[v] = job[v]
      /\ job'[w].pc \in {"idle", "ok", "nochange"}
  BY <1>1, <1>2, ReturnOwes DEF SaveIndex, T7Inv, OneCall
<1>4. ASSUME NEW f \in Files
      PROVE  idx'.hash[f] = IF f \in j.files THEN j.hash[f] ELSE idx.hash[f]
  <2>1. f \in j.files => j.content[f] # 0
    BY <1>1 DEF NothingMissed, Owes, Parsed
  <2>2. idx'.hash[f] = IF f \in j.files /\ j.content[f] # 0 THEN j.hash[f] ELSE idx.hash[f]
    BY DEF SaveIndex
  <2>3. QED BY <2>1, <2>2
<1>5. \A f \in Files \ dirty : IF f \in j.files THEN j.hash[f] = disk[f] ELSE Settled(f)
  BY <1>1 DEF NothingMissed, Owes, HasRead
<1>6. \A f \in Files \ dirty : Settled(f)'
  BY <1>3, <1>4, <1>5 DEF Settled
<1>7. \A v \in Workers : job'[v].pc \in {"idle", "ok", "nochange"}
  BY <1>3
<1>8. \A v \in Workers : Owes(job[v])'
  BY <1>3, <1>6, <1>7 DEF Owes, HasRead, Parsed
<1>9. loop = "initWait" => dirty = {}
  BY DEF NothingMissed, Starting
<1>10. QED BY <1>3, <1>6, <1>8, <1>9 DEF NothingMissed, Starting

\* The loop hands a new call every file the index may not have.
LEMMA StartMissed ==
  ASSUME T7Inv, NothingMissed, StartInitialIndex \/ StartEventReindex
  PROVE  NothingMissed'
<1>1. TypeOK
  BY DEF T7Inv
<1>2. UNCHANGED <<disk, idx>>
  BY DEF StartInitialIndex, StartEventReindex
<1>3. CASE StartInitialIndex
  <2>1. PICK w \in Workers : Submit(w, Watch, "full", {}, NoRows)
    BY <1>3 DEF StartInitialIndex
  <2>2. /\ job'[w].pc = "read" /\ job'[w].kind = "full"
        /\ \A v \in Workers : v # w => job'[v] = job[v] /\ job[v].pc = "idle"
    BY <1>1, <1>3, <2>1 DEF Submit, TypeOK, IdleJob, T7Inv, OneCall, StartInitialIndex
  <2>3. loop = "init" /\ loop' = "initWait" /\ dirty' = dirty
    BY <1>3 DEF StartInitialIndex
  <2>4. \A v \in Workers : Owes(job[v])'
    BY <2>2, <2>3 DEF Owes, HasRead, Parsed
  <2>5. QED BY <1>2, <2>3, <2>4 DEF NothingMissed, Starting, Settled
<1>4. CASE StartEventReindex
  <2>1. PICK w \in Workers : Submit(w, Watch, "fast", dirty, cache)
    BY <1>4 DEF StartEventReindex
  <2>2. /\ job'[w].pc = "read" /\ job'[w].kind = "fast" /\ job'[w].files = dirty
        /\ \A v \in Workers : v # w => job'[v] = job[v] /\ job[v].pc = "idle"
    BY <1>1, <1>4, <2>1 DEF Submit, TypeOK, IdleJob, T7Inv, OneCall, StartEventReindex
  <2>3. loop = "listen" /\ loop' = "eventWait" /\ dirty' = {}
    BY <1>4 DEF StartEventReindex
  <2>4. \A f \in Files : f \in dirty \/ Settled(f)'
    BY <1>2, <2>3 DEF NothingMissed, Settled
  <2>5. \A v \in Workers : Owes(job[v])'
    BY <2>2, <2>3, <2>4 DEF Owes, HasRead, Parsed
  <2>6. QED BY <2>3, <2>5 DEF NothingMissed, Starting
<1>5. QED BY <1>3, <1>4

\* The loop takes a result: what the call owed it has saved.
LEMMA ResultMissed ==
  ASSUME SoleWriter, T7Inv, NothingMissed, NEW w \in Workers, ResultStep(w)
  PROVE  NothingMissed'
<1>1. TypeOK
  BY DEF T7Inv
<1>2. InitialIndexReturned(w) \/ EventReindexReturned(w)
  BY DEF ResultStep, EnsureReturned, ToolReturned, SoleWriter
<1>3. /\ UNCHANGED <<disk, idx, dirty>> /\ job' = [job EXCEPT ![w] = IdleJob]
      /\ job[w].pc \in {"ok", "nochange", "failed"}
  BY <1>2 DEF InitialIndexReturned, EventReindexReturned, Returned
<1>4. job[w].pc # "failed" /\ \A f \in Files \ dirty : Settled(f)
  BY <1>3 DEF NothingMissed, Owes
<1>5. \/ loop = "initWait" /\ loop' = "initDone"
      \/ loop = "eventWait" /\ loop' \in {"listen", "rebuild"}
  BY <1>2, <1>4 DEF InitialIndexReturned, EventReindexReturned
<1>6. \A v \in Workers : job'[v].pc = "idle"
  BY <1>1, <1>3 DEF TypeOK, T7Inv, OneCall, IdleJob
<1>7. \A v \in Workers : Owes(job[v])'
  BY <1>6 DEF Owes, HasRead, Parsed
<1>8. QED BY <1>3, <1>4, <1>5, <1>7 DEF NothingMissed, Starting, Settled

LEMMA StepMissed ==
  ASSUME SoleWriter, Undisturbed, T7Inv, T6Inv, NothingMissed, [Next]_vars
  PROVE  NothingMissed'
<1>1. TypeOK /\ OneCall
  BY DEF T7Inv
<1>2. CASE UNCHANGED vars
  BY <1>2 DEF vars, NothingMissed, Owes, Settled
<1>3. ASSUME NEW f \in Files, Edit(f)
      PROVE  NothingMissed'
  BY <1>1, <1>3, EditMissed
<1>4. ASSUME NEW w \in Workers, WorkerStep(w)
      PROVE  NothingMissed'
  BY <1>4, WorkerMissed, SaveMissed
<1>5. ASSUME NEW w \in Workers, ResultStep(w)
      PROVE  NothingMissed'
  BY <1>5, ResultMissed
<1>6. ASSUME NEW t \in Threads, ThreadStep(t)
      PROVE  NothingMissed'
  <2>1. UNCHANGED <<disk, loop, dirty, job>> /\ idx'.hash = idx.hash
    BY <1>1, <1>6 DEF ThreadStep, Check1, NothingSummarized, Check2, SaveSummaries, TypeOK, Index
  <2>2. QED BY <2>1 DEF NothingMissed, Owes, Settled
<1>7. CASE StartLoop \/ InitialIndexDone \/ RebuildCache
  <2>1. UNCHANGED <<disk, idx, dirty, job>>
    BY <1>7 DEF StartLoop, InitialIndexDone, RebuildCache
  <2>2. \/ loop = "off" /\ loop' = "init"
        \/ loop \in {"initDone", "rebuild"} /\ loop' = "listen"
    BY <1>7 DEF StartLoop, InitialIndexDone, RebuildCache
  <2>3. \A w \in Workers : job[w].pc = "idle"
    BY <1>1, <2>2 DEF OneCall
  <2>4. \A w \in Workers : Owes(job[w])'
    BY <2>1, <2>3 DEF Owes, HasRead, Parsed
  <2>5. QED BY <2>1, <2>2, <2>4 DEF NothingMissed, Starting, Settled
<1>8. CASE StartInitialIndex \/ StartEventReindex
  BY <1>8, StartMissed
\* What Undisturbed and SoleWriter exclude.
<1>9. ~DependencyMissing /\ ~RecordCrash /\ ~CancelLoop /\ \A w \in Workers : ~FailJob(w)
  BY DEF DependencyMissing, RecordCrash, CancelLoop, FailJob, Undisturbed, SoleWriter,
         NothingMissed
<1>10. QED
  BY <1>2, <1>3, <1>4, <1>5, <1>6, <1>7, <1>8, <1>9 DEF Next, LoopStep, SoleWriter

\* mark_reindex_done's "index is now fresh", when the watch loop is the only
\* reindexer, no call fails and the first edit comes after the subscription: whenever
\* the loop listens and has nothing buffered, the hashes and the symbol rows of the
\* index are those of the disk, whatever edits came during the reindexes before.
THEOREM ReportedFresh == SoleWriter /\ Undisturbed /\ Spec => []FreshWhenReportedFresh
<1> SUFFICES ASSUME SoleWriter, Undisturbed PROVE Spec => []FreshWhenReportedFresh
  OBVIOUS
<1>1. T7Inv /\ TypeOK' /\ GenerationFixedWhileSaving' /\ [Next]_vars => T7Inv'
  BY StepT7
<1>2. T7Inv /\ TypeOK' /\ T6Inv /\ [Next]_vars => T6Inv'
  BY StepT6
<1>3. T7Inv /\ T6Inv /\ NothingMissed /\ [Next]_vars => NothingMissed'
  BY StepMissed
<1>4. T7Inv /\ T6Inv /\ NothingMissed => FreshWhenReportedFresh
  <2> SUFFICES ASSUME T7Inv, T6Inv, NothingMissed, loop = "listen", dirty = {}
               PROVE  idx.hash = disk /\ idx.syms = disk
    BY DEF FreshWhenReportedFresh
  <2>1. TypeOK
    BY DEF T7Inv
  <2>2. disk \in [Files -> Nat] /\ idx.hash \in [Files -> Nat] /\ idx.syms \in [Files -> Nat]
    BY <2>1, Numbers
  <2>3. \A f \in Files : idx.hash[f] = disk[f]
    BY DEF NothingMissed, Settled
  <2>4. \A f \in Files : idx.syms[f] = disk[f]
    BY <2>3 DEF T6Inv, RowsCurrent
  <2>5. QED BY <2>2, <2>3, <2>4
<1>5. QED BY TypeCorrect, GenerationFixed, InitT7, InitT6, InitMissed, <1>1, <1>2, <1>3, <1>4,
             PTL DEF Spec
=============================================================================
