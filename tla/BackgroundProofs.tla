-------------------------- MODULE BackgroundProofs --------------------------
(***************************************************************************)
(* Proofs about what runs beside the calls.  Summarizer, for any batches,  *)
(* threads and limit of failures: once the breaker has tripped fewer       *)
(* requests go out than there are threads.  LspBridge, for any languages,  *)
(* and whatever ids the children give their own requests: at most one      *)
(* child outlives the bridge, and that one has accepted the handshake.     *)
(* And the types of both and of WorktreeWatcher.                           *)
(***************************************************************************)
EXTENDS MCBackground, FiniteSetTheorems, TLAPS


----------------------------------------------------------------------------
(* The summarizer *)

\* The batches that are at some place.
At(places) == {b \in Batches : batch[b] \in places}

\* A batch that has looked at the breaker before it tripped may still be sent; the one
\* that tripped it ran beside those.
Late ==
    IF broken THEN sentLate + Cardinality(At({"looked"})) < Workers ELSE sentLate = 0

SummaryInv == SummaryTypeOK /\ Late

\* No batch has been given to the pool.
LEMMA SummaryInitInv == SummaryInit => SummaryInv
<1> SUFFICES ASSUME SummaryInit PROVE SummaryInv
  OBVIOUS
<1>1. {b \in Batches : batch[b] \in Running} = {}
  BY DEF SummaryInit, Running
<1>2. Cardinality({b \in Batches : batch[b] \in Running}) <= Workers
  BY <1>1, FS_EmptySet, SummarizerAssumption
<1>3. SummaryTypeOK
  BY <1>2 DEF SummaryInit, SummaryTypeOK
<1>4. QED BY <1>3 DEF SummaryInit, SummaryInv, Late

\* Sets of batches are finite.
LEMMA Finite ==
  ASSUME NEW S, S \subseteq Batches
  PROVE  IsFiniteSet(S) /\ Cardinality(S) \in Nat
  BY SummarizerAssumption, FS_Subset, FS_CardinalityType

\* Fewer batches are no more.
LEMMA Fewer ==
  ASSUME NEW S, NEW R, S \subseteq R, R \subseteq Batches
  PROVE  Cardinality(S) <= Cardinality(R)
  BY Finite, FS_Subset

\* A batch that goes from one place of the pool to another, or leaves it.
LEMMA MoveKeepsPool ==
  ASSUME SummaryTypeOK, NEW b \in Batches, NEW from \in Running,
         NEW to \in Running \cup {"done"}, Move(b, from, to)
  PROVE  /\ batch' \in [Batches -> Running \cup {"queued", "done"}]
         /\ Cardinality({c \in Batches : batch'[c] \in Running}) <= Workers
<1>1. {c \in Batches : batch'[c] \in Running} \subseteq {c \in Batches : batch[c] \in Running}
  BY DEF Move, SummaryTypeOK
<1>2. Cardinality({c \in Batches : batch'[c] \in Running})
        <= Cardinality({c \in Batches : batch[c] \in Running})
  BY <1>1, Fewer
<1>3. /\ Cardinality({c \in Batches : batch'[c] \in Running}) \in Nat
      /\ Cardinality({c \in Batches : batch[c] \in Running}) \in Nat
  BY Finite
<1>4. QED BY <1>2, <1>3, SummarizerAssumption DEF Move, SummaryTypeOK

\* A step of a thread keeps the types, and with them the size of the pool.
LEMMA WorkerTypes ==
  ASSUME SummaryTypeOK, NEW b \in Batches, WorkerStep(b)
  PROVE  SummaryTypeOK'
<1>1. CASE RunBatch(b)
  <2>1. CASE broken
    <3>1. {c \in Batches : batch'[c] \in Running} = {c \in Batches : batch[c] \in Running}
      BY <1>1, <2>1 DEF RunBatch, Move, SummaryTypeOK, Running
    <3>2. QED BY <1>1, <2>1, <3>1 DEF RunBatch, Move, Summarised, SummaryTypeOK
  <2>2. CASE ~broken
    <3> DEFINE R == {c \in Batches : batch[c] \in Running}
    <3>1. {c \in Batches : batch'[c] \in Running} = R \cup {b} /\ b \notin R
      BY <1>1, <2>2 DEF RunBatch, Move, SummaryTypeOK, Running
    <3>2. IsFiniteSet(R) /\ Cardinality(R) \in Nat /\ Cardinality(R) < Workers
      BY <1>1, Finite DEF RunBatch
    <3> HIDE DEF R
    <3>3. Cardinality(R \cup {b}) = Cardinality(R) + 1
      BY <3>1, <3>2, FS_AddElement
    <3>4. Cardinality({c \in Batches : batch'[c] \in Running}) <= Workers
      BY <3>1, <3>2, <3>3, SummarizerAssumption
    <3>5. QED BY <1>1, <2>2, <3>4 DEF RunBatch, Move, SummaryTypeOK, Running
  <2>3. QED BY <2>1, <2>2 DEF SummaryTypeOK
<1>2. CASE SendPrompt(b)
  BY <1>2, MoveKeepsPool DEF SendPrompt, SummaryTypeOK, Running
<1>3. CASE ApplySummaries(b)
  BY <1>3, MoveKeepsPool DEF ApplySummaries, Summarised, SummaryTypeOK, Running
<1>4. CASE RecordSuccess(b)
  BY <1>4, MoveKeepsPool DEF RecordSuccess, SummaryTypeOK, Running
<1>5. CASE RecordFailure(b)
  <2>1. broken' \in BOOLEAN
    BY <1>5 DEF RecordFailure
  <2>2. QED BY <1>5, <2>1, MoveKeepsPool DEF RecordFailure, SummaryTypeOK, Running
<1>6. CASE FallBack(b)
  BY <1>6, MoveKeepsPool DEF FallBack, Summarised, SummaryTypeOK, Running
<1>7. QED BY <1>1, <1>2, <1>3, <1>4, <1>5, <1>6 DEF WorkerStep

\* It keeps the number of those that may still be sent.
LEMMA WorkerLate ==
  ASSUME SummaryInv, NEW b \in Batches, WorkerStep(b)
  PROVE  Late'
<1> DEFINE L == At({"looked"})
<1>0. /\ L \subseteq Batches /\ IsFiniteSet(L) /\ Cardinality(L) \in Nat
      /\ SummaryTypeOK /\ sentLate \in Nat /\ broken \in BOOLEAN
  BY Finite DEF At, SummaryInv, SummaryTypeOK
<1>1. CASE RunBatch(b)
  <2>1. CASE broken
    <3>1. At({"looked"})' = L
      BY <1>0, <1>1, <2>1 DEF RunBatch, Move, At, SummaryTypeOK
    <3>2. QED BY <1>1, <2>1, <3>1 DEF RunBatch, SummaryInv, Late
  <2>2. CASE ~broken
    BY <1>1, <2>2 DEF RunBatch, SummaryInv, Late
  <2>3. QED BY <2>1, <2>2
<1>2. CASE SendPrompt(b)
  <2>1. At({"looked"})' = L \ {b} /\ b \in L
    BY <1>0, <1>2 DEF SendPrompt, Move, At, SummaryTypeOK
  <2>2. Cardinality(L \ {b}) = Cardinality(L) - 1
    BY <1>0, <2>1, FS_RemoveElement
  <2> HIDE DEF L
  <2>3. CASE broken
    <3>1. sentLate + Cardinality(L) < Workers
      BY <2>3 DEF SummaryInv, Late, L
    <3>2. sentLate' = sentLate + 1 /\ broken'
      BY <1>2, <2>3 DEF SendPrompt
    <3>3. sentLate' + Cardinality(L \ {b}) < Workers
      BY <1>0, <2>2, <3>1, <3>2, SummarizerAssumption
    <3>4. QED BY <2>1, <3>2, <3>3 DEF Late
  <2>4. CASE ~broken
    BY <1>2, <2>4 DEF SendPrompt, SummaryInv, Late
  <2>5. QED BY <2>3, <2>4
<1>3. CASE ApplySummaries(b) \/ RecordSuccess(b) \/ FallBack(b)
  <2>1. At({"looked"})' = L
    BY <1>0, <1>3 DEF ApplySummaries, RecordSuccess, FallBack, Move, At, SummaryTypeOK
  <2>2. QED BY <1>3, <2>1 DEF ApplySummaries, RecordSuccess, FallBack, SummaryInv, Late
<1>4. CASE RecordFailure(b)
  <2>1. At({"looked"})' = L
    BY <1>0, <1>4 DEF RecordFailure, Move, At, SummaryTypeOK
  <2>2. CASE broken
    BY <1>4, <2>1, <2>2 DEF RecordFailure, SummaryInv, Late
  <2>3. CASE ~broken
    <3> DEFINE R == At(Running)
    <3>1. L \subseteq R \ {b} /\ b \in R
      BY <1>0, <1>4 DEF RecordFailure, Move, At, Running
    <3>2. /\ R \subseteq Batches /\ IsFiniteSet(R) /\ Cardinality(R) \in Nat
          /\ Cardinality(R) <= Workers
      BY <1>0, Finite DEF At, SummaryTypeOK
    <3> HIDE DEF L, R
    <3>3. Cardinality(R \ {b}) = Cardinality(R) - 1
      BY <3>1, <3>2, FS_RemoveElement
    <3>4. Cardinality(L) <= Cardinality(R \ {b})
      BY <3>1, <3>2, Fewer
    <3>5. Cardinality(L) < Workers
      BY <1>0, <3>2, <3>3, <3>4, SummarizerAssumption
    <3>6. sentLate' = 0 /\ sentLate' + Cardinality(L) = Cardinality(L)
      BY <1>0, <1>4, <2>3 DEF RecordFailure, SummaryInv, Late
    <3>7. QED BY <2>1, <3>5, <3>6 DEF Late
  <2>4. QED BY <1>0, <2>2, <2>3
<1>5. QED BY <1>1, <1>2, <1>3, <1>4 DEF WorkerStep

\* Every step of the pool keeps its invariant.
LEMMA SummaryStepInv == SummaryInv /\ [SummaryNext]_summaryVars => SummaryInv'
<1> SUFFICES ASSUME SummaryInv, [SummaryNext]_summaryVars PROVE SummaryInv'
  OBVIOUS
<1>1. CASE UNCHANGED summaryVars
  BY <1>1 DEF summaryVars, SummaryInv, SummaryTypeOK, Late, At
<1>2. CASE SummaryNext
  BY <1>2, WorkerTypes, WorkerLate DEF SummaryNext, SummaryInv
<1>3. QED BY <1>1, <1>2

\* Few enough may still be sent.
LEMMA LateFew == SummaryInv => FewSentAfterTrip
<1> SUFFICES ASSUME SummaryInv PROVE FewSentAfterTrip
  OBVIOUS
<1>1. Cardinality(At({"looked"})) \in Nat
  BY Finite DEF At
<1>2. QED BY <1>1, SummarizerAssumption DEF SummaryInv, SummaryTypeOK, Late, FewSentAfterTrip

\* However many batches there are, no more of them are sent after the breaker has
\* tripped than threads of the pool had looked at it before.
THEOREM FewSent == SummarySpec => []FewSentAfterTrip
<1>1. SummaryInit => SummaryInv
  BY SummaryInitInv
<1>2. SummaryInv /\ [SummaryNext]_summaryVars => SummaryInv'
  BY SummaryStepInv
<1>3. SummaryInv => FewSentAfterTrip
  BY LateFew
<1>4. QED BY <1>1, <1>2, <1>3, PTL DEF SummarySpec

----------------------------------------------------------------------------
(* The bridge to the language servers *)

\* What a child may have written: a result of "initialize" only if it has accepted it.
Written(l) == {m \in Message : m.id = Initialize /\ m.result => l \in accepted}

Told == \A l \in Languages : fromChild[l] \in Seq(Written(l))

\* The handshake: what it waits for, and what it has got.
Shaken ==
    /\ pcLsp = "wait" => /\ pending \in {0, Initialize}
                         /\ answer # NoAnswer => answer.id = Initialize
                                                   /\ (answer.result => language \in accepted)
    /\ pcLsp = "notify" => language \in accepted

\* No child runs but the one the caller deals with, and once the handshake is over
\* that one has accepted it; none runs between two languages.
Attended ==
    \A l \in Languages : child[l] = "alive" =>
      /\ l = language /\ pcLsp # "next"
      /\ l \in accepted \/ pcLsp \in {"ask", "wait", "stop", "waitStop"}

\* The language it deals with is one it has tried.
AtWork == pcLsp \in {"ask", "wait", "notify", "stop", "waitStop"} => language \in visited

LspInv == LspTypeOK /\ AtWork /\ Told /\ Shaken /\ Attended

\* The ids the bridge gives are numbers from 1.
LEMMA IdsType == Ids \subseteq Nat \ {0} /\ Initialize \in Ids /\ Shutdown \in Ids /\ Initialize = 1
  BY DEF Ids, Initialize, Shutdown

\* A message has an id, and is not the absence of one.
LEMMA MessageType == \A m \in Message : m.id \in Nat \ {0} /\ m # NoAnswer
<1>1. ASSUME NEW m \in Message PROVE m.id \in Nat \ {0}
  BY LspAssumption, IdsType DEF Message
<1>2. NoAnswer.id = 0
  BY DEF NoAnswer
<1>3. QED BY <1>1, <1>2

\* A sequence of members of a set is one of members of a larger set.
LEMMA SeqMonotone ==
  ASSUME NEW A, NEW B, A \subseteq B, NEW s \in Seq(A)
  PROVE  s \in Seq(B)
  OBVIOUS

\* No server was started.
LEMMA LspInitInv == LspInit => LspInv
<1> SUFFICES ASSUME LspInit PROVE LspInv
  OBVIOUS
<1>1. \A S : <<>> \in Seq(S)
  OBVIOUS
<1>2. LspTypeOK
  BY <1>1 DEF LspInit, LspTypeOK, Pcs
<1>3. Told
  BY <1>1 DEF LspInit, Told
<1>4. QED BY <1>2, <1>3 DEF LspInit, LspInv, AtWork, Shaken, Attended

\* A request is sent, or found to be of no use because the child is dead.
LEMMA SendType ==
  ASSUME LspTypeOK, language \in visited, NEW id \in Ids, NEW wait \in Pcs, NEW dead \in Pcs, Send(id, wait, dead)
  PROVE  /\ pcLsp' \in Pcs /\ toChild' \in [Languages -> SUBSET Ids]
         /\ pending' \in Ids \cup {0} /\ answer' = NoAnswer
<1>1. language \in Languages
  BY DEF LspTypeOK
<1>2. [toChild EXCEPT ![language] = @ \cup {id}] \in [Languages -> SUBSET Ids]
  BY <1>1 DEF LspTypeOK
<1>3. QED BY <1>2 DEF Send, LspTypeOK

\* The steps of the caller's thread leave what the children have written.
LEMMA CallerInv ==
  ASSUME LspInv, CallerStep
  PROVE  LspInv'
<1> USE DEF bridgeVars, requestVars, childVars
<1>0. LspTypeOK /\ AtWork /\ Told /\ Shaken /\ Attended
  BY DEF LspInv
<1>1. ASSUME NEW l \in Languages, Unavailable(l)
      PROVE  LspInv'
  BY <1>0, <1>1 DEF LspInv, Unavailable, LspTypeOK, AtWork, Told, Written, Shaken, Attended
<1>2. ASSUME NEW l \in Languages, Spawn(l)
      PROVE  LspInv'
  BY <1>0, <1>2 DEF LspInv, Spawn, LspTypeOK, Pcs, AtWork, Told, Written, Shaken, Attended
<1>3. CASE AskInitialize
  <2>0. /\ pcLsp' \in Pcs /\ toChild' \in [Languages -> SUBSET Ids]
        /\ pending' \in Ids \cup {0} /\ answer' = NoAnswer
    BY <1>0, <1>3, SendType, IdsType DEF AskInitialize, AtWork, Pcs
  <2>1. /\ pcLsp' \in {"wait", "stop"} /\ answer' = NoAnswer
        /\ pcLsp' = "wait" => pending' = Initialize
    BY <1>3 DEF AskInitialize, Send
  <2>2. LspTypeOK'
    BY <1>0, <1>3, <2>0 DEF AskInitialize, LspTypeOK, Pcs
  <2>3. AtWork' /\ Told' /\ Shaken' /\ Attended'
    BY <1>0, <1>3, <2>1 DEF AskInitialize, AtWork, Told, Written, Shaken, Attended
  <2>4. QED BY <2>2, <2>3 DEF LspInv
<1>4. CASE TakeAnswer
  BY <1>0, <1>4 DEF LspInv, TakeAnswer, LspTypeOK, Pcs, AtWork, Told, Written, Shaken, Attended
<1>5. CASE TimeOut
  BY <1>0, <1>5 DEF LspInv, TimeOut, LspTypeOK, Pcs, AtWork, Told, Written, Shaken, Attended
<1>6. CASE NotifyRaises \/ AllTried
  BY <1>0, <1>6 DEF LspInv, NotifyRaises, AllTried, LspTypeOK, Pcs, AtWork, Told, Written, Shaken, Attended
<1>7. CASE NotifyDead
  BY <1>0, <1>7 DEF LspInv, NotifyDead, LspTypeOK, Pcs, AtWork, Told, Written, Shaken, Attended
<1>8. CASE AskShutdown
  <2>0. /\ pcLsp' \in Pcs /\ toChild' \in [Languages -> SUBSET Ids]
        /\ pending' \in Ids \cup {0} /\ answer' = NoAnswer
    BY <1>0, <1>8, SendType, IdsType DEF AskShutdown, AtWork, Pcs
  <2>1. pcLsp' = "waitStop"
    BY <1>8 DEF AskShutdown, Send
  <2>2. LspTypeOK'
    BY <1>0, <1>8, <2>0 DEF AskShutdown, AtWork, LspTypeOK, Pcs
  <2>3. AtWork' /\ Told' /\ Shaken' /\ Attended'
    BY <1>0, <1>8, <2>1 DEF AskShutdown, AtWork, Told, Written, Shaken, Attended
  <2>4. QED BY <2>2, <2>3 DEF LspInv
<1>9. CASE Terminate
  BY <1>0, <1>9 DEF LspInv, Terminate, LspTypeOK, Pcs, AtWork, Told, Written, Shaken, Attended
<1>10. CASE ShutdownBridge
  BY <1>0, <1>10 DEF LspInv, ShutdownBridge, LspTypeOK, Pcs, AtWork, Told, Written, Shaken, Attended
<1>11. QED BY <1>1, <1>2, <1>3, <1>4, <1>5, <1>6, <1>7, <1>8, <1>9, <1>10 DEF CallerStep

\* A child writes.
LEMMA RespondInv ==
  ASSUME LspInv, NEW l \in Languages, NEW id \in Ids, NEW result \in BOOLEAN, Respond(l, id, result)
  PROVE  LspInv'
<1> USE DEF bridgeVars
<1> DEFINE m == [id |-> id, result |-> result, own |-> FALSE]
<1>0. LspTypeOK /\ AtWork /\ Told /\ Shaken /\ Attended
  BY DEF LspInv
<1>1. m \in Message /\ m.id = id /\ m.result = result
  BY DEF Message
<1>2. /\ accepted \subseteq accepted' /\ accepted' \in SUBSET Languages
      /\ id = Initialize /\ result => l \in accepted'
  BY <1>0 DEF Respond, LspTypeOK
<1>3. fromChild' = [fromChild EXCEPT ![l] = Append(@, m)]
  BY DEF Respond
<1> HIDE DEF m
<1>4. Told'
  <2>1. m \in Written(l)'
    BY <1>1, <1>2 DEF Written
  <2>2. ASSUME NEW k \in Languages PROVE fromChild[k] \in Seq(Written(k)')
    <3>1. Written(k) \subseteq Written(k)'
      BY <1>2 DEF Written
    <3>2. QED BY <1>0, <3>1, SeqMonotone DEF Told
  <2>3. Append(fromChild[l], m) \in Seq(Written(l)')
    BY <2>1, <2>2
  <2>4. ASSUME NEW k \in Languages PROVE fromChild'[k] \in Seq(Written(k)')
    BY <1>0, <1>3, <2>2, <2>3 DEF LspTypeOK
  <2>5. QED BY <2>4 DEF Told
<1>5. LspTypeOK'
  <2>1. Append(fromChild[l], m) \in Seq(Message)
    BY <1>0, <1>1 DEF LspTypeOK
  <2>2. fromChild' \in [Languages -> Seq(Message)]
    BY <1>0, <1>3, <2>1 DEF LspTypeOK
  <2>3. QED BY <1>0, <1>2, <2>2 DEF Respond, LspTypeOK
<1>6. AtWork' /\ Shaken' /\ Attended'
  BY <1>0, <1>2 DEF Respond, AtWork, Shaken, Attended
<1>7. QED BY <1>4, <1>5, <1>6 DEF LspInv

\* A child asks something itself.
LEMMA AskBackInv ==
  ASSUME LspInv, NEW l \in Languages, NEW id \in OwnIds, AskBack(l, id)
  PROVE  LspInv'
<1> USE DEF bridgeVars, requestVars
<1> DEFINE m == [id |-> id, result |-> FALSE, own |-> TRUE]
<1>0. LspTypeOK /\ AtWork /\ Told /\ Shaken /\ Attended
  BY DEF LspInv
<1>1. m \in Message /\ m \in Written(l)
  BY DEF Message, Written
<1>2. fromChild' = [fromChild EXCEPT ![l] = Append(@, m)] /\ accepted' = accepted
  BY DEF AskBack
<1> HIDE DEF m
<1>3. Append(fromChild[l], m) \in Seq(Written(l)) /\ Append(fromChild[l], m) \in Seq(Message)
  BY <1>0, <1>1 DEF Told, LspTypeOK
<1>4. LspTypeOK'
  <2>1. fromChild' \in [Languages -> Seq(Message)]
    BY <1>0, <1>2, <1>3 DEF LspTypeOK
  <2>2. QED BY <1>0, <2>1 DEF AskBack, LspTypeOK
<1>5. Told'
  BY <1>0, <1>2, <1>3 DEF Told, Written, LspTypeOK
<1>6. AtWork' /\ Shaken' /\ Attended'
  BY <1>0 DEF AskBack, AtWork, Shaken, Attended
<1>7. QED BY <1>4, <1>5, <1>6 DEF LspInv

\* A child dies; its reader goes on, stops, or hands over what it has read.
LEMMA ReaderInv ==
  ASSUME LspInv, NEW l \in Languages, Die(l) \/ CheckLoop(l) \/ ReadEnds(l)
  PROVE  LspInv'
<1> USE DEF bridgeVars, requestVars
<1>0. LspTypeOK /\ AtWork /\ Told /\ Shaken /\ Attended
  BY DEF LspInv
<1>1. CASE Die(l)
  BY <1>0, <1>1 DEF LspInv, Die, LspTypeOK, AtWork, Told, Written, Shaken, Attended
<1>2. CASE CheckLoop(l)
  BY <1>0, <1>2 DEF LspInv, CheckLoop, LspTypeOK, AtWork, Told, Written, Shaken, Attended
<1>3. CASE ReadEnds(l)
  BY <1>0, <1>3 DEF LspInv, ReadEnds, LspTypeOK, AtWork, Told, Written, Shaken, Attended
<1>4. QED BY <1>1, <1>2, <1>3

\* The reader thread takes a message: an answer to what is waited for, or another.
LEMMA ReadInv ==
  ASSUME LspInv, NEW l \in Languages, ReadMessage(l)
  PROVE  LspInv'
<1> USE DEF bridgeVars
<1> DEFINE m == Head(fromChild[l])
<1>0. LspTypeOK /\ AtWork /\ Told /\ Shaken /\ Attended
  BY DEF LspInv
<1>1. /\ m \in Written(l) /\ Tail(fromChild[l]) \in Seq(Written(l))
      /\ m \in Message /\ Tail(fromChild[l]) \in Seq(Message)
  BY <1>0 DEF ReadMessage, Told, LspTypeOK
<1>2. /\ fromChild' = [fromChild EXCEPT ![l] = Tail(@)]
      /\ \/ l = language /\ m.id = pending /\ answer' = m /\ pending' = 0
         \/ answer' = answer /\ pending' = pending
      /\ UNCHANGED <<pcLsp, language, bridgeVars, stopping, child, toChild, accepted>>
      /\ reader' = [reader EXCEPT ![l] = "check"]
  BY DEF ReadMessage, WaitedFor
<1> HIDE DEF m
<1>3. m.id # 0 /\ m # NoAnswer /\ (m.own \in BOOLEAN)
  BY <1>1, MessageType DEF Message
<1>4. LspTypeOK'
  <2>1. fromChild' \in [Languages -> Seq(Message)]
    BY <1>0, <1>1, <1>2 DEF LspTypeOK
  <2>2. QED BY <1>0, <1>1, <1>2, <2>1 DEF LspTypeOK
<1>5. Told'
  BY <1>0, <1>1, <1>2 DEF Told, Written, LspTypeOK
<1>6. AtWork' /\ Shaken' /\ Attended'
  BY <1>0, <1>1, <1>2, <1>3, IdsType DEF AtWork, Shaken, Attended, Written
<1>7. QED BY <1>4, <1>5, <1>6 DEF LspInv

\* Every step of caller, children and readers keeps the invariant.
LEMMA LspStepInv == LspInv /\ [LspNext]_lspVars => LspInv'
<1> SUFFICES ASSUME LspInv, [LspNext]_lspVars PROVE LspInv'
  OBVIOUS
<1>1. CASE UNCHANGED lspVars
  BY <1>1 DEF lspVars, bridgeVars, requestVars, childVars,
              LspInv, LspTypeOK, AtWork, Told, Written, Shaken, Attended
<1>2. CASE CallerStep
  BY <1>2, CallerInv
<1>3. QED BY <1>1, <1>2, RespondInv, AskBackInv, ReaderInv, ReadInv DEF LspNext

\* When index_folder is past the bridge at most one language server is left, and that
\* one accepted the handshake: for any languages, whatever the children answer, ask
\* under whichever ids, or leave out, and whenever they die.
THEOREM AcceptedSurvive == LspSpec => []OnlyAcceptedSurvive
<1>1. LspInit => LspInv
  BY LspInitInv
<1>2. LspInv /\ [LspNext]_lspVars => LspInv'
  BY LspStepInv
<1>3. LspInv => OnlyAcceptedSurvive
  BY DEF LspInv, Attended, OnlyAcceptedSurvive
<1>4. QED BY <1>1, <1>2, <1>3, PTL DEF LspSpec

----------------------------------------------------------------------------
(* The watcher of worktrees *)

\* What a thread, a task of the loop or the agent does, by what it changes.
LEMMA TreeInitTypes == TreeInit => TreeTypeOK
BY WorktreeAssumption DEF TreeInit, TreeTypeOK, Stopping, Off

\* The tasks of some folders are started.
LEMMA StartTypes ==
  ASSUME TreeTypeOK, NEW fs \in SUBSET Folders, Start(fs)
  PROVE  /\ watch' \in [Folders -> {"none", "running", "crashed", "cancelled"}]
         /\ saving' \in SUBSET Folders /\ indexes' \in SUBSET Folders
BY DEF TreeTypeOK, Start

\* A task is forgotten.
LEMMA CancelTypes ==
  ASSUME TreeTypeOK, NEW f \in Folders, Cancel(f)
  PROVE  /\ watch' \in [Folders -> {"none", "running", "crashed", "cancelled"}]
         /\ saving' \in SUBSET Folders /\ indexes' \in SUBSET Folders
BY DEF TreeTypeOK, Cancel

\* Only folders are watched.
LEMMA StartsAreFolders ==
  ASSUME NEW fs \in SUBSET Folders
  PROVE  Starts(fs) \in SUBSET Folders
BY DEF Starts

\* A hook has one more line to append.
LEMMA HookTypes ==
  ASSUME TreeTypeOK, NEW f \in Folders, NEW event \in {"create", "remove"}, Hook(event, f)
  PROVE  hooks' \in Seq(Line)
<1>1. [event |-> event, path |-> f] \in Line
  BY DEF Line
<1>2. QED
  BY <1>1 DEF Hook, TreeTypeOK

\* The manifest only grows, so what was read of it is not more than it holds.
LEMMA AppendManifestTypes ==
  ASSUME TreeTypeOK, NEW killed \in BOOLEAN, AppendManifest(killed)
  PROVE  TreeTypeOK'
<1>1. /\ hooks \in Seq(Line) /\ hooks # <<>> /\ manifest \in Seq(Line)
      /\ size \in 0..Len(manifest) /\ readTo \in 0..Len(manifest)
  BY DEF TreeTypeOK, AppendManifest
<1>2. Head(hooks) \in Line /\ hooks' \in Seq(Line)
  BY <1>1 DEF AppendManifest
<1>3. manifest' \in Seq(Line) /\ Len(manifest) <= Len(manifest')
  BY <1>1, <1>2 DEF AppendManifest
<1>4. Len(manifest) \in Nat /\ Len(manifest') \in Nat
  BY <1>1, <1>3
<1>5. size' \in 0..Len(manifest') /\ readTo' \in 0..Len(manifest')
  <2>1. size' = size /\ readTo' = readTo
    BY DEF AppendManifest, lineVars
  <2>2. QED
    BY <1>1, <1>3, <1>4, <2>1
<1>6. QED
  BY <1>2, <1>3, <1>5 DEF TreeTypeOK, AppendManifest, taskVars, lineVars, pollVars

\* Everything is cancelled, after a signal or a failure.
LEMMA CleanUpTypes ==
  ASSUME TreeTypeOK, StopAll \/ TaskFails \/ StopFailed
  PROVE  TreeTypeOK'
<1>1. /\ Ended(pcLines) \in {[at |-> p] : p \in {"off", "start", "poll", "read", "lines"}} \cup Stopping
      /\ Ended(pcPoll) \in {[at |-> p] : p \in {"off", "sleep", "decide", "stop"}} \cup Stopping
  BY DEF Ended, Off
<1>2. CASE StopAll
  BY <1>1, <1>2 DEF StopAll, CancelWatches, TreeTypeOK, envVars
<1>3. CASE TaskFails
  <2>1. events' \in 0..MaxEvents
    BY <1>3, WorktreeAssumption DEF TaskFails, Happens, TreeTypeOK
  <2>2. /\ pcLines' \in {Off, Ended(pcLines)} /\ pcPoll' \in {Off, Ended(pcPoll)}
    BY <1>3 DEF TaskFails
  <2>3. QED
    BY <1>1, <1>3, <2>1, <2>2 DEF TaskFails, CancelWatches, TreeTypeOK, Off
<1>4. CASE StopFailed
  <2>1. pcLines' \in {Off, pcLines} /\ pcPoll' \in {Off, pcPoll}
    BY <1>4 DEF StopFailed
  <2>2. QED
    BY <1>4, <2>1 DEF StopFailed, TreeTypeOK, Off, envVars, taskVars
<1>5. QED
  BY <1>2, <1>3, <1>4

\* Worktrees come and go, and the hooks append lines; listings and tasks fail.
LEMMA EnvironmentTypes ==
  ASSUME TreeTypeOK, Environment
  PROVE  TreeTypeOK'
<1>1. ASSUME NEW f \in Folders, AddTree(f) PROVE TreeTypeOK'
  <2>1. hooks' \in Seq(Line)
    BY <1>1, HookTypes DEF AddTree
  <2>2. events' \in 0..MaxEvents
    BY <1>1, WorktreeAssumption DEF AddTree, Happens, TreeTypeOK
  <2>3. QED
    BY <1>1, <2>1, <2>2 DEF AddTree, TreeTypeOK, taskVars, lineVars, pollVars
<1>2. ASSUME NEW f \in Folders, RemoveTree(f) PROVE TreeTypeOK'
  <2>1. hooks' \in Seq(Line)
    BY <1>2, HookTypes DEF RemoveTree
  <2>2. events' \in 0..MaxEvents
    BY <1>2, WorktreeAssumption DEF RemoveTree, Happens, TreeTypeOK
  <2>3. QED
    BY <1>2, <2>1, <2>2 DEF RemoveTree, TreeTypeOK, taskVars, lineVars, pollVars
<1>3. ASSUME NEW f \in Folders, Crash(f) PROVE TreeTypeOK'
  <2>1. events' \in 0..MaxEvents
    BY <1>3, WorktreeAssumption DEF Crash, Happens, TreeTypeOK
  <2>2. QED
    BY <1>3, <2>1 DEF Crash, TreeTypeOK, lineVars, pollVars
<1>4. ASSUME NEW killed \in BOOLEAN, AppendManifest(killed) PROVE TreeTypeOK'
  BY <1>4, AppendManifestTypes
<1>5. CASE ListFails
  <2>1. events' \in 0..MaxEvents
    BY <1>5, WorktreeAssumption DEF ListFails, Happens, TreeTypeOK
  <2>2. QED
    BY <1>5, <2>1 DEF ListFails, TreeTypeOK, taskVars, lineVars
<1>6. CASE DiscoveryFails
  <2>1. events' \in 0..MaxEvents
    BY <1>6, WorktreeAssumption DEF DiscoveryFails, Happens, TreeTypeOK
  <2>2. QED
    BY <1>6, <2>1 DEF DiscoveryFails, Launch, Off, TreeTypeOK, taskVars, lineVars
<1>7. QED
  BY <1>1, <1>2, <1>3, <1>4, <1>5, <1>6, CleanUpTypes DEF Environment

\* The first discovery starts tasks, and at the end there is none.
LEMMA MainStepTypes ==
  ASSUME TreeTypeOK, MainStep
  PROVE  TreeTypeOK'
<1>1. CASE DiscoverManifest
  <2>1. InManifest \in SUBSET Folders
    BY DEF InManifest
  <2>2. Starts(InManifest) \in SUBSET Folders
    BY <2>1, StartsAreFolders
  <2>3. /\ watch' \in [Folders -> {"none", "running", "crashed", "cancelled"}]
        /\ saving' \in SUBSET Folders /\ indexes' \in SUBSET Folders
    BY <1>1, <2>2, StartTypes DEF DiscoverManifest
  <2>4. QED
    BY <1>1, <2>3 DEF DiscoverManifest, Off, TreeTypeOK, envVars, pollVars
<1>2. CASE DiscoverRepos
  <2>1. trees \cap Polled \in SUBSET Folders
    BY DEF TreeTypeOK
  <2>2. Starts(trees \cap Polled) \in SUBSET Folders
    BY <2>1, StartsAreFolders
  <2>3. /\ watch' \in [Folders -> {"none", "running", "crashed", "cancelled"}]
        /\ saving' \in SUBSET Folders /\ indexes' \in SUBSET Folders
    BY <1>2, <2>2, StartTypes DEF DiscoverRepos
  <2>4. QED
    BY <1>2, <2>3 DEF DiscoverRepos, Launch, Off, TreeTypeOK, envVars, lineVars
<1>3. CASE MainEnds
  BY <1>3 DEF MainEnds, TreeTypeOK, envVars, lineVars, pollVars
<1>4. QED
  BY <1>1, <1>2, <1>3 DEF MainStep

\* _manifest_watcher reads the manifest and treats its lines.
LEMMA LineStepTypes ==
  ASSUME TreeTypeOK, LineStep
  PROVE  TreeTypeOK'
<1>0. /\ manifest \in Seq(Line) /\ Len(manifest) \in Nat /\ lines \in Seq(Line)
      /\ size \in 0..Len(manifest) /\ readTo \in 0..Len(manifest)
  BY DEF TreeTypeOK
<1>1. CASE FirstSize
  <2>1. readTo' \in 0..Len(manifest)
    BY <1>0, <1>1 DEF FirstSize
  <2>2. QED
    BY <1>1, <2>1 DEF FirstSize, TreeTypeOK, envVars, taskVars, pollVars
<1>2. CASE StatManifest
  <2>1. size' \in 0..Len(manifest)
    BY <1>0, <1>2 DEF StatManifest
  <2>2. QED
    BY <1>2, <2>1 DEF StatManifest, TreeTypeOK, envVars, taskVars, pollVars
<1>3. CASE ReadLines
  <2>1. SubSeq(manifest, readTo + 1, Len(manifest)) \in Seq(Line)
    BY <1>0
  <2>2. QED
    BY <1>3, <2>1 DEF ReadLines, TreeTypeOK, envVars, taskVars, pollVars
<1>4. CASE TreatCreate
  <2>1. Head(lines) \in Line /\ Tail(lines) \in Seq(Line)
    BY <1>0, <1>4 DEF TreatCreate
  <2>2. {Head(lines).path} \in SUBSET Folders
    BY <2>1 DEF Line
  <2>3. Starts({Head(lines).path}) \in SUBSET Folders
    BY <2>2, StartsAreFolders
  <2>4. /\ watch' \in [Folders -> {"none", "running", "crashed", "cancelled"}]
        /\ saving' \in SUBSET Folders /\ indexes' \in SUBSET Folders
    BY <1>4, <2>3, StartTypes DEF TreatCreate
  <2>5. QED
    BY <1>4, <2>1, <2>4 DEF TreatCreate, TreeTypeOK, envVars, pollVars
<1>5. CASE TreatRemove
  <2> DEFINE f == Head(lines).path
  <2>1. f \in Folders /\ Tail(lines) \in Seq(Line)
    <3>1. Head(lines) \in Line /\ Tail(lines) \in Seq(Line)
      BY <1>0, <1>5 DEF TreatRemove
    <3>2. QED
      BY <3>1 DEF Line
  <2>2. /\ lines' = Tail(lines)
        /\ UNCHANGED <<envVars, pcMain, size, readTo, pollVars>>
        /\ (Cancel(f) /\ pcLines' = [stopping |-> f]) \/ UNCHANGED <<taskVars, pcLines>>
    BY <1>5 DEF TreatRemove
  <2> HIDE DEF f
  <2>3. CASE Cancel(f) /\ pcLines' = [stopping |-> f]
    <3>1. /\ watch' \in [Folders -> {"none", "running", "crashed", "cancelled"}]
          /\ saving' \in SUBSET Folders /\ indexes' \in SUBSET Folders
      BY <2>1, <2>3, CancelTypes
    <3>2. pcLines' \in Stopping
      BY <2>1, <2>3 DEF Stopping
    <3>3. QED
      BY <2>1, <2>2, <3>1, <3>2 DEF TreeTypeOK, envVars, pollVars
  <2>4. CASE UNCHANGED <<taskVars, pcLines>>
    BY <2>1, <2>2, <2>4 DEF TreeTypeOK, envVars, pollVars, taskVars
  <2>5. QED
    BY <2>2, <2>3, <2>4
<1>6. CASE LinesDone
  BY <1>6 DEF LinesDone, LoopHead, Off, TreeTypeOK, envVars, taskVars, pollVars
<1>7. ASSUME NEW f \in Folders, LineStopped(f) PROVE TreeTypeOK'
  BY <1>7 DEF LineStopped, DeleteIndex, TreeTypeOK, envVars, pollVars
<1>8. QED
  BY <1>1, <1>2, <1>3, <1>4, <1>5, <1>6, <1>7 DEF LineStep

\* _repos_poller lists the worktrees, starts and stops.
LEMMA PollStepTypes ==
  ASSUME TreeTypeOK, PollStep
  PROVE  TreeTypeOK'
<1>1. CASE ListWorktrees
  BY <1>1 DEF ListWorktrees, TreeTypeOK, envVars, taskVars, lineVars
<1>2. CASE Decide
  <2>1. listed \ ReposKnown \in SUBSET Folders /\ listed \in SUBSET Folders
    BY WorktreeAssumption DEF TreeTypeOK
  <2>2. /\ Starts(listed \ ReposKnown) \in SUBSET Folders
        /\ Starts(listed) \in SUBSET Folders /\ ReposKnown \in SUBSET Folders
    BY <2>1, StartsAreFolders DEF ReposKnown
  <2>3. /\ watch' \in [Folders -> {"none", "running", "crashed", "cancelled"}]
        /\ saving' \in SUBSET Folders /\ indexes' \in SUBSET Folders
    BY <1>2, <2>2, StartTypes DEF Decide
  <2>4. gone' \in SUBSET Folders
    BY <1>2, <2>2 DEF Decide
  <2>5. QED
    BY <1>2, <2>3, <2>4 DEF Decide, TreeTypeOK, envVars, lineVars
<1>3. CASE RestartCrashed
  <2> DEFINE fs == {f \in Folders : watch[f] = "crashed"}
  <2>1. fs \in SUBSET Folders
    OBVIOUS
  <2>2. Start(fs)
    BY <1>3 DEF RestartCrashed
  <2> HIDE DEF fs
  <2>3. /\ watch' \in [Folders -> {"none", "running", "crashed", "cancelled"}]
        /\ saving' \in SUBSET Folders /\ indexes' \in SUBSET Folders
    BY <2>1, <2>2, StartTypes
  <2>4. QED
    BY <1>3, <2>3 DEF RestartCrashed, LoopHead, Off, TreeTypeOK, envVars, lineVars
<1>4. ASSUME NEW f \in Folders, StopGone(f) PROVE TreeTypeOK'
  <2>1. /\ gone' = gone \ {f}
        /\ UNCHANGED <<envVars, pcMain, lineVars, listed>>
        /\ (Cancel(f) /\ pcPoll' = [stopping |-> f]) \/ UNCHANGED <<taskVars, pcPoll>>
    BY <1>4 DEF StopGone
  <2>2. CASE Cancel(f) /\ pcPoll' = [stopping |-> f]
    <3>1. /\ watch' \in [Folders -> {"none", "running", "crashed", "cancelled"}]
          /\ saving' \in SUBSET Folders /\ indexes' \in SUBSET Folders
      BY <2>2, CancelTypes
    <3>2. pcPoll' \in Stopping
      BY <2>2 DEF Stopping
    <3>3. QED
      BY <2>1, <3>1, <3>2 DEF TreeTypeOK, envVars, lineVars
  <2>3. CASE UNCHANGED <<taskVars, pcPoll>>
    BY <2>1, <2>3 DEF TreeTypeOK, envVars, lineVars, taskVars
  <2>4. QED
    BY <2>1, <2>2, <2>3
<1>5. ASSUME NEW f \in Folders, GoneStopped(f) PROVE TreeTypeOK'
  BY <1>5 DEF GoneStopped, DeleteIndex, TreeTypeOK, envVars, lineVars
<1>6. QED
  BY <1>1, <1>2, <1>3, <1>4, <1>5 DEF PollStep

\* Every step of the watcher keeps the types.
LEMMA TreeStepTypes == TreeTypeOK /\ [TreeNext]_treeVars => TreeTypeOK'
<1> SUFFICES ASSUME TreeTypeOK, [TreeNext]_treeVars PROVE TreeTypeOK'
  OBVIOUS
<1>1. CASE UNCHANGED treeVars
  BY <1>1 DEF treeVars, TreeTypeOK
<1>2. ASSUME NEW f \in Folders, Reindex(f) PROVE TreeTypeOK'
  BY <1>2 DEF Reindex, TreeTypeOK, envVars, lineVars, pollVars
<1>3. ASSUME NEW f \in Folders, SaveIndex(f) PROVE TreeTypeOK'
  BY <1>3 DEF SaveIndex, TreeTypeOK, envVars, lineVars, pollVars
<1>4. QED
  BY <1>1, <1>2, <1>3, EnvironmentTypes, MainStepTypes, LineStepTypes, PollStepTypes
     DEF TreeNext

----------------------------------------------------------------------------
(* All of them *)

\* The invariant of the pool has its types.
LEMMA SummaryInvTypes == SummaryInv => SummaryTypeOK
BY DEF SummaryInv

\* That of the bridge too.
LEMMA LspInvTypes == LspInv => LspTypeOK
BY DEF LspInv

\* A behaviour runs one of the three, and the others stay where they were.
LEMMA BackgroundStep ==
  ASSUME [Next]_BackgroundVars
  PROVE  [SummaryNext]_summaryVars /\ [LspNext]_lspVars /\ [TreeNext]_treeVars
<1>1. CASE UNCHANGED BackgroundVars
  BY <1>1 DEF BackgroundVars
<1>2. CASE Next
  BY <1>2 DEF Next, Summaries, Bridge, Worktrees
<1>3. QED
  BY <1>1, <1>2

\* The types of the threads' pool, of the bridge and of the watcher of worktrees, together:
\* among them that no more threads run than the pool has, and that no line of the
\* manifest is taken for read that is not there.
THEOREM BackgroundTypes == Spec => []BackgroundTypeOK
<1>1. Init => SummaryInv /\ LspInv /\ TreeTypeOK
  BY SummaryInitInv, LspInitInv, TreeInitTypes DEF Init
<1>2. SummaryInv /\ LspInv /\ TreeTypeOK /\ [Next]_BackgroundVars
        => (SummaryInv /\ LspInv /\ TreeTypeOK)'
  BY BackgroundStep, SummaryStepInv, LspStepInv, TreeStepTypes
<1>3. SummaryInv /\ LspInv /\ TreeTypeOK => BackgroundTypeOK
  BY SummaryInvTypes, LspInvTypes DEF BackgroundTypeOK
<1>4. QED
  BY <1>1, <1>2, <1>3, PTL DEF Spec
=============================================================================
