------------------------- MODULE EnsureIndexedProofs -------------------------
(***************************************************************************)
(* Proofs about EnsureIndexed, for any set of tasks and folders and with   *)
(* calls that are cancelled or raise: its mutual exclusion, and that it    *)
(* implements SingleFlight.                                                *)
(***************************************************************************)
EXTENDS EnsureIndexed, TLAPS

\* c has taken f into _pending, and has not taken it out.
Owns(c, f) == pc[c] \in {"reindex", "publish", "failed"} /\ folder[c] = f

\* Each pending folder has one such task, which leaves room for its result if it may
\* still end.
Flights ==
    /\ \A f \in pending : \E c \in Callers : Owns(c, f)
    /\ \A f \in Folders, c, d \in Callers : Owns(c, f) /\ Owns(d, f) => c = d
    /\ \A f \in Folders, c \in Callers : Owns(c, f) => f \in pending /\ results[f] < MaxFlights

\* Who waits, waits for a folder that is pending; who is woken finds its folder pending
\* again or a result newer than its call.
Served ==
    /\ \A c \in Callers : pc[c] = "wait" => folder[c] \in pending
    /\ \A c \in Callers : pc[c] \in {"wait", "woken"} => since[c] <= results[folder[c]]
    /\ \A c \in Callers : pc[c] = "woken" =>
         folder[c] \in pending \/ since[c] < results[folder[c]]

IInv == TypeOK /\ Flights /\ Served

LEMMA InitIInv == Init => IInv
  BY EnsureAssumption
  DEF Init, IInv, TypeOK, Flight, PcSet, Busy, Flights, Owns, Served

\* The flight numbers are numbers.
LEMMA FlightType ==
  ASSUME TypeOK
  PROVE  /\ \A f \in Folders : results[f] \in Nat
         /\ \A c \in Callers : since[c] \in Nat
         /\ \A c \in Callers : pc[c] # "idle" => folder[c] \in Folders
  BY EnsureAssumption DEF TypeOK, Flight

LEMMA StepIInv == IInv /\ [Next]_vars => IInv'
<1> SUFFICES ASSUME IInv, [Next]_vars PROVE IInv'
  OBVIOUS
<1>0. TypeOK /\ Flights /\ Served
  BY DEF IInv
<1>a. /\ \A f \in Folders : results[f] \in Nat
      /\ \A c \in Callers : since[c] \in Nat
      /\ \A c \in Callers : pc[c] # "idle" => folder[c] \in Folders
  BY <1>0, FlightType
<1> USE EnsureAssumption
<1>1. ASSUME NEW c \in Callers, NEW f \in Folders, Lead(c, f)
      PROVE  IInv'
  <2>1. TypeOK'
    BY <1>0, <1>1 DEF Lead, Enter, Goto, TypeOK, PcSet, Busy
  <2>2. Flights'
    BY <1>0, <1>1 DEF Lead, Enter, Goto, TypeOK, Flights, Owns
  <2>3. Served'
    BY <1>0, <1>1 DEF Lead, Enter, Goto, TypeOK, Served
  <2>4. QED BY <2>1, <2>2, <2>3 DEF IInv
<1>2. ASSUME NEW c \in Callers, NEW f \in Folders, Join(c, f)
      PROVE  IInv'
  <2>1. TypeOK'
    BY <1>0, <1>2 DEF Join, Enter, Goto, TypeOK, PcSet, Busy
  <2>2. Flights'
    BY <1>0, <1>2 DEF Join, Enter, Goto, TypeOK, Flights, Owns
  <2>3. since'[c] = results[f] /\ results[f] \in Nat
    BY <1>0, <1>a, <1>2 DEF Join, Enter, TypeOK
  <2>4. Served'
    BY <1>0, <1>2, <2>3 DEF Join, Enter, Goto, TypeOK, Served
  <2>5. QED BY <2>1, <2>2, <2>4 DEF IInv
<1>3. ASSUME NEW c \in Callers, ThreadReturns(c) \/ Fail(c) \/ Cancel(c)
      PROVE  IInv'
  <2>1. TypeOK'
    BY <1>0, <1>3 DEF ThreadReturns, Fail, Cancel, Goto, TypeOK, PcSet, Busy
  <2>2. Flights'
    BY <1>0, <1>3 DEF ThreadReturns, Fail, Cancel, Goto, TypeOK, Flights, Owns
  <2>3. Served'
    BY <1>0, <1>3 DEF ThreadReturns, Fail, Cancel, Goto, TypeOK, Served
  <2>4. QED BY <2>1, <2>2, <2>3 DEF IInv
<1>4. ASSUME NEW c \in Callers, Finish(c)
      PROVE  IInv'
  <2> DEFINE f == folder[c]
  <2>1. f \in Folders /\ pc[c] = "publish" /\ Owns(c, f) /\ pending' = pending \ {f}
    BY <1>0, <1>4 DEF Finish, Publish, TypeOK, Owns
  <2>2. results'[f] = results[f] + 1 /\ \A g \in Folders \ {f} : results'[g] = results[g]
    BY <1>0, <1>4, <2>1 DEF Finish, Publish, TypeOK
  <2>3. \A d \in Callers : pc'[d] = IF d = c THEN "done"
                                    ELSE IF pc[d] = "wait" THEN "woken" ELSE pc[d]
    BY <1>4 DEF Finish, Publish, Waiters
  <2>4. folder' = folder /\ since' = since
    BY <1>4 DEF Finish, Publish
  <2>5. TypeOK'
    <3>1. results[f] + 1 \in Flight
      BY <1>0, <1>a, <2>1 DEF Flights, Flight
    <3>2. results' \in [Folders -> Flight] /\ result' \in [Callers -> Flight]
      BY <1>0, <1>4, <2>1, <2>2, <3>1 DEF Finish, Publish, TypeOK
    <3>3. pc' \in [Callers -> PcSet]
      BY <1>0, <1>4 DEF Finish, Publish, Waiters, TypeOK, PcSet, Busy
    <3>4. QED
      BY <1>0, <2>1, <2>3, <2>4, <3>2, <3>3 DEF TypeOK
  <2>6. Flights'
    <3>1. ASSUME NEW d \in Callers, NEW g \in Folders
          PROVE  Owns(d, g)' <=> Owns(d, g) /\ d # c
      BY <2>3, <2>4 DEF Owns
    <3>2. ASSUME NEW d \in Callers, NEW g \in Folders, Owns(d, g)'
          PROVE  g \in pending' /\ results'[g] < MaxFlights
      <4>1. Owns(d, g) /\ d # c
        BY <3>1, <3>2
      <4>2. g # f
        BY <1>0, <2>1, <4>1 DEF Flights
      <4>3. QED BY <1>0, <2>1, <2>2, <4>1, <4>2 DEF Flights
    <3>3. ASSUME NEW g \in pending' PROVE \E d \in Callers : Owns(d, g)'
      <4>1. g \in pending /\ g # f /\ g \in Folders
        BY <1>0, <2>1 DEF TypeOK
      <4>2. PICK d \in Callers : Owns(d, g)
        BY <1>0, <4>1 DEF Flights
      <4>3. d # c
        BY <4>1, <4>2 DEF Owns
      <4>4. QED BY <3>1, <4>1, <4>2, <4>3
    <3>4. \A g \in Folders, d, e \in Callers : Owns(d, g)' /\ Owns(e, g)' => d = e
      BY <1>0, <3>1 DEF Flights
    <3>5. QED BY <3>2, <3>3, <3>4 DEF Flights
  <2>7. Served'
    <3>1. \A d \in Callers : pc'[d] # "wait"
      BY <1>0, <2>3 DEF TypeOK
    <3>2. ASSUME NEW d \in Callers, pc'[d] = "woken"
          PROVE  /\ since[d] <= results'[folder[d]]
                 /\ folder[d] \in pending' \/ since[d] < results'[folder[d]]
      <4>1. pc[d] \in {"wait", "woken"} /\ folder[d] \in Folders
        BY <1>a, <2>3, <3>2
      <4>2. since[d] <= results[folder[d]]
            /\ results[folder[d]] \in Nat /\ since[d] \in Nat
        BY <1>0, <1>a, <4>1 DEF Served
      <4>3. CASE folder[d] = f
        BY <2>2, <4>2, <4>3
      <4>4. CASE folder[d] # f
        BY <1>0, <2>1, <2>2, <4>1, <4>2, <4>4 DEF Served
      <4>5. QED BY <4>3, <4>4
    <3>3. QED BY <2>4, <3>1, <3>2 DEF Served
  <2>8. QED BY <2>5, <2>6, <2>7 DEF IInv
<1>5. ASSUME NEW c \in Callers, Wake(c)
      PROVE  IInv'
  <2>1. TypeOK'
    BY <1>0, <1>a, <1>5 DEF Wake, Goto, TypeOK, PcSet, Busy
  <2>2. Flights'
    BY <1>0, <1>5 DEF Wake, Goto, TypeOK, Flights, Owns
  <2>3. Served'
    BY <1>0, <1>5 DEF Wake, Goto, TypeOK, Served
  <2>4. QED BY <2>1, <2>2, <2>3 DEF IInv
<1>6. ASSUME NEW c \in Callers, Leave(c)
      PROVE  IInv'
  <2>1. TypeOK'
    BY <1>0, <1>6 DEF Leave, Goto, TypeOK, PcSet, Flight
  <2>2. Flights'
    BY <1>0, <1>6 DEF Leave, Goto, TypeOK, Flights, Owns
  <2>3. Served'
    BY <1>0, <1>6 DEF Leave, Goto, TypeOK, Served
  <2>4. QED BY <2>1, <2>2, <2>3 DEF IInv
<1>7. CASE UNCHANGED vars
  BY <1>0, <1>7 DEF vars, IInv, TypeOK, Flights, Owns, Served
<1>8. QED
  BY <1>1, <1>2, <1>3, <1>4, <1>5, <1>6, <1>7 DEF Next, FlightStep

THEOREM Invariance == Spec => []IInv
<1>1. QED BY InitIInv, StepIInv, PTL DEF Spec

\* Every reachable state is well typed; in particular a folder has no more reindexes
\* than were led.
THEOREM TypeCorrect == Spec => []TypeOK
<1>1. IInv => TypeOK
  BY DEF IInv
<1>2. QED BY Invariance, <1>1, PTL

\* One reindex per folder at a time, whatever is cancelled or raises.
THEOREM OneReindex == Spec => []OneReindexPerFolder
<1>1. IInv => OneReindexPerFolder
  BY DEF IInv, Flights, Owns, OneReindexPerFolder, Leading
<1>2. QED BY Invariance, <1>1, PTL

----------------------------------------------------------------------------
(* The refinement of SingleFlight *)

LEMMA InitPromise == Init => Promise!Init
  BY DEF Init, AbstractCall, Promise!Init, Promise!Idle

\* A task owns its folder exactly if its abstract call runs.
LEMMA OwnsRunning ==
  ASSUME NEW c \in Callers, NEW f \in Folders
  PROVE  Owns(c, f) <=> Promise!Running(c, f)
  BY DEF Owns, Promise!Running, AbstractCall

\* Calls that stay where they are look the same.
LEMMA StepPromise ==
  IInv /\ [Next]_vars => [Promise!Next]_<<[c \in Callers |-> AbstractCall(c)], results>>
<1> DEFINE call == [c \in Callers |-> AbstractCall(c)]
<1> SUFFICES ASSUME IInv, [Next]_vars
             PROVE  Promise!Next \/ UNCHANGED <<call, results>>
  OBVIOUS
<1>1. TypeOK /\ Flights /\ Served
  BY DEF IInv
<1>2. ASSUME NEW c \in Callers, NEW f \in Folders, Lead(c, f)
      PROVE  Promise!Begin(c, f)
  <2>1. ~\E d \in Callers : Promise!Running(d, f)
    BY <1>1, <1>2, OwnsRunning DEF Lead, Flights
  <2>2. call[c] = [pc |-> "idle"]
    BY <1>2 DEF Lead, Enter, AbstractCall
  <2>3. results' = results
    BY <1>2 DEF Lead, Enter
  <2>4. call' = [call EXCEPT ![c] =
                   [pc |-> "running", folder |-> f, since |-> results[f]]]
    BY <1>1, <1>2 DEF Lead, Enter, Goto, AbstractCall, TypeOK
  <2>5. QED BY <2>1, <2>2, <2>3, <2>4 DEF Promise!Begin, Promise!Idle
<1>3. ASSUME NEW c \in Callers, NEW f \in Folders, Join(c, f)
      PROVE  Promise!Begin(c, f)
  <2>1. \E d \in Callers : Promise!Running(d, f)
    BY <1>1, <1>3, OwnsRunning DEF Join, Flights
  <2>2. call[c] = [pc |-> "idle"]
    BY <1>3 DEF Join, Enter, AbstractCall
  <2>3. results' = results
    BY <1>3 DEF Join, Enter
  <2>4. call' = [call EXCEPT ![c] =
                   [pc |-> "joined", folder |-> f, since |-> results[f]]]
    BY <1>1, <1>3 DEF Join, Enter, Goto, AbstractCall, TypeOK
  <2>5. QED BY <2>1, <2>2, <2>3, <2>4 DEF Promise!Begin, Promise!Idle
<1>4. ASSUME NEW c \in Callers, ThreadReturns(c) \/ Fail(c) \/ Cancel(c)
      PROVE  UNCHANGED <<call, results>>
  <2>1. ASSUME NEW d \in Callers PROVE AbstractCall(d)' = AbstractCall(d)
    BY <1>1, <1>4 DEF ThreadReturns, Fail, Cancel, Goto, AbstractCall, TypeOK
  <2>2. QED BY <1>4, <2>1 DEF ThreadReturns, Fail, Cancel
<1>5. ASSUME NEW c \in Callers, Finish(c)
      PROVE  Promise!End(c)
  <2>1. folder[c] \in Folders /\ pc[c] = "publish"
    BY <1>1, <1>5 DEF Finish, Publish, TypeOK
  <2>2. call[c].pc = "running" /\ call[c].folder = folder[c]
    BY <2>1 DEF AbstractCall
  <2>3. results' = [results EXCEPT ![folder[c]] = @ + 1]
    BY <1>1, <1>5, <2>1 DEF Finish, Publish, TypeOK
  <2>4. AbstractCall(c)' = [pc |-> "done", flight |-> results[folder[c]] + 1]
    BY <1>1, <1>5, <2>1, <2>3 DEF Finish, Publish, AbstractCall, TypeOK
  <2>5. ASSUME NEW d \in Callers \ {c} PROVE AbstractCall(d)' = AbstractCall(d)
    <3>1. pc'[d] = IF pc[d] = "wait" THEN "woken" ELSE pc[d]
      BY <1>5 DEF Finish, Publish, Waiters
    <3>2. folder' = folder /\ since' = since /\ result'[d] = result[d]
      BY <1>1, <1>5 DEF Finish, Publish, TypeOK
    <3>3. QED BY <3>1, <3>2 DEF AbstractCall
  <2>6. call' = [call EXCEPT ![c] = [pc |-> "done", flight |-> results[folder[c]] + 1]]
    BY <2>4, <2>5
  <2>7. QED BY <2>2, <2>3, <2>6 DEF Promise!End
<1>6. ASSUME NEW c \in Callers, Wake(c)
      PROVE  Promise!Answer(c) \/ UNCHANGED <<call, results>>
  <2>1. folder[c] \in Folders /\ pc[c] = "woken" /\ UNCHANGED <<results, folder, since>>
    BY <1>1, <1>6 DEF Wake, TypeOK
  <2>2. ASSUME NEW d \in Callers \ {c} PROVE AbstractCall(d)' = AbstractCall(d)
    BY <1>1, <1>6 DEF Wake, Goto, AbstractCall, TypeOK
  <2>3. CASE folder[c] \in pending
    <3>1. AbstractCall(c)' = AbstractCall(c)
      BY <1>1, <1>6, <2>3 DEF Wake, Goto, AbstractCall, TypeOK
    <3>2. QED BY <2>1, <2>2, <3>1
  <2>4. CASE folder[c] \notin pending
    <3> DEFINE n == results[folder[c]]
    <3>1. call[c].pc = "joined" /\ call[c].folder = folder[c] /\ call[c].since = since[c]
      BY <2>1 DEF AbstractCall
    <3>2. n \in Nat /\ since[c] \in Nat /\ since[c] < n
      BY <1>1, <2>1, <2>4, FlightType DEF Served
    <3>3. n \in (call[c].since + 1)..results[call[c].folder]
      BY <3>1, <3>2
    <3>4. AbstractCall(c)' = [pc |-> "done", flight |-> n]
      BY <1>1, <1>6, <2>1, <2>4 DEF Wake, Goto, AbstractCall, TypeOK
    <3>5. call' = [call EXCEPT ![c] = [pc |-> "done", flight |-> n]]
      BY <2>2, <3>4
    <3>6. QED BY <2>1, <3>1, <3>3, <3>5 DEF Promise!Answer
  <2>5. QED BY <2>3, <2>4
<1>7. ASSUME NEW c \in Callers, Leave(c)
      PROVE  Promise!Leave(c)
  <2>1. call[c].pc = "done"
    BY <1>7 DEF Leave, AbstractCall
  <2>2. AbstractCall(c)' = [pc |-> "idle"]
    BY <1>1, <1>7 DEF Leave, Goto, AbstractCall, TypeOK
  <2>3. ASSUME NEW d \in Callers \ {c} PROVE AbstractCall(d)' = AbstractCall(d)
    BY <1>1, <1>7 DEF Leave, Goto, AbstractCall, TypeOK
  <2>4. call' = [call EXCEPT ![c] = [pc |-> "idle"]]
    BY <2>2, <2>3
  <2>5. results' = results
    BY <1>7 DEF Leave
  <2>6. QED BY <2>1, <2>4, <2>5 DEF Promise!Leave, Promise!Idle
<1>8. CASE UNCHANGED vars
  <2>1. UNCHANGED <<pc, folder, since, result, results>>
    BY <1>8 DEF vars
  <2>2. QED BY <2>1 DEF AbstractCall
<1>9. QED
  BY <1>2, <1>3, <1>4, <1>5, <1>6, <1>7, <1>8 DEF Next, FlightStep, Promise!Next

\* ensure_indexed implements SingleFlight, whatever is cancelled or raises: every answer
\* is the result of a reindex of the folder that ended after the call, and there is one
\* reindex at a time.  (That everybody is answered is checked by TLC.)
THEOREM Refinement == Spec => OneFlightAnswersAll
<1>1. IInv /\ [Next]_vars
        => [Promise!Next]_<<[c \in Callers |-> AbstractCall(c)], results>>
  BY StepPromise
<1>2. Spec => Promise!Spec
  BY Invariance, InitPromise, <1>1, PTL DEF Spec, Promise!Spec
<1>3. QED BY <1>2 DEF OneFlightAnswersAll
=============================================================================
