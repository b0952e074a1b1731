-------------------------- MODULE MapSavingProofs --------------------------
(***************************************************************************)
(* Proofs about saving the map, for any number of calls of SaveMap.        *)
(*                                                                         *)
(* The argument: a call stores its callback in the slot once, so a         *)
(* callback that has been called can only be found in the slot between the *)
(* call and the clearing; and a call is in one place at a time (about to   *)
(* push, in the queue, being executed), so that when calls do not overlap  *)
(* the callback in the slot belongs to the command being executed.         *)
(***************************************************************************)
EXTENDS MapSaving, Naturals, TLAPS

Queued(s) == \E i \in 1 .. Len(queue) : queue[i] = s

\* A call that has not been made has left no trace.
NoTraceBefore ==
  \A s \in Save : call[s] = "none" => slot # s /\ s \notin CalledBack

\* A callback that was called is cleared before it can be called again.
SlotIsFresh == pc # "clear" => slot \notin CalledBack

\* A call is in one place only.
OnePlace ==
  /\ \A s \in Save : call[s] # "pushed" => ~ Queued(s) /\ saving # s
  /\ \A i, j \in 1 .. Len(queue) : queue[i] = queue[j] => i = j
  /\ ~ Queued(saving)

CalledOnce == \A i, j \in 1 .. Len(called) : called[i].save = called[j].save => i = j

Waits(s) == call[s] # "none" /\ s \notin CalledBack

\* While calls do not overlap, one of them at most waits for its callback, and
\* a call that is still to be executed is that one.
OneWaits ==
  ~overlap =>
    /\ \A s, t \in Save : (Waits(s) /\ Waits(t)) => s = t
    /\ \A s \in Save : call[s] = "slot" \/ Queued(s) => s \notin CalledBack
    /\ pc \in {"save", "call"} => saving \in Save /\ saving \notin CalledBack

ThreadState ==
  /\ saving \in Save <=> pc \in {"save", "call", "clear"}
  /\ SuccessMeansSaved

IInv == TypeOK /\ NoTraceBefore /\ SlotIsFresh /\ OnePlace /\ CalledOnce /\ OneWaits /\ ThreadState

-----------------------------------------------------------------------------
(* The sequences                                                           *)

\* What a queue holds after a push.
LEMMA PushFacts ==
  ASSUME NEW S, NEW q \in Seq(S), NEW e \in S
  PROVE  /\ Append(q, e) \in Seq(S) /\ Len(Append(q, e)) = Len(q) + 1
         /\ \A i \in 1 .. Len(q) : Append(q, e)[i] = q[i]
         /\ Append(q, e)[Len(q) + 1] = e
OBVIOUS

LEMMA ElementFacts ==
  ASSUME NEW S, NEW q \in Seq(S), NEW i \in 1 .. Len(q) PROVE q[i] \in S
OBVIOUS

\* What it holds after its first element was taken.
LEMMA PopFacts ==
  ASSUME NEW S, NEW q \in Seq(S), q # <<>>
  PROVE  /\ Tail(q) \in Seq(S) /\ Len(Tail(q)) = Len(q) - 1 /\ Len(q) \in Nat \ {0}
         /\ \A i \in 1 .. Len(q) - 1 : Tail(q)[i] = q[i + 1]
         /\ Head(q) = q[1] /\ Head(q) \in S
OBVIOUS

\* The callbacks called are callbacks.
LEMMA CalledBackAreCalls == TypeOK => CalledBack \subseteq Save
<1> SUFFICES ASSUME TypeOK, NEW i \in 1 .. Len(called) PROVE called[i].save \in Save
  BY DEF CalledBack
<1> DEFINE R == [save : Save, ok : BOOLEAN]
<1>1. called \in Seq(R)
  BY DEF TypeOK
<1> HIDE DEF R
<1>2. called[i] \in R
  BY <1>1, ElementFacts
<1> QED
  BY <1>2 DEF R

-----------------------------------------------------------------------------
LEMMA InitIInv == Init => IInv
<1> SUFFICES ASSUME Init PROVE IInv
  OBVIOUS
<1> USE SaveAssumption DEF Init
<1>1. CalledBack = {}
  BY DEF CalledBack
<1>2. TypeOK
  <2>1. call \in [Save -> {"none", "slot", "pushed"}]
    OBVIOUS
  <2>2. queue \in Seq(Save) /\ called \in Seq([save : Save, ok : BOOLEAN])
    OBVIOUS
  <2> QED
    BY <2>1, <2>2 DEF TypeOK
<1>3. NoTraceBefore /\ SlotIsFresh
  BY <1>1 DEF NoTraceBefore, SlotIsFresh
<1>4. OnePlace /\ CalledOnce
  BY DEF OnePlace, CalledOnce, Queued
<1>5. OneWaits /\ ThreadState
  BY <1>1 DEF OneWaits, Waits, ThreadState, SuccessMeansSaved, Queued
<1> QED
  BY <1>2, <1>3, <1>4, <1>5 DEF IInv

LEMMA SetCallbackPreserves == ASSUME IInv, NEW s \in Save, SetCallback(s) PROVE IInv'
<1> USE SaveAssumption DEF IInv, SetCallback
<1>1. CalledBack' = CalledBack /\ \A t : Queued(t)' <=> Queued(t)
  BY DEF CalledBack, Queued
<1>2. /\ call \in [Save -> {"none", "slot", "pushed"}] /\ call[s] = "none" /\ call'[s] = "slot"
      /\ \A t \in Save : t # s => call'[t] = call[t]
  BY DEF TypeOK
<1>3. TypeOK'
  BY DEF TypeOK
<1>4. NoTraceBefore' /\ SlotIsFresh'
  BY <1>1, <1>2 DEF NoTraceBefore, SlotIsFresh
<1>5. OnePlace' /\ CalledOnce'
  BY <1>1, <1>2 DEF OnePlace, CalledOnce, Queued
<1>6. OneWaits'
  BY <1>1, <1>2 DEF OneWaits, Waits, NoTraceBefore
<1>7. ThreadState'
  BY DEF ThreadState, SuccessMeansSaved
<1> QED
  BY <1>3, <1>4, <1>5, <1>6, <1>7

LEMMA PushCommandPreserves == ASSUME IInv, NEW s \in Save, PushCommand(s) PROVE IInv'
<1> USE SaveAssumption DEF IInv, PushCommand
<1>1. CalledBack' = CalledBack
  BY DEF CalledBack
<1>2. /\ call \in [Save -> {"none", "slot", "pushed"}] /\ call[s] = "slot" /\ call'[s] = "pushed"
      /\ \A t \in Save : t # s => call'[t] = call[t]
  BY DEF TypeOK
<1>3. /\ queue \in Seq(Save) /\ queue' \in Seq(Save) /\ Len(queue') = Len(queue) + 1
      /\ \A i \in 1 .. Len(queue) : queue'[i] = queue[i]
      /\ queue'[Len(queue) + 1] = s
  BY PushFacts DEF TypeOK
<1>4. ~ Queued(s) /\ saving # s
  BY <1>2 DEF OnePlace
<1>5. \A t : Queued(t)' <=> Queued(t) \/ t = s
  BY <1>3 DEF Queued
<1>6. TypeOK'
  BY <1>3 DEF TypeOK
<1>7. NoTraceBefore' /\ SlotIsFresh'
  BY <1>1, <1>2 DEF NoTraceBefore, SlotIsFresh
<1>8. OnePlace'
  <2>1. \A i, j \in 1 .. Len(queue') : queue'[i] = queue'[j] => i = j
    BY <1>3, <1>4 DEF OnePlace, Queued
  <2>2. ~ Queued(saving)' /\ \A t \in Save : call'[t] # "pushed" => ~ Queued(t)' /\ saving' # t
    BY <1>2, <1>4, <1>5 DEF OnePlace
  <2> QED
    BY <2>1, <2>2 DEF OnePlace
<1>9. CalledOnce' /\ ThreadState'
  BY DEF CalledOnce, ThreadState, SuccessMeansSaved
<1>10. OneWaits'
  BY <1>1, <1>2, <1>5 DEF OneWaits, Waits
<1> QED
  BY <1>6, <1>7, <1>8, <1>9, <1>10

LEMMA TakeCommandPreserves == ASSUME IInv, TakeCommand PROVE IInv'
<1> USE SaveAssumption DEF IInv, TakeCommand
<1>1. CalledBack' = CalledBack
  BY DEF CalledBack
<1>2. /\ queue \in Seq(Save) /\ queue' \in Seq(Save) /\ Len(queue') = Len(queue) - 1
      /\ Len(queue) \in Nat \ {0}
      /\ \A i \in 1 .. Len(queue) - 1 : queue'[i] = queue[i + 1]
      /\ saving' = queue[1] /\ saving' \in Save
  BY PopFacts DEF TypeOK
<1>3. Queued(saving') /\ \A t : Queued(t)' => Queued(t)
  BY <1>2 DEF Queued
<1>4. TypeOK'
  BY <1>2 DEF TypeOK
<1>5. NoTraceBefore' /\ SlotIsFresh'
  BY <1>1 DEF NoTraceBefore, SlotIsFresh
<1>6. OnePlace'
  <2>1. \A i, j \in 1 .. Len(queue') : queue'[i] = queue'[j] => i = j
    <3> SUFFICES ASSUME NEW i \in 1 .. Len(queue'), NEW j \in 1 .. Len(queue'),
                        queue'[i] = queue'[j]
                 PROVE  i = j
      OBVIOUS
    <3>1. i + 1 \in 1 .. Len(queue) /\ j + 1 \in 1 .. Len(queue) /\ queue[i + 1] = queue[j + 1]
      BY <1>2
    <3> QED
      BY <3>1 DEF OnePlace
  <2>2. ~ Queued(saving)'
    <3> SUFFICES ASSUME NEW i \in 1 .. Len(queue'), queue'[i] = saving' PROVE FALSE
      BY DEF Queued
    <3>1. i + 1 \in 1 .. Len(queue) /\ 1 \in 1 .. Len(queue) /\ queue[i + 1] = queue[1]
      BY <1>2
    <3> QED
      BY <3>1, <1>2 DEF OnePlace
  <2>3. \A t \in Save : call'[t] # "pushed" => ~ Queued(t)' /\ saving' # t
    BY <1>3 DEF OnePlace
  <2> QED
    BY <2>1, <2>2, <2>3 DEF OnePlace
<1>7. CalledOnce' /\ ThreadState'
  BY <1>2 DEF CalledOnce, ThreadState, SuccessMeansSaved
<1>8. OneWaits'
  BY <1>1, <1>2, <1>3 DEF OneWaits, Waits
<1> QED
  BY <1>4, <1>5, <1>6, <1>7, <1>8

LEMMA CallSlotPreserves == ASSUME IInv, CallSlot PROVE IInv'
<1> USE SaveAssumption DEF IInv, CallSlot
<1>1. \A t : Queued(t)' <=> Queued(t)
  BY DEF Queued
<1>2. CASE slot = "empty"
  <2>1. CalledBack' = CalledBack
    BY <1>2 DEF CalledBack
  <2>2. TypeOK'
    BY <1>2 DEF TypeOK
  <2> QED
    BY <1>1, <1>2, <2>1, <2>2 DEF NoTraceBefore, SlotIsFresh, OnePlace, CalledOnce, OneWaits, Waits,
          ThreadState, SuccessMeansSaved
<1>3. CASE slot # "empty"
  <2> DEFINE e == [save |-> slot, ok |-> saving \in saved]
  <2>1. slot \in Save /\ slot \notin CalledBack /\ saving \in Save
    BY <1>3 DEF TypeOK, SlotIsFresh, ThreadState
  <2>2. e \in [save : Save, ok : BOOLEAN] /\ e.save = slot /\ e.ok = (saving \in saved)
    BY <2>1
  <2>3. called' = Append(called, e) /\ called \in Seq([save : Save, ok : BOOLEAN])
    BY <1>3 DEF TypeOK
  <2> HIDE DEF e
  <2>4. /\ called' \in Seq([save : Save, ok : BOOLEAN]) /\ Len(called') = Len(called) + 1
        /\ \A i \in 1 .. Len(called) : called'[i] = called[i]
        /\ called'[Len(called) + 1] = e /\ Len(called) \in Nat
    <3> DEFINE R == [save : Save, ok : BOOLEAN]
    <3>1. e \in R /\ called \in Seq(R)
      BY <2>2, <2>3
    <3> HIDE DEF R
    <3>2. /\ called' \in Seq(R) /\ Len(called') = Len(called) + 1
          /\ \A i \in 1 .. Len(called) : called'[i] = called[i]
          /\ called'[Len(called) + 1] = e /\ Len(called) \in Nat
      BY <2>3, <3>1, PushFacts
    <3> QED
      BY <3>2 DEF R
  <2>5. \A t : t \in CalledBack' <=> t \in CalledBack \/ t = slot
    BY <2>2, <2>4 DEF CalledBack
  <2>6. TypeOK'
    BY <2>4 DEF TypeOK
  <2>7. NoTraceBefore' /\ SlotIsFresh'
    BY <2>5 DEF NoTraceBefore, SlotIsFresh
  <2>8. OnePlace'
    BY <1>1 DEF OnePlace, Queued
  <2>9. CalledOnce'
    <3>1. \A i \in 1 .. Len(called) : called[i].save # slot
      BY <2>1 DEF CalledBack
    <3> QED
      BY <2>2, <2>4, <3>1 DEF CalledOnce
  <2>10. ~overlap => slot = saving
    BY <2>1 DEF OneWaits, Waits, NoTraceBefore, OnePlace
  <2>11. OneWaits'
    <3>1. ~overlap => \A s \in Save : call[s] = "slot" \/ Queued(s) => s # slot
      BY <2>10, <2>1 DEF OnePlace
    <3> QED
      BY <1>1, <2>5, <3>1 DEF OneWaits, Waits
  <2>12. ThreadState'
    <3>1. ~overlap => \A i \in 1 .. Len(called') : called'[i].ok => called'[i].save \in saved
      BY <2>2, <2>4, <2>10 DEF ThreadState, SuccessMeansSaved
    <3> QED
      BY <3>1 DEF ThreadState, SuccessMeansSaved
  <2> QED
    BY <2>6, <2>7, <2>8, <2>9, <2>11, <2>12
<1> QED
  BY <1>2, <1>3

\* The other steps of the SLAM thread, the destructor and stuttering.
LEMMA OtherStepsPreserve ==
  ASSUME IInv, \/ Wait \/ Drained \/ WriteMap \/ ClearSlot \/ Shutdown \/ UNCHANGED vars
  PROVE  IInv'
<1> USE SaveAssumption DEF IInv
<1>1. CalledBack' = CalledBack /\ (\A t : Queued(t)' <=> Queued(t)) /\ queue' = queue
  BY DEF Wait, Drained, WriteMap, ClearSlot, Shutdown, vars, CalledBack, Queued
<1>2. CASE Wait \/ Drained \/ Shutdown
  <2>1. TypeOK'
    BY <1>2 DEF Wait, Drained, Shutdown, TypeOK
  <2> QED
    BY <1>1, <1>2, <2>1 DEF Wait, Drained, Shutdown, NoTraceBefore, SlotIsFresh, OnePlace, CalledOnce,
          OneWaits, Waits, ThreadState, SuccessMeansSaved
<1>3. CASE UNCHANGED vars
  <2>1. TypeOK'
    BY <1>3 DEF vars, TypeOK
  <2> QED
    BY <1>1, <1>3, <2>1 DEF vars, NoTraceBefore, SlotIsFresh, OnePlace, CalledOnce,
          OneWaits, Waits, ThreadState, SuccessMeansSaved
<1>4. CASE WriteMap
  <2>1. TypeOK'
    BY <1>4 DEF WriteMap, TypeOK, ThreadState
  <2> QED
    BY <1>1, <1>4, <2>1 DEF WriteMap, NoTraceBefore, SlotIsFresh, OnePlace, CalledOnce,
          OneWaits, Waits, ThreadState, SuccessMeansSaved
<1>5. CASE ClearSlot
  <2>1. "empty" \notin CalledBack
    BY CalledBackAreCalls
  <2>2. ~ Queued("none")
    BY DEF Queued, TypeOK
  <2>3. TypeOK'
    BY <1>5 DEF ClearSlot, TypeOK
  <2> QED
    BY <1>1, <1>5, <2>1, <2>2, <2>3 DEF ClearSlot, NoTraceBefore, SlotIsFresh, OnePlace, CalledOnce,
          OneWaits, Waits, ThreadState, SuccessMeansSaved
<1> QED
  BY <1>2, <1>3, <1>4, <1>5

LEMMA IInvInductive == IInv /\ [Next]_vars => IInv'
BY SetCallbackPreserves, PushCommandPreserves, TakeCommandPreserves, CallSlotPreserves,
   OtherStepsPreserve DEF Next, SlamThread

LEMMA SavingInvariant == Spec => []IInv
BY InitIInv, IInvInductive, PTL DEF Spec

\* Every variable of the model of saving keeps its type.
THEOREM SavingTypes == Spec => []TypeOK
<1>1. IInv => TypeOK
  BY DEF IInv
<1> QED
  BY <1>1, SavingInvariant, PTL

\* No callback is called twice, whatever the interleaving of callers, thread
\* and destructor (CopyToDatabase, CopyToDatabase_internal).
THEOREM CallbackCalledAtMostOnce == Spec => []CalledAtMostOnce
<1>1. IInv => CalledAtMostOnce
  <2> SUFFICES ASSUME IInv PROVE CalledAtMostOnce
    OBVIOUS
  <2> DEFINE f == [i \in 1 .. Len(called) |-> called[i].save]
  <2>1. DOMAIN f = 1 .. Len(called) /\ \A i \in 1 .. Len(called) : f[i] = called[i].save
    OBVIOUS
  <2>2. \A i, j \in DOMAIN f : f[i] = f[j] => i = j
    BY <2>1 DEF IInv, CalledOnce
  <2> QED
    BY <2>2 DEF CalledAtMostOnce, IsInjective
<1> QED
  BY <1>1, SavingInvariant, PTL

\* When calls of SaveMap do not overlap, a callback that reports success is told
\* so after the map was written to its own folder.
THEOREM SuccessfulCallbackSaved == Spec => []SuccessMeansSaved
<1>1. IInv => SuccessMeansSaved
  BY DEF IInv, ThreadState
<1> QED
  BY <1>1, SavingInvariant, PTL
=============================================================================
