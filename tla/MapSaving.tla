----------------------------- MODULE MapSaving -----------------------------
(***************************************************************************)
(* Slam::SaveMap in asynchronous mode: CopyToDatabase, its command and     *)
(* CopyToDatabase_internal (slam/async_slam/async_slam.cpp).               *)
(*                                                                         *)
(* SaveMap may be called from any thread.  It stores the caller's callback *)
(* in the one slot copy_to_database_callback_ and pushes a command that    *)
(* carries only the path; the SLAM thread executes the command and calls   *)
(* whatever the slot then holds.  The slot has no lock: each access to it  *)
(* is an action.  A release build is modelled, in which                    *)
(* assert(!copy_to_database_callback_) is not compiled.  Keyframes between *)
(* the commands in the queue change nothing here (see AsyncSlam).          *)
(***************************************************************************)
EXTENDS Sequences, SequencesExt

CONSTANT Save   \* calls of SaveMap; each has its own folder and callback

\* An empty slot and no command are not calls.
ASSUME SaveAssumption == "empty" \notin Save /\ "none" \notin Save

VARIABLES
  call,     \* how far each call of SaveMap is: "none", "slot", "pushed"
  slot,     \* copy_to_database_callback_: a member of Save, or "empty"
  queue,    \* input_queue_: the folders to save to
  aborted,  \* abort_ of input_queue_
  pc,       \* where the SLAM thread is
  saving,   \* path_ of the command being executed, or "none"
  saved,    \* the folders written
  called,   \* history: the callbacks called, in order, and what they were told
  overlap   \* history: a call was made before the callback of an earlier one was called

vars == <<call, slot, queue, aborted, pc, saving, saved, called, overlap>>

Init ==
  /\ call = [s \in Save |-> "none"] /\ slot = "empty"
  /\ queue = <<>> /\ aborted = FALSE
  /\ pc = "wait" /\ saving = "none"
  /\ saved = {} /\ called = <<>> /\ overlap = FALSE

CalledBack == {called[i].save : i \in 1 .. Len(called)}

\* A call of SaveMap, first half.
SetCallback(s) ==
  /\ ~aborted /\ call[s] = "none"
  /\ slot' = s
  /\ call' = [call EXCEPT ![s] = "slot"]
  /\ overlap' = (overlap \/ \E t \in Save : call[t] # "none" /\ t \notin CalledBack)
  /\ UNCHANGED <<queue, aborted, pc, saving, saved, called>>

\* Second half: the command goes to the queue.
PushCommand(s) ==
  /\ call[s] = "slot"
  /\ queue' = Append(queue, s)
  /\ call' = [call EXCEPT ![s] = "pushed"]
  /\ UNCHANGED <<slot, aborted, pc, saving, saved, called, overlap>>

\* The destructor of AsyncSlam; no call of SaveMap may be under way.
Shutdown ==
  /\ ~aborted /\ \A s \in Save : call[s] # "slot"
  /\ aborted' = TRUE
  /\ UNCHANGED <<call, slot, queue, pc, saving, saved, called, overlap>>

Wait ==
  /\ pc = "wait"
  /\ \/ aborted /\ pc' = "stopped"
     \/ ~aborted /\ queue # <<>> /\ pc' = "drain"
  /\ UNCHANGED <<call, slot, queue, aborted, saving, saved, called, overlap>>

TakeCommand_drops_the_rest ==
  /\ pc = "drain" /\ queue # <<>>
  /\ saving' = Head(queue) /\ queue' = <<>>
  /\ pc' = "save"
  /\ UNCHANGED <<call, slot, aborted, saved, called, overlap>>

\* ProcessInput drains the whole queue, also after an abort.
TakeCommand ==
  /\ pc = "drain" /\ queue # <<>>
  /\ saving' = Head(queue) /\ queue' = Tail(queue)
  /\ pc' = "save"
  /\ UNCHANGED <<call, slot, aborted, saved, called, overlap>>

Drained ==
  /\ pc = "drain" /\ queue = <<>>
  /\ pc' = "wait"
  /\ UNCHANGED <<call, slot, queue, aborted, saving, saved, called, overlap>>

\* AttachToNewDatabaseSaveMapAndDetach; it fails if the folder cannot be opened.
WriteMap ==
  /\ pc = "save"
  /\ saved' \in {saved, saved \cup {saving}}
  /\ pc' = "call"
  /\ UNCHANGED <<call, slot, queue, aborted, saving, called, overlap>>

CallSlot_unchecked ==
  /\ pc = "call"
  /\ called' = Append(called, [save |-> slot, ok |-> saving \in saved])
  /\ pc' = "clear"
  /\ UNCHANGED <<call, slot, queue, aborted, saving, saved, overlap>>

CallSlot_always_success ==
  /\ pc = "call"
  /\ called' = IF slot = "empty" THEN called
               ELSE Append(called, [save |-> slot, ok |-> TRUE])
  /\ pc' = "clear"
  /\ UNCHANGED <<call, slot, queue, aborted, saving, saved, overlap>>

CallSlot ==
  /\ pc = "call"
  /\ called' = IF slot = "empty" THEN called
               ELSE Append(called, [save |-> slot, ok |-> saving \in saved])
  /\ pc' = "clear"
  /\ UNCHANGED <<call, slot, queue, aborted, saving, saved, overlap>>

ClearSlot_forgotten ==
  /\ pc = "clear"
  /\ saving' = "none" /\ pc' = "drain"
  /\ UNCHANGED <<call, slot, queue, aborted, saved, called, overlap>>

ClearSlot ==
  /\ pc = "clear"
  /\ slot' = "empty" /\ saving' = "none" /\ pc' = "drain"
  /\ UNCHANGED <<call, queue, aborted, saved, called, overlap>>

SlamThread == Wait \/ TakeCommand \/ Drained \/ WriteMap \/ CallSlot \/ ClearSlot
Next ==
  \/ SlamThread
  \/ \E s \in Save : SetCallback(s)
  \/ \E s \in Save : PushCommand(s)
  \/ Shutdown

\* The SLAM thread runs whenever it can, and a call of SaveMap returns.
Fairness == WF_vars(SlamThread) /\ \A s \in Save : WF_vars(PushCommand(s))
Spec == Init /\ [][Next]_vars /\ Fairness

-----------------------------------------------------------------------------
(* Properties                                                              *)

TypeOK ==
  /\ call \in [Save -> {"none", "slot", "pushed"}] /\ slot \in Save \cup {"empty"}
  /\ queue \in Seq(Save) /\ aborted \in BOOLEAN
  /\ pc \in {"wait", "drain", "save", "call", "clear", "stopped"}
  /\ saving \in Save \cup {"none"} /\ saved \subseteq Save
  /\ called \in Seq([save : Save, ok : BOOLEAN]) /\ overlap \in BOOLEAN

\* However calls of SaveMap interleave with each other and with the SLAM
\* thread, no callback is called twice.
CalledAtMostOnce == IsInjective([i \in 1 .. Len(called) |-> called[i].save])

\* A callback that reports success is called after the map was written to the
\* folder of its own call ("called when save is complete", cuvslam2.h).  When
\* calls overlap the code does not promise it: an earlier command may find the
\* callback of a later call in the slot.
SuccessMeansSaved ==
  ~overlap => \A i \in 1 .. Len(called) : called[i].ok => called[i].save \in saved

\* Every command pushed is executed, unless the object is destroyed.
EverySaveExecuted ==
  \A s \in Save : s \in ToSet(queue) ~> (saving = s \/ aborted)
=============================================================================
