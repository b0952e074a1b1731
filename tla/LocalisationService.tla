------------------------ MODULE LocalisationService ------------------------
(***************************************************************************)
(* What Slam::LocalizeInMap promises its callers (cuvslam2.h), for a SLAM  *)
(* object with a background thread: requests are queued, executed one at a *)
(* time in the order they were made, and each of them has its start        *)
(* callback called once and then its finish callback called once, as long  *)
(* as the object is not destroyed.                                         *)
(***************************************************************************)
EXTENDS Sequences

CONSTANT Request

VARIABLES
  waiting,  \* requests not yet started, in the order of the calls
  answer,   \* what each request was told
  open      \* the SLAM object is alive

serviceVars == <<waiting, answer, open>>

Init ==
  /\ waiting = <<>>
  /\ answer = [r \in Request |-> "none"]
  /\ open = TRUE

Ask(r) ==
  /\ open /\ answer[r] = "none"
  /\ waiting' = Append(waiting, r)
  /\ answer' = [answer EXCEPT ![r] = "queued"]
  /\ UNCHANGED open

Start ==
  /\ waiting # <<>>
  /\ \A r \in Request : answer[r] # "started"
  /\ answer' = [answer EXCEPT ![Head(waiting)] = "started"]
  /\ waiting' = Tail(waiting)
  /\ UNCHANGED open

Finish(r, outcome) ==
  /\ answer[r] = "started"
  /\ answer' = [answer EXCEPT ![r] = outcome]
  /\ UNCHANGED <<waiting, open>>

Answer == \E r \in Request, outcome \in {"success", "error"} : Finish(r, outcome)

\* Requests still waiting when the object is destroyed may never start.
Close == open /\ open' = FALSE /\ UNCHANGED <<waiting, answer>>

Next == (\E r \in Request : Ask(r)) \/ Start \/ Answer \/ Close

Spec ==
  /\ Init /\ [][Next]_serviceVars
  /\ WF_serviceVars(open /\ Start) /\ WF_serviceVars(Answer)
=============================================================================
