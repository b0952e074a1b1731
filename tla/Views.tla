------------------------------- MODULE Views -------------------------------
(***************************************************************************)
(* One data layer that API readers see: the two views of its ViewManager,  *)
(* written by the SLAM thread (ProcessInput, map_to_view.cpp) or, for the  *)
(* layer of the current frame, by Slam::Track, and copied by               *)
(* Slam::ReadLandmarks and ReadPoseGraph into an object the caller keeps.  *)
(* The caller's thread enables, disables, tracks and reads.                *)
(*                                                                         *)
(* An item of a view is the frame it was written for, the number of items  *)
(* there were to write and its place among them.  A view is taken when anybody but the pool   *)
(* holds it (use_count() > 1).                                             *)
(***************************************************************************)
EXTENDS Integers, Sequences, FiniteSets, FiniteSetsExt

CONSTANTS
  Capacity,  \* max_items_count of EnableReadingData
  MaxItems,  \* bound of the model: items there are to publish
  MaxTime    \* bound of the model: frames

VARIABLES
  layer,    \* the data layer
  pool,     \* views_
  view,     \* the views there ever were, with timestamp_ns and landmarks
  writing,  \* the view the SLAM thread has acquired, NoView, and its frame
  reading,  \* the view ReadLandmarks has acquired
  seen,     \* what the caller has: landmarks_[layer]
  now       \* timestamp of the newest frame

vars == <<layer, pool, view, writing, reading, seen, now>>

NoView == 0
\* One view may be held by a writer that lost its pool.
View == 1 .. 3
Blank == [time |-> 0, items |-> <<>>]

Init ==
  /\ layer \in {"Landmarks", "Map", "LoopClosure", "PoseGraph"}
  /\ pool = {} /\ view = [v \in View |-> Blank]
  /\ writing = [view |-> NoView, time |-> 0] /\ reading = NoView
  /\ seen = Blank /\ now = 0

-----------------------------------------------------------------------------
(* ViewManager                                                             *)

\* use_count() == 1
Unheld == pool \ {writing.view, reading}

\* acquire_latest
Latest ==
  IF Unheld = {} THEN NoView
  ELSE CHOOSE v \in Unheld : \A w \in Unheld :
         view[v].time > view[w].time \/ (view[v].time = view[w].time /\ v <= w)

Earliest_latest == Latest

\* acquire_earliest: the first of those with the smallest timestamp
Earliest ==
  IF Unheld = {} THEN NoView
  ELSE CHOOSE v \in Unheld : \A w \in Unheld :
         view[v].time < view[w].time \/ (view[v].time = view[w].time /\ v <= w)

\* the views EnableReadingData makes: always two
Pooled(free) == CHOOSE two \in kSubset(2, free) : TRUE

\* EnableReadingData.  A pool that has its two views is left as it is.
Enable ==
  /\ reading = NoView /\ pool = {}
  /\ pool' = Pooled(View \ {writing.view})
  /\ view' = [v \in View |-> IF v \in pool' THEN Blank ELSE view[v]]
  /\ UNCHANGED <<layer, writing, reading, seen, now>>

\* DisableReadingData
Disable ==
  /\ reading = NoView /\ pool # {}
  /\ pool' = {}
  /\ UNCHANGED <<layer, view, writing, reading, seen, now>>

-----------------------------------------------------------------------------
(* Publishing                                                              *)

\* 1 << pow: no odd number but 1 divides it
PowerOfTwo(d) == \A p \in 2 .. d : d % p = 0 => p % 2 = 0

EachDiv_halved(n) == Min({d \in 1 .. 2 * n : PowerOfTwo(d) /\ d * Capacity * 2 > n})

\* The map publishes every each_div-th landmark: the smallest power of two
\* with which they fit.
EachDiv(n) == Min({d \in 1 .. 2 * n : PowerOfTwo(d) /\ d * Capacity >= n})

\* What PublishAllLandmarksToView, PublishLoopClosureToView and
\* PublishPoseGraphToView write into a view of n items: those they come to while
\* there is room
Published(t, n) ==
  LET each == IF layer = "Map" THEN EachDiv(n) ELSE 1
      chosen == (n + each - 1) \div each
  IN [i \in 1 .. Min({chosen, Capacity}) |-> <<t, n, (i - 1) * each>>]

\* acquire_earliest on the SLAM thread, for a frame it has processed
BeginPublish ==
  /\ layer # "Landmarks" /\ writing.view = NoView /\ now < MaxTime
  /\ now' = now + 1
  /\ writing' = [view |-> Earliest, time |-> now + 1]
  /\ UNCHANGED <<layer, pool, view, reading, seen>>

Cleared_not(v) == view[v].items

\* The writers of the SLAM thread clear the view first.
Cleared(v) == <<>>

WriteItems ==
  /\ writing.view # NoView /\ view[writing.view].time # writing.time
  /\ \A i \in DOMAIN view[writing.view].items : view[writing.view].items[i][1] # writing.time
  /\ \E n \in 1 .. MaxItems :
       view' = [view EXCEPT ![writing.view].items =
                  Cleared(writing.view) \o Published(writing.time, n)]
  /\ UNCHANGED <<layer, pool, writing, reading, seen, now>>

\* The timestamp is written last and the view released.
FinishPublish ==
  /\ writing.view # NoView
  /\ \E i \in DOMAIN view[writing.view].items : view[writing.view].items[i][1] = writing.time
  /\ view' = [view EXCEPT ![writing.view].time = writing.time]
  /\ writing' = [view |-> NoView, time |-> 0]
  /\ UNCHANGED <<layer, pool, reading, seen, now>>

\* Slam::Track adds the landmarks of the frame to the view, which nobody
\* clears, as far as there is room.
TrackFrame ==
  /\ layer = "Landmarks" /\ reading = NoView /\ now < MaxTime
  /\ now' = now + 1
  /\ \/ Earliest = NoView /\ UNCHANGED view
     \/ /\ Earliest # NoView
        /\ \E n \in 0 .. MaxItems :
             LET room == Capacity - Len(view[Earliest].items)
             IN view' = [view EXCEPT ![Earliest] =
                           [time |-> now + 1, items |-> @.items \o SubSeq(Published(now + 1, n), 1, Min({room, n}))]]
  /\ UNCHANGED <<layer, pool, writing, reading, seen>>

-----------------------------------------------------------------------------
(* Reading                                                                 *)

\* ReadLandmarks acquires the latest view and copies its timestamp; a disabled
\* layer leaves what the caller has.
BeginRead ==
  /\ reading = NoView
  /\ reading' = Latest
  /\ seen' = IF Latest = NoView THEN seen ELSE [seen EXCEPT !.time = view[Latest].time]
  /\ UNCHANGED <<layer, pool, view, writing, now>>

\* It copies the items and releases the view.
FinishRead ==
  /\ reading # NoView
  /\ seen' = [seen EXCEPT !.items = view[reading].items]
  /\ reading' = NoView
  /\ UNCHANGED <<layer, pool, view, writing, now>>

Next ==
  \/ Enable \/ Disable
  \/ BeginPublish \/ WriteItems \/ FinishPublish \/ TrackFrame
  \/ BeginRead \/ FinishRead

Spec == Init /\ [][Next]_vars

-----------------------------------------------------------------------------
(* Properties                                                              *)

Whole(result) == \A i \in DOMAIN result.items : result.items[i][1] = result.time

\* What a reader of a layer that the SLAM thread writes has after a read are
\* items of the frame its timestamp names: never of two publications, nor of
\* one half written, nor of a pool that was given up.
OnePublication == layer # "Landmarks" /\ reading = NoView => Whole(seen)

\* While a layer stays enabled its caller never sees an older publication than
\* it has seen, although the SLAM thread may take any view it is not reading.
NeverBack == seen'.time < seen.time => seen'.time = 0

\* However many landmarks the map has, the ones published are spread evenly
\* over all of them and use at least half of the view.
UsesTheView ==
  layer = "Map" => \A v \in View :
    LET items == view[v].items
        all == items[1][2]
        place(i) == IF i > Len(items) THEN all ELSE items[i][3]
        gap == place(2) - place(1)
    IN items # <<>> =>
         /\ Len(items) <= Capacity /\ 2 * Len(items) >= Min({Capacity, 2 * all})
         /\ \A i \in 2 .. Len(items) - 1 : place(i + 1) - place(i) = gap
         /\ Len(items) > 1 => all - place(Len(items)) <= gap
=============================================================================
