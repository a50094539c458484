----------------------------- MODULE Components -----------------------------
(***************************************************************************)
(* The connected regions of a picture, as the metadata stage of the        *)
(* extractor finds them: gx_aux_label_components floods each region from   *)
(* its first pixel, breadth first and over a queue of limited room,        *)
(* gx_aux_select_largest picks the largest of them.  One look at a         *)
(* neighbour is one step.                                                  *)
(*                                                                         *)
(* Two limits of the code may cut the work short: the labels may run out,  *)
(* and then the rest of the picture is never looked at; and a pixel that   *)
(* finds no room in the queue has its label, but nobody goes on from it.   *)
(*                                                                         *)
(* Definitions named ...Mutant are wrong variants of the definition after  *)
(* them, kept to show that the properties notice the difference.           *)
(***************************************************************************)
EXTENDS Integers, Sequences, FiniteSets

CONSTANTS Rows, Columns,  \* of a picture
          QueueRoom,      \* GX_AUX_COMPONENT_QUEUE_CAPACITY
          Places,         \* selected_count
          Threshold       \* primary_threshold and history_threshold

ASSUME ComponentsAssumption ==
    /\ Rows \in Nat \ {0} /\ Columns \in Nat \ {0}
    /\ QueueRoom \in Nat \ {0}
    /\ Places \in Nat
    /\ Threshold \in Nat

VARIABLES
    binary,      \* the set pixels of the picture
    limit,       \* maximum_components
    turn,        \* the loop in progress, or the state between two pictures
    labels,      \* the label of each pixel, Unseen at first
    sizes,       \* the number of pixels with each label
    regions,     \* component_count
    scan,        \* the pixel that the outer loop has reached
    queue,       \* labelled pixels whose neighbours are still to be seen
    point,       \* the pixel whose neighbours are being looked at
    direction,   \* the next of them; 5 when all four have been
    chosen       \* the labels that have been selected

(***************************************************************************)
(* History variable: a pixel has found no room in the queue.               *)
(***************************************************************************)
VARIABLE dropped

floodVars  == <<queue, point, direction, dropped>>
labelVars  == <<labels, sizes, regions>>
regionVars == <<binary, limit, turn, labelVars, scan, floodVars, chosen>>

Unseen == -1
Pixels == (0..(Rows - 1)) \X (0..(Columns - 1))
Turns  == {"none", "scan", "flood", "select", "done"}

ComponentsTypeOK ==
    /\ binary \subseteq Pixels
    /\ limit \in Nat \ {0}
    /\ turn \in Turns
    /\ labels \in [Pixels -> Int]
    /\ sizes \in [0..limit -> Nat]
    /\ regions \in 0..limit
    /\ scan \in (0..Rows) \X (0..(Columns - 1))
    /\ queue \in Seq(Pixels)
    /\ point \in Pixels
    /\ direction \in 1..5
    /\ chosen \subseteq 1..regions
    /\ dropped \in BOOLEAN

NoPicture ==
    /\ binary = {}
    /\ limit = 1
    /\ turn = "none"
    /\ labels = [p \in Pixels |-> Unseen]
    /\ sizes = [l \in 0..1 |-> 0]
    /\ regions = 0
    /\ scan = <<0, 0>>
    /\ queue = <<>>
    /\ point = <<0, 0>>
    /\ direction = 5
    /\ chosen = {}
    /\ dropped = FALSE

-----------------------------------------------------------------------------
(* gx_aux_label_components.                                                *)

Start(picture, most) ==
    /\ turn = "none"
    /\ turn' = "scan"
    /\ binary' = picture
    /\ limit' = most
    /\ labels' = [p \in Pixels |-> Unseen]
    /\ sizes' = [l \in 0..most |-> 0]
    /\ regions' = 0
    /\ scan' = <<0, 0>>
    /\ dropped' = FALSE
    /\ UNCHANGED <<queue, point, direction, chosen>>

AfterPixel(p) ==
    IF p[2] + 1 < Columns THEN <<p[1], p[2] + 1>> ELSE <<p[1] + 1, 0>>

(***************************************************************************)
(* A pixel that has a label, or gets that of the background.               *)
(***************************************************************************)
PassPixel ==
    /\ turn = "scan"
    /\ scan \in Pixels
    /\ labels[scan] # Unseen \/ scan \notin binary
    /\ labels' = IF labels[scan] # Unseen THEN labels
                 ELSE [labels EXCEPT ![scan] = 0]
    /\ scan' = AfterPixel(scan)
    /\ UNCHANGED <<binary, limit, turn, sizes, regions, floodVars, chosen>>

Labelled(p, l) ==
    /\ labels' = [labels EXCEPT ![p] = l]
    /\ sizes' = [sizes EXCEPT ![l] = @ + 1]

StartRegion ==
    /\ turn = "scan"
    /\ scan \in Pixels
    /\ labels[scan] = Unseen
    /\ scan \in binary
    /\ regions' = regions + 1
    /\ Labelled(scan, regions + 1)
    /\ queue' = <<scan>>
    /\ turn' = "flood"
    /\ UNCHANGED <<binary, limit, scan, point, direction, dropped, chosen>>

NeverUpMutant(p, d) ==
    CASE d = 1 -> <<p[1], p[2] - 1>>
      [] d = 3 -> <<p[1], p[2] + 1>>
      [] OTHER -> <<p[1] + 1, p[2]>>

Neighbor(p, d) ==
    CASE d = 1 -> <<p[1], p[2] - 1>>
      [] d = 2 -> <<p[1] - 1, p[2]>>
      [] d = 3 -> <<p[1], p[2] + 1>>
      [] OTHER -> <<p[1] + 1, p[2]>>

TakePoint ==
    /\ turn = "flood"
    /\ direction = 5
    /\ queue # <<>>
    /\ point' = Head(queue)
    /\ queue' = Tail(queue)
    /\ direction' = 1
    /\ UNCHANGED <<binary, limit, turn, labelVars, scan, dropped, chosen>>

(***************************************************************************)
(* A neighbour outside the picture or with a label is passed over, one of  *)
(* the background gets its label, any other one this region's.             *)
(***************************************************************************)
Visit ==
    /\ turn = "flood"
    /\ direction \in 1..4
    /\ direction' = direction + 1
    /\ LET next == Neighbor(point, direction)
       IN  IF next \notin Pixels
           THEN UNCHANGED <<labelVars, queue, dropped>>
           ELSE \/ /\ labels[next] # Unseen
                   /\ UNCHANGED <<labelVars, queue, dropped>>
                \/ /\ labels[next] = Unseen /\ next \notin binary
                   /\ labels' = [labels EXCEPT ![next] = 0]
                   /\ UNCHANGED <<sizes, regions, queue, dropped>>
                \/ /\ labels[next] = Unseen /\ next \in binary
                   /\ Labelled(next, regions)
                   /\ IF Len(queue) < QueueRoom
                      THEN queue' = Append(queue, next) /\ UNCHANGED dropped
                      ELSE dropped' = TRUE /\ UNCHANGED queue
                   /\ UNCHANGED regions
    /\ UNCHANGED <<binary, limit, turn, scan, point, chosen>>

(***************************************************************************)
(* The region is complete.  With its label the labels may be used up.      *)
(***************************************************************************)
EndRegion ==
    /\ turn = "flood"
    /\ direction = 5
    /\ queue = <<>>
    /\ turn' = IF regions >= limit THEN "select" ELSE "scan"
    /\ scan' = AfterPixel(scan)
    /\ UNCHANGED <<binary, limit, labelVars, floodVars, chosen>>

EndScan ==
    /\ turn = "scan"
    /\ scan \notin Pixels
    /\ turn' = "select"
    /\ UNCHANGED <<binary, limit, labelVars, scan, floodVars, chosen>>

-----------------------------------------------------------------------------
(* gx_aux_select_largest.                                                  *)

Open == {l \in 1..regions : l \notin chosen /\ sizes[l] > Threshold}

LastBestMutant(l) == \A m \in Open : m <= l

Best(l) == \A m \in Open : sizes[m] <= sizes[l]

(***************************************************************************)
(* The largest region that is left; of equal ones the first.               *)
(***************************************************************************)
SelectNext ==
    /\ turn = "select"
    /\ Cardinality(chosen) < Places
    /\ \E l \in Open :
          /\ Best(l)
          /\ \A m \in Open : Best(m) => l <= m
          /\ chosen' = chosen \cup {l}
    /\ UNCHANGED <<binary, limit, turn, labelVars, scan, floodVars>>

EndSelect ==
    /\ turn = "select"
    /\ Cardinality(chosen) >= Places \/ Open = {}
    /\ turn' = "done"
    /\ UNCHANGED <<binary, limit, labelVars, scan, floodVars, chosen>>

(***************************************************************************)
(* gx_aux_label_is_selected.                                               *)
(***************************************************************************)
Picked == {p \in Pixels : labels[p] \in chosen}

Forget ==
    /\ turn = "done"
    /\ binary' = {}
    /\ limit' = 1
    /\ turn' = "none"
    /\ labels' = [p \in Pixels |-> Unseen]
    /\ sizes' = [l \in 0..1 |-> 0]
    /\ regions' = 0
    /\ scan' = <<0, 0>>
    /\ queue' = <<>>
    /\ point' = <<0, 0>>
    /\ direction' = 5
    /\ chosen' = {}
    /\ dropped' = FALSE

-----------------------------------------------------------------------------
ComponentsStep ==
    \/ PassPixel \/ StartRegion \/ EndScan
    \/ TakePoint \/ Visit \/ EndRegion
    \/ SelectNext \/ EndSelect

ComponentsNext ==
    \/ \E picture \in SUBSET Pixels, most \in Nat \ {0} : Start(picture, most)
    \/ ComponentsStep
    \/ Forget

ComponentsSpec == NoPicture /\ [][ComponentsNext]_regionVars
-----------------------------------------------------------------------------
(* What the metadata stage relies on.                                      *)

Adjacent(p, q) == \E d \in 1..4 : q = Neighbor(p, d)

(***************************************************************************)
(* No way leads out of a closed set; the component of a pixel is the       *)
(* smallest one around it.                                                 *)
(***************************************************************************)
Closed(set) ==
    \A p \in set : \A q \in binary : Adjacent(p, q) => q \in set

Component(p) ==
    {q \in binary : \A set \in SUBSET binary :
                        (Closed(set) /\ p \in set) => q \in set}

(***************************************************************************)
(* What is picked are whole connected components over the threshold, none  *)
(* of them smaller than one that was left out, and one over the threshold  *)
(* is left out only when the places are taken.  This is so unless the      *)
(* labels ran out or the queue did; even then, nothing is picked that is   *)
(* not set.                                                                *)
(***************************************************************************)
SelectionIsLargest ==
    turn = "done" =>
        /\ Picked \subseteq binary
        /\ (regions < limit /\ ~dropped) =>
             /\ \A p \in Picked : /\ Component(p) \subseteq Picked
                                  /\ Cardinality(Component(p)) > Threshold
             /\ \A q \in binary \ Picked :
                  /\ \A p \in Picked : Cardinality(Component(q)) <=
                                         Cardinality(Component(p))
                  /\ Cardinality(Component(q)) > Threshold =>
                       Cardinality(chosen) = Places
=============================================================================
