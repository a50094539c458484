------------------------------ MODULE Records -------------------------------
(***************************************************************************)
(* The records of a feature on their way through the post-processing of    *)
(* the extractor: gx_feature_post_prune_mask drops the records outside the *)
(* mask, gx_feature_post_partition_records moves those of class zero to    *)
(* the front.  Both work in place on an array of records; a second array   *)
(* holds one quality per record, computed before the first record goes.    *)
(* One iteration of a loop is one step.                                    *)
(*                                                                         *)
(* A record is the keypoint it describes; whether the mask covers its      *)
(* rounded position, and its class, the low bits of its first byte, are    *)
(* fixed.  The code knows of no other class than 0 and 1: with another one *)
(* the partition would not end.                                            *)
(*                                                                         *)
(* Definitions named ...Mutant are wrong variants of the definition after  *)
(* them, kept to show that the properties notice the difference.           *)
(***************************************************************************)
EXTENDS Integers

CONSTANTS Keypoints,  \* what a record may describe
          Capacity,   \* the size of the two arrays
          Blank       \* what the rest of the arrays holds

ASSUME RecordsAssumption ==
    /\ Capacity \in Nat \ {0}
    /\ Blank \notin Keypoints

VARIABLES
    covered,   \* the keypoints that the mask covers or does not reach
    ones,      \* the keypoints whose record has class 1
    records,   \* the array of records
    quality,   \* the array of qualities: whose quality it is
    count,     \* the number of records
    loop,      \* the loop in progress, or the state between two of them
    front,     \* index of the loop of prune_mask; front of the partition
    last,      \* last of the partition
    zeroCount  \* the zero_class_count of the partition

(***************************************************************************)
(* History variable.                                                       *)
(***************************************************************************)
VARIABLE detected  \* the keypoints of the records before the first loop

maskVars    == <<covered, ones, detected>>
arrayVars   == <<records, quality, count>>
cursorVars  == <<loop, front, last, zeroCount>>
recordVars  == <<maskVars, arrayVars, cursorVars>>

Slots == 0..(Capacity - 1)
Loops == {"none", "prune", "pruned", "front", "back", "end", "done"}

RecordsTypeOK ==
    /\ covered \subseteq Keypoints
    /\ ones \subseteq Keypoints
    /\ detected \subseteq Keypoints
    /\ records \in [Slots -> Keypoints \cup {Blank}]
    /\ quality \in [Slots -> Keypoints \cup {Blank}]
    /\ count \in 0..Capacity
    /\ loop \in Loops
    /\ front \in 0..Capacity
    /\ last \in -1..(Capacity - 1)
    /\ zeroCount \in 0..Capacity

(***************************************************************************)
(* An object that was just created: no record yet.                         *)
(***************************************************************************)
Empty ==
    /\ covered = {}
    /\ ones = {}
    /\ detected = {}
    /\ records = [i \in Slots |-> Blank]
    /\ quality = [i \in Slots |-> Blank]
    /\ count = 0
    /\ loop = "none"
    /\ front = 0
    /\ last = 0
    /\ zeroCount = 0

Used == 0..(count - 1)

Injective(f, n) == \A i, j \in 0..(n - 1) : f[i] = f[j] => i = j

(***************************************************************************)
(* The detector has written n records, and gx_feature_record_window_       *)
(* quality their qualities: one for each, at the same index.               *)
(***************************************************************************)
Fill(n) ==
    /\ loop = "none"
    /\ loop' = "prune"
    /\ count' = n
    /\ records' \in [Slots -> Keypoints \cup {Blank}]
    /\ \A i \in Slots : records'[i] = Blank <=> i >= n
    /\ Injective(records', n)
    /\ quality' = records'
    /\ detected' = {records'[i] : i \in 0..(n - 1)}
    /\ covered' \in SUBSET Keypoints
    /\ ones' \in SUBSET Keypoints
    /\ front' = 0
    /\ last' = 0
    /\ zeroCount' = 0

-----------------------------------------------------------------------------
(* gx_feature_post_prune_mask.                                             *)

(***************************************************************************)
(* A record outside the mask is overwritten by the last one, which is      *)
(* cleared unless it is the same; the copy is looked at next.  Nothing     *)
(* happens to the qualities.                                               *)
(***************************************************************************)
SkipCopyMutant(i) == i + 1

AfterRemoval(i) == i

DropRecord ==
    /\ loop = "prune"
    /\ front < count
    /\ records[front] \notin covered
    /\ count' = count - 1
    /\ records' = IF front = count - 1 THEN records
                  ELSE [records EXCEPT ![front] = records[count - 1],
                                       ![count - 1] = Blank]
    /\ front' = AfterRemoval(front)
    /\ UNCHANGED <<maskVars, quality, loop, last, zeroCount>>

Keep ==
    /\ loop = "prune"
    /\ front < count
    /\ records[front] \in covered
    /\ front' = front + 1
    /\ UNCHANGED <<maskVars, arrayVars, loop, last, zeroCount>>

Pruned ==
    /\ loop = "prune"
    /\ front >= count
    /\ loop' = "pruned"
    /\ UNCHANGED <<maskVars, arrayVars, front, last, zeroCount>>

-----------------------------------------------------------------------------
(* gx_feature_post_partition_records.                                      *)

StartPartition ==
    /\ loop = "pruned"
    /\ front' = 0
    /\ last' = count - 1
    /\ zeroCount' = 0
    /\ loop' = IF count = 0 THEN "done" ELSE "front"
    /\ UNCHANGED <<maskVars, arrayVars>>

SkipZero ==
    /\ loop = "front"
    /\ front < last
    /\ records[front] \notin ones
    /\ front' = front + 1
    /\ UNCHANGED <<maskVars, arrayVars, loop, last, zeroCount>>

FoundOne ==
    /\ loop = "front"
    /\ front < last => records[front] \in ones
    /\ loop' = IF last <= front THEN "end" ELSE "back"
    /\ UNCHANGED <<maskVars, arrayVars, front, last, zeroCount>>

SkipOne ==
    /\ loop = "back"
    /\ front < last
    /\ records[last] \in ones
    /\ last' = last - 1
    /\ UNCHANGED <<maskVars, arrayVars, loop, front, zeroCount>>

Exchanged(f, i, j) == [f EXCEPT ![i] = f[j], ![j] = f[i]]

RecordsOnlyMutant(i, j) == quality

QualityExchanged(i, j) == Exchanged(quality, i, j)

FoundZero ==
    /\ loop = "back"
    /\ front < last => records[last] \notin ones
    /\ IF last <= front
       THEN /\ loop' = "end"
            /\ UNCHANGED arrayVars
       ELSE /\ loop' = "front"
            /\ records' = Exchanged(records, front, last)
            /\ quality' = QualityExchanged(front, last)
            /\ UNCHANGED count
    /\ UNCHANGED <<maskVars, front, last, zeroCount>>

(***************************************************************************)
(* The record where front and last have met belongs to either class.       *)
(***************************************************************************)
EndPartition ==
    /\ loop = "end"
    /\ front' = IF front = last /\ records[front] \notin ones
                THEN front + 1 ELSE front
    /\ zeroCount' = front'
    /\ loop' = "done"
    /\ UNCHANGED <<maskVars, arrayVars, last>>

-----------------------------------------------------------------------------
PruneStep     == DropRecord \/ Keep \/ Pruned
PartitionStep == \/ SkipZero \/ FoundOne \/ SkipOne \/ FoundZero
                 \/ EndPartition

RecordsNext ==
    \/ \E n \in 0..Capacity : Fill(n)
    \/ PruneStep
    \/ StartPartition
    \/ PartitionStep

RecordsSpec == Empty /\ [][RecordsNext]_recordVars
-----------------------------------------------------------------------------
(* What the record array promises.                                         *)

(***************************************************************************)
(* The feature has a record for exactly those keypoints that the mask does *)
(* not exclude, one for each, however often the loop removed the record it *)
(* had just copied; and the first zeroCount records, as the object says,   *)
(* are those of class zero.                                                *)
(***************************************************************************)
RecordsComplete ==
    loop \in Loops \ {"none", "prune"} =>
        /\ {records[i] : i \in Used} = detected \cap covered
        /\ Injective(records, count)

RecordsPartitioned ==
    /\ RecordsComplete
    /\ loop = "done" =>
         \A i \in Used : i < zeroCount <=> records[i] \notin ones

(***************************************************************************)
(* The quality at the index of a record is that record's, unless a record  *)
(* was dropped: prune_mask moves records and leaves the qualities where    *)
(* they are, so that one dropped record may give another one its quality.  *)
(***************************************************************************)
QualityFollowsRecord ==
    (loop \in Loops \ {"none"} /\ detected \subseteq covered) =>
        \A i \in Used : quality[i] = records[i]

(***************************************************************************)
(* The two together: after the loops the object describes what the         *)
(* detector found, in the order and with the qualities it claims.          *)
(***************************************************************************)
ArraysAreSound == RecordsPartitioned /\ QualityFollowsRecord
=============================================================================
