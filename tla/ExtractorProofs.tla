--------------------------- MODULE ExtractorProofs --------------------------
(***************************************************************************)
(* Theorems about Records.tla, Components.tla and Extractor.tla, for every *)
(* set of keypoints, capacity of the record array, size of the pictures,   *)
(* room in the queue, number of labels and set of images; and about        *)
(* Matcher.tla, which compares the records that are extracted, for all     *)
(* scans, enrollments, configurations, scales and tables of sines.  The    *)
(* loops of the matcher are recursive functions, and what they compute is  *)
(* proved by induction.                                                    *)
(***************************************************************************)
EXTENDS Extractor, Matcher, SequenceTheorems, FiniteSetTheorems,
        WellFoundedInduction, TLAPS

(***************************************************************************)
(* The loop of prune_mask: the records before front are known to be        *)
(* covered; what is gone was not.                                          *)
(***************************************************************************)
Present == {records[i] : i \in 0..(count - 1)}

PruneInvariant ==
    loop = "prune" =>
        /\ front <= count
        /\ Present \subseteq detected
        /\ detected \cap covered \subseteq Present
        /\ Injective(records, count)
        /\ \A i \in 0..(front - 1) : records[i] \in covered

(***************************************************************************)
(* The loops of the partition close in from both ends.                     *)
(***************************************************************************)
PartitionInvariant ==
    loop \in {"front", "back", "end"} =>
        /\ 0 <= front
        /\ front <= last
        /\ last < count
        /\ \A i \in 0..(front - 1) : records[i] \notin ones
        /\ \A i \in (last + 1)..(count - 1) : records[i] \in ones
        /\ loop = "back" /\ front < last => records[front] \in ones
        /\ loop = "end" => front = last

QualityInvariant ==
    (loop # "none" /\ detected \subseteq covered) =>
        \A i \in 0..(count - 1) : quality[i] = records[i]

RecordsInvariant ==
    /\ RecordsTypeOK
    /\ PruneInvariant
    /\ PartitionInvariant
    /\ RecordsPartitioned
    /\ QualityInvariant

USE RecordsAssumption DEF RecordsAssumption

-----------------------------------------------------------------------------
(* The records.                                                            *)

LEMMA EmptyRecords == Empty => RecordsInvariant
BY DEF Empty, RecordsInvariant, RecordsTypeOK, PruneInvariant,
       PartitionInvariant, RecordsPartitioned, RecordsComplete,
       QualityInvariant, Slots, Loops

LEMMA ClearKeeps == ClearRecords => RecordsInvariant'
BY DEF ClearRecords, RecordsInvariant, RecordsTypeOK, PruneInvariant,
       PartitionInvariant, RecordsPartitioned, RecordsComplete,
       QualityInvariant, Slots, Loops

LEMMA FillKeeps ==
    ASSUME NEW n \in 0..Capacity, Fill(n)
    PROVE  RecordsInvariant'
<1>1. RecordsTypeOK'
  <2>1. \A i \in 0..(n - 1) : i \in Slots /\ records'[i] \in Keypoints
    BY DEF Fill, Slots
  <2>2. detected' \subseteq Keypoints
    BY <2>1 DEF Fill
  <2> QED
    BY <2>2 DEF Fill, RecordsTypeOK, Slots, Loops
<1>2. PruneInvariant'
  BY DEF Fill, PruneInvariant, Present, Injective
<1>3. PartitionInvariant' /\ RecordsPartitioned'
  BY DEF Fill, PartitionInvariant, RecordsPartitioned, RecordsComplete
<1>4. QualityInvariant'
  BY DEF Fill, QualityInvariant
<1> QED
  BY <1>1, <1>2, <1>3, <1>4 DEF RecordsInvariant

LEMMA DropKeeps ==
    ASSUME RecordsInvariant, DropRecord
    PROVE  RecordsInvariant'
<1> USE DEF RecordsInvariant
<1>1. /\ count \in 0..Capacity /\ count' = count - 1 /\ count >= 1
      /\ front \in 0..(count - 1) /\ front' = front
      /\ records \in [Slots -> Keypoints \cup {Blank}]
  BY DEF DropRecord, RecordsTypeOK, AfterRemoval
<1>2. records' \in [Slots -> Keypoints \cup {Blank}]
  BY <1>1 DEF DropRecord, Slots
<1>3. \A i \in 0..(count - 2) :
        records'[i] = IF i = front THEN records[count - 1] ELSE records[i]
  BY <1>1 DEF DropRecord, Slots
<1>4. RecordsTypeOK'
  BY <1>1, <1>2 DEF DropRecord, RecordsTypeOK, maskVars
<1>5. PruneInvariant'
  <2>1. loop = "prune" /\ UNCHANGED <<detected, covered>>
    BY DEF DropRecord, maskVars
  <2>2. Present' \subseteq detected
    BY <1>1, <1>3, <2>1 DEF Present, PruneInvariant
  <2>3. detected \cap covered \subseteq Present'
    <3> SUFFICES ASSUME NEW k \in detected \cap covered
                 PROVE  k \in Present'
      OBVIOUS
    <3>1. PICK i \in 0..(count - 1) : records[i] = k
      BY <2>1 DEF Present, PruneInvariant
    <3>2. i # front
      BY <3>1 DEF DropRecord
    <3>3. CASE i = count - 1
      <4>1. front \in 0..(count' - 1) /\ records'[front] = k
        BY <1>1, <1>3, <3>1, <3>2, <3>3
      <4> QED
        BY <4>1 DEF Present
    <3>4. CASE i # count - 1
      <4>1. i \in 0..(count' - 1) /\ records'[i] = k
        BY <1>1, <1>3, <3>1, <3>2, <3>4
      <4> QED
        BY <4>1 DEF Present
    <3> QED
      BY <3>3, <3>4
  <2>4. Injective(records, count)' 
    BY <1>1, <1>3, <2>1 DEF Injective, PruneInvariant
  <2>5. \A i \in 0..(front' - 1) : records'[i] \in covered
    BY <1>1, <1>3, <2>1 DEF PruneInvariant
  <2> QED
    BY <1>1, <2>1, <2>2, <2>3, <2>4, <2>5 DEF PruneInvariant
<1>6. PartitionInvariant' /\ RecordsPartitioned'
  BY DEF DropRecord, PartitionInvariant, RecordsPartitioned, RecordsComplete
<1>7. QualityInvariant'
  <2>1. records[front] \in detected /\ records[front] \notin covered
    BY <1>1 DEF DropRecord, PruneInvariant, Present
  <2> QED
    BY <2>1 DEF DropRecord, QualityInvariant, maskVars
<1> QED
  BY <1>4, <1>5, <1>6, <1>7

LEMMA KeepKeeps ==
    ASSUME RecordsInvariant, Keep \/ Pruned
    PROVE  RecordsInvariant'
<1> USE DEF RecordsInvariant
<1>1. /\ loop = "prune" /\ UNCHANGED <<maskVars, arrayVars, last, zeroCount>>
      /\ loop' \in {"prune", "pruned"}
      /\ count \in 0..Capacity /\ front \in 0..Capacity
  BY DEF Keep, Pruned, RecordsTypeOK, maskVars, arrayVars
<1>2. RecordsTypeOK'
  BY <1>1 DEF Keep, Pruned, RecordsTypeOK, maskVars, arrayVars, Loops
<1>3. PruneInvariant'
  BY <1>1 DEF Keep, Pruned, PruneInvariant, Present, maskVars, arrayVars
<1>4. PartitionInvariant'
  BY <1>1 DEF PartitionInvariant
<1>5. RecordsPartitioned'
  <2> SUFFICES ASSUME loop' = "pruned"
               PROVE  RecordsComplete'
    BY <1>1 DEF RecordsPartitioned, RecordsComplete
  <2>1. front = count /\ Pruned
    BY <1>1 DEF Keep, Pruned, PruneInvariant
  <2>2. Present \subseteq covered
    BY <1>1, <2>1 DEF PruneInvariant, Present
  <2>3. Present = detected \cap covered /\ Injective(records, count)
    BY <1>1, <2>2 DEF PruneInvariant
  <2> QED
    BY <1>1, <2>3 DEF RecordsComplete, Present, Used, maskVars, arrayVars,
                      Injective
<1>6. QualityInvariant'
  BY <1>1 DEF QualityInvariant, maskVars, arrayVars
<1> QED
  BY <1>2, <1>3, <1>4, <1>5, <1>6

LEMMA StartKeeps ==
    ASSUME RecordsInvariant, StartPartition
    PROVE  RecordsInvariant'
<1> USE DEF RecordsInvariant
<1>1. /\ loop = "pruned" /\ UNCHANGED <<maskVars, arrayVars>>
      /\ loop' \in {"done", "front"}
      /\ count \in 0..Capacity /\ front' = 0 /\ last' = count - 1
      /\ zeroCount' = 0
      /\ loop' = "done" <=> count = 0
  BY DEF StartPartition, RecordsTypeOK
<1>2. RecordsTypeOK'
  BY <1>1 DEF RecordsTypeOK, maskVars, arrayVars, Loops
<1>3. PruneInvariant' /\ PartitionInvariant'
  BY <1>1 DEF PruneInvariant, PartitionInvariant, maskVars, arrayVars
<1>4. RecordsPartitioned'
  <2>1. RecordsComplete'
    BY <1>1 DEF RecordsPartitioned, RecordsComplete, Used, maskVars,
                arrayVars, Injective, Loops
  <2> QED
    BY <1>1, <2>1 DEF RecordsPartitioned, Used, maskVars, arrayVars
<1>5. QualityInvariant'
  BY <1>1 DEF QualityInvariant, maskVars, arrayVars
<1> QED
  BY <1>2, <1>3, <1>4, <1>5

(***************************************************************************)
(* The loops that only move front or last.                                 *)
(***************************************************************************)
LEMMA SkipKeeps ==
    ASSUME RecordsInvariant, SkipZero \/ FoundOne \/ SkipOne
    PROVE  RecordsInvariant'
<1> USE DEF RecordsInvariant
<1>1. /\ loop \in {"front", "back"} /\ UNCHANGED <<maskVars, arrayVars>>
      /\ loop' \in {"front", "back", "end"}
      /\ UNCHANGED zeroCount
      /\ count \in 0..Capacity
      /\ front \in 0..(count - 1) /\ last \in 0..(count - 1) /\ front <= last
  BY DEF SkipZero, FoundOne, SkipOne, RecordsTypeOK, PartitionInvariant,
         maskVars, arrayVars
<1>2. RecordsTypeOK'
  BY <1>1 DEF SkipZero, FoundOne, SkipOne, RecordsTypeOK, maskVars, arrayVars,
              Loops
<1>3. PruneInvariant'
  BY <1>1 DEF PruneInvariant
<1>4. PartitionInvariant'
  <2>1. CASE SkipZero
    BY <1>1, <2>1 DEF SkipZero, PartitionInvariant, maskVars, arrayVars
  <2>2. CASE FoundOne
    BY <1>1, <2>2 DEF FoundOne, PartitionInvariant, maskVars, arrayVars
  <2>3. CASE SkipOne
    BY <1>1, <2>3 DEF SkipOne, PartitionInvariant, maskVars, arrayVars
  <2> QED
    BY <2>1, <2>2, <2>3
<1>5. RecordsPartitioned'
  BY <1>1 DEF RecordsPartitioned, RecordsComplete, Used, maskVars, arrayVars,
              Injective, Loops
<1>6. QualityInvariant'
  BY <1>1 DEF QualityInvariant, maskVars, arrayVars
<1> QED
  BY <1>2, <1>3, <1>4, <1>5, <1>6

LEMMA FoundZeroKeeps ==
    ASSUME RecordsInvariant, FoundZero
    PROVE  RecordsInvariant'
<1> USE DEF RecordsInvariant
<1>1. /\ loop = "back"
      /\ UNCHANGED <<maskVars, count, front, last, zeroCount>>
      /\ loop' \in {"front", "end"}
      /\ count \in 0..Capacity
      /\ front \in 0..(count - 1) /\ last \in 0..(count - 1) /\ front <= last
      /\ records \in [Slots -> Keypoints \cup {Blank}]
      /\ quality \in [Slots -> Keypoints \cup {Blank}]
  BY DEF FoundZero, RecordsTypeOK, PartitionInvariant, arrayVars
<1>2. CASE last <= front
  <2>1. loop' = "end" /\ UNCHANGED <<records, quality>>
    BY <1>2 DEF FoundZero, arrayVars
  <2>2. RecordsTypeOK'
    BY <1>1, <2>1 DEF RecordsTypeOK, maskVars, Loops
  <2>3. PruneInvariant' /\ PartitionInvariant'
    BY <1>1, <1>2, <2>1 DEF PruneInvariant, PartitionInvariant, maskVars
  <2>4. RecordsPartitioned' /\ QualityInvariant'
    BY <1>1, <2>1 DEF RecordsPartitioned, RecordsComplete, Used, maskVars,
                      Injective, Loops, QualityInvariant
  <2> QED
    BY <2>2, <2>3, <2>4
<1>3. CASE front < last
  <2>1. /\ loop' = "front"
        /\ records' = Exchanged(records, front, last)
        /\ quality' = Exchanged(quality, front, last)
        /\ records[last] \notin ones
    BY <1>1, <1>3 DEF FoundZero, QualityExchanged
  <2>2. /\ records' \in [Slots -> Keypoints \cup {Blank}]
        /\ quality' \in [Slots -> Keypoints \cup {Blank}]
    BY <1>1, <2>1 DEF Exchanged, Slots
  <2>3. \A i \in 0..(count - 1) :
          /\ records'[i] = IF i = front THEN records[last]
                           ELSE IF i = last THEN records[front]
                           ELSE records[i]
          /\ quality'[i] = IF i = front THEN quality[last]
                           ELSE IF i = last THEN quality[front]
                           ELSE quality[i]
    BY <1>1, <2>1 DEF Exchanged, Slots
  <2>4. RecordsTypeOK'
    BY <1>1, <2>1, <2>2 DEF RecordsTypeOK, maskVars, Loops
  <2>5. PruneInvariant'
    BY <2>1 DEF PruneInvariant
  <2>6. PartitionInvariant'
    BY <1>1, <1>3, <2>1, <2>3 DEF PartitionInvariant, maskVars
  <2>7. RecordsPartitioned'
    <3>1. {records'[i] : i \in 0..(count - 1)}
            = {records[i] : i \in 0..(count - 1)}
      <4>1. ASSUME NEW i \in 0..(count - 1)
            PROVE  \E j \in 0..(count - 1) : records'[i] = records[j]
        BY <1>1, <2>3
      <4>2. ASSUME NEW i \in 0..(count - 1)
            PROVE  \E j \in 0..(count - 1) : records[i] = records'[j]
        BY <1>1, <2>3
      <4> DEFINE after  == {records'[i] : i \in 0..(count - 1)}
                 before == {records[i] : i \in 0..(count - 1)}
      <4>3. after \subseteq before
        BY <4>1
      <4>4. before \subseteq after
        BY <4>2
      <4> QED
        BY <4>3, <4>4
    <3>2. Injective(records, count)
      BY <1>1 DEF RecordsPartitioned, RecordsComplete, Loops
    <3>3. \A i, j \in 0..(count - 1) : records'[i] = records'[j] => i = j
      BY <1>1, <2>3, <3>2 DEF Injective
    <3>4. {records[i] : i \in 0..(count - 1)} = detected \cap covered
      BY <1>1 DEF RecordsPartitioned, RecordsComplete, Loops, Used
    <3> QED
      BY <1>1, <2>1, <3>1, <3>3, <3>4
      DEF RecordsPartitioned, RecordsComplete, Used, Injective, maskVars
  <2>8. QualityInvariant'
    BY <1>1, <2>3 DEF QualityInvariant, maskVars
  <2> QED
    BY <2>4, <2>5, <2>6, <2>7, <2>8
<1> QED
  BY <1>1, <1>2, <1>3

LEMMA EndKeeps ==
    ASSUME RecordsInvariant, EndPartition
    PROVE  RecordsInvariant'
<1> USE DEF RecordsInvariant
<1>1. /\ loop = "end" /\ loop' = "done"
      /\ UNCHANGED <<maskVars, arrayVars, last>>
      /\ count \in 0..Capacity /\ front = last /\ front \in 0..(count - 1)
      /\ front' = (IF records[front] \notin ones THEN front + 1 ELSE front)
      /\ zeroCount' = front'
  BY DEF EndPartition, RecordsTypeOK, PartitionInvariant
<1>2. RecordsTypeOK'
  BY <1>1 DEF RecordsTypeOK, maskVars, arrayVars, Loops
<1>3. PruneInvariant' /\ PartitionInvariant'
  BY <1>1 DEF PruneInvariant, PartitionInvariant
<1>4. RecordsComplete'
  BY <1>1 DEF RecordsPartitioned, RecordsComplete, Used, maskVars, arrayVars,
              Injective, Loops
<1>5. \A i \in 0..(count - 1) : i < zeroCount' <=> records[i] \notin ones
  BY <1>1 DEF PartitionInvariant
<1>6. RecordsPartitioned'
  BY <1>1, <1>4, <1>5 DEF RecordsPartitioned, Used, maskVars, arrayVars
<1>7. QualityInvariant'
  BY <1>1 DEF QualityInvariant, maskVars, arrayVars
<1> QED
  BY <1>2, <1>3, <1>6, <1>7

LEMMA PruneKeeps ==
    ASSUME RecordsInvariant, PruneStep
    PROVE  RecordsInvariant'
BY DropKeeps, KeepKeeps DEF PruneStep

LEMMA PartitionKeeps ==
    ASSUME RecordsInvariant, StartPartition \/ PartitionStep
    PROVE  RecordsInvariant'
BY StartKeeps, SkipKeeps, FoundZeroKeeps, EndKeeps DEF PartitionStep

LEMMA UnchangedRecords ==
    ASSUME RecordsInvariant, UNCHANGED recordVars
    PROVE  RecordsInvariant'
BY DEF RecordsInvariant, RecordsTypeOK, PruneInvariant, Present,
       PartitionInvariant, RecordsPartitioned, RecordsComplete, Used,
       Injective, QualityInvariant, recordVars, maskVars, arrayVars,
       cursorVars

(***************************************************************************)
(* The two loops by themselves: whatever the mask covers and whatever the  *)
(* classes are, nothing is lost, nothing is there twice and the classes    *)
(* are apart.                                                              *)
(***************************************************************************)
THEOREM LoopsAreCorrect == RecordsSpec => []RecordsPartitioned
<1>1. Empty => RecordsInvariant
  BY EmptyRecords
<1>2. RecordsInvariant /\ [RecordsNext]_recordVars => RecordsInvariant'
  BY FillKeeps, PruneKeeps, PartitionKeeps, UnchangedRecords
     DEF RecordsNext
<1>3. RecordsInvariant => RecordsPartitioned
  BY DEF RecordsInvariant
<1> QED
  BY <1>1, <1>2, <1>3, PTL DEF RecordsSpec
-----------------------------------------------------------------------------
(* The regions of a picture.                                               *)

(***************************************************************************)
(* The pixels with one label; the pixels that no closed set tells apart.   *)
(***************************************************************************)
Region(l) == {p \in Pixels : labels[p] = l}

SameSide(p, q) ==
    \A set \in SUBSET binary : Closed(set) => (p \in set <=> q \in set)

(***************************************************************************)
(* The outer loop goes through the picture row by row.                     *)
(***************************************************************************)
Before(p, q) == p[1] < q[1] \/ (p[1] = q[1] /\ p[2] < q[2])

(***************************************************************************)
(* The region being flooded still has to go from p in direction d.         *)
(***************************************************************************)
Waiting(p, d) ==
    /\ turn = "flood"
    /\ (\E i \in 1..Len(queue) : queue[i] = p) \/ (p = point /\ d >= direction)

LabelsFit ==
    \A p \in Pixels : /\ labels[p] \in {Unseen} \cup 0..regions
                      /\ labels[p] > 0 => p \in binary
                      /\ labels[p] = 0 => p \notin binary

SizesFit == \A l \in 1..limit : sizes[l] = Cardinality(Region(l))

ScanFits ==
    /\ turn = "scan" => regions < limit
    /\ turn \in {"scan", "flood"} =>
         \A p \in Pixels : Before(p, scan) => labels[p] # Unseen
    /\ turn = "flood" => scan \in Pixels /\ labels[scan] # Unseen
    /\ (turn \in {"select", "done"} /\ regions < limit) =>
         \A p \in Pixels : labels[p] # Unseen

FloodFits ==
    /\ direction # 5 => turn = "flood" /\ labels[point] = regions
    /\ turn = "flood" => /\ regions > 0
                         /\ \A i \in 1..Len(queue) : labels[queue[i]] = regions

Spread ==
    ~dropped =>
        \A p \in Pixels, d \in 1..4 :
            (labels[p] > 0 /\ Neighbor(p, d) \in binary /\ ~Waiting(p, d)) =>
                labels[Neighbor(p, d)] = labels[p]

Joined ==
    \A p, q \in Pixels :
        (labels[p] = labels[q] /\ labels[p] > 0) => SameSide(p, q)

ChosenFit ==
    /\ turn \in {"none", "scan", "flood"} => chosen = {}
    /\ \A l \in chosen :
          /\ sizes[l] > Threshold
          /\ \A m \in (1..regions) \ chosen : sizes[m] <= sizes[l]
    /\ Cardinality(chosen) <= Places
    /\ turn = "done" => Cardinality(chosen) = Places \/ Open = {}

ComponentsInvariant ==
    /\ ComponentsTypeOK
    /\ LabelsFit /\ SizesFit
    /\ ScanFits /\ FloodFits
    /\ Spread /\ Joined
    /\ ChosenFit

USE ComponentsAssumption DEF ComponentsAssumption

LEMMA PixelsFinite ==
    /\ IsFiniteSet(Pixels)
    /\ \A set \in SUBSET Pixels :
          IsFiniteSet(set) /\ Cardinality(set) \in Nat
<1>1. IsFiniteSet(0..(Rows - 1)) /\ IsFiniteSet(0..(Columns - 1))
  BY FS_Interval
<1>2. IsFiniteSet(Pixels)
  BY <1>1, FS_Product DEF Pixels
<1> QED
  BY <1>2, FS_Subset, FS_CardinalityType

LEMMA Corner == <<0, 0>> \in Pixels /\ <<0, 0>> \in (0..Rows) \X (0..(Columns - 1))
BY DEF Pixels

LEMMA ScanMoves ==
    ASSUME NEW p \in Pixels
    PROVE  /\ AfterPixel(p) \in (0..Rows) \X (0..(Columns - 1))
           /\ \A q \in Pixels : Before(q, AfterPixel(p)) =>
                                  Before(q, p) \/ q = p
<1>1. PICK y \in 0..(Rows - 1), x \in 0..(Columns - 1) : p = <<y, x>>
  BY DEF Pixels
<1>2. CASE x + 1 < Columns
  <2>1. AfterPixel(p) = <<y, x + 1>>
    BY <1>1, <1>2 DEF AfterPixel
  <2> QED
    BY <1>1, <1>2, <2>1 DEF Before, Pixels
<1>3. CASE ~(x + 1 < Columns)
  <2>1. AfterPixel(p) = <<y + 1, 0>>
    BY <1>1, <1>3 DEF AfterPixel
  <2> QED
    BY <1>1, <1>3, <2>1 DEF Before, Pixels
<1> QED
  BY <1>2, <1>3

LEMMA ScanEnds ==
    ASSUME scan \in (0..Rows) \X (0..(Columns - 1)), scan \notin Pixels
    PROVE  \A p \in Pixels : Before(p, scan)
BY DEF Before, Pixels

LEMMA WayBack ==
    ASSUME NEW p \in Pixels, NEW d \in 1..4, Neighbor(p, d) \in Pixels
    PROVE  \E e \in 1..4 : Neighbor(Neighbor(p, d), e) = p
<1>1. PICK y \in 0..(Rows - 1), x \in 0..(Columns - 1) : p = <<y, x>>
  BY DEF Pixels
<1>2. CASE d = 1
  <2>1. Neighbor(Neighbor(p, d), 3) = p
    BY <1>1, <1>2 DEF Neighbor
  <2> QED
    BY <2>1
<1>3. CASE d = 2
  <2>1. Neighbor(Neighbor(p, d), 4) = p
    BY <1>1, <1>3 DEF Neighbor
  <2> QED
    BY <2>1
<1>4. CASE d = 3
  <2>1. Neighbor(Neighbor(p, d), 1) = p
    BY <1>1, <1>4 DEF Neighbor
  <2> QED
    BY <2>1
<1>5. CASE d = 4
  <2>1. Neighbor(Neighbor(p, d), 2) = p
    BY <1>1, <1>5 DEF Neighbor
  <2> QED
    BY <2>1
<1> QED
  BY <1>2, <1>3, <1>4, <1>5

(***************************************************************************)
(* Two neighbours that are both set are in the same closed sets.           *)
(***************************************************************************)
LEMMA NeighborsJoin ==
    ASSUME NEW p \in Pixels, NEW d \in 1..4, binary \subseteq Pixels,
           p \in binary, Neighbor(p, d) \in binary
    PROVE  SameSide(p, Neighbor(p, d))
<1>1. Adjacent(p, Neighbor(p, d)) /\ Adjacent(Neighbor(p, d), p)
  BY WayBack DEF Adjacent
<1> QED
  BY <1>1 DEF SameSide, Closed

-----------------------------------------------------------------------------
LEMMA NoPictureFits == NoPicture => ComponentsInvariant
<1> SUFFICES ASSUME NoPicture
             PROVE  ComponentsInvariant
  OBVIOUS
<1> USE DEF NoPicture
<1>1. ComponentsTypeOK
  <2>1. queue \in Seq(Pixels) /\ point \in Pixels
    BY Corner
  <2>2. labels \in [Pixels -> Int] /\ sizes \in [0..limit -> Nat]
    BY DEF Unseen
  <2>3. chosen \subseteq 1..regions /\ dropped \in BOOLEAN
    OBVIOUS
  <2>4. /\ binary \subseteq Pixels /\ turn \in Turns
        /\ limit \in Nat \ {0} /\ regions \in 0..limit
        /\ direction \in 1..5
    BY DEF Turns
  <2>5. scan \in (0..Rows) \X (0..(Columns - 1))
    BY Corner
  <2> QED
    BY <2>1, <2>2, <2>3, <2>4, <2>5 DEF ComponentsTypeOK
<1>2. LabelsFit /\ ScanFits /\ FloodFits /\ Spread /\ Joined
  BY DEF LabelsFit, ScanFits, FloodFits, Spread, Joined, Unseen, Pixels
<1>3. SizesFit
  <2>1. \A l \in 1..1 : Region(l) = {}
    BY DEF Region, Unseen
  <2>2. \A l \in 1..1 : Cardinality(Region(l)) = 0
    BY <2>1, FS_EmptySet
  <2>3. \A l \in 1..1 : sizes[l] = 0
    OBVIOUS
  <2> QED
    BY <2>2, <2>3 DEF SizesFit
<1>4. ChosenFit
  BY FS_EmptySet DEF ChosenFit
<1> QED
  BY <1>1, <1>2, <1>3, <1>4 DEF ComponentsInvariant

LEMMA ForgetFits == Forget => ComponentsInvariant'
<1> SUFFICES ASSUME Forget
             PROVE  ComponentsInvariant'
  OBVIOUS
<1> USE DEF Forget
<1>1. ComponentsTypeOK'
  <2>1. queue' \in Seq(Pixels) /\ point' \in Pixels
    BY Corner
  <2>2. labels' \in [Pixels -> Int] /\ sizes' \in [0..limit' -> Nat]
    BY DEF Unseen
  <2>3. chosen' \subseteq 1..regions' /\ dropped' \in BOOLEAN
    OBVIOUS
  <2>4. /\ binary' \subseteq Pixels /\ turn' \in Turns
        /\ limit' \in Nat \ {0} /\ regions' \in 0..limit'
        /\ direction' \in 1..5
    BY DEF Turns
  <2>5. scan' \in (0..Rows) \X (0..(Columns - 1))
    BY Corner
  <2> QED
    BY <2>1, <2>2, <2>3, <2>4, <2>5 DEF ComponentsTypeOK
<1>2. LabelsFit' /\ ScanFits' /\ FloodFits' /\ Spread' /\ Joined'
  BY DEF LabelsFit, ScanFits, FloodFits, Spread, Joined, Unseen, Pixels
<1>3. SizesFit'
  <2>1. \A l \in 1..1 : Region(l)' = {}
    BY DEF Region, Unseen
  <2> QED
    BY <2>1, FS_EmptySet DEF SizesFit
<1>4. ChosenFit'
  BY FS_EmptySet DEF ChosenFit
<1> QED
  BY <1>1, <1>2, <1>3, <1>4 DEF ComponentsInvariant

LEMMA StartFits ==
    ASSUME ComponentsInvariant, NEW picture \in SUBSET Pixels,
           NEW most \in Nat \ {0}, Start(picture, most)
    PROVE  ComponentsInvariant'
<1> USE DEF Start
<1>1. chosen = {} /\ direction = 5
  BY DEF ComponentsInvariant, ChosenFit, FloodFits
<1>6. ComponentsTypeOK'
  <2>1. labels' \in [Pixels -> Int] /\ sizes' \in [0..limit' -> Nat]
    BY DEF Unseen
  <2>2. ComponentsTypeOK
    BY DEF ComponentsInvariant
  <2>3. chosen' \subseteq 1..regions' /\ dropped' \in BOOLEAN
    BY <1>1
  <2>4. binary' \subseteq Pixels /\ turn' \in Turns /\ regions' \in 0..limit'
    BY DEF Turns
  <2>5. scan' \in (0..Rows) \X (0..(Columns - 1))
    BY Corner
  <2> QED
    BY <2>1, <2>2, <2>3, <2>4, <2>5 DEF ComponentsTypeOK
<1>2. LabelsFit' /\ FloodFits' /\ Spread' /\ Joined'
  BY <1>1 DEF LabelsFit, FloodFits, Spread, Joined, Unseen
<1>3. ScanFits'
  BY DEF ScanFits, Before, Pixels
<1>4. SizesFit'
  <2>1. \A l \in 1..most : Region(l)' = {}
    BY DEF Region, Unseen
  <2> QED
    BY <2>1, FS_EmptySet DEF SizesFit
<1>5. ChosenFit'
  BY <1>1, FS_EmptySet DEF ChosenFit
<1> QED
  BY <1>2, <1>3, <1>4, <1>5, <1>6 DEF ComponentsInvariant

LEMMA TypesOfRegions ==
    ASSUME ComponentsTypeOK
    PROVE  /\ labels \in [Pixels -> Int] /\ sizes \in [0..limit -> Nat]
           /\ limit \in Nat \ {0} /\ regions \in 0..limit
           /\ queue \in Seq(Pixels) /\ point \in Pixels
           /\ binary \subseteq Pixels
BY DEF ComponentsTypeOK

LEMMA PassFits ==
    ASSUME ComponentsInvariant, PassPixel
    PROVE  ComponentsInvariant'
<1> USE DEF ComponentsInvariant
<1>1. /\ turn = "scan" /\ turn' = "scan" /\ scan \in Pixels
      /\ scan' = AfterPixel(scan)
      /\ UNCHANGED <<binary, limit, sizes, regions, queue, point, direction,
                     dropped, chosen>>
      /\ direction = 5
  BY DEF PassPixel, floodVars, FloodFits
<1>2. /\ labels' \in [Pixels -> Int]
      /\ \A p \in Pixels : labels'[p] = labels[p] \/ labels'[p] = 0
      /\ \A p \in Pixels : labels'[p] # labels[p] =>
            p = scan /\ labels[p] = Unseen /\ p \notin binary
      /\ labels'[scan] # Unseen
  BY TypesOfRegions DEF PassPixel, Unseen
<1>3. ComponentsTypeOK'
  <2>1. scan' \in (0..Rows) \X (0..(Columns - 1))
    BY <1>1, ScanMoves
  <2> QED
    BY <1>1, <1>2, <2>1 DEF ComponentsTypeOK
<1>4. LabelsFit'
  BY <1>1, <1>2, TypesOfRegions DEF LabelsFit, Unseen
<1>5. SizesFit'
  <2>1. \A l \in 1..limit : Region(l)' = Region(l)
    BY <1>2 DEF Region, Unseen
  <2> QED
    BY <1>1, <2>1 DEF SizesFit
<1>6. ScanFits'
  BY <1>1, <1>2, ScanMoves DEF ScanFits, Unseen
<1>7. FloodFits' /\ ChosenFit'
  BY <1>1 DEF FloodFits, ChosenFit
<1>8. Spread'
  <2> SUFFICES ASSUME ~dropped, NEW p \in Pixels, NEW d \in 1..4,
                      labels'[p] > 0, Neighbor(p, d) \in binary
               PROVE  labels'[Neighbor(p, d)] = labels'[p]
    BY <1>1 DEF Spread
  <2>1. labels[p] > 0 /\ labels'[p] = labels[p] /\ ~Waiting(p, d)
    BY <1>1, <1>2 DEF Waiting
  <2>2. Neighbor(p, d) \in Pixels
    BY TypesOfRegions
  <2> QED
    BY <1>2, <2>1, <2>2 DEF Spread
<1>9. Joined'
  <2>1. \A p, q \in Pixels : SameSide(p, q)' = SameSide(p, q)
    BY <1>1 DEF SameSide, Closed
  <2>2. \A p \in Pixels : labels'[p] > 0 => labels[p] = labels'[p]
    BY <1>2
  <2> QED
    BY <2>1, <2>2 DEF Joined
<1> QED
  BY <1>3, <1>4, <1>5, <1>6, <1>7, <1>8, <1>9

(***************************************************************************)
(* One more pixel gets the label of the region being flooded.              *)
(***************************************************************************)
LEMMA OneMoreFits ==
    ASSUME ComponentsTypeOK, SizesFit, UNCHANGED limit,
           NEW p \in Pixels, labels[p] = Unseen,
           NEW l \in 1..limit, Labelled(p, l)
    PROVE  /\ labels' \in [Pixels -> Int]
           /\ sizes' \in [0..limit -> Nat]
           /\ labels'[p] = l
           /\ \A q \in Pixels : q # p => labels'[q] = labels[q]
           /\ SizesFit'
<1>1. /\ labels' \in [Pixels -> Int]
      /\ sizes' \in [0..limit -> Nat]
      /\ labels'[p] = l
      /\ \A q \in Pixels : q # p => labels'[q] = labels[q]
      /\ sizes'[l] = sizes[l] + 1
      /\ \A m \in 1..limit : m # l => sizes'[m] = sizes[m]
  BY TypesOfRegions DEF Labelled
<1>2. /\ Region(l)' = Region(l) \cup {p} /\ p \notin Region(l)
      /\ \A m \in 1..limit : m # l => Region(m)' = Region(m)
  BY <1>1 DEF Region, Unseen
<1>3. Cardinality(Region(l)') = Cardinality(Region(l)) + 1
  <2>1. Region(l) \in SUBSET Pixels
    BY DEF Region
  <2> QED
    BY <1>2, <2>1, PixelsFinite, FS_AddElement
<1> QED
  BY <1>1, <1>2, <1>3 DEF SizesFit

LEMMA RegionFits ==
    ASSUME ComponentsInvariant, StartRegion
    PROVE  ComponentsInvariant'
<1> USE DEF ComponentsInvariant
<1> DEFINE l == regions + 1
<1>1. /\ turn = "scan" /\ turn' = "flood" /\ scan \in Pixels
      /\ labels[scan] = Unseen /\ scan \in binary
      /\ regions' = l /\ queue' = <<scan>>
      /\ UNCHANGED <<binary, limit, scan, point, direction, dropped, chosen>>
      /\ direction = 5 /\ regions < limit /\ regions \in Nat /\ limit \in Nat
      /\ l \in 1..limit /\ chosen = {}
  BY TypesOfRegions DEF StartRegion, FloodFits, ScanFits, ChosenFit
<1>2. /\ labels' \in [Pixels -> Int]
      /\ sizes' \in [0..limit -> Nat]
      /\ labels'[scan] = l
      /\ \A q \in Pixels : q # scan => labels'[q] = labels[q]
      /\ SizesFit'
  BY <1>1, OneMoreFits DEF StartRegion
<1>9. Len(queue') = 1 /\ queue'[1] = scan /\ queue' \in Seq(Pixels)
  BY <1>1
<1> HIDE DEF l
<1>3. ComponentsTypeOK'
  <2>1. regions' \in 0..limit /\ chosen' \subseteq 1..regions'
    BY <1>1
  <2> QED
    BY <1>1, <1>2, <1>9, <2>1 DEF ComponentsTypeOK, Turns
<1>10. \A p \in Pixels : p # scan => labels[p] <= regions
  BY <1>1 DEF LabelsFit, Unseen
<1>4. LabelsFit'
  <2> SUFFICES ASSUME NEW p \in Pixels
               PROVE  /\ labels'[p] \in {Unseen} \cup 0..l
                      /\ labels'[p] > 0 => p \in binary
                      /\ labels'[p] = 0 => p \notin binary
    BY <1>1 DEF LabelsFit
  <2>1. CASE p = scan
    BY <1>1, <1>2, <2>1
  <2>2. CASE p # scan
    BY <1>1, <1>2, <2>2 DEF LabelsFit, Unseen, l
  <2> QED
    BY <2>1, <2>2
<1>5. ScanFits'
  BY <1>1, <1>2 DEF ScanFits, Unseen
<1>6. FloodFits' /\ ChosenFit'
  BY <1>1, <1>2, <1>9, FS_EmptySet DEF FloodFits, ChosenFit, l
<1>7. Spread'
  <2> SUFFICES ASSUME ~dropped, NEW p \in Pixels, NEW d \in 1..4,
                      labels'[p] > 0, Neighbor(p, d) \in binary,
                      ~Waiting(p, d)'
               PROVE  labels'[Neighbor(p, d)] = labels'[p]
    BY <1>1 DEF Spread
  <2>1. p # scan
    BY <1>1, <1>9 DEF Waiting
  <2>2. labels[p] > 0 /\ labels'[p] = labels[p] /\ ~Waiting(p, d)
    BY <1>1, <1>2, <2>1 DEF Waiting
  <2>3. Neighbor(p, d) \in Pixels
    BY TypesOfRegions
  <2>4. labels[Neighbor(p, d)] = labels[p]
    BY <1>1, <2>2 DEF Spread
  <2>5. Neighbor(p, d) # scan
    BY <1>1, <2>2, <2>4 DEF Unseen
  <2> QED
    BY <1>2, <2>2, <2>3, <2>4, <2>5
<1>8. Joined'
  <2>1. \A p, q \in Pixels : SameSide(p, q)' = SameSide(p, q)
    BY <1>1 DEF SameSide, Closed
  <2>2. \A p \in Pixels : SameSide(p, p)
    BY DEF SameSide
  <2>3. \A p \in Pixels : labels'[p] = l => p = scan
    BY <1>1, <1>2, <1>10 DEF l
  <2> QED
    BY <1>2, <2>1, <2>2, <2>3 DEF Joined
<1> QED
  BY <1>2, <1>3, <1>4, <1>5, <1>6, <1>7, <1>8

LEMMA TakeFits ==
    ASSUME ComponentsInvariant, TakePoint
    PROVE  ComponentsInvariant'
<1> USE DEF ComponentsInvariant
<1>1. /\ turn = "flood" /\ turn' = "flood" /\ direction = 5
      /\ direction' = 1 /\ queue # <<>>
      /\ point' = Head(queue) /\ queue' = Tail(queue)
      /\ UNCHANGED <<binary, limit, labels, sizes, regions, scan, dropped,
                     chosen>>
  BY DEF TakePoint, labelVars
<1>2. /\ point' = queue[1] /\ 1 \in 1..Len(queue)
      /\ queue' \in Seq(Pixels) /\ point' \in Pixels
      /\ Len(queue') = Len(queue) - 1 /\ Len(queue) \in Nat
      /\ \A i \in 1..Len(queue') :
            i + 1 \in 1..Len(queue) /\ queue'[i] = queue[i + 1]
  BY <1>1, TypesOfRegions
<1>3. ComponentsTypeOK'
  BY <1>1, <1>2 DEF ComponentsTypeOK
<1>4. LabelsFit' /\ ScanFits' /\ ChosenFit'
  BY <1>1 DEF LabelsFit, ScanFits, ChosenFit
<1>5. SizesFit' /\ Joined'
  BY <1>1 DEF SizesFit, Region, Joined, SameSide, Closed
<1>6. FloodFits'
  BY <1>1, <1>2 DEF FloodFits
<1>7. Spread'
  <2>1. \A p \in Pixels, d \in 1..4 : Waiting(p, d) => Waiting(p, d)'
    <3> SUFFICES ASSUME NEW p \in Pixels, NEW d \in 1..4, Waiting(p, d)
                 PROVE  Waiting(p, d)'
      OBVIOUS
    <3>1. PICK i \in 1..Len(queue) : queue[i] = p
      BY <1>1 DEF Waiting
    <3>2. CASE i = 1
      BY <1>1, <1>2, <3>1, <3>2 DEF Waiting
    <3>3. CASE i # 1
      <4>1. i - 1 \in 1..Len(queue') /\ queue'[i - 1] = p
        BY <1>2, <3>1, <3>3
      <4> QED
        BY <1>1, <4>1 DEF Waiting
    <3> QED
      BY <3>2, <3>3
  <2> QED
    BY <1>1, <2>1 DEF Spread
<1> QED
  BY <1>3, <1>4, <1>5, <1>6, <1>7

(***************************************************************************)
(* The neighbour of a pixel with this region's label: when it is set and   *)
(* has a label already, that label is this region's, for a region that is  *)
(* complete has no way out.                                                *)
(***************************************************************************)
LEMMA NeighborIsOurs ==
    ASSUME ComponentsInvariant, ~dropped, turn = "flood", direction # 5,
           NEW d \in 1..4, Neighbor(point, d) \in binary,
           labels[Neighbor(point, d)] # Unseen
    PROVE  labels[Neighbor(point, d)] = regions
<1> DEFINE next == Neighbor(point, d)
<1>1. /\ next \in Pixels /\ point \in Pixels /\ labels[point] = regions
      /\ regions > 0 /\ regions \in Nat /\ next \in binary
      /\ labels[next] # Unseen
  BY TypesOfRegions DEF ComponentsInvariant, FloodFits
<1>2. labels[next] > 0 /\ labels[next] \in Nat
  BY <1>1 DEF ComponentsInvariant, LabelsFit
<1>3. point \in binary
  BY <1>1 DEF ComponentsInvariant, LabelsFit
<1>4. PICK e \in 1..4 : Neighbor(next, e) = point
  BY <1>1, WayBack
<1>5. CASE Waiting(next, e)
  <2>1. CASE next = point
    BY <1>1, <2>1
  <2>2. CASE \E i \in 1..Len(queue) : queue[i] = next
    BY <2>2 DEF ComponentsInvariant, FloodFits
  <2> QED
    BY <1>5, <2>1, <2>2 DEF Waiting
<1>6. CASE ~Waiting(next, e)
  BY <1>1, <1>2, <1>3, <1>4, <1>6 DEF ComponentsInvariant, Spread
<1> QED
  BY <1>5, <1>6

LEMMA VisitNothingFits ==
    ASSUME ComponentsInvariant, Visit,
           UNCHANGED <<labelVars, queue, dropped>>,
           \/ Neighbor(point, direction) \notin Pixels
           \/ labels[Neighbor(point, direction)] # Unseen
    PROVE  ComponentsInvariant'
<1> USE DEF ComponentsInvariant
<1>1. /\ turn = "flood" /\ direction \in 1..4 /\ direction' = direction + 1
      /\ UNCHANGED <<binary, limit, turn, labels, sizes, regions, scan, queue,
                     point, dropped, chosen>>
      /\ direction' \in 1..5 /\ labels[point] = regions
  BY DEF Visit, labelVars, FloodFits
<1>2. ComponentsTypeOK' /\ LabelsFit' /\ ScanFits' /\ ChosenFit' /\ FloodFits'
  BY <1>1 DEF ComponentsTypeOK, LabelsFit, ScanFits, ChosenFit, FloodFits
<1>3. SizesFit' /\ Joined'
  BY <1>1 DEF SizesFit, Region, Joined, SameSide, Closed
<1>4. Spread'
  <2> SUFFICES ASSUME ~dropped, NEW p \in Pixels, NEW d \in 1..4,
                      labels[p] > 0, Neighbor(p, d) \in binary,
                      ~Waiting(p, d)'
               PROVE  labels[Neighbor(p, d)] = labels[p]
    BY <1>1 DEF Spread
  <2>1. CASE ~Waiting(p, d)
    BY <2>1 DEF Spread
  <2>2. CASE Waiting(p, d)
    <3>1. p = point /\ d = direction
      BY <1>1, <2>2 DEF Waiting
    <3>2. labels[Neighbor(point, direction)] # Unseen
      BY <3>1, TypesOfRegions
    <3> QED
      BY <1>1, <3>1, <3>2, NeighborIsOurs
  <2> QED
    BY <2>1, <2>2
<1> QED
  BY <1>2, <1>3, <1>4

LEMMA VisitGroundFits ==
    ASSUME ComponentsInvariant, Visit,
           Neighbor(point, direction) \in Pixels,
           Neighbor(point, direction) \notin binary,
           labels[Neighbor(point, direction)] = Unseen,
           labels' = [labels EXCEPT ![Neighbor(point, direction)] = 0],
           UNCHANGED <<sizes, regions, queue, dropped>>
    PROVE  ComponentsInvariant'
<1> USE DEF ComponentsInvariant
<1> DEFINE next == Neighbor(point, direction)
<1>1. /\ turn = "flood" /\ direction \in 1..4 /\ direction' = direction + 1
      /\ UNCHANGED <<binary, limit, turn, sizes, regions, scan, queue,
                     point, dropped, chosen>>
      /\ direction' \in 1..5 /\ labels[point] = regions /\ regions > 0
      /\ regions \in Nat
      /\ next \in Pixels /\ next \notin binary /\ labels[next] = Unseen
  BY TypesOfRegions DEF Visit, FloodFits
<1>2. /\ labels' \in [Pixels -> Int] /\ labels'[next] = 0
      /\ \A p \in Pixels : p # next => labels'[p] = labels[p]
  BY <1>1, TypesOfRegions
<1>10. \A p \in Pixels : labels[p] > 0 \/ labels'[p] > 0 =>
                           p # next /\ labels'[p] = labels[p]
  BY <1>1, <1>2 DEF Unseen
<1> HIDE DEF next
<1>3. ComponentsTypeOK'
  BY <1>1, <1>2 DEF ComponentsTypeOK
<1>4. LabelsFit'
  BY <1>1, <1>2 DEF LabelsFit, Unseen
<1>5. SizesFit'
  <2>1. \A l \in 1..limit : Region(l)' = Region(l)
    BY <1>1, <1>2 DEF Region, Unseen
  <2> QED
    BY <1>1, <2>1 DEF SizesFit
<1>6. ScanFits'
  BY <1>1, <1>2 DEF ScanFits, Unseen
<1>7. FloodFits' /\ ChosenFit'
  <2>1. point \in Pixels /\ \A i \in 1..Len(queue) : queue[i] \in Pixels
    BY TypesOfRegions
  <2>2. labels'[point] = regions
    BY <1>1, <1>10, <2>1
  <2>3. \A i \in 1..Len(queue) : labels'[queue[i]] = regions
    BY <1>1, <1>10, <2>1 DEF FloodFits
  <2> QED
    BY <1>1, <2>2, <2>3 DEF FloodFits, ChosenFit
<1>8. Spread'
  <2> SUFFICES ASSUME ~dropped, NEW p \in Pixels, NEW d \in 1..4,
                      labels'[p] > 0, Neighbor(p, d) \in binary,
                      ~Waiting(p, d)'
               PROVE  labels'[Neighbor(p, d)] = labels'[p]
    BY <1>1 DEF Spread
  <2>1. Neighbor(p, d) \in Pixels /\ Neighbor(p, d) # next
    BY <1>1, TypesOfRegions
  <2>2. ~Waiting(p, d)
    BY <1>1, <2>1 DEF Waiting, next
  <2> QED
    BY <1>2, <1>10, <2>1, <2>2 DEF Spread
<1>9. Joined'
  <2>1. \A p, q \in Pixels : SameSide(p, q)' = SameSide(p, q)
    BY <1>1 DEF SameSide, Closed
  <2> QED
    BY <1>10, <2>1 DEF Joined
<1> QED
  BY <1>3, <1>4, <1>5, <1>6, <1>7, <1>8, <1>9

LEMMA VisitRegionFits ==
    ASSUME ComponentsInvariant, Visit,
           Neighbor(point, direction) \in binary,
           labels[Neighbor(point, direction)] = Unseen,
           Labelled(Neighbor(point, direction), regions),
           UNCHANGED regions,
           \/ /\ Len(queue) < QueueRoom
              /\ queue' = Append(queue, Neighbor(point, direction))
              /\ UNCHANGED dropped
           \/ dropped' = TRUE /\ UNCHANGED queue
    PROVE  ComponentsInvariant'
<1> USE DEF ComponentsInvariant
<1> DEFINE next == Neighbor(point, direction)
<1>1. /\ turn = "flood" /\ direction \in 1..4 /\ direction' = direction + 1
      /\ UNCHANGED <<binary, limit, turn, regions, scan, point, chosen>>
      /\ direction' \in 1..5 /\ labels[point] = regions /\ regions > 0
      /\ regions \in Nat /\ regions \in 1..limit /\ limit \in Nat
      /\ next \in Pixels /\ next \in binary /\ labels[next] = Unseen
      /\ point \in Pixels
      /\ chosen = {}
  BY TypesOfRegions DEF Visit, FloodFits, ChosenFit
<1>2. /\ labels' \in [Pixels -> Int]
      /\ sizes' \in [0..limit -> Nat]
      /\ labels'[next] = regions
      /\ \A q \in Pixels : q # next => labels'[q] = labels[q]
      /\ SizesFit'
  BY <1>1, OneMoreFits
<1>11. /\ queue' \in Seq(Pixels)
       /\ dropped' \in BOOLEAN
       /\ \A i \in 1..Len(queue') :
            queue'[i] = next \/ (i \in 1..Len(queue) /\ queue'[i] = queue[i])
       /\ \A i \in 1..Len(queue) : i \in 1..Len(queue') /\ queue'[i] = queue[i]
       /\ ~dropped' =>
            ~dropped /\ \E i \in 1..Len(queue') : queue'[i] = next
  <2>1. CASE UNCHANGED queue /\ dropped' = TRUE
    BY <2>1, TypesOfRegions
  <2>2. CASE queue' = Append(queue, next) /\ UNCHANGED dropped
    <3>1. /\ queue \in Seq(Pixels) /\ Len(queue) \in Nat
          /\ queue' \in Seq(Pixels) /\ Len(queue') = Len(queue) + 1
          /\ queue'[Len(queue) + 1] = next
          /\ \A i \in 1..Len(queue) : queue'[i] = queue[i]
      BY <1>1, <2>2, TypesOfRegions, AppendProperties
    <3>2. dropped' \in BOOLEAN
      BY <2>2 DEF ComponentsTypeOK
    <3>3. Len(queue) + 1 \in 1..Len(queue')
      BY <3>1
    <3>4. \A i \in 1..Len(queue') : i = Len(queue) + 1 \/ i \in 1..Len(queue)
      BY <3>1
    <3>5. \A i \in 1..Len(queue) : i \in 1..Len(queue')
      BY <3>1
    <3> HIDE DEF next
    <3> QED
      BY <2>2, <3>1, <3>2, <3>3, <3>4, <3>5
  <2> QED
    BY <2>1, <2>2
<1>10. \A p \in Pixels : labels[p] > 0 => p # next /\ labels'[p] = labels[p]
  BY <1>1, <1>2 DEF Unseen
<1>12. SameSide(point, next)
  <2>1. point \in binary
    BY <1>1 DEF LabelsFit
  <2> QED
    BY <1>1, <2>1, NeighborsJoin, TypesOfRegions
<1> HIDE DEF next
<1>3. ComponentsTypeOK'
  BY <1>1, <1>2, <1>11 DEF ComponentsTypeOK
<1>4. LabelsFit'
  <2> SUFFICES ASSUME NEW p \in Pixels
               PROVE  /\ labels'[p] \in {Unseen} \cup 0..regions
                      /\ labels'[p] > 0 => p \in binary
                      /\ labels'[p] = 0 => p \notin binary
    BY <1>1 DEF LabelsFit
  <2>1. CASE p = next
    BY <1>1, <1>2, <2>1
  <2>2. CASE p # next
    BY <1>2, <2>2 DEF LabelsFit
  <2> QED
    BY <2>1, <2>2
<1>5. ScanFits'
  BY <1>1, <1>2 DEF ScanFits, Unseen
<1>6. FloodFits'
  <2>1. \A i \in 1..Len(queue) : queue[i] \in Pixels
    BY TypesOfRegions
  <2>2. labels'[point] = regions
    BY <1>1, <1>10
  <2>3. \A i \in 1..Len(queue) : labels'[queue[i]] = regions
    BY <1>1, <1>10, <2>1 DEF FloodFits
  <2>4. \A i \in 1..Len(queue') : labels'[queue'[i]] = regions
    BY <1>2, <1>11, <2>3
  <2> QED
    BY <1>1, <2>2, <2>4 DEF FloodFits
<1>7. ChosenFit'
  BY <1>1, FS_EmptySet DEF ChosenFit
<1>8. Spread'
  <2> SUFFICES ASSUME ~dropped', NEW p \in Pixels, NEW d \in 1..4,
                      labels'[p] > 0, Neighbor(p, d) \in binary,
                      ~Waiting(p, d)'
               PROVE  labels'[Neighbor(p, d)] = labels'[p]
    BY <1>1 DEF Spread
  <2>1. Neighbor(p, d) \in Pixels /\ ~dropped
    BY <1>11, TypesOfRegions
  <2>2. p # next
    BY <1>1, <1>11 DEF Waiting
  <2>3. labels[p] > 0 /\ labels'[p] = labels[p]
    BY <1>2, <2>2
  <2>4. CASE Waiting(p, d)
    <3>1. ~ \E i \in 1..Len(queue) : queue[i] = p
      BY <1>1, <1>11 DEF Waiting
    <3>2. p = point /\ d >= direction
      BY <2>4, <3>1 DEF Waiting
    <3>3. ~(d >= direction + 1)
      BY <1>1, <3>2 DEF Waiting
    <3>4. d = direction
      BY <1>1, <3>2, <3>3
    <3> QED
      BY <1>1, <1>2, <1>10, <3>2, <3>4 DEF next
  <2>5. CASE ~Waiting(p, d)
    <3>1. labels[Neighbor(p, d)] = labels[p]
      BY <2>1, <2>3, <2>5 DEF Spread
    <3> QED
      BY <1>10, <2>1, <2>3, <3>1
  <2> QED
    BY <2>4, <2>5
<1>9. Joined'
  <2>1. \A p, q \in Pixels : SameSide(p, q)' = SameSide(p, q)
    BY <1>1 DEF SameSide, Closed
  <2> SUFFICES ASSUME NEW p \in Pixels, NEW q \in Pixels,
                      labels'[p] = labels'[q], labels'[p] > 0
               PROVE  SameSide(p, q)
    BY <2>1 DEF Joined
  <2>2. \A r \in Pixels : labels'[r] = regions => SameSide(r, point)
    <3>1. \A r \in Pixels : labels[r] = regions => SameSide(r, point)
      BY <1>1 DEF Joined
    <3>2. SameSide(next, point)
      BY <1>12 DEF SameSide
    <3> QED
      BY <1>2, <3>1, <3>2
  <2>3. CASE labels'[p] = regions
    <3>1. SameSide(p, point) /\ SameSide(q, point)
      BY <2>2, <2>3
    <3> QED
      BY <3>1 DEF SameSide
  <2>4. CASE labels'[p] # regions
    <3>1. labels[p] = labels[q] /\ labels[p] > 0
      BY <1>2, <2>4
    <3> QED
      BY <3>1 DEF Joined
  <2> QED
    BY <2>3, <2>4
<1> QED
  BY <1>2, <1>3, <1>4, <1>5, <1>6, <1>7, <1>8, <1>9

LEMMA VisitFits ==
    ASSUME ComponentsInvariant, Visit
    PROVE  ComponentsInvariant'
<1> DEFINE next == Neighbor(point, direction)
<1>1. CASE next \notin Pixels
  <2>1. UNCHANGED <<labelVars, queue, dropped>>
    BY <1>1 DEF Visit
  <2> QED
    BY <1>1, <2>1, VisitNothingFits
<1>2. CASE next \in Pixels /\ labels[next] # Unseen
  <2>1. UNCHANGED <<labelVars, queue, dropped>>
    BY <1>2 DEF Visit
  <2> QED
    BY <1>2, <2>1, VisitNothingFits
<1>3. CASE next \in Pixels /\ labels[next] = Unseen /\ next \notin binary
  <2>1. /\ labels' = [labels EXCEPT ![next] = 0]
        /\ UNCHANGED <<sizes, regions, queue, dropped>>
    BY <1>3 DEF Visit
  <2> QED
    BY <1>3, <2>1, VisitGroundFits
<1>4. CASE next \in Pixels /\ labels[next] = Unseen /\ next \in binary
  <2>1. /\ Labelled(next, regions)
        /\ UNCHANGED regions
        /\ \/ /\ Len(queue) < QueueRoom
              /\ queue' = Append(queue, next)
              /\ UNCHANGED dropped
           \/ dropped' = TRUE /\ UNCHANGED queue
    BY <1>4 DEF Visit
  <2> QED
    BY <1>4, <2>1, VisitRegionFits
<1> QED
  BY <1>1, <1>2, <1>3, <1>4

LEMMA EndRegionFits ==
    ASSUME ComponentsInvariant, EndRegion \/ EndScan
    PROVE  ComponentsInvariant'
<1> USE DEF ComponentsInvariant
<1>1. /\ UNCHANGED <<binary, limit, labels, sizes, regions, queue, point,
                     direction, dropped, chosen>>
      /\ turn \in {"scan", "flood"} /\ turn' \in {"scan", "select"}
      /\ direction = 5
      /\ turn' = "scan" => regions < limit /\ turn = "flood"
      /\ chosen = {}
      /\ regions \in Nat /\ limit \in Nat
      /\ turn = "flood" => queue = <<>> /\ scan' = AfterPixel(scan)
      /\ turn = "scan" => scan \notin Pixels /\ UNCHANGED scan
  BY TypesOfRegions DEF EndRegion, EndScan, labelVars, floodVars, FloodFits,
                        ChosenFit
<1>2. ComponentsTypeOK'
  <2>1. scan' \in (0..Rows) \X (0..(Columns - 1))
    BY <1>1, ScanMoves DEF ComponentsTypeOK, ScanFits
  <2>2. turn' \in Turns
    BY <1>1 DEF Turns
  <2> QED
    BY <1>1, <2>1, <2>2 DEF ComponentsTypeOK
<1>3. LabelsFit' /\ FloodFits'
  BY <1>1 DEF LabelsFit, FloodFits
<1>4. ChosenFit'
  BY <1>1, FS_EmptySet DEF ChosenFit
<1>5. SizesFit' /\ Joined'
  BY <1>1 DEF SizesFit, Region, Joined, SameSide, Closed
<1>6. ScanFits'
  <2>1. CASE turn' = "scan"
    BY <1>1, <2>1, ScanMoves DEF ScanFits
  <2>2. CASE turn' = "select" /\ turn = "flood"
    BY <1>1, <2>2 DEF EndRegion, EndScan, ScanFits
  <2>3. CASE turn' = "select" /\ turn = "scan"
    <3>1. \A p \in Pixels : Before(p, scan)
      BY <1>1, <2>3, ScanEnds DEF ComponentsTypeOK
    <3> QED
      BY <1>1, <2>3, <3>1 DEF ScanFits
  <2> QED
    BY <1>1, <2>1, <2>2, <2>3
<1>7. Spread'
  <2>1. \A p \in Pixels, d \in 1..4 : ~Waiting(p, d)
    BY <1>1 DEF Waiting
  <2> QED
    BY <1>1, <2>1 DEF Spread
<1> QED
  BY <1>2, <1>3, <1>4, <1>5, <1>6, <1>7

(***************************************************************************)
(* What does not touch the labels keeps what is said of them.              *)
(***************************************************************************)
LEMMA SelectingFits ==
    ASSUME ComponentsInvariant, turn = "select", turn' \in {"select", "done"},
           UNCHANGED <<binary, limit, labelVars, scan, floodVars>>
    PROVE  LabelsFit' /\ SizesFit' /\ ScanFits' /\ FloodFits' /\ Spread'
           /\ Joined'
<1>1. UNCHANGED <<binary, limit, labels, sizes, regions, scan, queue, point,
                  direction, dropped>>
  BY DEF labelVars, floodVars
<1>2. LabelsFit' /\ ScanFits' /\ FloodFits'
  BY <1>1 DEF ComponentsInvariant, LabelsFit, ScanFits, FloodFits
<1>3. SizesFit' /\ Joined'
  BY <1>1 DEF ComponentsInvariant, SizesFit, Region, Joined, SameSide, Closed
<1>4. Spread'
  BY <1>1 DEF ComponentsInvariant, Spread, Waiting
<1> QED
  BY <1>2, <1>3, <1>4

LEMMA ChosenFinite ==
    ASSUME ComponentsTypeOK
    PROVE  IsFiniteSet(chosen) /\ Cardinality(chosen) \in Nat
<1>1. chosen \in SUBSET (1..regions) /\ regions \in Int
  BY DEF ComponentsTypeOK
<1>2. IsFiniteSet(1..regions)
  BY <1>1, FS_Interval
<1>3. IsFiniteSet(chosen)
  BY <1>1, <1>2, FS_Subset
<1> QED
  BY <1>3, FS_CardinalityType

LEMMA SelectFits ==
    ASSUME ComponentsInvariant, SelectNext
    PROVE  ComponentsInvariant'
<1> USE DEF ComponentsInvariant
<1>1. PICK l \in Open : Best(l) /\ chosen' = chosen \cup {l}
  BY DEF SelectNext
<1>2. /\ turn = "select" /\ turn' = "select"
      /\ Cardinality(chosen) < Places
      /\ UNCHANGED <<binary, limit, labelVars, scan, floodVars>>
      /\ UNCHANGED <<labels, sizes, regions, queue, point, direction, dropped>>
      /\ regions \in Nat /\ limit \in Nat /\ regions <= limit
      /\ sizes \in [0..limit -> Nat]
      /\ chosen \subseteq 1..regions
  BY TypesOfRegions DEF SelectNext, labelVars, floodVars, ComponentsTypeOK
<1>3. l \in 1..regions /\ l \notin chosen /\ sizes[l] > Threshold
  BY DEF Open
<1>4. chosen' \subseteq 1..regions
  BY <1>1, <1>2, <1>3
<1>5. ComponentsTypeOK'
  BY <1>2, <1>4 DEF ComponentsTypeOK
<1>6. Cardinality(chosen') <= Places
  <2>1. IsFiniteSet(chosen) /\ Cardinality(chosen) \in Nat
    BY ChosenFinite
  <2>2. Cardinality(chosen') = Cardinality(chosen) + 1
    BY <1>1, <1>3, <2>1, FS_AddElement
  <2> QED
    BY <1>2, <2>1, <2>2
<1>7. \A k \in chosen' :
         /\ sizes[k] > Threshold
         /\ \A m \in (1..regions) \ chosen' : sizes[m] <= sizes[k]
  <2>1. \A m \in (1..regions) \ chosen : sizes[m] <= sizes[l]
    <3> SUFFICES ASSUME NEW m \in (1..regions) \ chosen
                 PROVE  sizes[m] <= sizes[l]
      OBVIOUS
    <3>1. CASE m \in Open
      BY <1>1, <3>1 DEF Best
    <3>2. CASE m \notin Open
      <4>1. sizes[m] \in Nat /\ ~(sizes[m] > Threshold) /\ sizes[l] \in Nat
        BY <1>2, <1>3, <3>2 DEF Open
      <4> QED
        BY <1>3, <4>1
    <3> QED
      BY <3>1, <3>2
  <2> QED
    BY <1>1, <1>3, <2>1 DEF ChosenFit
<1>8. ChosenFit'
  BY <1>2, <1>6, <1>7 DEF ChosenFit
<1> QED
  BY <1>2, <1>5, <1>8, SelectingFits

LEMMA EndSelectFits ==
    ASSUME ComponentsInvariant, EndSelect
    PROVE  ComponentsInvariant'
<1> USE DEF ComponentsInvariant
<1>1. /\ turn = "select" /\ turn' = "done"
      /\ Cardinality(chosen) >= Places \/ Open = {}
      /\ UNCHANGED <<binary, limit, labelVars, scan, floodVars, chosen>>
      /\ UNCHANGED <<labels, sizes, regions, queue, point, direction, dropped>>
  BY DEF EndSelect, labelVars, floodVars
<1>2. ComponentsTypeOK'
  BY <1>1 DEF ComponentsTypeOK, Turns
<1>3. ChosenFit'
  <2>1. Cardinality(chosen) \in Nat
    BY ChosenFinite
  <2> QED
    BY <1>1, <2>1 DEF ChosenFit, Open
<1> QED
  BY <1>1, <1>2, <1>3, SelectingFits

LEMMA RestFits ==
    ASSUME ComponentsInvariant, UNCHANGED regionVars
    PROVE  ComponentsInvariant'
<1> USE DEF ComponentsInvariant, regionVars, labelVars, floodVars
<1>1. ComponentsTypeOK' /\ LabelsFit' /\ ScanFits' /\ FloodFits'
  BY DEF ComponentsTypeOK, LabelsFit, ScanFits, FloodFits
<1>2. SizesFit' /\ Spread' /\ Joined'
  BY DEF SizesFit, Region, Spread, Waiting, Joined, SameSide, Closed
<1>3. ChosenFit'
  BY DEF ChosenFit, Open
<1> QED
  BY <1>1, <1>2, <1>3

LEMMA ComponentsStepFits ==
    ASSUME ComponentsInvariant, ComponentsStep
    PROVE  ComponentsInvariant'
BY PassFits, RegionFits, TakeFits, VisitFits, EndRegionFits, SelectFits,
   EndSelectFits DEF ComponentsStep

(***************************************************************************)
(* When nothing was cut short, the pixels of a label are the component of  *)
(* each of them.                                                           *)
(***************************************************************************)
LEMMA RegionsAreComponents ==
    ASSUME ComponentsInvariant, turn = "done", regions < limit, ~dropped,
           NEW p \in binary
    PROVE  /\ labels[p] \in 1..regions
           /\ Component(p) = Region(labels[p])
           /\ Cardinality(Component(p)) = sizes[labels[p]]
<1> USE DEF ComponentsInvariant
<1>1. p \in Pixels /\ regions \in Nat /\ limit \in Nat /\ binary \subseteq Pixels
  BY TypesOfRegions
<1>2. labels[p] \in 1..regions
  BY <1>1 DEF ScanFits, LabelsFit
<1>3. Region(labels[p]) \subseteq binary
  BY <1>2 DEF Region, LabelsFit
<1>4. Closed(Region(labels[p]))
  <2> SUFFICES ASSUME NEW q \in Region(labels[p]), NEW d \in 1..4,
                      Neighbor(q, d) \in binary
               PROVE  Neighbor(q, d) \in Region(labels[p])
    BY DEF Closed, Adjacent
  <2>1. q \in Pixels /\ labels[q] > 0 /\ labels[q] = labels[p] /\ ~Waiting(q, d)
    BY <1>2 DEF Region, Waiting
  <2> QED
    BY <1>1, <2>1 DEF Spread, Region
<1>5. Component(p) \subseteq Region(labels[p])
  <2>1. p \in Region(labels[p])
    BY <1>1 DEF Region
  <2> QED
    BY <1>3, <1>4, <2>1 DEF Component
<1>6. Region(labels[p]) \subseteq Component(p)
  <2> SUFFICES ASSUME NEW q \in Region(labels[p]),
                      NEW set \in SUBSET binary, Closed(set), p \in set
               PROVE  q \in set
    BY <1>3 DEF Component
  <2>1. SameSide(p, q)
    BY <1>1, <1>2 DEF Joined, Region
  <2> QED
    BY <2>1 DEF SameSide
<1>7. labels[p] \in 1..limit
  BY <1>1, <1>2
<1>8. Component(p) = Region(labels[p])
  BY <1>5, <1>6
<1>9. Cardinality(Component(p)) = sizes[labels[p]]
  BY <1>7, <1>8 DEF SizesFit
<1> QED
  BY <1>2, <1>8, <1>9

LEMMA SelectionFits == ComponentsInvariant => SelectionIsLargest
<1> SUFFICES ASSUME ComponentsInvariant, turn = "done"
             PROVE  /\ Picked \subseteq binary
                    /\ (regions < limit /\ ~dropped) =>
                         /\ \A p \in Picked :
                               /\ Component(p) \subseteq Picked
                               /\ Cardinality(Component(p)) > Threshold
                         /\ \A q \in binary \ Picked :
                               /\ \A p \in Picked :
                                     Cardinality(Component(q)) <=
                                       Cardinality(Component(p))
                               /\ Cardinality(Component(q)) > Threshold =>
                                     Cardinality(chosen) = Places
  BY DEF SelectionIsLargest
<1>1. chosen \subseteq 1..regions /\ regions \in Nat /\ binary \subseteq Pixels
  BY DEF ComponentsInvariant, ComponentsTypeOK
<1>2. Picked \subseteq binary
  <2>1. \A l \in chosen : l > 0
    BY <1>1
  <2> QED
    BY <2>1 DEF ComponentsInvariant, LabelsFit, Picked
<1>3. ASSUME regions < limit, ~dropped, NEW p \in Picked
      PROVE  /\ Component(p) \subseteq Picked
             /\ Cardinality(Component(p)) > Threshold
  <2>1. p \in binary /\ labels[p] \in chosen
    BY <1>2 DEF Picked
  <2>2. /\ Component(p) = Region(labels[p])
        /\ Cardinality(Component(p)) = sizes[labels[p]]
    BY <1>3, <2>1, RegionsAreComponents
  <2> QED
    BY <2>1, <2>2 DEF Region, Picked, ComponentsInvariant, ChosenFit
<1>4. ASSUME regions < limit, ~dropped, NEW q \in binary \ Picked
      PROVE  /\ \A p \in Picked : Cardinality(Component(q)) <=
                                    Cardinality(Component(p))
             /\ Cardinality(Component(q)) > Threshold =>
                  Cardinality(chosen) = Places
  <2>1. /\ labels[q] \in 1..regions
        /\ Cardinality(Component(q)) = sizes[labels[q]]
    BY <1>4, RegionsAreComponents
  <2>2. labels[q] \notin chosen
    BY <1>1 DEF Picked
  <2>3. ASSUME NEW p \in Picked
        PROVE  Cardinality(Component(q)) <= Cardinality(Component(p))
    <3>1. p \in binary /\ labels[p] \in chosen
      BY <1>2 DEF Picked
    <3>2. Cardinality(Component(p)) = sizes[labels[p]]
      BY <1>4, <3>1, RegionsAreComponents
    <3> QED
      BY <2>1, <2>2, <3>1, <3>2 DEF ComponentsInvariant, ChosenFit
  <2>4. ASSUME Cardinality(Component(q)) > Threshold
        PROVE  Cardinality(chosen) = Places
    <3>1. labels[q] \in Open
      BY <2>1, <2>2, <2>4 DEF Open
    <3> QED
      BY <3>1 DEF ComponentsInvariant, ChosenFit
  <2> QED
    BY <2>3, <2>4
<1> QED
  BY <1>2, <1>3, <1>4

(***************************************************************************)
(* What gx_aux_label_components and gx_aux_select_largest find in any      *)
(* picture of any size are its largest connected regions, as long as       *)
(* neither the labels nor the room in the queue run out.                   *)
(***************************************************************************)
THEOREM LargestRegionsAreFound == ComponentsSpec => []SelectionIsLargest
<1>1. NoPicture => ComponentsInvariant
  BY NoPictureFits
<1>2. ComponentsInvariant /\ [ComponentsNext]_regionVars =>
        ComponentsInvariant'
  BY StartFits, ComponentsStepFits, ForgetFits, RestFits DEF ComponentsNext
<1>3. ComponentsInvariant => SelectionIsLargest
  BY SelectionFits
<1> QED
  BY <1>1, <1>2, <1>3, PTL DEF ComponentsSpec
-----------------------------------------------------------------------------
(* The memory of a call.                                                   *)

InCall == Stages \ {"idle", "cleanup"}
Parts  == Locals \cup FeatureParts

(***************************************************************************)
(* The part of the feature that a call has when it reaches a stage.        *)
(***************************************************************************)
HasParts ==
    /\ stage \notin {"flags", "gray", "object"} =>
         {"feature", "object", "records"} \subseteq heap
    /\ stage \notin {"flags", "gray", "object", "buffers", "mask", "optional",
                     "filter", "maps"} => "slots" \in heap
    /\ stage \notin {"flags", "gray", "object", "buffers", "mask", "optional",
                     "filter", "maps", "aux"} => "aux" \in heap
    /\ stage \in {"window", "global", "prune", "compact", "partition",
                  "neighbor", "handover"} =>
         {"map0", "map1", "map2"} \subseteq heap
    /\ stage \in {"partition", "neighbor", "handover"} => "packed" \in heap

HeapInvariant ==
    /\ stage \in Stages
    /\ heap \subseteq Parts
    /\ stage = "idle" => heap = IF handed THEN FeatureParts ELSE {}
    /\ stage \in InCall => ~handed /\ HasParts
    /\ stage = "cleanup" => (handed <=> status = "OK")
    /\ stage = "cleanup" /\ status = "OK" => FeatureParts \subseteq heap

LEMMA FailKeepsHeap ==
    ASSUME HeapInvariant, stage \in InCall, UNCHANGED handed,
           NEW errors \in SUBSET Errors, NEW left \in SUBSET SUBSET Parts,
           Fail(errors, left)
    PROVE  HeapInvariant'
BY DEF HeapInvariant, Fail, Errors, Stages, InCall

LEMMA BeginKeepsHeap ==
    ASSUME HeapInvariant, Begin
    PROVE  HeapInvariant'
BY DEF HeapInvariant, Begin, Stages, InCall, HasParts

LEMMA DestroyKeepsHeap ==
    ASSUME HeapInvariant, DestroyFeature
    PROVE  HeapInvariant'
BY DEF HeapInvariant, DestroyFeature, Stages, InCall, Parts

LEMMA PreparationKeepsHeap ==
    ASSUME HeapInvariant, Preparation
    PROVE  HeapInvariant'
<1> DEFINE Why == {"MEMORY", "UNSUPPORTED", "AUX_METADATA", "MASK",
                   "OPTIONAL_IMAGE", "FILTER", "FEATURE_MAP"}
<1>1. /\ stage \in InCall
      /\ UNCHANGED handed
  BY DEF Preparation, ParseFlags, AllocateGray, CreateObject, AllocateBuffers,
         PrepareMask, PrepareOptionalImage, FilterImage, PrepareFeatureMaps,
         AllocateAuxMap, StartFilter, FilterStep, EndFilter, FilterStages,
         PrepareMetadata, callVars, InCall, Stages
<1>2. CASE \E why \in Why, left \in SUBSET SUBSET Parts : Fail({why}, left)
  <2>1. PICK why \in Why, left \in SUBSET SUBSET Parts : Fail({why}, left)
    BY <1>2
  <2>2. {why} \in SUBSET Errors
    BY DEF Errors
  <2> QED
    BY <1>1, <2>1, <2>2, FailKeepsHeap
<1>3. CASE ~ \E why \in Why, left \in SUBSET SUBSET Parts : Fail({why}, left)
  <2> USE DEF HeapInvariant, Pass, HasParts, InCall, Stages, Parts
  <2>1. ASSUME NEW things \in SUBSET Parts, NEW why \in Why, NEW next,
               Allocate(next, things, why)
        PROVE  Pass(next, things)
    BY <1>3, <2>1 DEF Allocate
  <2>2. CASE ParseFlags
    <3>1. Pass("gray", {})
      BY <1>3, <2>2 DEF ParseFlags, Locals
    <3> QED
      BY <1>1, <3>1, <2>2 DEF ParseFlags
  <2>3. CASE AllocateGray
    <3>1. Pass("object", {"gray"})
      BY <2>1, <2>3 DEF AllocateGray, Locals
    <3> QED
      BY <1>1, <3>1, <2>3 DEF AllocateGray, Locals
  <2>4. CASE CreateObject
    <3>1. Pass("buffers", {"feature", "object", "records"})
      BY <1>3, <2>4 DEF CreateObject, FeatureParts
    <3> QED
      BY <1>1, <3>1, <2>4 DEF CreateObject, FeatureParts
  <2>5. CASE AllocateBuffers
    <3>1. Pass("mask", {"prepared", "filtered", "u16", "mask"})
      BY <2>1, <2>5 DEF AllocateBuffers, Locals
    <3> QED
      BY <1>1, <3>1, <2>5 DEF AllocateBuffers, Locals
  <2>6. CASE PrepareMask
    <3>1. Pass("optional", {})
      BY <1>3, <2>6 DEF PrepareMask
    <3> QED
      BY <1>1, <3>1, <2>6 DEF PrepareMask
  <2>7. CASE PrepareOptionalImage
    <3>1. Pass("filter", {"optional"})
      BY <2>1, <2>7 DEF PrepareOptionalImage, Locals
    <3> QED
      BY <1>1, <3>1, <2>7 DEF PrepareOptionalImage, Locals
  <2>8. CASE FilterImage
    <3>1. Pass("maps", {})
      BY <1>3, <2>8 DEF FilterImage
    <3> QED
      BY <1>1, <3>1, <2>8 DEF FilterImage
  <2>9. CASE PrepareFeatureMaps
    <3>1. Pass("aux", {"slots"})
      BY <1>3, <2>9 DEF PrepareFeatureMaps, FeatureParts
    <3> QED
      BY <1>1, <3>1, <2>9 DEF PrepareFeatureMaps, FeatureParts
  <2>10. CASE AllocateAuxMap
    <3>1. Pass("dark", {"aux"})
      BY <2>1, <2>10 DEF AllocateAuxMap, FeatureParts
    <3> QED
      BY <1>1, <3>1, <2>10 DEF AllocateAuxMap, FeatureParts
  <2>11. CASE PrepareMetadata
    <3>1. Pass("generate", {})
      BY <1>3, <2>11 DEF PrepareMetadata
    <3> QED
      BY <1>1, <3>1, <2>11 DEF PrepareMetadata
  <2>12. CASE StartFilter \/ FilterStep
    <3>1. ~Fail({"AUX_METADATA"}, {{}})
      BY <1>3
    <3>2. UNCHANGED <<stage, heap, handed, status>>
      BY <2>12, <3>1 DEF StartFilter, FilterStep
    <3> QED
      BY <1>1, <3>2
  <2>13. CASE EndFilter
    <3>1. /\ stage \in FilterStages
          /\ stage' \in FilterStages \cup {"metadata"}
          /\ UNCHANGED <<heap, handed, status>>
      BY <2>13 DEF EndFilter, FilterStages, AfterFilter
    <3> QED
      BY <1>1, <3>1 DEF FilterStages
  <2> QED
    BY <2>2, <2>3, <2>4, <2>5, <2>6, <2>7, <2>8, <2>9, <2>10, <2>11, <2>12,
       <2>13 DEF Preparation
<1> QED
  BY <1>2, <1>3

LEMMA GenerationKeepsHeap ==
    ASSUME HeapInvariant, Generation
    PROVE  HeapInvariant'
<1> DEFINE Whys == {{"MEMORY", "FILTER", "GENERATOR", "LOW_FEATURE_COUNT"},
                    {"MEMORY"}, {"POSTPROCESS"}, {"MEMORY", "POSTPROCESS"}}
<1>1. /\ stage \in InCall
      /\ UNCHANGED handed
  BY DEF Generation, GenerateProfile24, EnsureOutputMaps, WindowQuality,
         GlobalPostprocess, PruneMask, CompactExpandAndPack,
         PartitionRecords, NeighborQuality, callVars, InCall, Stages
<1>2. CASE \E why \in Whys, left \in SUBSET SUBSET Parts : Fail(why, left)
  <2>1. PICK why \in Whys, left \in SUBSET SUBSET Parts : Fail(why, left)
    BY <1>2
  <2>2. why \in SUBSET Errors
    BY DEF Errors
  <2> QED
    BY <1>1, <2>1, <2>2, FailKeepsHeap
<1>3. CASE ~ \E why \in Whys, left \in SUBSET SUBSET Parts : Fail(why, left)
  <2> USE DEF HeapInvariant, Pass, HasParts, InCall, Stages, Parts
  <2>1. CASE GenerateProfile24
    <3>1. Pass("outputs", {})
      BY <1>3, <2>1 DEF GenerateProfile24
    <3> QED
      BY <1>1, <3>1, <2>1 DEF GenerateProfile24
  <2>2. CASE EnsureOutputMaps
    <3>1. Pass("window", {"map0", "map1", "map2"})
      BY <1>3, <2>2 DEF EnsureOutputMaps, FeatureParts
    <3> QED
      BY <1>1, <3>1, <2>2 DEF EnsureOutputMaps, FeatureParts
  <2>3. CASE WindowQuality
    <3>1. Pass("global", {})
      BY <1>3, <2>3 DEF WindowQuality
    <3> QED
      BY <1>1, <3>1, <2>3 DEF WindowQuality
  <2>4. CASE GlobalPostprocess
    BY <1>1, <2>4 DEF GlobalPostprocess
  <2>5. CASE PruneMask
    BY <1>1, <2>5 DEF PruneMask
  <2>6. CASE CompactExpandAndPack
    <3>1. Pass("partition", {"packed"})
      BY <1>3, <2>6 DEF CompactExpandAndPack
    <3> QED
      BY <1>1, <3>1, <2>6 DEF CompactExpandAndPack, FeatureParts
  <2>7. CASE PartitionRecords
    BY <1>1, <2>7 DEF PartitionRecords
  <2>8. CASE NeighborQuality
    <3>1. Pass("handover", {})
      BY <1>3, <2>8 DEF NeighborQuality
    <3> QED
      BY <1>1, <3>1, <2>8 DEF NeighborQuality
  <2> QED
    BY <2>1, <2>2, <2>3, <2>4, <2>5, <2>6, <2>7, <2>8 DEF Generation
<1> QED
  BY <1>2, <1>3

LEMMA HandOverKeepsHeap ==
    ASSUME HeapInvariant, HandOver
    PROVE  HeapInvariant'
BY DEF HeapInvariant, HandOver, Stages, InCall, HasParts, FeatureParts

LEMMA CleanUpKeepsHeap ==
    ASSUME HeapInvariant, CleanUp
    PROVE  HeapInvariant'
<1>1. stage' = "idle" /\ UNCHANGED <<status, handed>>
  BY DEF CleanUp, callVars
<1>2. heap' = IF handed THEN FeatureParts ELSE {}
  <2>1. Locals \cap FeatureParts = {}
    BY DEF Locals, FeatureParts
  <2> QED
    BY <2>1 DEF HeapInvariant, CleanUp, Released, Parts
<1> QED
  BY <1>1, <1>2 DEF HeapInvariant, Stages, InCall, Parts

LEMMA StepKeepsHeap ==
    ASSUME HeapInvariant, [ExtractorNext]_allVars
    PROVE  HeapInvariant'
<1>1. CASE ResetState
  BY <1>1 DEF ResetState, HeapInvariant, InCall
<1>2. CASE UNCHANGED allVars
  BY <1>2 DEF allVars, callVars, HeapInvariant, HasParts
<1> QED
  BY <1>1, <1>2, BeginKeepsHeap, DestroyKeepsHeap, PreparationKeepsHeap,
     GenerationKeepsHeap, HandOverKeepsHeap, CleanUpKeepsHeap
     DEF ExtractorNext

(***************************************************************************)
(* Whatever stage of extract_gray fails, no memory of the call is left and *)
(* a feature that is handed out has all its parts.                         *)
(***************************************************************************)
THEOREM MemoryIsHandedOrFreed == ExtractorSpec => []MemoryIsTheCallers
<1>1. ExtractorInit => HeapInvariant
  BY DEF ExtractorInit, HeapInvariant, Stages, InCall
<1>2. HeapInvariant /\ [ExtractorNext]_allVars => HeapInvariant'
  BY StepKeepsHeap
<1>3. HeapInvariant => MemoryIsTheCallers
  BY DEF HeapInvariant, MemoryIsTheCallers
<1> QED
  BY <1>1, <1>2, <1>3, PTL DEF ExtractorSpec

-----------------------------------------------------------------------------
(* The records of a call.                                                  *)

LEMMA StepKeepsRecords ==
    ASSUME RecordsInvariant, [ExtractorNext]_allVars
    PROVE  RecordsInvariant'
<1>1. CASE UNCHANGED recordVars
  BY <1>1, UnchangedRecords
<1>2. CASE CleanUp
  BY <1>2, ClearKeeps DEF CleanUp
<1>3. CASE PruneMask
  BY <1>3, PruneKeeps DEF PruneMask
<1>4. CASE PartitionRecords
  BY <1>4, PartitionKeeps DEF PartitionRecords
<1>5. CASE WindowQuality
  BY <1>1, <1>5, FillKeeps DEF WindowQuality
<1>6. CASE Begin \/ DestroyFeature \/ ResetState \/ HandOver
  BY <1>1, <1>6 DEF Begin, DestroyFeature, ResetState, HandOver
<1>7. CASE Preparation
  BY <1>1, <1>7 DEF Preparation, ParseFlags, AllocateGray, CreateObject,
     AllocateBuffers, PrepareMask, PrepareOptionalImage, FilterImage,
     PrepareFeatureMaps, AllocateAuxMap, StartFilter, FilterStep, EndFilter,
     PrepareMetadata
<1>8. CASE GenerateProfile24 \/ EnsureOutputMaps \/ GlobalPostprocess
           \/ CompactExpandAndPack \/ NeighborQuality
  BY <1>1, <1>8 DEF GenerateProfile24, EnsureOutputMaps, GlobalPostprocess,
     CompactExpandAndPack, NeighborQuality
<1>9. CASE UNCHANGED allVars
  BY <1>1, <1>9 DEF allVars
<1> QED
  BY <1>2, <1>3, <1>4, <1>5, <1>6, <1>7, <1>8, <1>9
     DEF ExtractorNext, Generation

(***************************************************************************)
(* The feature of every extraction has a record for each keypoint that the *)
(* mask leaves, the records are in the order the object claims, and as     *)
(* long as the mask covers every keypoint the qualities stay with their    *)
(* records through the partition.                                          *)
(***************************************************************************)
THEOREM ExtractedRecordsAreSound == ExtractorSpec => []ArraysAreSound
<1>1. ExtractorInit => RecordsInvariant
  BY EmptyRecords DEF ExtractorInit
<1>2. RecordsInvariant /\ [ExtractorNext]_allVars => RecordsInvariant'
  BY StepKeepsRecords
<1>3. RecordsInvariant => ArraysAreSound
  BY DEF RecordsInvariant, QualityInvariant, QualityFollowsRecord, Used,
         ArraysAreSound
<1> QED
  BY <1>1, <1>2, <1>3, PTL DEF ExtractorSpec
-----------------------------------------------------------------------------
(* The state from one image to the next.                                   *)

AfterImage(h, s) ==
    <<IF image.high THEN HistoryUpdate(h, selected) ELSE h,
      Steadied(s, classes, image)>>

AuxInvariant ==
    /\ stage \in Stages
    /\ image \in Images
    /\ selected \in Selections
    /\ recent \in Seq(Selections)
    /\ Len(recent) \in 0..HistorySlots
    /\ earned \in 0..5
    /\ stage \in {"idle", "flags", "gray", "object", "buffers", "mask",
                  "optional", "filter", "maps", "aux", "metadata"}
                   \cup FilterStages =>
         auxState = successes
    /\ stage \in {"generate", "outputs", "window", "global", "prune",
                  "compact", "partition", "neighbor", "handover"} =>
         auxState = AfterImage(recent, earned)
    /\ stage # "idle" /\ ~(stage = "cleanup" /\ status = "OK") =>
         backup = successes
    /\ stage = "cleanup" /\ status = "OK" => auxState = successes

USE ExtractorAssumption DEF ExtractorAssumption

LEMMA SteadiedInRange ==
    ASSUME NEW s \in 0..5, NEW found, NEW img
    PROVE  Steadied(s, found, img) \in 0..5
<1> DEFINE bad == Resolved(found, img) > 1 \/ Secondary(found, img) > 1
           up  == IF s < 5 /\ bad THEN s + 1 ELSE s
<1>1. up \in 0..5
  OBVIOUS
<1>2. Steadied(s, found, img) = IF up > 0 /\ ~bad THEN up - 1 ELSE up
  BY DEF Steadied
<1> HIDE DEF bad, up
<1> QED
  BY <1>1, <1>2

(***************************************************************************)
(* Moving the slots down by one and writing the last is keeping the last   *)
(* three of the sequence with the new one.                                 *)
(***************************************************************************)
LEMMA UpdateKeepsLastThree ==
    ASSUME NEW h \in Seq(Selections), Len(h) \in 0..HistorySlots,
           NEW sel \in Selections
    PROVE  /\ HistoryUpdate(h, sel) = LastThree(Append(h, sel))
           /\ HistoryUpdate(h, sel) \in Seq(Selections)
           /\ Len(HistoryUpdate(h, sel)) \in 0..HistorySlots
<1>0. Len(h) < HistorySlots \/ Len(h) = HistorySlots
  <2> DEFINE n == Len(h)
  <2>1. n \in 0..3
    BY DEF HistorySlots
  <2> HIDE DEF n
  <2>2. n < 3 \/ n = 3
    BY <2>1
  <2> QED
    BY <2>2 DEF HistorySlots, n
<1> DEFINE all     == Append(h, sel)
           updated == HistoryUpdate(h, sel)
           Goal    == /\ updated = LastThree(all)
                      /\ updated \in Seq(Selections)
                      /\ Len(updated) \in 0..HistorySlots
<1>1. all \in Seq(Selections) /\ Len(all) = Len(h) + 1 /\ Len(h) \in Nat
  OBVIOUS
<1>2. /\ LastThree(all) = SubSeq(all, Highest(1, Len(all) - 2), Len(all))
      /\ updated = IF Len(h) < HistorySlots THEN all
                   ELSE <<h[2], h[3], sel>>
  BY DEF LastThree, HistoryUpdate
<1>3. \A i \in 1..Len(h) : all[i] = h[i] /\ h[i] \in Selections
  BY <1>1
<1>4. all[Len(h) + 1] = sel
  BY <1>1
<1> HIDE DEF all, updated
<1>5. ASSUME Len(h) < HistorySlots
      PROVE  Goal
  <2>1. Highest(1, Len(all) - 2) = 1
    BY <1>1, <1>5 DEF Highest, HistorySlots
  <2>2. SubSeq(all, 1, Len(all)) = all
    BY <1>1, SubSeqFull
  <2>3. updated = all /\ LastThree(all) = all
    BY <1>2, <1>5, <2>1, <2>2
  <2>4. Len(all) \in 0..HistorySlots
    BY <1>1, <1>5 DEF HistorySlots
  <2> QED
    BY <1>1, <2>3, <2>4
<1>6. ASSUME Len(h) = HistorySlots
      PROVE  Goal
  <2> DEFINE three == <<h[2], h[3], sel>>
             end   == SubSeq(all, 2, 4)
  <2>1. Highest(1, Len(all) - 2) = 2 /\ Len(all) = 4
    BY <1>1, <1>6 DEF Highest, HistorySlots
  <2>2. three \in Seq(Selections) /\ Len(three) = 3
    BY <1>3, <1>6 DEF HistorySlots
  <2>3. \A i \in 2..4 : all[i] \in Selections
    BY <1>3, <1>4, <1>6 DEF HistorySlots
  <2>4. /\ end \in Seq(Selections)
        /\ Len(end) = 3
        /\ \A i \in 1..3 : end[i] = all[2 + i - 1]
    BY <2>3, SubSeqProperties
  <2>5. \A i \in 1..3 : end[i] = three[i]
    BY <1>3, <1>4, <1>6, <2>4 DEF HistorySlots
  <2>6. updated = three
    BY <1>2, <1>6 DEF HistorySlots
  <2>8. LastThree(all) = end
    BY <1>2, <2>1
  <2> HIDE DEF three, end
  <2>7. end = three
    BY <2>2, <2>4, <2>5, SeqEqual
  <2> QED
    BY <2>2, <2>6, <2>7, <2>8 DEF HistorySlots
<1>7. Goal
  BY <1>0, <1>5, <1>6
<1> QED
  BY <1>7 DEF all, updated

LEMMA NothingIsASelection == [p \in Pixels |-> Nothing] \in Selections
BY DEF Selections

LEMMA FailKeepsAux ==
    ASSUME AuxInvariant, stage \in InCall, UNCHANGED <<auxState, callVars>>,
           NEW errors \in SUBSET Errors, NEW left, Fail(errors, left)
    PROVE  AuxInvariant'
BY DEF AuxInvariant, Fail, Errors, InCall, Stages, callVars, pickVars,
       successes, FilterStages

LEMMA HandOverKeepsAux ==
    ASSUME AuxInvariant, HandOver
    PROVE  AuxInvariant'
<1>1. /\ stage = "handover" /\ stage' = "cleanup" /\ status' = "OK"
      /\ UNCHANGED <<auxState, image, selected>>
      /\ auxState = AfterImage(recent, earned)
      /\ image \in Images /\ selected \in Selections
      /\ recent \in Seq(Selections) /\ Len(recent) \in 0..HistorySlots
      /\ earned \in 0..5
  BY DEF HandOver, AuxInvariant, pickVars
<1>2. successes' = AfterImage(recent, earned)
  BY <1>1, UpdateKeepsLastThree DEF HandOver, AfterImage, successes
<1>3. /\ recent' \in Seq(Selections) /\ Len(recent') \in 0..HistorySlots
      /\ earned' \in 0..5
  BY <1>1, UpdateKeepsLastThree, SteadiedInRange DEF HandOver
<1> QED
  BY <1>1, <1>2, <1>3 DEF AuxInvariant, Stages, FilterStages

LEMMA CleanUpKeepsAux ==
    ASSUME AuxInvariant, CleanUp
    PROVE  AuxInvariant'
<1>1. /\ stage = "cleanup" /\ stage' = "idle"
      /\ UNCHANGED <<image, successes>>
      /\ selected' \in Selections
  BY NothingIsASelection DEF CleanUp
<1>2. auxState' = successes
  BY DEF CleanUp, AuxInvariant, Restored, auxState, successes
<1> QED
  BY <1>1, <1>2 DEF AuxInvariant, Stages, successes, FilterStages

LEMMA PreparationKeepsAux ==
    ASSUME AuxInvariant, Preparation
    PROVE  AuxInvariant'
<1> USE DEF InCall, Stages, FilterStages
<1>1. CASE PrepareMetadata
  <2>1. /\ stage = "metadata" /\ stage' = "generate" /\ UNCHANGED callVars
        /\ auxState' = AfterImage(history, stability)
    BY <1>1 DEF PrepareMetadata, Pass, AfterImage, auxState
  <2>2. history = recent /\ stability = earned
    BY <2>1 DEF AuxInvariant, auxState, successes
  <2>3. UNCHANGED <<image, selected, classes, backup, successes>>
    BY <2>1 DEF callVars, pickVars
  <2> QED
    BY <2>1, <2>2, <2>3 DEF AuxInvariant, successes, AfterImage
<1>2. CASE FilterStep \/ EndFilter \/ StartFilter
  <2>1. /\ stage \in FilterStages
        /\ UNCHANGED <<image, auxState, backup, successes>>
        /\ \/ stage' \in FilterStages \cup {"metadata"}
           \/ stage' = "cleanup" /\ status' \in Errors
    BY <1>2 DEF StartFilter, FilterStep, EndFilter, AfterFilter, Fail, Errors
  <2>2. selected' \in Selections
    <3>1. CASE EndFilter
      BY <3>1 DEF EndFilter, AuxInvariant, Selections, ClassOf
    <3>2. CASE FilterStep \/ StartFilter
      BY <3>2 DEF FilterStep, StartFilter, AuxInvariant, pickVars
    <3> QED
      BY <1>2, <3>1, <3>2
  <2> QED
    BY <2>1, <2>2 DEF AuxInvariant, successes, Errors
<1>3. CASE /\ UNCHANGED <<auxState, callVars>>
           /\ stage \in {"flags", "gray", "object", "buffers", "mask",
                         "optional", "filter", "maps", "aux"}
           /\ stage' \in {"gray", "object", "buffers", "mask", "optional",
                          "filter", "maps", "aux", "dark"}
  BY <1>3 DEF AuxInvariant, callVars, pickVars, successes
<1>4. CASE /\ UNCHANGED <<auxState, callVars>>
           /\ stage \in InCall
           /\ stage' = "cleanup" /\ status' \in Errors
  BY <1>4 DEF AuxInvariant, callVars, pickVars, successes, Errors
<1>5. CASE ParseFlags
  BY <1>3, <1>4, <1>5 DEF ParseFlags, Pass, Fail, Errors
<1>6. CASE AllocateGray
  BY <1>3, <1>4, <1>6 DEF AllocateGray, Allocate, Pass, Fail, Errors
<1>7. CASE CreateObject
  BY <1>3, <1>4, <1>7 DEF CreateObject, Pass, Fail, Errors
<1>8. CASE AllocateBuffers
  BY <1>3, <1>4, <1>8 DEF AllocateBuffers, Allocate, Pass, Fail, Errors
<1>9. CASE PrepareMask
  BY <1>3, <1>4, <1>9 DEF PrepareMask, Pass, Fail, Errors
<1>10. CASE PrepareOptionalImage
  BY <1>3, <1>4, <1>10 DEF PrepareOptionalImage, Allocate, Pass, Fail, Errors
<1>11. CASE FilterImage
  BY <1>3, <1>4, <1>11 DEF FilterImage, Pass, Fail, Errors
<1>12. CASE PrepareFeatureMaps
  BY <1>3, <1>4, <1>12 DEF PrepareFeatureMaps, Pass, Fail, Errors
<1>13. CASE AllocateAuxMap
  BY <1>3, <1>4, <1>13 DEF AllocateAuxMap, Allocate, Pass, Fail, Errors
<1> QED
  BY <1>1, <1>2, <1>5, <1>6, <1>7, <1>8, <1>9, <1>10, <1>11, <1>12, <1>13
     DEF Preparation

LEMMA GenerationKeepsAux ==
    ASSUME AuxInvariant, Generation
    PROVE  AuxInvariant'
<1> DEFINE Late == {"generate", "outputs", "window", "global", "prune",
                    "compact", "partition", "neighbor"}
<1>1. /\ UNCHANGED <<auxState, callVars>>
      /\ stage \in Late
      /\ \/ stage' \in (Late \cup {"handover"})
         \/ stage' = "cleanup" /\ status' \in Errors
  BY DEF Generation, GenerateProfile24, EnsureOutputMaps, WindowQuality,
         GlobalPostprocess, PruneMask, CompactExpandAndPack,
         PartitionRecords, NeighborQuality, Pass, Fail, Errors
<1>2. UNCHANGED AfterImage(recent, earned)
  BY <1>1 DEF callVars, pickVars, successes, AfterImage
<1> QED
  BY <1>1, <1>2 DEF AuxInvariant, callVars, pickVars, successes, Errors,
                    Stages, FilterStages

LEMMA StepKeepsAux ==
    ASSUME AuxInvariant, [ExtractorNext]_allVars
    PROVE  AuxInvariant'
<1>1. CASE Begin
  BY <1>1 DEF Begin, AuxInvariant, Stages, auxState, successes, pickVars,
              FilterStages
<1>2. CASE DestroyFeature
  BY <1>2 DEF DestroyFeature, AuxInvariant, Stages, successes, pickVars,
              FilterStages
<1>3. CASE ResetState
  <2>1. <<>> \in Seq(Selections) /\ Len(<<>>) = 0
    OBVIOUS
  <2> QED
    BY <1>3, <2>1 DEF ResetState, AuxInvariant, auxState, successes,
                      pickVars, HistorySlots, FilterStages
<1>4. CASE UNCHANGED allVars
  BY <1>4 DEF allVars, callVars, pickVars, successes, AuxInvariant, AfterImage
<1> QED
  BY <1>1, <1>2, <1>3, <1>4, PreparationKeepsAux, GenerationKeepsAux,
     HandOverKeepsAux, CleanUpKeepsAux DEF ExtractorNext

(***************************************************************************)
(* What an extraction that failed had already done to the history and to   *)
(* the stability is undone, wherever it failed and whatever the images     *)
(* before it were.                                                         *)
(***************************************************************************)
THEOREM FailedExtractionsLeaveNoTrace ==
    ExtractorSpec => []AuxStateIsOfSuccesses
<1>1. ExtractorInit => AuxInvariant
  <2>1. <<>> \in Seq(Selections) /\ Len(<<>>) = 0
    OBVIOUS
  <2> QED
    BY <2>1, NothingIsASelection
       DEF ExtractorInit, AuxInvariant, Stages, auxState, successes,
           HistorySlots, FilterStages
<1>2. AuxInvariant /\ [ExtractorNext]_allVars => AuxInvariant'
  BY StepKeepsAux
<1>3. AuxInvariant => AuxStateIsOfSuccesses
  BY DEF AuxInvariant, AuxStateIsOfSuccesses, auxState, successes
<1> QED
  BY <1>1, <1>2, <1>3, PTL DEF ExtractorSpec
-----------------------------------------------------------------------------
(* Type correctness.                                                       *)

TypeInvariant ==
    /\ status \in {"OK"} \cup Errors
    /\ handed \in BOOLEAN
    /\ uneven \in BOOLEAN
    /\ history \in Seq(Selections)
    /\ Len(history) \in 0..HistorySlots
    /\ stability \in 0..5
    /\ classes \subseteq Pixels

LEMMA MetadataKeepsType ==
    ASSUME AuxInvariant, TypeInvariant, PrepareMetadata
    PROVE  TypeInvariant'
<1>1. /\ history' \in Seq(Selections) /\ Len(history') \in 0..HistorySlots
      /\ stability' \in 0..5
  BY UpdateKeepsLastThree, SteadiedInRange
     DEF PrepareMetadata, TypeInvariant, AuxInvariant
<1> QED
  BY <1>1 DEF PrepareMetadata, TypeInvariant, callVars, pickVars, Pass

LEMMA StepKeepsType ==
    ASSUME AuxInvariant, TypeInvariant, [ExtractorNext]_allVars
    PROVE  TypeInvariant'
<1> USE DEF TypeInvariant, auxState, callVars, pickVars
<1>1. CASE Begin \/ DestroyFeature
  BY <1>1 DEF Begin, DestroyFeature, Errors
<1>2. CASE ResetState
  <2>1. <<>> \in Seq(Selections) /\ Len(<<>>) \in 0..HistorySlots
    BY DEF HistorySlots
  <2> QED
    BY <1>2, <2>1 DEF ResetState
<1>3. CASE Preparation
  <2>1. CASE PrepareMetadata
    BY <2>1, MetadataKeepsType
  <2>2. CASE ~PrepareMetadata
    BY <1>3, <2>2 DEF Preparation, ParseFlags, AllocateGray, CreateObject,
       AllocateBuffers, PrepareMask, PrepareOptionalImage, FilterImage,
       PrepareFeatureMaps, AllocateAuxMap, StartFilter, FilterStep, EndFilter,
       Picked, Allocate, Pass, Fail, Errors
  <2> QED
    BY <2>1, <2>2
<1>4. CASE Generation
  BY <1>4 DEF Generation, GenerateProfile24, EnsureOutputMaps, WindowQuality,
     GlobalPostprocess, PruneMask, CompactExpandAndPack, PartitionRecords,
     NeighborQuality, Pass, Fail, Errors
<1>5. CASE HandOver
  BY <1>5 DEF HandOver
<1>6. CASE CleanUp
  <2>1. auxState' = successes
    BY <1>6 DEF CleanUp, AuxInvariant, Restored, successes
  <2> QED
    BY <1>6, <2>1 DEF CleanUp, AuxInvariant, successes
<1>7. CASE UNCHANGED allVars
  BY <1>7 DEF allVars
<1> QED
  BY <1>1, <1>2, <1>3, <1>4, <1>5, <1>6, <1>7 DEF ExtractorNext

(***************************************************************************)
(* The metadata stage runs the flood fill and the selection as they are.   *)
(***************************************************************************)
LEMMA StepKeepsRegions ==
    ASSUME ComponentsInvariant, [ExtractorNext]_allVars
    PROVE  ComponentsInvariant'
<1>1. CASE UNCHANGED regionVars
  BY <1>1, RestFits
<1>2. CASE FilterStep
  BY <1>2, ComponentsStepFits DEF FilterStep
<1>3. CASE EndFilter
  BY <1>3, ForgetFits DEF EndFilter
<1>4. CASE StartFilter
  <2>1. FilterInput \in SUBSET Pixels
    BY DEF FilterInput
  <2>2. /\ MaxLabels \in Nat \ {0} /\ HistoryLabels \in Nat \ {0}
    OBVIOUS
  <2>3. CASE Start(FilterInput, MaxLabels)
    BY <2>1, <2>2, <2>3, StartFits
  <2>4. CASE Start(FilterInput, HistoryLabels)
    BY <2>1, <2>2, <2>4, StartFits
  <2> QED
    BY <1>1, <1>4, <2>3, <2>4 DEF StartFilter
<1>5. CASE Begin \/ DestroyFeature \/ ResetState \/ HandOver \/ CleanUp
  BY <1>1, <1>5 DEF Begin, DestroyFeature, ResetState, HandOver, CleanUp
<1>6. CASE ParseFlags \/ AllocateGray \/ CreateObject \/ AllocateBuffers
           \/ PrepareMask \/ PrepareOptionalImage \/ FilterImage
           \/ PrepareFeatureMaps \/ AllocateAuxMap \/ PrepareMetadata
  BY <1>1, <1>6 DEF ParseFlags, AllocateGray, CreateObject, AllocateBuffers,
     PrepareMask, PrepareOptionalImage, FilterImage, PrepareFeatureMaps,
     AllocateAuxMap, PrepareMetadata, callVars
<1>7. CASE Generation
  BY <1>1, <1>7 DEF Generation, GenerateProfile24, EnsureOutputMaps,
     WindowQuality, GlobalPostprocess, PruneMask, CompactExpandAndPack,
     PartitionRecords, NeighborQuality, callVars
<1>8. CASE UNCHANGED allVars
  BY <1>1, <1>8 DEF allVars, callVars
<1> QED
  BY <1>2, <1>3, <1>4, <1>5, <1>6, <1>7, <1>8 DEF ExtractorNext, Preparation

(***************************************************************************)
(* In every pass over every image the regions that are selected are the    *)
(* largest connected ones, as long as neither the labels nor the room in   *)
(* the queue run out.                                                      *)
(***************************************************************************)
THEOREM ExtractedSelectionIsLargest == ExtractorSpec => []SelectionIsLargest
<1>1. ExtractorInit => ComponentsInvariant
  BY NoPictureFits DEF ExtractorInit
<1>2. ComponentsInvariant /\ [ExtractorNext]_allVars => ComponentsInvariant'
  BY StepKeepsRegions
<1>3. ComponentsInvariant => SelectionIsLargest
  BY SelectionFits
<1> QED
  BY <1>1, <1>2, <1>3, PTL DEF ExtractorSpec
-----------------------------------------------------------------------------
(***************************************************************************)
(* Every variable of the extractor keeps its type; in particular front and *)
(* last stay inside the record array in all the loops, and no label is     *)
(* ever beyond the array of the sizes.                                     *)
(***************************************************************************)
THEOREM ExtractorTypeCorrect == ExtractorSpec => []ExtractorTypeOK
<1> DEFINE Inv == HeapInvariant /\ RecordsInvariant /\ AuxInvariant
                  /\ TypeInvariant /\ ComponentsInvariant
<1>1. ExtractorInit => Inv
  <2>1. <<>> \in Seq(Selections) /\ Len(<<>>) \in 0..HistorySlots
    BY DEF HistorySlots
  <2> SUFFICES ASSUME ExtractorInit
               PROVE  Inv
    OBVIOUS
  <2>2. HeapInvariant
    BY DEF ExtractorInit, HeapInvariant, Stages, InCall
  <2>3. AuxInvariant
    BY <2>1, NothingIsASelection
       DEF ExtractorInit, AuxInvariant, Stages, auxState, successes,
           FilterStages
  <2>4. TypeInvariant
    <3>1. status \in {"OK"} \cup Errors /\ stability \in 0..5
      BY DEF ExtractorInit
    <3>2. /\ handed \in BOOLEAN /\ uneven \in BOOLEAN /\ history = <<>>
          /\ classes \subseteq Pixels
      BY DEF ExtractorInit
    <3> QED
      BY <2>1, <3>1, <3>2 DEF TypeInvariant
  <2> QED
    BY <2>2, <2>3, <2>4, EmptyRecords, NoPictureFits DEF ExtractorInit
<1>2. Inv /\ [ExtractorNext]_allVars => Inv'
  BY StepKeepsHeap, StepKeepsRecords, StepKeepsAux, StepKeepsType,
     StepKeepsRegions
<1>3. Inv => ExtractorTypeOK
  <2>1. TypeInvariant => Len(history) <= HistorySlots
    <3> DEFINE n == Len(history)
    <3> HIDE DEF n
    <3>1. n \in 0..3 => n <= 3
      OBVIOUS
    <3>2. TypeInvariant => n \in 0..3
      BY DEF TypeInvariant, HistorySlots, n
    <3> QED
      BY <3>1, <3>2 DEF HistorySlots, n
  <2> QED
    BY <2>1 DEF HeapInvariant, RecordsInvariant, AuxInvariant, TypeInvariant,
                ComponentsInvariant, ExtractorTypeOK, Parts
<1> QED
  BY <1>1, <1>2, <1>3, PTL DEF ExtractorSpec

-----------------------------------------------------------------------------
(***************************************************************************)
(* The matcher: induction, and functions on the first numbers, by which    *)
(* its loops are defined.                                                  *)
(***************************************************************************)

HIDE DEF RecordsAssumption, ComponentsAssumption, ExtractorAssumption

LEMMA SetInduction ==
    ASSUME NEW S, 0 \in S, \A n \in Nat : n \in S => n + 1 \in S
    PROVE  Nat \subseteq S
<1> SUFFICES ASSUME Nat \ S # {} PROVE FALSE
  OBVIOUS
<1> DEFINE R == {ss \in Nat \X Nat : ss[1] < ss[2]}
<1>1. IsWellFoundedOn(R, Nat)
  BY NatLessThanWellFounded DEF OpToRel
<1>2. PICK x \in Nat \ S : \A y \in Nat \ S : ~ (<<y, x>> \in R)
  <2> HIDE DEF R
  <2>1. Nat \ S \subseteq Nat
    OBVIOUS
  <2> QED
    BY <1>1, <2>1, WFMin
<1>3. x # 0
  OBVIOUS
<1>4. x - 1 \in Nat /\ x - 1 < x /\ x - 1 + 1 = x
  BY <1>3
<1>5. x - 1 \in S
  BY <1>2, <1>4
<1> QED
  BY <1>4, <1>5

(***************************************************************************)
(* One more value for a function on 0..k.                                  *)
(***************************************************************************)
With(g, k, v) == [i \in 0..(k + 1) |-> IF i = k + 1 THEN v ELSE g[i]]

OnFirst(h, k) == h = [i \in 0..k |-> h[i]]

-----------------------------------------------------------------------------
(* The matcher: scores.                                                    *)

Scans  == Seq(Record)
Angles  == (-Half)..Half
Spots == [x : Int, y : Int]

LEMMA Scales ==
    /\ One \in Nat /\ One > 0 /\ Unit \in Nat /\ Unit > 0 /\ Bits \in Nat /\ Bits > 0
    /\ Half \in Nat /\ Period \in Nat /\ Period = 2 * Half /\ Half > 0
    /\ \A spin \in Angles : Cosine[spin] \in Int /\ Sine[spin] \in Int
<1>1. /\ One \in Nat /\ One > 0 /\ Unit \in Nat /\ Unit > 0 /\ Bits \in Nat /\ Bits > 0
  BY MatcherAssumption
<1>2. Period \in Nat /\ Period > 0 /\ Period % 2 = 0
  BY MatcherAssumption
<1>3. Half \in Nat /\ Period = 2 * Half /\ Half > 0
  BY <1>2 DEF Half
<1>4. \A spin \in Angles : Cosine[spin] \in Int /\ Sine[spin] \in Int
  BY MatcherAssumption DEF Angles
<1> QED
  BY <1>1, <1>2, <1>3, <1>4

(***************************************************************************)
(* A part of at most the whole is at most one.                             *)
(***************************************************************************)
LEMMA Part ==
    ASSUME NEW n \in Nat, NEW d \in Nat, NEW k \in Nat, d > 0, n <= d * k
    PROVE  n \div d \in Nat /\ n \div d <= k
<1> DEFINE q == n \div d
<1>1. q \in Int /\ d * q <= n /\ n < d * q + d
  OBVIOUS
<1> HIDE DEF q
<1>2. q >= 0
  <2> SUFFICES ASSUME q <= -1 PROVE FALSE
    BY <1>1
  <2>1. d * q <= d * (-1)
    BY <1>1
  <2> QED
    BY <1>1, <2>1
<1>3. q <= k
  <2> SUFFICES ASSUME q >= k + 1 PROVE FALSE
    BY <1>1
  <2>1. d * q >= d * (k + 1)
    BY <1>1
  <2>2. d * (k + 1) = d * k + d
    OBVIOUS
  <2> QED
    BY <1>1, <2>1, <2>2
<1> QED
  BY <1>1, <1>2, <1>3 DEF q

LEMMA RatioType ==
    ASSUME NEW n \in Nat, NEW d \in Nat
    PROVE  Ratio(n, d) \in 0..One
<1>1. CASE d = 0 \/ n >= d
  BY <1>1, Scales DEF Ratio
<1>2. CASE d > 0 /\ n < d
  <2>1. n * One \in Nat /\ n * One <= d * One
    BY <1>2, Scales
  <2>2. (n * One) \div d \in Nat /\ (n * One) \div d <= One
    BY <1>2, <2>1, Scales, Part
  <2> QED
    BY <1>2, <2>2, Scales DEF Ratio
<1> QED
  BY <1>1, <1>2

LEMMA HammingType ==
    ASSUME NEW a \in Record, NEW b \in Record
    PROVE  Hamming(a, b) \in 0..Bits
<1>1. IsFiniteSet(1..Bits) /\ Cardinality(1..Bits) = Bits
  <2>1. Bits \in Int /\ Bits > 0
    BY Scales
  <2>2. IsFiniteSet(1..Bits) /\ Cardinality(1..Bits) = IF 1 > Bits THEN 0 ELSE Bits - 1 + 1
    BY <2>1, FS_Interval
  <2> QED
    BY <2>1, <2>2
<1>2. SymDiff(a.bits, b.bits) \in SUBSET (1..Bits)
  BY DEF SymDiff, Record
<1>3. /\ IsFiniteSet(SymDiff(a.bits, b.bits))
      /\ Cardinality(SymDiff(a.bits, b.bits)) <= Bits
  BY <1>1, <1>2, FS_Subset
<1>4. Cardinality(SymDiff(a.bits, b.bits)) \in Nat
  BY <1>3, FS_CardinalityType
<1> QED
  BY <1>3, <1>4, Scales DEF Hamming

LEMMA NormalizedType ==
    ASSUME NEW angle \in Int
    PROVE  Normalized(angle) \in Angles
<1>1. \A k \in Int : k % Period \in 0..(Period - 1)
  BY Scales
<1>2. (Half - angle) % Period \in 0..(Period - 1) /\ (angle + Half) % Period \in 0..(Period - 1)
  BY <1>1, Scales
<1> QED
  BY <1>2, Scales DEF Normalized, Angles

LEMMA SquareType ==
    ASSUME NEW n \in Int
    PROVE  n * n \in Nat
<1>1. CASE n >= 0
  BY <1>1
<1>2. CASE n < 0
  <2>1. n * n = (-n) * (-n) /\ -n \in Nat
    BY <1>2
  <2> QED
    BY <2>1
<1> QED
  BY <1>1, <1>2

LEMMA LaidType ==
    ASSUME NEW r \in Record, NEW from \in Record, NEW to \in Record, NEW spin \in Angles
    PROVE  Laid(r, from, to, spin) \in Spots
<1>1. /\ r.x \in Int /\ r.y \in Int /\ from.x \in Int /\ from.y \in Int
      /\ to.x \in Int /\ to.y \in Int /\ Cosine[spin] \in Int /\ Sine[spin] \in Int
  BY Scales DEF Record
<1>2. \A a, b, c, d \in Int : a * b - c * d \in Int /\ a * b + c * d \in Int
  OBVIOUS
<1>3. \A n \in Int : n \div Unit \in Int
  BY Scales
<1> DEFINE dx == r.x - from.x
           dy == r.y - from.y
<1>4. dx \in Int /\ dy \in Int
  BY <1>1
<1> HIDE DEF dx, dy
<1>5. /\ to.x + (dx * Cosine[spin] - dy * Sine[spin]) \div Unit \in Int
      /\ to.y + (dx * Sine[spin] + dy * Cosine[spin]) \div Unit \in Int
  BY <1>1, <1>2, <1>3, <1>4
<1> QED
  BY <1>5 DEF Laid, Spots, dx, dy

LEMMA DistanceType ==
    ASSUME NEW a \in Record, NEW b \in Spots
    PROVE  SquaredDistance(a, b) \in Nat
<1>1. a.x - b.x \in Int /\ a.y - b.y \in Int
  BY DEF Record, Spots
<1>2. (a.x - b.x) * (a.x - b.x) \in Nat /\ (a.y - b.y) * (a.y - b.y) \in Nat
  BY <1>1, SquareType
<1> QED
  BY <1>2 DEF SquaredDistance

LEMMA AngleErrorType ==
    ASSUME NEW r \in Record, NEW q \in Record, NEW spin \in Angles
    PROVE  AngleError(r, q, spin) \in Nat
<1>1. q.angle - r.angle - spin \in Int
  BY Scales DEF Record, Angles
<1>2. Normalized(q.angle - r.angle - spin) \in Int
  BY <1>1, NormalizedType, Scales DEF Angles
<1> QED
  BY <1>2 DEF AngleError, Magnitude

(***************************************************************************)
(* A candidate and its similarities.                                       *)
(***************************************************************************)
CandidateSet(view) ==
    [probe : DOMAIN view, descriptor : 0..One, spatial : 0..One, angle : 0..One]

LEMMA CandidatesType ==
    ASSUME NEW r \in Record, NEW at \in Spots, NEW spin \in Angles, NEW view \in Scans,
           NEW used, NEW c \in Config
    PROVE  Candidates(r, at, spin, view, used, c) \subseteq CandidateSet(view)
<1> SUFFICES ASSUME NEW p \in DOMAIN view
             PROVE  /\ Ratio(Bits - Hamming(r, view[p]), Bits) \in 0..One
                    /\ One - Ratio(SquaredDistance(view[p], at), c.radius * c.radius) \in 0..One
                    /\ One - Ratio(AngleError(r, view[p], spin), c.angle) \in 0..One
  BY DEF Candidates, CandidateSet
<1>1. view[p] \in Record /\ c.radius \in Nat /\ c.angle \in Nat
  BY DEF Scans, Config
<1>2. \A n \in 0..One : One - n \in 0..One
  BY Scales
<1>3. Ratio(Bits - Hamming(r, view[p]), Bits) \in 0..One
  <2>1. Bits - Hamming(r, view[p]) \in Nat /\ Bits \in Nat
    BY <1>1, HammingType, Scales
  <2> QED
    BY <2>1, RatioType
<1>4. Ratio(SquaredDistance(view[p], at), c.radius * c.radius) \in 0..One
  <2>1. SquaredDistance(view[p], at) \in Nat
    BY <1>1, DistanceType
  <2>2. c.radius * c.radius \in Nat
    BY <1>1
  <2> QED
    BY <2>1, <2>2, RatioType
<1>5. Ratio(AngleError(r, view[p], spin), c.angle) \in 0..One
  BY <1>1, AngleErrorType, RatioType
<1> QED
  BY <1>2, <1>3, <1>4, <1>5

-----------------------------------------------------------------------------
(* The matcher: seeds.                                                     *)

LEMMA MaxOfInterval ==
    ASSUME NEW m \in Nat PROVE Max(0..m) = m
<1> DEFINE P(x) == x \in 0..m /\ \A y \in 0..m : x >= y
<1>1. P(m)
  OBVIOUS
<1>2. \A x : P(x) => x = m
  OBVIOUS
<1>3. Max(0..m) = CHOOSE x : P(x)
  BY DEF Max
<1> HIDE DEF P
<1> QED
  BY <1>1, <1>2, <1>3

(***************************************************************************)
(* A set of positions without gaps.                                        *)
(***************************************************************************)
LEMMA NoGaps ==
    ASSUME NEW n \in Nat, NEW A \in SUBSET (1..n),
           \A i \in A : \A j \in 1..i : j \in A
    PROVE  \E m \in 0..n : A = 1..m
<1> DEFINE Downward(B) == \A i \in B : \A j \in 1..i : j \in B
           S == {k \in Nat : \A B \in SUBSET (1..k) : Downward(B) => \E m \in 0..k : B = 1..m}
<1>1. 0 \in S
  <2>1. \A B \in SUBSET (1..0) : B = 1..0 /\ 0 \in 0..0
    OBVIOUS
  <2> QED
    BY <2>1
<1>2. ASSUME NEW k \in Nat, k \in S PROVE k + 1 \in S
  <2> SUFFICES ASSUME NEW B \in SUBSET (1..(k + 1)), Downward(B)
               PROVE  \E m \in 0..(k + 1) : B = 1..m
    <3>1. k + 1 \in Nat
      OBVIOUS
    <3> HIDE DEF Downward
    <3> QED
      BY <3>1
  <2>1. CASE k + 1 \in B
    <3>1. \A j \in 1..(k + 1) : j \in B
      BY <2>1
    <3>2. B = 1..(k + 1)
      <4>1. B \subseteq 1..(k + 1) /\ 1..(k + 1) \subseteq B
        BY <3>1
      <4> QED
        BY <4>1
    <3>3. k + 1 \in 0..(k + 1)
      OBVIOUS
    <3> QED
      BY <3>2, <3>3
  <2>2. CASE k + 1 \notin B
    <3>1. B \in SUBSET (1..k)
      BY <2>2
    <3>2. PICK m \in 0..k : B = 1..m
      BY <1>2, <3>1
    <3>3. m \in 0..(k + 1)
      OBVIOUS
    <3> QED
      BY <3>2, <3>3
  <2> QED
    BY <2>1, <2>2
<1> HIDE DEF S
<1>3. n \in S
  BY <1>1, <1>2, SetInduction
<1> QED
  BY <1>3 DEF S

(***************************************************************************)
(* new is list with e behind its first m elements; what was behind them    *)
(* moves up, as far as there is room.                                      *)
(***************************************************************************)
MovedUp(new, list, m, e) ==
    /\ m + 1 \in DOMAIN new
    /\ new[m + 1] = e
    /\ \A i \in DOMAIN new : i <= m => new[i] = list[i]
    /\ \A i \in DOMAIN new : i > m + 1 => new[i] = list[i - 1]

Insertion(list, e, room, m) == Inserted(list, e, room, 1..m)

LEMMA InsertedIs ==
    ASSUME NEW S, NEW list \in Seq(S), NEW e \in S, NEW room \in Nat, room > 0,
           Len(list) <= room, NEW m \in 0..Len(list)
    PROVE  /\ m = room => Insertion(list, e, room, m) = list
           /\ m < room =>
                /\ Insertion(list, e, room, m) \in Seq(S)
                /\ Len(Insertion(list, e, room, m)) =
                     IF Len(list) < room THEN Len(list) + 1 ELSE room
                /\ MovedUp(Insertion(list, e, room, m), list, m, e)
<1>1. Len(list) \in Nat /\ \A i \in 1..Len(list) : list[i] \in S
  OBVIOUS
<1>2. ASSUME m = room PROVE Insertion(list, e, room, m) = list
  <2>1. Len(list) >= room /\ Len(list) \in 1..m
    BY <1>1, <1>2
  <2> QED
    BY <2>1 DEF Inserted, Insertion
<1>3. ASSUME m < room
      PROVE  /\ Insertion(list, e, room, m) \in Seq(S)
             /\ Len(Insertion(list, e, room, m)) =
                  IF Len(list) < room THEN Len(list) + 1 ELSE room
             /\ MovedUp(Insertion(list, e, room, m), list, m, e)
  <2> DEFINE kept == IF Len(list) < room THEN list ELSE Front(list)
             n    == IF Len(list) < room THEN Len(list) ELSE room - 1
  <2>1. n \in Nat /\ m <= n /\ n <= Len(list)
    BY <1>1, <1>3
  <2>2. /\ kept \in Seq(S) /\ Len(kept) = n /\ DOMAIN kept = 1..n
        /\ \A i \in 1..n : kept[i] = list[i]
    <3>1. CASE Len(list) < room
      BY <3>1
    <3>2. CASE ~(Len(list) < room)
      <4>1. Len(list) = room /\ kept = SubSeq(list, 1, n)
        BY <1>1, <3>2 DEF Front
      <4> HIDE DEF n, kept
      <4>2. \A i \in 1..n : list[i] \in S
        BY <1>1, <2>1
      <4>3. /\ SubSeq(list, 1, n) \in Seq(S)
            /\ Len(SubSeq(list, 1, n)) = IF 1 <= n THEN n - 1 + 1 ELSE 0
            /\ \A i \in 1..(n - 1 + 1) : SubSeq(list, 1, n)[i] = list[1 + i - 1]
        BY <2>1, <4>2, SubSeqProperties
      <4>4. Len(kept) = n
        BY <2>1, <4>1, <4>3
      <4>5. \A i \in 1..n : kept[i] = list[i]
        <5> TAKE i \in 1..n
        <5>1. i \in 1..(n - 1 + 1) /\ 1 + i - 1 = i
          BY <2>1
        <5> QED
          BY <4>1, <4>3, <5>1
      <4> QED
        BY <4>1, <4>3, <4>4, <4>5
    <3> QED
      BY <3>1, <3>2
  <2>3. Insertion(list, e, room, m) = InsertAt(kept, m + 1, e)
    <3>1. ~(Len(list) >= room /\ Len(list) \in 1..m)
      BY <1>1, <1>3
    <3>2. {0} \cup ((1..m) \cap DOMAIN kept) = 0..m
      BY <2>1, <2>2
    <3>3. Max({0} \cup ((1..m) \cap DOMAIN kept)) = m
      <4>1. m \in Nat
        OBVIOUS
      <4>2. Max(0..m) = m
        BY <4>1, MaxOfInterval
      <4> QED
        BY <3>2, <4>2
    <3> QED
      BY <3>1, <3>3 DEF Inserted, Insertion
  <2> HIDE DEF kept, n
  <2> DEFINE low  == SubSeq(kept, 1, m)
             high == SubSeq(kept, m + 1, n)
             new  == (low \o <<e>>) \o high
  <2>4. Insertion(list, e, room, m) = new
    <3>1. m + 1 - 1 = m
      OBVIOUS
    <3> QED
      BY <2>2, <2>3, <3>1 DEF InsertAt
  <2>5. low \in Seq(S) /\ Len(low) = m /\ \A i \in 1..m : low[i] = list[i]
    <3>1. \A i \in 1..m : kept[i] \in S /\ kept[i] = list[i]
      BY <1>1, <2>1, <2>2
    <3>2. /\ low \in Seq(S) /\ Len(low) = IF 1 <= m THEN m - 1 + 1 ELSE 0
          /\ \A i \in 1..(m - 1 + 1) : low[i] = kept[1 + i - 1]
      BY <3>1, SubSeqProperties
    <3> HIDE DEF low
    <3>3. \A i \in 1..m : low[i] = list[i]
      <4> TAKE i \in 1..m
      <4>1. i \in 1..(m - 1 + 1) /\ 1 + i - 1 = i
        OBVIOUS
      <4> QED
        BY <3>1, <3>2, <4>1
    <3> QED
      BY <3>2, <3>3
  <2>6. high \in Seq(S) /\ Len(high) = n - m /\ \A i \in 1..(n - m) : high[i] = list[m + i]
    <3>1. \A i \in (m + 1)..n : kept[i] \in S /\ kept[i] = list[i]
      BY <1>1, <2>1, <2>2
    <3>2. /\ high \in Seq(S)
          /\ Len(high) = IF m + 1 <= n THEN n - (m + 1) + 1 ELSE 0
          /\ \A i \in 1..(n - (m + 1) + 1) : high[i] = kept[m + 1 + i - 1]
      <4>1. m + 1 \in Int /\ n \in Int
        BY <2>1
      <4> QED
        BY <3>1, <4>1, SubSeqProperties
    <3> HIDE DEF high
    <3>3. \A i \in 1..(n - m) : high[i] = list[m + i]
      <4> TAKE i \in 1..(n - m)
      <4>1. i \in 1..(n - (m + 1) + 1) /\ m + 1 + i - 1 = m + i /\ m + i \in (m + 1)..n
        BY <2>1
      <4> QED
        BY <3>1, <3>2, <4>1
    <3> QED
      BY <2>1, <3>2, <3>3
  <2> HIDE DEF low, high
  <2>7. /\ low \o <<e>> \in Seq(S) /\ Len(low \o <<e>>) = m + 1
        /\ \A i \in 1..m : (low \o <<e>>)[i] = list[i]
        /\ (low \o <<e>>)[m + 1] = e
    <3>1. <<e>> \in Seq(S) /\ Len(<<e>>) = 1 /\ <<e>>[1] = e
      OBVIOUS
    <3>2. /\ low \o <<e>> \in Seq(S) /\ Len(low \o <<e>>) = Len(low) + Len(<<e>>)
          /\ \A i \in 1..(Len(low) + Len(<<e>>)) : (low \o <<e>>)[i] =
               IF i <= Len(low) THEN low[i] ELSE <<e>>[i - Len(low)]
      BY <2>5, <3>1, ConcatProperties
    <3>3. \A i \in 1..m : (low \o <<e>>)[i] = list[i]
      <4> TAKE i \in 1..m
      <4>1. i \in 1..(Len(low) + Len(<<e>>)) /\ i <= Len(low)
        BY <2>5, <3>1
      <4> QED
        BY <2>5, <3>2, <4>1
    <3>4. (low \o <<e>>)[m + 1] = e
      <4>1. m + 1 \in 1..(Len(low) + Len(<<e>>)) /\ ~(m + 1 <= Len(low)) /\ m + 1 - Len(low) = 1
        BY <2>5, <3>1
      <4> QED
        BY <3>1, <3>2, <4>1
    <3> QED
      BY <2>5, <3>1, <3>2, <3>3, <3>4
  <2> DEFINE start == low \o <<e>>
  <2> HIDE DEF start
  <2>8. start \in Seq(S) /\ Len(start) = m + 1 /\ new = start \o high
        /\ (\A i \in 1..m : start[i] = list[i]) /\ start[m + 1] = e
    BY <2>7 DEF start
  <2> HIDE DEF new
  <2>9. /\ new \in Seq(S) /\ Len(new) = n + 1
        /\ \A i \in 1..(n + 1) : new[i] = IF i <= m + 1 THEN start[i] ELSE high[i - (m + 1)]
    <3>1. /\ start \o high \in Seq(S) /\ Len(start \o high) = Len(start) + Len(high)
          /\ \A i \in 1..(Len(start) + Len(high)) : (start \o high)[i] =
               IF i <= Len(start) THEN start[i] ELSE high[i - Len(start)]
      BY <2>6, <2>8, ConcatProperties
    <3>2. Len(start) + Len(high) = n + 1
      BY <2>1, <2>6, <2>8
    <3> QED
      BY <2>8, <3>1, <3>2
  <2>10. DOMAIN new = 1..(n + 1) /\ n + 1 = IF Len(list) < room THEN Len(list) + 1 ELSE room
    BY <2>9 DEF n
  <2>11. MovedUp(new, list, m, e)
    <3>1. m + 1 \in DOMAIN new /\ new[m + 1] = e
      BY <2>1, <2>8, <2>9, <2>10
    <3>2. \A i \in DOMAIN new : i <= m => new[i] = list[i]
      <4> SUFFICES ASSUME NEW i \in DOMAIN new, i <= m PROVE new[i] = list[i]
        OBVIOUS
      <4>1. i \in 1..(n + 1) /\ i <= m + 1 /\ i \in 1..m
        BY <2>10
      <4> QED
        BY <2>8, <2>9, <4>1
    <3>3. \A i \in DOMAIN new : i > m + 1 => new[i] = list[i - 1]
      <4> SUFFICES ASSUME NEW i \in DOMAIN new, i > m + 1 PROVE new[i] = list[i - 1]
        OBVIOUS
      <4>1. /\ i \in 1..(n + 1) /\ ~(i <= m + 1)
            /\ i - (m + 1) \in 1..(n - m) /\ m + (i - (m + 1)) = i - 1
        BY <2>1, <2>10
      <4> QED
        BY <2>6, <2>9, <4>1
    <3> QED
      BY <3>1, <3>2, <3>3 DEF MovedUp
  <2> QED
    BY <2>4, <2>9, <2>10, <2>11
<1> QED
  BY <1>2, <1>3

(***************************************************************************)
(* Seeds are ordered by Ahead, strictly.                                   *)
(***************************************************************************)
SeedKeys == [t : Nat, p : Nat, hamming : Nat]

LEMMA AheadIsStrict ==
    /\ \A a, b \in SeedKeys : ~(Ahead(a, b) /\ Ahead(b, a))
    /\ \A a, b, d \in SeedKeys : Ahead(a, b) /\ Ahead(b, d) => Ahead(a, d)
    /\ \A a, b \in SeedKeys : Ahead(a, b) => a.hamming <= b.hamming
    /\ \A a, b \in SeedKeys : a.hamming < b.hamming => Ahead(a, b)
BY DEF Ahead, SeedKeys

(***************************************************************************)
(* What is kept of the pairs met so far: in order, and what is not kept    *)
(* has found the room full of better ones.                                 *)
(***************************************************************************)
Kept(seeds, met) ==
    /\ \A i \in DOMAIN seeds : seeds[i] \in met
    /\ \A i, j \in DOMAIN seeds : i < j => Ahead(seeds[i], seeds[j])

AllAhead(seeds, s) == \A i \in DOMAIN seeds : Ahead(seeds[i], s)

In(s, seeds) == \E i \in DOMAIN seeds : seeds[i] = s

Window(seeds, met, room) ==
    /\ seeds \in Seq(SeedKeys) /\ Len(seeds) <= room
    /\ Kept(seeds, met)
    /\ \A s \in met : In(s, seeds) \/ (Len(seeds) = room /\ AllAhead(seeds, s))

Latest(s, met) == \A r \in met : r.t < s.t \/ (r.t = s.t /\ r.p < s.p)

LEMMA WindowMoves ==
    ASSUME NEW met \in SUBSET SeedKeys, NEW seeds, NEW room \in Nat, room > 0,
           Window(seeds, met, room), NEW s \in SeedKeys, Latest(s, met)
    PROVE  Window(Inserted(seeds, s, room, {i \in DOMAIN seeds : ~Nearer(s, seeds[i])}),
                  met \cup {s}, room)
<1> DEFINE A == {i \in DOMAIN seeds : ~Nearer(s, seeds[i])}
           n == Len(seeds)
<1>1. /\ seeds \in Seq(SeedKeys) /\ n \in Nat /\ n <= room /\ DOMAIN seeds = 1..n
      /\ \A i \in 1..n : seeds[i] \in met /\ seeds[i] \in SeedKeys
      /\ \A i, j \in 1..n : i < j => Ahead(seeds[i], seeds[j])
  BY DEF Window, Kept
<1> HIDE DEF n
<1>2. /\ \A r \in met : r.hamming <= s.hamming => Ahead(r, s)
      /\ \A r \in met : s.hamming < r.hamming => Ahead(s, r)
  BY DEF Latest, Ahead, SeedKeys
<1>3. /\ A \in SUBSET (1..n)
      /\ \A i \in 1..n : i \in A <=> seeds[i].hamming <= s.hamming
  BY <1>1 DEF Nearer, SeedKeys
<1>4. PICK m \in 0..n : A = 1..m
  <2>1. \A i \in A : \A j \in 1..i : j \in A
    <3> SUFFICES ASSUME NEW i \in A, NEW j \in 1..i PROVE j \in A
      OBVIOUS
    <3>1. i \in 1..n /\ j \in 1..n /\ seeds[i].hamming <= s.hamming
      BY <1>1, <1>3
    <3>2. seeds[j].hamming <= seeds[i].hamming
      <4>1. CASE j = i
        BY <1>1, <3>1, <4>1 DEF SeedKeys
      <4>2. CASE j < i
        BY <1>1, <3>1, <4>2, AheadIsStrict
      <4> QED
        BY <3>1, <4>1, <4>2
    <3>3. seeds[j].hamming <= s.hamming
      BY <1>1, <3>1, <3>2 DEF SeedKeys
    <3> QED
      BY <1>3, <3>1, <3>3
  <2> HIDE DEF A
  <2> QED
    BY <1>1, <1>3, <2>1, NoGaps
<1>5. /\ \A i \in 1..n : i <= m => Ahead(seeds[i], s)
      /\ \A i \in 1..n : i > m => Ahead(s, seeds[i])
  <2> SUFFICES ASSUME NEW i \in 1..n
               PROVE  (i <= m => Ahead(seeds[i], s)) /\ (i > m => Ahead(s, seeds[i]))
    OBVIOUS
  <2>1. i \in A <=> i <= m
    BY <1>4
  <2>2. seeds[i] \in met /\ seeds[i].hamming \in Nat /\ s.hamming \in Nat
    BY <1>1 DEF SeedKeys
  <2> QED
    BY <1>2, <1>3, <2>1, <2>2
<1> HIDE DEF A
<1> DEFINE new == Insertion(seeds, s, room, m)
<1>6. /\ m = room => new = seeds
      /\ m < room => /\ new \in Seq(SeedKeys)
                     /\ Len(new) = IF n < room THEN n + 1 ELSE room
                     /\ MovedUp(new, seeds, m, s)
  BY <1>1, InsertedIs DEF n
<1> HIDE DEF new
<1>7. CASE m = room
  <2>1. n = room /\ new = seeds /\ n = Len(seeds)
    <3>1. n = room
      BY <1>1, <1>7
    <3>2. n = Len(seeds)
      BY DEF n
    <3> QED
      BY <1>6, <1>7, <3>1, <3>2
  <2>2. AllAhead(seeds, s)
    BY <1>1, <1>5, <1>7, <2>1 DEF AllAhead
  <2>3. Kept(seeds, met \cup {s})
    BY DEF Window, Kept
  <2>4. \A r \in met \cup {s} : In(r, seeds) \/ (Len(seeds) = room /\ AllAhead(seeds, r))
    BY <2>1, <2>2 DEF Window
  <2>5. Window(new, met \cup {s}, room)
    BY <1>1, <2>1, <2>3, <2>4 DEF Window
  <2> QED
    BY <1>4, <2>5 DEF A, new, Insertion
<1>8. CASE m < room
  <2> DEFINE l == Len(new)
  <2>1. /\ new \in Seq(SeedKeys) /\ l \in Nat /\ DOMAIN new = 1..l
        /\ l = (IF n < room THEN n + 1 ELSE room) /\ l <= room /\ l <= n + 1
        /\ m + 1 \in 1..l /\ new[m + 1] = s
        /\ \A i \in 1..l : i <= m => new[i] = seeds[i]
        /\ \A i \in 1..l : i > m + 1 => new[i] = seeds[i - 1]
    <3>1. new \in Seq(SeedKeys)
      BY <1>6, <1>8
    <3>2. l = (IF n < room THEN n + 1 ELSE room)
      BY <1>6, <1>8
    <3>3. l \in Nat /\ DOMAIN new = 1..l
      BY <3>1
    <3> HIDE DEF l
    <3>4. l <= room /\ l <= n + 1
      BY <1>1, <3>2
    <3>5. MovedUp(new, seeds, m, s)
      BY <1>6, <1>8
    <3> QED
      BY <3>1, <3>2, <3>3, <3>4, <3>5 DEF MovedUp
  <2> HIDE DEF l
  <2>2. \A i \in 1..l : /\ i <= m => i \in 1..n /\ new[i] = seeds[i]
                        /\ i > m + 1 => i - 1 \in 1..n /\ i - 1 > m /\ new[i] = seeds[i - 1]
                        /\ i <= m \/ i = m + 1 \/ i > m + 1
    BY <1>1, <2>1
  <2>3. Kept(new, met \cup {s})
    <3>1. \A i \in 1..l : new[i] \in met \cup {s}
      BY <1>1, <2>1, <2>2
    <3>2. ASSUME NEW i \in 1..l, NEW j \in 1..l, i < j PROVE Ahead(new[i], new[j])
      <4>1. CASE j <= m
        <5>1. i <= m
          BY <3>2, <4>1
        <5> QED
          BY <1>1, <2>2, <3>2, <4>1, <5>1
      <4>2. CASE j = m + 1
        <5>1. i <= m
          BY <3>2, <4>2
        <5> QED
          BY <1>5, <2>1, <2>2, <4>2, <5>1
      <4>3. CASE j > m + 1
        <5>1. CASE i <= m
          <6>1. i < j - 1
            BY <4>3, <5>1
          <6> QED
            BY <1>1, <2>2, <4>3, <5>1, <6>1
        <5>2. CASE i = m + 1
          BY <1>5, <2>1, <2>2, <4>3, <5>2
        <5>3. CASE i > m + 1
          <6>1. i - 1 < j - 1
            BY <3>2
          <6> QED
            BY <1>1, <2>2, <4>3, <5>3, <6>1
        <5> QED
          BY <2>2, <5>1, <5>2, <5>3
      <4> QED
        BY <2>2, <4>1, <4>2, <4>3
    <3> QED
      BY <2>1, <3>1, <3>2 DEF Kept
  <2>4. ASSUME NEW r \in met \cup {s}
        PROVE  In(r, new) \/ (Len(new) = room /\ AllAhead(new, r))
    <3>1. CASE r = s
      BY <2>1, <3>1 DEF In
    <3>2. ASSUME NEW k \in 1..n, seeds[k] = r, r \in met
          PROVE  In(r, new) \/ (Len(new) = room /\ AllAhead(new, r))
      <4>1. CASE k <= m
        <5>1. k \in 1..l
          BY <2>1, <4>1
        <5>2. new[k] = r
          BY <2>2, <3>2, <4>1, <5>1
        <5> QED
          BY <2>1, <5>1, <5>2 DEF In
      <4>2. CASE k > m /\ k + 1 <= l
        <5>1. k + 1 \in 1..l /\ k + 1 > m + 1 /\ (k + 1) - 1 = k
          BY <4>2
        <5>2. new[k + 1] = r
          BY <2>1, <3>2, <5>1
        <5> QED
          BY <2>1, <5>1, <5>2 DEF In
      <4>3. CASE k > m /\ ~(k + 1 <= l)
        <5>1. l = room /\ k = n /\ n = room
          BY <1>1, <2>1, <4>3
        <5>2. ASSUME NEW i \in 1..l PROVE Ahead(new[i], r)
          <6>1. CASE i <= m
            <7>1. i < k
              BY <4>3, <6>1
            <7> QED
              BY <1>1, <2>2, <3>2, <6>1, <7>1
          <6>2. CASE i = m + 1
            BY <1>5, <2>1, <3>2, <4>3, <6>2
          <6>3. CASE i > m + 1
            <7>1. i - 1 < k
              BY <5>1
            <7> QED
              BY <1>1, <2>2, <3>2, <6>3, <7>1
          <6> QED
            BY <2>2, <6>1, <6>2, <6>3
        <5> QED
          BY <2>1, <5>1, <5>2 DEF AllAhead, l
      <4> QED
        BY <4>1, <4>2, <4>3
    <3>3. CASE r \in met /\ ~In(r, seeds)
      <4>1. n = room /\ \A i \in 1..n : Ahead(seeds[i], r)
        BY <1>1, <3>3 DEF Window, AllAhead, n
      <4>2. l = room /\ r \in SeedKeys
        BY <2>1, <3>3, <4>1
      <4>3. ASSUME NEW i \in 1..l PROVE Ahead(new[i], r)
        <5>1. CASE i <= m
          BY <2>2, <4>1, <5>1
        <5>2. CASE i = m + 1
          <6>1. m + 1 \in 1..n /\ m + 1 > m
            BY <1>8, <4>1
          <6>2. Ahead(s, seeds[m + 1]) /\ Ahead(seeds[m + 1], r) /\ seeds[m + 1] \in SeedKeys
            BY <1>1, <1>5, <4>1, <6>1
          <6>3. Ahead(s, r)
            BY <4>2, <6>2, AheadIsStrict
          <6> QED
            BY <2>1, <5>2, <6>3
        <5>3. CASE i > m + 1
          BY <2>2, <4>1, <5>3
        <5> QED
          BY <2>2, <5>1, <5>2, <5>3
      <4> QED
        BY <2>1, <4>2, <4>3 DEF AllAhead, l
    <3> QED
      BY <1>1, <2>4, <3>1, <3>2, <3>3 DEF In
  <2>5. Window(new, met \cup {s}, room)
    BY <2>1, <2>3, <2>4 DEF Window, l
  <2> QED
    BY <1>4, <2>5 DEF A, new, Insertion
<1> QED
  BY <1>1, <1>7, <1>8

(***************************************************************************)
(* The pairs met when record j of the scan has met record i of the         *)
(* template.                                                               *)
(***************************************************************************)
Met(template, view, c, i, j) ==
    {s \in SimilarPairs(template, view, c) : s.t < i \/ (s.t = i /\ s.p <= j)}

LEMMA PairType ==
    ASSUME NEW template \in Scans, NEW view \in Scans,
           NEW i \in DOMAIN template, NEW j \in DOMAIN view
    PROVE  /\ Pair(template, view, i, j) \in SeedKeys
           /\ Pair(template, view, i, j).t = i /\ Pair(template, view, i, j).p = j
<1>1. template[i] \in Record /\ view[j] \in Record /\ i \in Nat /\ j \in Nat
  BY DEF Scans
<1>2. Hamming(template[i], view[j]) \in Nat
  BY <1>1, HammingType, Scales
<1> QED
  BY <1>1, <1>2 DEF Pair, SeedKeys

LEMMA SimilarType ==
    ASSUME NEW template \in Scans, NEW view \in Scans, NEW c
    PROVE  /\ SimilarPairs(template, view, c) \in SUBSET SeedKeys
           /\ \A s \in SimilarPairs(template, view, c) :
                 /\ s.t \in DOMAIN template /\ s.p \in DOMAIN view
                 /\ s = Pair(template, view, s.t, s.p) /\ s.hamming <= c.hamming
<1> SUFFICES ASSUME NEW s \in SimilarPairs(template, view, c)
             PROVE  /\ s \in SeedKeys /\ s.t \in DOMAIN template /\ s.p \in DOMAIN view
                    /\ s = Pair(template, view, s.t, s.p) /\ s.hamming <= c.hamming
  OBVIOUS
<1>1. PICK i \in DOMAIN template, j \in DOMAIN view :
         s = Pair(template, view, i, j) /\ s.hamming <= c.hamming
  BY DEF SimilarPairs
<1>2. s \in SeedKeys /\ s.t = i /\ s.p = j
  BY <1>1, PairType
<1> QED
  BY <1>1, <1>2

(***************************************************************************)
(* One pair more.                                                          *)
(***************************************************************************)
LEMMA MetMore ==
    ASSUME NEW template \in Scans, NEW view \in Scans, NEW c,
           NEW i \in DOMAIN template, NEW j \in DOMAIN view
    PROVE  LET s == Pair(template, view, i, j) IN
           /\ Met(template, view, c, i, j) =
                Met(template, view, c, i, j - 1) \cup (IF s.hamming <= c.hamming THEN {s} ELSE {})
           /\ Latest(s, Met(template, view, c, i, j - 1))
<1> DEFINE s == Pair(template, view, i, j)
           P == SimilarPairs(template, view, c)
<1>1. s \in SeedKeys /\ s.t = i /\ s.p = j /\ i \in Nat /\ j \in Nat
  BY PairType DEF Scans
<1>2. \A r \in P : /\ r \in SeedKeys /\ (r.t = i /\ r.p = j => r = s)
                   /\ r.hamming <= c.hamming
  BY SimilarType
<1>3. s.hamming <= c.hamming => s \in P
  BY DEF SimilarPairs
<1> HIDE DEF s, P
<1>4. Latest(s, Met(template, view, c, i, j - 1))
  <2> SUFFICES ASSUME NEW r \in P, r.t < i \/ (r.t = i /\ r.p <= j - 1)
               PROVE  r.t < s.t \/ (r.t = s.t /\ r.p < s.p)
    BY DEF Met, Latest, P
  <2>1. r.p \in Nat
    BY <1>2 DEF SeedKeys
  <2> QED
    BY <1>1, <2>1
<1>5. ASSUME NEW r \in P
      PROVE  (r.t < i \/ (r.t = i /\ r.p <= j)) <=>
               (r.t < i \/ (r.t = i /\ r.p <= j - 1)) \/ r = s
  <2>1. r.p \in Nat /\ r.t \in Nat
    BY <1>2 DEF SeedKeys
  <2>2. r.p <= j <=> r.p <= j - 1 \/ r.p = j
    BY <1>1, <2>1
  <2>3. r = s <=> r.t = i /\ r.p = j
    BY <1>1, <1>2
  <2> QED
    BY <2>2, <2>3
<1>6. s \in P => s.hamming <= c.hamming
  BY <1>2
<1>7. Met(template, view, c, i, j) =
        Met(template, view, c, i, j - 1) \cup (IF s.hamming <= c.hamming THEN {s} ELSE {})
  <2>1. Met(template, view, c, i, j) = {r \in P : r.t < i \/ (r.t = i /\ r.p <= j)}
    BY DEF Met, P
  <2>2. Met(template, view, c, i, j - 1) = {r \in P : r.t < i \/ (r.t = i /\ r.p <= j - 1)}
    BY DEF Met, P
  <2>3. CASE s.hamming <= c.hamming
    BY <1>3, <1>5, <2>1, <2>2, <2>3
  <2>4. CASE ~(s.hamming <= c.hamming)
    BY <1>5, <1>6, <2>1, <2>2, <2>4
  <2> QED
    BY <2>3, <2>4
<1> QED
  BY <1>4, <1>7 DEF s

LEMMA SeedMore ==
    ASSUME NEW template \in Scans, NEW view \in Scans, NEW c \in Config, c.seeds > 0,
           NEW i \in DOMAIN template, NEW j \in DOMAIN view, NEW seeds,
           Window(seeds, Met(template, view, c, i, j - 1), c.seeds)
    PROVE  Window(WithSeed(seeds, Pair(template, view, i, j), c),
                  Met(template, view, c, i, j), c.seeds)
<1> DEFINE s == Pair(template, view, i, j)
           met == Met(template, view, c, i, j - 1)
<1>1. s \in SeedKeys /\ c.seeds \in Nat
  BY PairType DEF Config
<1>2. /\ Met(template, view, c, i, j) = met \cup (IF s.hamming <= c.hamming THEN {s} ELSE {})
      /\ Latest(s, met)
  BY MetMore
<1>3. met \in SUBSET SeedKeys
  BY SimilarType DEF Met
<1> HIDE DEF s, met
<1>4. CASE s.hamming <= c.hamming
  <2>1. WithSeed(seeds, s, c) =
          Inserted(seeds, s, c.seeds, {k \in DOMAIN seeds : ~Nearer(s, seeds[k])})
    BY <1>4 DEF WithSeed
  <2>2. Window(seeds, met, c.seeds)
    BY DEF met
  <2>3. Window(WithSeed(seeds, s, c), met \cup {s}, c.seeds)
    BY <1>1, <1>2, <1>3, <2>1, <2>2, WindowMoves
  <2> QED
    BY <1>2, <1>4, <2>3 DEF s
<1>5. CASE ~(s.hamming <= c.hamming)
  <2>1. WithSeed(seeds, s, c) = seeds /\ Met(template, view, c, i, j) = met
    BY <1>2, <1>5 DEF WithSeed
  <2> QED
    BY <2>1 DEF s, met
<1> QED
  BY <1>4, <1>5

(***************************************************************************)
(* Similarities that were added up are at most as many ones as pairs.      *)
(***************************************************************************)
PairingSet ==
    {p \in [used : SUBSET Nat, matched : Nat, descriptor : Nat, spatial : Nat, angle : Nat] :
        /\ p.descriptor <= p.matched * One
        /\ p.spatial <= p.matched * One
        /\ p.angle <= p.matched * One}

LEMMA PairedType ==
    ASSUME NEW pairs \in PairingSet, NEW r \in Record, NEW from \in Record, NEW to \in Record,
           NEW spin \in Angles, NEW view \in Scans, NEW c \in Config
    PROVE  /\ Paired(pairs, r, view, c, from, to, spin) \in PairingSet
           /\ Paired(pairs, r, view, c, from, to, spin).matched \in 0..(pairs.matched + 1)
<1> DEFINE best == BestOf(Candidates(r, Laid(r, from, to, spin), spin, view, pairs.used, c))
<1>1. best \subseteq CandidateSet(view)
  BY LaidType, CandidatesType DEF BestOf
<1> HIDE DEF best
<1>2. CASE best = {}
  <2>1. Paired(pairs, r, view, c, from, to, spin) = pairs
    BY <1>2 DEF Paired, WithRecord, best
  <2>2. pairs.matched \in Nat
    BY DEF PairingSet
  <2> QED
    BY <2>1, <2>2
<1>3. CASE best # {}
  <2>1. PICK b \in CandidateSet(view) :
          Paired(pairs, r, view, c, from, to, spin) = OneMore(pairs, b)
    <3> DEFINE b == CHOOSE b \in best : TRUE
    <3>1. b \in best
      BY <1>3
    <3>2. Paired(pairs, r, view, c, from, to, spin) = OneMore(pairs, b)
      BY <1>3 DEF Paired, WithRecord, best
    <3> QED
      BY <1>1, <3>1, <3>2
  <2>2. /\ b.probe \in Nat /\ b.descriptor \in 0..One /\ b.spatial \in 0..One
        /\ b.angle \in 0..One
    BY DEF CandidateSet, Scans
  <2>3. /\ pairs.used \in SUBSET Nat /\ pairs.matched \in Nat /\ pairs.descriptor \in Nat
        /\ pairs.spatial \in Nat /\ pairs.angle \in Nat
        /\ pairs.descriptor <= pairs.matched * One
        /\ pairs.spatial <= pairs.matched * One
        /\ pairs.angle <= pairs.matched * One
    BY DEF PairingSet
  <2>4. (pairs.matched + 1) * One = pairs.matched * One + One /\ pairs.matched * One \in Nat
    BY <2>3, Scales
  <2>5. /\ pairs.descriptor + b.descriptor <= (pairs.matched + 1) * One
        /\ pairs.spatial + b.spatial <= (pairs.matched + 1) * One
        /\ pairs.angle + b.angle <= (pairs.matched + 1) * One
    BY <2>2, <2>3, <2>4, Scales
  <2>6. OneMore(pairs, b) \in
          [used : SUBSET Nat, matched : Nat, descriptor : Nat, spatial : Nat, angle : Nat]
    <3>1. pairs.used \cup {b.probe} \in SUBSET Nat
      BY <2>2, <2>3
    <3>2. /\ pairs.descriptor + b.descriptor \in Nat /\ pairs.spatial + b.spatial \in Nat
          /\ pairs.angle + b.angle \in Nat /\ pairs.matched + 1 \in Nat
      BY <2>2, <2>3, Scales
    <3> QED
      BY <3>1, <3>2 DEF OneMore
  <2>7. OneMore(pairs, b) \in PairingSet
    BY <2>5, <2>6 DEF OneMore, PairingSet
  <2>8. OneMore(pairs, b).matched = pairs.matched + 1
    BY DEF OneMore
  <2> QED
    BY <2>1, <2>3, <2>7, <2>8
<1> QED
  BY <1>2, <1>3

Pairs(f, template, view, c, from, to, spin, n) ==
    f = [i \in 0..n |->
           IF i = 0 THEN NoPairs
           ELSE Paired(f[i - 1], template[i], view, c, from, to, spin)]

LEMMA PairsExist ==
    ASSUME NEW template, NEW view, NEW c, NEW from, NEW to, NEW spin, NEW n \in Nat
    PROVE  \E f : Pairs(f, template, view, c, from, to, spin, n)
<1> DEFINE Then(x, i) == Paired(x, template[i], view, c, from, to, spin)
           Good(f, k) == f = [i \in 0..k |-> IF i = 0 THEN NoPairs ELSE Then(f[i - 1], i)]
           S          == {k \in Nat : \E f : Good(f, k)}
<1> HIDE DEF Then
<1>1. 0 \in S
  <2> DEFINE h == [i \in 0..0 |-> NoPairs]
  <2>1. Good(h, 0)
    OBVIOUS
  <2> QED
    BY <2>1
<1>2. ASSUME NEW k \in Nat, k \in S PROVE k + 1 \in S
  <2>1. PICK g : Good(g, k)
    BY <1>2
  <2> DEFINE v == Then(g[k], k + 1)
             h == With(g, k, v)
  <2> HIDE DEF v
  <2>2. /\ OnFirst(h, k + 1) /\ h[k + 1] = v
        /\ \A i \in 0..k : h[i] = g[i]
    <3>1. OnFirst(h, k + 1)
      BY DEF With, OnFirst
    <3>2. h[k + 1] = v
      BY DEF With
    <3>3. \A i \in 0..k : h[i] = g[i]
      BY DEF With
    <3> QED
      BY <3>1, <3>2, <3>3
  <2> HIDE DEF h
  <2>3. ASSUME NEW i \in 0..(k + 1)
        PROVE  h[i] = IF i = 0 THEN NoPairs ELSE Then(h[i - 1], i)
    <3>1. CASE i = k + 1
      <4>1. i # 0 /\ i - 1 = k /\ k \in 0..k
        BY <3>1
      <4>2. h[i] = v /\ h[i - 1] = g[k]
        BY <2>2, <3>1, <4>1
      <4> QED
        BY <3>1, <4>1, <4>2 DEF v
    <3>2. CASE i \in 0..k
      <4>1. i # 0 => i - 1 \in 0..k
        BY <3>2
      <4>2. g[i] = IF i = 0 THEN NoPairs ELSE Then(g[i - 1], i)
        BY <2>1, <3>2
      <4> QED
        BY <2>2, <3>2, <4>1, <4>2
    <3> QED
      BY <3>1, <3>2
  <2>4. Good(h, k + 1)
    BY <2>2, <2>3 DEF OnFirst
  <2> QED
    BY <2>4
<1> HIDE DEF S
<1>3. n \in S
  BY <1>1, <1>2, SetInduction
<1>4. PICK f : Good(f, n)
  BY <1>3 DEF S
<1> QED
  BY <1>4 DEF Pairs, Then

LEMMA PairingIs ==
    ASSUME NEW template \in Scans, NEW view, NEW c, NEW from, NEW to, NEW spin
    PROVE  \E f : /\ Pairs(f, template, view, c, from, to, spin, Len(template))
                  /\ Pairing(template, view, c, from, to, spin) = f[Len(template)]
<1> DEFINE f == CHOOSE f : Pairs(f, template, view, c, from, to, spin, Len(template))
<1>1. Len(template) \in Nat
  BY DEF Scans
<1>2. Pairs(f, template, view, c, from, to, spin, Len(template))
  BY <1>1, PairsExist
<1>3. Pairing(template, view, c, from, to, spin) = f[Len(template)]
  BY DEF Pairing, Pairs
<1> QED
  BY <1>2, <1>3

LEMMA PairingType ==
    ASSUME NEW template \in Scans, NEW view \in Scans, NEW c \in Config,
           NEW from \in Record, NEW to \in Record, NEW spin \in Angles
    PROVE  /\ Pairing(template, view, c, from, to, spin) \in PairingSet
           /\ Pairing(template, view, c, from, to, spin).matched \in 0..Len(template)
<1>1. PICK f : /\ Pairs(f, template, view, c, from, to, spin, Len(template))
               /\ Pairing(template, view, c, from, to, spin) = f[Len(template)]
  BY PairingIs
<1> DEFINE n == Len(template)
           S == {k \in Nat : k <= n => f[k] \in PairingSet /\ f[k].matched \in 0..k}
<1>2. n \in Nat /\ \A i \in 1..n : template[i] \in Record
  BY DEF Scans
<1>3. \A i \in 0..n : f[i] = IF i = 0 THEN NoPairs
                             ELSE Paired(f[i - 1], template[i], view, c, from, to, spin)
  BY <1>1 DEF Pairs
<1> HIDE DEF n
<1>4. 0 \in S
  <2>1. f[0] = NoPairs
    BY <1>2, <1>3
  <2>2. 0 * One = 0
    BY Scales
  <2> QED
    BY <2>1, <2>2 DEF NoPairs, PairingSet
<1>5. ASSUME NEW k \in Nat, k \in S PROVE k + 1 \in S
  <2> SUFFICES ASSUME k + 1 <= n
               PROVE  f[k + 1] \in PairingSet /\ f[k + 1].matched \in 0..(k + 1)
    OBVIOUS
  <2>1. f[k] \in PairingSet /\ f[k].matched \in 0..k /\ k + 1 \in 0..n /\ k + 1 # 0 /\ (k + 1) - 1 = k
    BY <1>2, <1>5
  <2>2. template[k + 1] \in Record
    BY <1>2, <2>1
  <2>3. f[k + 1] = Paired(f[k], template[k + 1], view, c, from, to, spin)
    BY <1>3, <2>1
  <2>4. f[k + 1] \in PairingSet /\ f[k + 1].matched \in 0..(f[k].matched + 1)
    BY <2>1, <2>2, <2>3, PairedType
  <2> QED
    BY <2>1, <2>4
<1> HIDE DEF S
<1>6. n \in S
  BY <1>2, <1>4, <1>5, SetInduction
<1> QED
  BY <1>1, <1>2, <1>6 DEF S, n

(***************************************************************************)
(* A match: how many records, and how well.                                *)
(***************************************************************************)
Matches == [matched : Nat, score : 0..One]

LEMMA WeighedType ==
    ASSUME NEW pairs \in PairingSet, NEW most \in Nat, NEW c \in Config, c.pairs > 0
    PROVE  Weighed(pairs, most, c) \in Matches /\ Weighed(pairs, most, c).matched = pairs.matched
<1>1. /\ pairs.matched \in Nat /\ pairs.descriptor \in Nat
      /\ pairs.spatial \in Nat /\ pairs.angle \in Nat
      /\ pairs.descriptor <= pairs.matched * One
      /\ pairs.spatial <= pairs.matched * One
      /\ pairs.angle <= pairs.matched * One
      /\ c.pairs \in Nat
  BY DEF PairingSet, Config
<1>2. CASE pairs.matched < c.pairs
  <2>1. Weighed(pairs, most, c) = [matched |-> pairs.matched, score |-> 0]
    BY <1>2 DEF Weighed
  <2> QED
    BY <1>1, <2>1, Scales DEF Matches
<1>3. CASE ~(pairs.matched < c.pairs)
  <2> DEFINE d == pairs.descriptor \div pairs.matched
             s == pairs.spatial \div pairs.matched
             a == pairs.angle \div pairs.matched
             u == Ratio(pairs.matched, most)
             w == (65 * d + 15 * s + 10 * a + 10 * u) \div 100
  <2>1. pairs.matched > 0
    BY <1>1, <1>3
  <2>2. d \in Nat /\ d <= One
    BY <1>1, <2>1, Scales, Part
  <2>3. s \in Nat /\ s <= One
    BY <1>1, <2>1, Scales, Part
  <2>4. a \in Nat /\ a <= One
    BY <1>1, <2>1, Scales, Part
  <2>5. u \in 0..One
    BY <1>1, RatioType
  <2>6. Weighed(pairs, most, c) = [matched |-> pairs.matched, score |-> w]
    BY <1>3 DEF Weighed
  <2> HIDE DEF d, s, a, u
  <2>7. w \in 0..One
    BY <2>2, <2>3, <2>4, <2>5, Scales
  <2> HIDE DEF w
  <2> QED
    BY <1>1, <2>6, <2>7 DEF Matches
<1> QED
  BY <1>2, <1>3

(***************************************************************************)
(* The inner loop and the outer one.                                       *)
(***************************************************************************)
SeedRow(f, template, view, c, seeds, r, n) ==
    f = [i \in 0..n |-> IF i = 0 THEN seeds ELSE WithSeed(f[i - 1], Pair(template, view, r, i), c)]

SeedRows(f, template, view, c, n) ==
    f = [i \in 0..n |-> IF i = 0 THEN <<>> ELSE RowOfSeeds(template, view, c, f[i - 1], i)]

LEMMA RowExists ==
    ASSUME NEW template, NEW view, NEW c, NEW seeds, NEW r, NEW n \in Nat
    PROVE  \E f : SeedRow(f, template, view, c, seeds, r, n)
<1> DEFINE Then(x, i) == WithSeed(x, Pair(template, view, r, i), c)
           Good(f, k) == f = [i \in 0..k |-> IF i = 0 THEN seeds ELSE Then(f[i - 1], i)]
           S          == {k \in Nat : \E f : Good(f, k)}
<1> HIDE DEF Then
<1>1. 0 \in S
  <2> DEFINE h == [i \in 0..0 |-> seeds]
  <2>1. Good(h, 0)
    OBVIOUS
  <2> QED
    BY <2>1
<1>2. ASSUME NEW k \in Nat, k \in S PROVE k + 1 \in S
  <2>1. PICK g : Good(g, k)
    BY <1>2
  <2> DEFINE v == Then(g[k], k + 1)
             h == With(g, k, v)
  <2> HIDE DEF v
  <2>2. /\ OnFirst(h, k + 1) /\ h[k + 1] = v
        /\ \A i \in 0..k : h[i] = g[i]
    <3>1. OnFirst(h, k + 1)
      BY DEF With, OnFirst
    <3>2. h[k + 1] = v
      BY DEF With
    <3>3. \A i \in 0..k : h[i] = g[i]
      BY DEF With
    <3> QED
      BY <3>1, <3>2, <3>3
  <2> HIDE DEF h
  <2>3. ASSUME NEW i \in 0..(k + 1)
        PROVE  h[i] = IF i = 0 THEN seeds ELSE Then(h[i - 1], i)
    <3>1. CASE i = k + 1
      <4>1. i # 0 /\ i - 1 = k /\ k \in 0..k
        BY <3>1
      <4>2. h[i] = v /\ h[i - 1] = g[k]
        BY <2>2, <3>1, <4>1
      <4> QED
        BY <3>1, <4>1, <4>2 DEF v
    <3>2. CASE i \in 0..k
      <4>1. i # 0 => i - 1 \in 0..k
        BY <3>2
      <4>2. g[i] = IF i = 0 THEN seeds ELSE Then(g[i - 1], i)
        BY <2>1, <3>2
      <4> QED
        BY <2>2, <3>2, <4>1, <4>2
    <3> QED
      BY <3>1, <3>2
  <2>4. Good(h, k + 1)
    BY <2>2, <2>3 DEF OnFirst
  <2> QED
    BY <2>4
<1> HIDE DEF S
<1>3. n \in S
  BY <1>1, <1>2, SetInduction
<1>4. PICK f : Good(f, n)
  BY <1>3 DEF S
<1> QED
  BY <1>4 DEF SeedRow, Then

LEMMA RowsExist ==
    ASSUME NEW template, NEW view, NEW c, NEW n \in Nat
    PROVE  \E f : SeedRows(f, template, view, c, n)
<1> DEFINE Then(x, i) == RowOfSeeds(template, view, c, x, i)
           Good(f, k) == f = [i \in 0..k |-> IF i = 0 THEN <<>> ELSE Then(f[i - 1], i)]
           S          == {k \in Nat : \E f : Good(f, k)}
<1> HIDE DEF Then
<1>1. 0 \in S
  <2> DEFINE h == [i \in 0..0 |-> <<>>]
  <2>1. Good(h, 0)
    OBVIOUS
  <2> QED
    BY <2>1
<1>2. ASSUME NEW k \in Nat, k \in S PROVE k + 1 \in S
  <2>1. PICK g : Good(g, k)
    BY <1>2
  <2> DEFINE v == Then(g[k], k + 1)
             h == With(g, k, v)
  <2> HIDE DEF v
  <2>2. /\ OnFirst(h, k + 1) /\ h[k + 1] = v
        /\ \A i \in 0..k : h[i] = g[i]
    <3>1. OnFirst(h, k + 1)
      BY DEF With, OnFirst
    <3>2. h[k + 1] = v
      BY DEF With
    <3>3. \A i \in 0..k : h[i] = g[i]
      BY DEF With
    <3> QED
      BY <3>1, <3>2, <3>3
  <2> HIDE DEF h
  <2>3. ASSUME NEW i \in 0..(k + 1)
        PROVE  h[i] = IF i = 0 THEN <<>> ELSE Then(h[i - 1], i)
    <3>1. CASE i = k + 1
      <4>1. i # 0 /\ i - 1 = k /\ k \in 0..k
        BY <3>1
      <4>2. h[i] = v /\ h[i - 1] = g[k]
        BY <2>2, <3>1, <4>1
      <4> QED
        BY <3>1, <4>1, <4>2 DEF v
    <3>2. CASE i \in 0..k
      <4>1. i # 0 => i - 1 \in 0..k
        BY <3>2
      <4>2. g[i] = IF i = 0 THEN <<>> ELSE Then(g[i - 1], i)
        BY <2>1, <3>2
      <4> QED
        BY <2>2, <3>2, <4>1, <4>2
    <3> QED
      BY <3>1, <3>2
  <2>4. Good(h, k + 1)
    BY <2>2, <2>3 DEF OnFirst
  <2> QED
    BY <2>4
<1> HIDE DEF S
<1>3. n \in S
  BY <1>1, <1>2, SetInduction
<1>4. PICK f : Good(f, n)
  BY <1>3 DEF S
<1> QED
  BY <1>4 DEF SeedRows, Then

LEMMA RowMoves ==
    ASSUME NEW template \in Scans, NEW view \in Scans, NEW c \in Config, c.seeds > 0,
           NEW i \in DOMAIN template, NEW seeds,
           Window(seeds, Met(template, view, c, i, 0), c.seeds)
    PROVE  Window(RowOfSeeds(template, view, c, seeds, i),
                  Met(template, view, c, i, Len(view)), c.seeds)
<1> DEFINE n == Len(view)
           f == CHOOSE f : SeedRow(f, template, view, c, seeds, i, n)
           S == {k \in Nat : k <= n => Window(f[k], Met(template, view, c, i, k), c.seeds)}
<1>1. n \in Nat /\ DOMAIN view = 1..n
  BY DEF Scans
<1>2. SeedRow(f, template, view, c, seeds, i, n)
  BY <1>1, RowExists
<1>3. RowOfSeeds(template, view, c, seeds, i) = f[n]
  BY DEF RowOfSeeds, SeedRow
<1> HIDE DEF n, f
<1>4. \A k \in 0..n : f[k] = IF k = 0 THEN seeds
                             ELSE WithSeed(f[k - 1], Pair(template, view, i, k), c)
  BY <1>2 DEF SeedRow
<1>5. 0 \in S
  BY <1>1, <1>4
<1>6. ASSUME NEW k \in Nat, k \in S PROVE k + 1 \in S
  <2> SUFFICES ASSUME k + 1 <= n
               PROVE  Window(f[k + 1], Met(template, view, c, i, k + 1), c.seeds)
    OBVIOUS
  <2> DEFINE j == k + 1
  <2>1. j \in DOMAIN view /\ j \in 0..n /\ j # 0 /\ j - 1 = k
    BY <1>1
  <2>2. Window(f[k], Met(template, view, c, i, k), c.seeds)
    BY <1>1, <1>6
  <2> HIDE DEF j
  <2>3. Window(f[j - 1], Met(template, view, c, i, j - 1), c.seeds)
    BY <2>1, <2>2
  <2>4. f[j] = WithSeed(f[j - 1], Pair(template, view, i, j), c)
    BY <1>4, <2>1
  <2>5. Window(f[j], Met(template, view, c, i, j), c.seeds)
    BY <2>1, <2>3, <2>4, SeedMore
  <2> QED
    BY <2>5 DEF j
<1> HIDE DEF S
<1>7. n \in S
  BY <1>1, <1>5, <1>6, SetInduction
<1> QED
  BY <1>1, <1>3, <1>7 DEF S, n

(***************************************************************************)
(* When both loops are through, all pairs were met.                        *)
(***************************************************************************)
LEMMA SeedsWindow ==
    ASSUME NEW template \in Scans, NEW view \in Scans, NEW c \in Config, c.seeds > 0
    PROVE  Window(Seeds(template, view, c), SimilarPairs(template, view, c), c.seeds)
<1> DEFINE n == Len(template)
           m == Len(view)
           f == CHOOSE f : SeedRows(f, template, view, c, n)
           S == {k \in Nat : k <= n => Window(f[k], Met(template, view, c, k, m), c.seeds)}
<1>1. n \in Nat /\ DOMAIN template = 1..n /\ m \in Nat /\ DOMAIN view = 1..m
  BY DEF Scans
<1>2. SeedRows(f, template, view, c, n)
  BY <1>1, RowsExist
<1>3. Seeds(template, view, c) = f[n]
  BY DEF Seeds, SeedRows
<1> HIDE DEF n, m, f
<1>4. \A k \in 0..n : f[k] = IF k = 0 THEN <<>> ELSE RowOfSeeds(template, view, c, f[k - 1], k)
  BY <1>2 DEF SeedRows
<1>5. \A s \in SimilarPairs(template, view, c) : s.t \in 1..n /\ s.p \in 1..m
  BY <1>1, SimilarType
<1>6. 0 \in S
  <2>1. f[0] = <<>>
    BY <1>1, <1>4
  <2>2. Met(template, view, c, 0, m) = {}
    BY <1>5 DEF Met
  <2>3. Window(<<>>, {}, c.seeds)
    <3>1. <<>> \in Seq(SeedKeys) /\ Len(<<>>) = 0 /\ DOMAIN <<>> = {}
      OBVIOUS
    <3>2. c.seeds \in Nat
      BY DEF Config
    <3> QED
      BY <3>1, <3>2 DEF Window, Kept
  <2> QED
    BY <2>1, <2>2, <2>3
<1>7. ASSUME NEW k \in Nat, k \in S PROVE k + 1 \in S
  <2> SUFFICES ASSUME k + 1 <= n
               PROVE  Window(f[k + 1], Met(template, view, c, k + 1, m), c.seeds)
    OBVIOUS
  <2> DEFINE i == k + 1
  <2>1. i \in DOMAIN template /\ i \in 0..n /\ i # 0 /\ i - 1 = k /\ i \in Nat
    BY <1>1
  <2>2. Window(f[k], Met(template, view, c, k, m), c.seeds)
    BY <1>1, <1>7
  <2>3. Met(template, view, c, k, m) = Met(template, view, c, i, 0)
    <3>1. \A s \in SimilarPairs(template, view, c) :
             (s.t < k \/ (s.t = k /\ s.p <= m)) <=> (s.t < i \/ (s.t = i /\ s.p <= 0))
      BY <1>1, <1>5
    <3> QED
      BY <3>1 DEF Met
  <2> HIDE DEF i
  <2>4. Window(f[i - 1], Met(template, view, c, i, 0), c.seeds)
    BY <2>1, <2>2, <2>3
  <2>5. f[i] = RowOfSeeds(template, view, c, f[i - 1], i)
    BY <1>4, <2>1
  <2>6. Window(f[i], Met(template, view, c, i, m), c.seeds)
    BY <2>1, <2>4, <2>5, RowMoves DEF m
  <2> QED
    BY <2>6 DEF i
<1> HIDE DEF S
<1>8. n \in S
  BY <1>1, <1>6, <1>7, SetInduction
<1>9. Met(template, view, c, n, m) = SimilarPairs(template, view, c)
  <2>1. \A s \in SimilarPairs(template, view, c) : s.t < n \/ (s.t = n /\ s.p <= m)
    BY <1>1, <1>5
  <2> QED
    BY <2>1 DEF Met
<1> QED
  BY <1>1, <1>3, <1>8, <1>9 DEF S

(***************************************************************************)
(* A window over all pairs holds the first of them, in their order.        *)
(***************************************************************************)
LEMMA WindowCounts ==
    ASSUME NEW all \in SUBSET SeedKeys, IsFiniteSet(all), NEW seeds, NEW room \in Nat,
           Window(seeds, all, room)
    PROVE  /\ Len(seeds) = Min({room, Cardinality(all)})
           /\ \A i \in DOMAIN seeds : Cardinality({s \in all : Ahead(s, seeds[i])}) = i - 1
<1> DEFINE n == Len(seeds)
<1>1. /\ n \in Nat /\ n <= room /\ DOMAIN seeds = 1..n
      /\ \A i \in 1..n : seeds[i] \in all /\ seeds[i] \in SeedKeys
      /\ \A i, j \in 1..n : i < j => Ahead(seeds[i], seeds[j])
  BY DEF Window, Kept
<1>2. \A i, j \in 1..n : i # j => seeds[i] # seeds[j]
  <2> SUFFICES ASSUME NEW i \in 1..n, NEW j \in 1..n, i # j PROVE seeds[i] # seeds[j]
    OBVIOUS
  <2>1. i < j \/ j < i
    OBVIOUS
  <2>2. Ahead(seeds[i], seeds[j]) \/ Ahead(seeds[j], seeds[i])
    BY <1>1, <2>1
  <2>3. ~Ahead(seeds[i], seeds[i])
    BY <1>1, AheadIsStrict
  <2> QED
    BY <2>2, <2>3
<1> HIDE DEF n
\* The first k seeds are k elements.
<1>3. ASSUME NEW k \in 0..n
      PROVE  /\ IsFiniteSet({seeds[i] : i \in 1..k})
             /\ Cardinality({seeds[i] : i \in 1..k}) = k
  <2> DEFINE T == {seeds[i] : i \in 1..k}
             g == [i \in 1..k |-> seeds[i]]
  <2>1. 1..k \subseteq 1..n /\ k \in Nat
    BY <1>1
  <2>2. IsFiniteSet(1..k) /\ Cardinality(1..k) = k
    <3>1. IsFiniteSet(1..k) /\ Cardinality(1..k) = IF 1 > k THEN 0 ELSE k - 1 + 1
      BY <2>1, FS_Interval
    <3> QED
      BY <2>1, <3>1
  <2>3. g \in Bijection(1..k, T)
    <3>1. g \in [1..k -> T] /\ \A i \in 1..k : g[i] = seeds[i]
      OBVIOUS
    <3>2. \A i, j \in 1..k : i # j => g[i] # g[j]
      BY <1>2, <2>1, <3>1
    <3>3. \A t \in T : \E i \in 1..k : g[i] = t
      BY <3>1
    <3> HIDE DEF g, T
    <3>4. g \in Injection(1..k, T)
      <4>1. \A i, j \in 1..k : g[i] = g[j] => i = j
        BY <3>2
      <4> QED
        BY <3>1, <4>1 DEF Injection, IsInjective
    <3>5. g \in Surjection(1..k, T)
      BY <3>1, <3>3 DEF Surjection
    <3> QED
      BY <3>4, <3>5 DEF Bijection
  <2>4. ExistsBijection(1..k, T)
    BY <2>3 DEF ExistsBijection
  <2> QED
    BY <2>2, <2>4, FS_Bijection
<1>4. ASSUME NEW i \in 1..n
      PROVE  Cardinality({s \in all : Ahead(s, seeds[i])}) = i - 1
  <2>1. i - 1 \in 0..n /\ \A j \in 1..(i - 1) : j \in 1..n /\ j < i
    BY <1>1
  <2>2. ASSUME NEW s \in all, Ahead(s, seeds[i]) PROVE s \in {seeds[j] : j \in 1..(i - 1)}
    <3>1. ~Ahead(seeds[i], s)
      BY <1>1, <2>2, AheadIsStrict
    <3>2. ~AllAhead(seeds, s)
      BY <1>1, <3>1 DEF AllAhead
    <3>3. PICK j \in 1..n : seeds[j] = s
      BY <1>1, <3>2 DEF Window, In
    <3>4. ~(i < j)
      BY <1>1, <3>1, <3>3
    <3>5. i # j
      BY <1>1, <2>2, <3>3, AheadIsStrict
    <3>6. j \in 1..(i - 1)
      BY <1>1, <3>4, <3>5
    <3> QED
      BY <3>3, <3>6
  <2>3. \A j \in 1..(i - 1) : seeds[j] \in all /\ Ahead(seeds[j], seeds[i])
    BY <1>1, <2>1
  <2>4. {s \in all : Ahead(s, seeds[i])} = {seeds[j] : j \in 1..(i - 1)}
    BY <2>2, <2>3
  <2> QED
    BY <1>3, <2>1, <2>4
<1>5. n = Min({room, Cardinality(all)})
  <2> DEFINE T == {seeds[i] : i \in 1..n}
             card == Cardinality(all)
  <2>1. T \in SUBSET all /\ IsFiniteSet(T) /\ Cardinality(T) = n
    <3>1. n \in 0..n
      BY <1>1
    <3>2. IsFiniteSet(T) /\ Cardinality(T) = n
      BY <1>3, <3>1
    <3>3. T \in SUBSET all
      BY <1>1
    <3> QED
      BY <3>2, <3>3
  <2>2. card \in Nat /\ n <= card
    <3> HIDE DEF T
    <3> QED
      BY <2>1, FS_Subset, FS_CardinalityType
  <2>3. CASE n = room
    <3>1. \A x \in {room, card} : room <= x
      BY <1>1, <2>2, <2>3
    <3>2. \A x : x \in {room, card} /\ (\A y \in {room, card} : x <= y) => x = room
      BY <1>1, <2>2, <2>3
    <3> HIDE DEF card
    <3> QED
      BY <2>3, <3>1, <3>2 DEF Min, card
  <2>4. CASE n # room
    <3>1. all = T
      BY <1>1, <2>1, <2>4 DEF Window, In, n
    <3>2. card = n /\ n < room
      BY <1>1, <2>1, <2>4, <3>1
    <3>3. \A x : x \in {room, card} /\ (\A y \in {room, card} : x <= y) => x = n
      BY <1>1, <3>2
    <3>4. n \in {room, card} /\ \A y \in {room, card} : n <= y
      BY <1>1, <3>2
    <3> HIDE DEF card
    <3> QED
      BY <3>3, <3>4 DEF Min, card
  <2> QED
    BY <2>3, <2>4
<1> QED
  BY <1>1, <1>4, <1>5 DEF n

LEMMA SimilarFinite ==
    ASSUME NEW template \in Scans, NEW view \in Scans, NEW c
    PROVE  IsFiniteSet(SimilarPairs(template, view, c))
<1> DEFINE g   == [x \in (DOMAIN template) \X (DOMAIN view) |-> Pair(template, view, x[1], x[2])]
           all == {Pair(template, view, i, j) : i \in DOMAIN template, j \in DOMAIN view}
<1>1. IsFiniteSet(DOMAIN template) /\ IsFiniteSet(DOMAIN view)
  <2>1. /\ Len(template) \in Int /\ DOMAIN template = 1..Len(template)
        /\ Len(view) \in Int /\ DOMAIN view = 1..Len(view)
    BY DEF Scans
  <2> QED
    BY <2>1, FS_Interval
<1>2. IsFiniteSet((DOMAIN template) \X (DOMAIN view))
  BY <1>1, FS_Product
<1>3. g \in Surjection((DOMAIN template) \X (DOMAIN view), all)
  <2>1. g \in [(DOMAIN template) \X (DOMAIN view) -> all]
    OBVIOUS
  <2>2. ASSUME NEW t \in all
        PROVE  \E x \in (DOMAIN template) \X (DOMAIN view) : g[x] = t
    <3>1. PICK i \in DOMAIN template, j \in DOMAIN view : t = Pair(template, view, i, j)
      OBVIOUS
    <3>2. <<i, j>> \in (DOMAIN template) \X (DOMAIN view) /\ g[<<i, j>>] = t
      BY <3>1
    <3> QED
      BY <3>2
  <2> HIDE DEF g, all
  <2> QED
    BY <2>1, <2>2 DEF Surjection
<1> HIDE DEF g, all
<1>4. IsFiniteSet(all)
  BY <1>2, <1>3, FS_Surjection
<1>5. SimilarPairs(template, view, c) \in SUBSET all
  BY DEF SimilarPairs, all
<1> QED
  BY <1>4, <1>5, FS_Subset

(***************************************************************************)
(* The best of the first hypotheses.                                       *)
(***************************************************************************)
NoMatch == [matched |-> 0, score |-> 0]

BestSoFar(f, template, view, c, seeds, n) ==
    f = [k \in 0..n |-> IF k = 0 THEN NoMatch
                        ELSE BetterOf(f[k - 1], Hypothesis(template, view, c, seeds[k]))]

LEMMA BestExists ==
    ASSUME NEW template, NEW view, NEW c, NEW seeds, NEW n \in Nat
    PROVE  \E f : BestSoFar(f, template, view, c, seeds, n)
<1> DEFINE Then(x, i) == BetterOf(x, Hypothesis(template, view, c, seeds[i]))
           Good(f, k) == f = [i \in 0..k |-> IF i = 0 THEN NoMatch ELSE Then(f[i - 1], i)]
           S          == {k \in Nat : \E f : Good(f, k)}
<1> HIDE DEF Then
<1>1. 0 \in S
  <2> DEFINE h == [i \in 0..0 |-> NoMatch]
  <2>1. Good(h, 0)
    OBVIOUS
  <2> QED
    BY <2>1
<1>2. ASSUME NEW k \in Nat, k \in S PROVE k + 1 \in S
  <2>1. PICK g : Good(g, k)
    BY <1>2
  <2> DEFINE v == Then(g[k], k + 1)
             h == With(g, k, v)
  <2> HIDE DEF v
  <2>2. /\ OnFirst(h, k + 1) /\ h[k + 1] = v
        /\ \A i \in 0..k : h[i] = g[i]
    <3>1. OnFirst(h, k + 1)
      BY DEF With, OnFirst
    <3>2. h[k + 1] = v
      BY DEF With
    <3>3. \A i \in 0..k : h[i] = g[i]
      BY DEF With
    <3> QED
      BY <3>1, <3>2, <3>3
  <2> HIDE DEF h
  <2>3. ASSUME NEW i \in 0..(k + 1)
        PROVE  h[i] = IF i = 0 THEN NoMatch ELSE Then(h[i - 1], i)
    <3>1. CASE i = k + 1
      <4>1. i # 0 /\ i - 1 = k /\ k \in 0..k
        BY <3>1
      <4>2. h[i] = v /\ h[i - 1] = g[k]
        BY <2>2, <3>1, <4>1
      <4> QED
        BY <3>1, <4>1, <4>2 DEF v
    <3>2. CASE i \in 0..k
      <4>1. i # 0 => i - 1 \in 0..k
        BY <3>2
      <4>2. g[i] = IF i = 0 THEN NoMatch ELSE Then(g[i - 1], i)
        BY <2>1, <3>2
      <4> QED
        BY <2>2, <3>2, <4>1, <4>2
    <3> QED
      BY <3>1, <3>2
  <2>4. Good(h, k + 1)
    BY <2>2, <2>3 DEF OnFirst
  <2> QED
    BY <2>4
<1> HIDE DEF S
<1>3. n \in S
  BY <1>1, <1>2, SetInduction
<1>4. PICK f : Good(f, n)
  BY <1>3 DEF S
<1> QED
  BY <1>4 DEF BestSoFar, Then

LEMMA HypothesisType ==
    ASSUME NEW template \in Scans, NEW view \in Scans, NEW c \in Config, c.pairs > 0,
           NEW seed, seed.t \in DOMAIN template, seed.p \in DOMAIN view
    PROVE  /\ Hypothesis(template, view, c, seed) \in Matches
           /\ Hypothesis(template, view, c, seed).matched \in 0..Len(template)
<1> DEFINE from == template[seed.t]
           to   == view[seed.p]
           spin == Normalized(to.angle - from.angle)
           most == Min({Len(template), Len(view)})
<1>1. from \in Record /\ to \in Record
  BY DEF Scans
<1>2. spin \in Angles
  <2>1. to.angle - from.angle \in Int
    BY <1>1 DEF Record
  <2> QED
    BY <2>1, NormalizedType
<1>3. most \in Nat
  <2>1. Len(template) \in Nat /\ Len(view) \in Nat
    BY DEF Scans
  <2>2. \E x \in {Len(template), Len(view)} : \A y \in {Len(template), Len(view)} : x <= y
    BY <2>1
  <2>3. most \in {Len(template), Len(view)}
    BY <2>2 DEF Min
  <2> QED
    BY <2>1, <2>3
<1>4. Hypothesis(template, view, c, seed)
        = Weighed(Pairing(template, view, c, from, to, spin), most, c)
  BY DEF Hypothesis
<1> HIDE DEF from, to, spin, most
<1>5. /\ Pairing(template, view, c, from, to, spin) \in PairingSet
      /\ Pairing(template, view, c, from, to, spin).matched \in 0..Len(template)
  BY <1>1, <1>2, PairingType
<1> QED
  BY <1>3, <1>4, <1>5, WeighedType

LEMMA ScoreViewsType ==
    ASSUME NEW template \in Scans, NEW view \in Scans, NEW c \in Config,
           c.seeds > 0, c.pairs > 0
    PROVE  ScoreViews(template, view, c) \in Matches
<1> DEFINE seeds == Seeds(template, view, c)
           n == Len(seeds)
           f == CHOOSE f : BestSoFar(f, template, view, c, seeds, n)
           S == {k \in Nat : k <= n => f[k] \in Matches}
<1>1. Window(seeds, SimilarPairs(template, view, c), c.seeds)
  BY SeedsWindow
<1>2. n \in Nat /\ \A i \in 1..n : seeds[i] \in SimilarPairs(template, view, c)
  BY <1>1 DEF Window, Kept
<1>3. \A i \in 1..n : seeds[i].t \in DOMAIN template /\ seeds[i].p \in DOMAIN view
  BY <1>2, SimilarType
<1>4. BestSoFar(f, template, view, c, seeds, n)
  BY <1>2, BestExists
<1>5. ScoreViews(template, view, c) = f[n]
  BY DEF ScoreViews, BestSoFar, NoMatch
<1> HIDE DEF seeds, n, f
<1>6. \A k \in 0..n : f[k] = IF k = 0 THEN NoMatch
                       ELSE BetterOf(f[k - 1], Hypothesis(template, view, c, seeds[k]))
  BY <1>4 DEF BestSoFar
<1>7. 0 \in S
  <2>1. f[0] = NoMatch
    BY <1>2, <1>6
  <2> QED
    BY <2>1, Scales DEF NoMatch, Matches
<1>8. ASSUME NEW k \in Nat, k \in S PROVE k + 1 \in S
  <2> SUFFICES ASSUME k + 1 <= n PROVE f[k + 1] \in Matches
    OBVIOUS
  <2>1. f[k] \in Matches /\ k + 1 \in 0..n /\ k + 1 \in 1..n /\ k + 1 # 0 /\ (k + 1) - 1 = k
    BY <1>2, <1>8
  <2>2. Hypothesis(template, view, c, seeds[k + 1]) \in Matches
    BY <1>3, <2>1, HypothesisType
  <2>3. f[k + 1] = BetterOf(f[k], Hypothesis(template, view, c, seeds[k + 1]))
    BY <1>6, <2>1
  <2> QED
    BY <2>1, <2>2, <2>3 DEF BetterOf
<1> HIDE DEF S
<1>9. n \in S
  BY <1>2, <1>7, <1>8, SetInduction
<1> QED
  BY <1>2, <1>5, <1>9 DEF S

-----------------------------------------------------------------------------
(* The matcher: a finger that is moved and turned by quarters.             *)

LEMMA Division ==
    ASSUME NEW a \in Int, NEW b \in Nat, b > 0
    PROVE  a = b * (a \div b) + (a % b) /\ a \div b \in Int /\ a % b \in 0..(b - 1)
OBVIOUS

LEMMA Remainder ==
    ASSUME NEW b \in Nat, b > 0, NEW k \in Int, NEW r \in 0..(b - 1)
    PROVE  (b * k + r) % b = r /\ (b * k + r) \div b = k
<1> DEFINE a == b * k + r
           q == a \div b
           m == a % b
<1>1. a \in Int /\ a = b * k + r
  OBVIOUS
<1> HIDE DEF a
<1>2. a = b * q + m /\ q \in Int /\ m \in 0..(b - 1)
  BY <1>1, Division
<1> HIDE DEF q, m
<1>3. ~(q >= k + 1)
  <2> SUFFICES ASSUME q >= k + 1 PROVE FALSE
    OBVIOUS
  <2>1. b * q >= b * (k + 1)
    BY <1>2
  <2>2. b * (k + 1) = b * k + b
    OBVIOUS
  <2> QED
    BY <1>1, <1>2, <2>1, <2>2
<1>4. ~(q <= k - 1)
  <2> SUFFICES ASSUME q <= k - 1 PROVE FALSE
    OBVIOUS
  <2>1. b * q <= b * (k - 1)
    BY <1>2
  <2>2. b * (k - 1) = b * k - b
    OBVIOUS
  <2> QED
    BY <1>1, <1>2, <2>1, <2>2
<1>5. q = k
  BY <1>2, <1>3, <1>4
<1>6. m = r
  BY <1>1, <1>2, <1>5
<1> QED
  BY <1>5, <1>6 DEF a, q, m

(***************************************************************************)
(* Full turns do not count.                                                *)
(***************************************************************************)
LEMMA FullTurns ==
    ASSUME NEW k \in Int, NEW e \in Int, -Half < e, e <= Half
    PROVE  Normalized(Period * k + e) = e \/ (e = Half /\ Normalized(Period * k + e) = -Half)
<1> DEFINE a == Period * k + e
<1>1. Half \in Nat /\ Half > 0 /\ Period \in Nat /\ Period = 2 * Half /\ Period > 0
  BY Scales
<1>2. a \in Int
  BY <1>1
<1>3. CASE a > Half
  <2>1. Half - a = Period * (-k) + (Half - e) /\ Half - e \in 0..(Period - 1)
    <3>1. Period * (-k) = -(Period * k) /\ Period * k \in Int
      BY <1>1
    <3> QED
      BY <1>1, <3>1
  <2>2. (Half - a) % Period = Half - e
    <3> DEFINE l == -k
               r == Half - e
    <3>1. l \in Int /\ r \in 0..(Period - 1) /\ Half - a = Period * l + r
      BY <2>1
    <3> HIDE DEF a, l, r
    <3>2. (Period * l + r) % Period = r
      BY <1>1, <3>1, Remainder
    <3> QED
      BY <3>1, <3>2 DEF r
  <2>3. Normalized(a) = e
    <3> HIDE DEF a
    <3> QED
      BY <1>1, <1>3, <2>2 DEF Normalized
  <2> QED
    BY <2>3
<1>4. CASE a < -Half
  <2>1. CASE e < Half
    <3>1. a + Half = Period * k + (e + Half) /\ e + Half \in 0..(Period - 1)
      <4>1. Period * k \in Int
        BY <1>1
      <4> QED
        BY <1>1, <2>1, <4>1
    <3>2. (a + Half) % Period = e + Half
      <4> DEFINE r == e + Half
      <4>1. r \in 0..(Period - 1) /\ a + Half = Period * k + r
        BY <3>1
      <4> HIDE DEF a, r
      <4>2. (Period * k + r) % Period = r
        BY <1>1, <4>1, Remainder
      <4> QED
        BY <4>1, <4>2 DEF r
    <3>3. Normalized(a) = e
      <4>1. ~(a > Half)
        BY <1>1, <1>2, <1>4
      <4> HIDE DEF a
      <4> QED
        BY <1>1, <1>4, <3>2, <4>1 DEF Normalized
    <3> QED
      BY <3>3
  <2>2. CASE e = Half
    <3>1. a + Half = Period * (k + 1) + 0 /\ k + 1 \in Int /\ 0 \in 0..(Period - 1)
      <4>1. Period * (k + 1) = Period * k + Period /\ Period * k \in Int
        BY <1>1
      <4> QED
        BY <1>1, <2>2, <4>1
    <3>2. (a + Half) % Period = 0
      <4> DEFINE l == k + 1
      <4>1. l \in Int /\ a + Half = Period * l + 0
        BY <3>1
      <4> HIDE DEF a, l
      <4>2. (Period * l + 0) % Period = 0
        BY <1>1, <3>1, <4>1, Remainder
      <4> QED
        BY <4>1, <4>2
    <3>3. Normalized(a) = -Half
      <4>1. ~(a > Half)
        BY <1>1, <1>2, <1>4
      <4> HIDE DEF a
      <4> QED
        BY <1>1, <1>4, <3>2, <4>1 DEF Normalized
    <3> QED
      BY <2>2, <3>3
  <2> QED
    BY <1>1, <2>1, <2>2
<1>5. CASE ~(a > Half) /\ ~(a < -Half)
  <2>1. Normalized(a) = a
    BY <1>5 DEF Normalized
  <2>2. ~(k >= 1)
    <3> SUFFICES ASSUME k >= 1 PROVE FALSE
      OBVIOUS
    <3>1. Period * k >= Period * 1
      BY <1>1
    <3> QED
      BY <1>1, <1>5, <3>1
  <2>3. ~(k <= -2)
    <3> SUFFICES ASSUME k <= -2 PROVE FALSE
      OBVIOUS
    <3>1. Period * k <= Period * (-2)
      BY <1>1
    <3> QED
      BY <1>1, <1>5, <3>1
  <2>4. k = 0 \/ k = -1
    BY <2>2, <2>3
  <2>5. CASE k = 0
    <3>1. a = e
      BY <1>1, <2>5
    <3> QED
      BY <2>1, <3>1
  <2>6. CASE k = -1
    <3>1. a = e - Period
      BY <1>1, <2>6
    <3>2. e = Half /\ a = -Half
      BY <1>1, <1>5, <3>1
    <3> QED
      BY <2>1, <3>2
  <2> QED
    BY <2>4, <2>5, <2>6
<1> QED
  BY <1>3, <1>4, <1>5

(***************************************************************************)
(* The records are laid on each other by a turn of q quarters.             *)
(***************************************************************************)
Shifted(template, view, q, i) ==
    /\ view[i].bits = template[i].bits
    /\ view[i].class = template[i].class
    /\ (4 * (view[i].angle - template[i].angle) - q * Period) % (4 * Period) = 0
    /\ <<view[i].x - view[1].x, view[i].y - view[1].y>>
         = Quarters(q, template[i].x - template[1].x, template[i].y - template[1].y)

LEMMA MovedQuarters ==
    ASSUME NEW template, NEW view, IsMoved(template, view)
    PROVE  /\ Len(view) = Len(template)
           /\ \E q \in -1..2 : \A i \in DOMAIN view : Shifted(template, view, q, i)
BY DEF IsMoved, Shifted

(***************************************************************************)
(* The turn of each record is the same but for full turns.                 *)
(***************************************************************************)
LEMMA QuarterOf ==
    ASSUME NEW q \in -1..2, NEW d \in Int, (4 * d - q * Period) % (4 * Period) = 0
    PROVE  \E k, e \in Int : /\ d = Period * k + e /\ 4 * e = q * Period
                             /\ -Half < e /\ e <= Half
<1> DEFINE k == (4 * d - q * Period) \div (4 * Period)
           e == d - Period * k
<1>1. Half \in Nat /\ Half > 0 /\ Period \in Nat /\ Period = 2 * Half /\ Period > 0
  BY Scales
<1> DEFINE w == 4 * d - q * Period
           full == 4 * Period
<1>2. w \in Int /\ full \in Nat /\ full > 0 /\ w % full = 0 /\ k = w \div full
  BY <1>1
<1> HIDE DEF w, full, k
<1>3. w = full * k + (w % full) /\ k \in Int
  BY <1>2, Division
<1>4. 4 * d - q * Period = (4 * Period) * k
  <2>1. w = full * k
    <3>1. full * k \in Int
      BY <1>2, <1>3
    <3> QED
      BY <1>2, <1>3, <3>1
  <2> QED
    BY <2>1 DEF w, full
<1>5. (4 * Period) * k = 4 * (Period * k) /\ Period * k \in Int
  BY <1>1, <1>3
<1>6. e \in Int /\ 4 * e = q * Period /\ d = Period * k + e
  BY <1>1, <1>3, <1>4, <1>5
<1> HIDE DEF e
<1>7. q = -1 \/ q = 0 \/ q = 1 \/ q = 2
  OBVIOUS
<1>8. -Half < e /\ e <= Half
  BY <1>1, <1>6, <1>7
<1> QED
  BY <1>3, <1>6, <1>8

LEMMA TrigonometryOf ==
    ASSUME NEW q \in -1..2, NEW spin \in Angles, NEW e \in Int, 4 * e = q * Period,
           spin = e \/ (e = Half /\ spin = -Half)
    PROVE  /\ q = 0 => Cosine[spin] = Unit /\ Sine[spin] = 0
           /\ q = 1 => Cosine[spin] = 0 /\ Sine[spin] = Unit
           /\ q = -1 => Cosine[spin] = 0 /\ Sine[spin] = -Unit
           /\ q = 2 => Cosine[spin] = -Unit /\ Sine[spin] = 0
<1>1. Half \in Nat /\ Half > 0 /\ Period \in Nat /\ Period = 2 * Half
  BY Scales
<1>2. CASE q = 0
  <2>1. spin = 0
    BY <1>1, <1>2
  <2> QED
    BY <1>2, <2>1, QuarterTurns
<1>3. CASE q = 1
  <2>1. spin = e /\ 4 * spin = Period /\ spin \in 1..Half
    BY <1>1, <1>3
  <2> QED
    BY <1>3, <2>1, QuarterTurns
<1>4. CASE q = -1
  <2> DEFINE a == -spin
  <2>1. spin = e
    BY <1>1, <1>4
  <2>2. 4 * a = Period /\ a \in 1..Half /\ -a = spin
    BY <1>1, <1>4, <2>1
  <2> HIDE DEF a
  <2>3. Cosine[-a] = 0 /\ Sine[-a] = -Unit
    BY <2>2, QuarterTurns
  <2> QED
    BY <1>4, <2>2, <2>3
<1>5. CASE q = 2
  <2>1. spin \in {Half, -Half}
    BY <1>1, <1>5
  <2> QED
    BY <1>5, <2>1, QuarterTurns
<1> QED
  BY <1>2, <1>3, <1>4, <1>5

LEMMA UnitDivides ==
    ASSUME NEW n \in Int
    PROVE  /\ (n * Unit - 0) \div Unit = n
           /\ (n * Unit) \div Unit = n
<1>1. Unit \in Nat /\ Unit > 0 /\ 0 \in 0..(Unit - 1)
  BY Scales
<1>2. (Unit * n + 0) \div Unit = n
  BY <1>1, Remainder
<1>3. n * Unit = Unit * n + 0 /\ n * Unit - 0 = Unit * n + 0
  BY <1>1
<1> QED
  BY <1>2, <1>3

LEMMA LaidOn ==
    ASSUME NEW q \in -1..2, NEW spin \in Angles, NEW e \in Int, 4 * e = q * Period,
           spin = e \/ (e = Half /\ spin = -Half),
           NEW r \in Record, NEW from \in Record, NEW to \in Record, NEW s \in Record,
           <<s.x - to.x, s.y - to.y>> = Quarters(q, r.x - from.x, r.y - from.y)
    PROVE  Laid(r, from, to, spin) = [x |-> s.x, y |-> s.y]
<1> DEFINE dx == r.x - from.x
           dy == r.y - from.y
           cos == Cosine[spin]
           sin == Sine[spin]
           X == (dx * cos - dy * sin) \div Unit
           Y == (dx * sin + dy * cos) \div Unit
<1>1. /\ dx \in Int /\ dy \in Int /\ s.x \in Int /\ s.y \in Int /\ to.x \in Int /\ to.y \in Int
      /\ Unit \in Int
  BY Scales DEF Record
<1>2. /\ q = 0 => cos = Unit /\ sin = 0
      /\ q = 1 => cos = 0 /\ sin = Unit
      /\ q = -1 => cos = 0 /\ sin = -Unit
      /\ q = 2 => cos = -Unit /\ sin = 0
  BY TrigonometryOf
<1>3. Laid(r, from, to, spin) = [x |-> to.x + X, y |-> to.y + Y]
  BY DEF Laid
<1>4. <<s.x - to.x, s.y - to.y>> = Quarters(q, dx, dy)
  OBVIOUS
<1> HIDE DEF dx, dy, cos, sin
<1>5. CASE q = 0
  <2>1. s.x - to.x = dx /\ s.y - to.y = dy
    BY <1>4, <1>5 DEF Quarters
  <2>2. dx * cos - dy * sin = dx * Unit /\ dx * sin + dy * cos = dy * Unit
    BY <1>1, <1>2, <1>5
  <2>3. X = dx /\ Y = dy
    BY <1>1, <2>2, UnitDivides
  <2> HIDE DEF X, Y
  <2> QED
    BY <1>1, <1>3, <2>1, <2>3
<1>6. CASE q = 1
  <2>1. s.x - to.x = -dy /\ s.y - to.y = dx
    BY <1>4, <1>6 DEF Quarters
  <2>2. dx * cos - dy * sin = (-dy) * Unit /\ dx * sin + dy * cos = dx * Unit
    BY <1>1, <1>2, <1>6
  <2>3. X = -dy /\ Y = dx
    <3>1. -dy \in Int
      BY <1>1
    <3> QED
      BY <1>1, <2>2, <3>1, UnitDivides
  <2> HIDE DEF X, Y
  <2> QED
    BY <1>1, <1>3, <2>1, <2>3
<1>7. CASE q = -1
  <2>1. s.x - to.x = dy /\ s.y - to.y = -dx
    BY <1>4, <1>7 DEF Quarters
  <2>2. dx * cos - dy * sin = dy * Unit /\ dx * sin + dy * cos = (-dx) * Unit
    BY <1>1, <1>2, <1>7
  <2>3. X = dy /\ Y = -dx
    <3>1. -dx \in Int
      BY <1>1
    <3> QED
      BY <1>1, <2>2, <3>1, UnitDivides
  <2> HIDE DEF X, Y
  <2> QED
    BY <1>1, <1>3, <2>1, <2>3
<1>8. CASE q = 2
  <2>1. s.x - to.x = -dx /\ s.y - to.y = -dy
    BY <1>4, <1>8 DEF Quarters
  <2>2. dx * cos - dy * sin = (-dx) * Unit /\ dx * sin + dy * cos = (-dy) * Unit
    BY <1>1, <1>2, <1>8
  <2>3. X = -dx /\ Y = -dy
    <3>1. -dx \in Int /\ -dy \in Int
      BY <1>1
    <3> QED
      BY <1>1, <2>2, <3>1, UnitDivides
  <2> HIDE DEF X, Y
  <2> QED
    BY <1>1, <1>3, <2>1, <2>3
<1>9. q = -1 \/ q = 0 \/ q = 1 \/ q = 2
  OBVIOUS
<1> QED
  BY <1>5, <1>6, <1>7, <1>8, <1>9

(***************************************************************************)
(* Each record of the template is laid on the record of the view with its  *)
(* number, and agrees with it.                                             *)
(***************************************************************************)
Fits(r, s, from, to, spin) ==
    /\ Laid(r, from, to, spin) = [x |-> s.x, y |-> s.y]
    /\ AngleError(r, s, spin) = 0
    /\ s.bits = r.bits
    /\ s.class = r.class

LEMMA MovedFits ==
    ASSUME NEW template \in Scans, NEW view \in Scans, IsMoved(template, view), Len(view) > 0,
           NEW i \in DOMAIN view
    PROVE  Fits(template[i], view[i], template[1], view[1],
                Normalized(view[1].angle - template[1].angle))
<1> DEFINE spin == Normalized(view[1].angle - template[1].angle)
           d(j) == view[j].angle - template[j].angle
<1>1. PICK q \in -1..2 : \A j \in DOMAIN view : Shifted(template, view, q, j)
  BY MovedQuarters
<1>2. 1 \in DOMAIN view /\ i \in DOMAIN template /\ 1 \in DOMAIN template
  BY MovedQuarters DEF Scans
<1>3. /\ template[i] \in Record /\ view[i] \in Record
      /\ template[1] \in Record /\ view[1] \in Record
  BY <1>2 DEF Scans
<1>4. d(1) \in Int /\ d(i) \in Int
  <2>1. /\ view[1].angle \in Int /\ template[1].angle \in Int
        /\ view[i].angle \in Int /\ template[i].angle \in Int
    <3>1. \A r \in Record : r.angle \in Int
      BY DEF Record
    <3> QED
      BY <1>3, <3>1
  <2> QED
    BY <2>1
<1>5. /\ (4 * d(1) - q * Period) % (4 * Period) = 0
      /\ (4 * d(i) - q * Period) % (4 * Period) = 0
  BY <1>1, <1>2 DEF Shifted
<1> DEFINE d1 == d(1)
           di == d(i)
<1>6. d1 \in Int /\ di \in Int /\ spin = Normalized(d1)
  BY <1>4
<1>7. (4 * d1 - q * Period) % (4 * Period) = 0 /\ (4 * di - q * Period) % (4 * Period) = 0
  BY <1>5
<1>8. di = view[i].angle - template[i].angle
  OBVIOUS
<1> HIDE DEF d, d1, di, spin
<1>9. PICK k, e \in Int : /\ d1 = Period * k + e /\ 4 * e = q * Period
                          /\ -Half < e /\ e <= Half
  BY <1>6, <1>7, QuarterOf
<1>10. PICK l, f \in Int : /\ di = Period * l + f /\ 4 * f = q * Period
                           /\ -Half < f /\ f <= Half
  BY <1>6, <1>7, QuarterOf
<1>11. e = f
  BY <1>9, <1>10, Scales
<1>12. spin = e \/ (e = Half /\ spin = -Half)
  BY <1>6, <1>9, FullTurns
<1>13. spin \in Angles /\ spin \in Int
  <2>1. spin \in Angles
    BY <1>6, NormalizedType
  <2> QED
    BY <2>1, Scales DEF Angles
<1>14. Laid(template[i], template[1], view[1], spin) = [x |-> view[i].x, y |-> view[i].y]
  <2>1. <<view[i].x - view[1].x, view[i].y - view[1].y>>
          = Quarters(q, template[i].x - template[1].x, template[i].y - template[1].y)
    BY <1>1 DEF Shifted
  <2> DEFINE r == template[i]
             s == view[i]
             from == template[1]
             to == view[1]
  <2>2. /\ r \in Record /\ s \in Record /\ from \in Record /\ to \in Record
        /\ <<s.x - to.x, s.y - to.y>> = Quarters(q, r.x - from.x, r.y - from.y)
    BY <1>3, <2>1
  <2>3. 4 * e = q * Period
    BY <1>9
  <2> HIDE DEF r, s, from, to
  <2>4. Laid(r, from, to, spin) = [x |-> s.x, y |-> s.y]
    BY <1>12, <1>13, <2>2, <2>3, LaidOn
  <2> QED
    BY <2>4 DEF r, s, from, to
<1>15. AngleError(template[i], view[i], spin) = 0
  <2>1. PICK m \in Int : di - spin = Period * m
    <3>1. CASE spin = e
      <4>1. di - spin = Period * l
        BY <1>10, <1>11, <3>1, Scales
      <4> QED
        BY <4>1
    <3>2. CASE e = Half /\ spin = -Half
      <4>1. di - spin = Period * l + Period
        BY <1>10, <1>11, <3>2, Scales
      <4>2. Period * l + Period = Period * (l + 1)
        BY Scales
      <4>3. di - spin = Period * (l + 1) /\ l + 1 \in Int
        BY <4>1, <4>2
      <4> QED
        BY <4>3
    <3> QED
      BY <1>12, <3>1, <3>2
  <2>2. Normalized(di - spin) = 0
    <3>1. Normalized(Period * m + 0) = 0 /\ Period * m + 0 = Period * m
      <4>1. 0 \in Int /\ -Half < 0 /\ 0 <= Half /\ 0 # Half
        BY Scales
      <4>2. Normalized(Period * m + 0) = 0
        BY <4>1, FullTurns
      <4>3. Period * m \in Int
        BY Scales
      <4> QED
        BY <4>2, <4>3
    <3> QED
      BY <2>1, <3>1
  <2> QED
    BY <1>8, <2>2 DEF AngleError, Magnitude
<1>16. view[i].bits = template[i].bits /\ view[i].class = template[i].class
  BY <1>1 DEF Shifted
<1> QED
  BY <1>14, <1>15, <1>16 DEF Fits, spin

(***************************************************************************)
(* A pair that agrees is the best one there can be.                        *)
(***************************************************************************)
Whole(p) == [probe |-> p, descriptor |-> One, spatial |-> One, angle |-> One]

LEMMA WholeScore ==
    ASSUME NEW p PROVE PairScore(Whole(p)) = One /\ One > 0
<1>1. (7 * One + 2 * One + One) \div 10 = One
  BY Scales
<1> QED
  BY <1>1, Scales DEF PairScore, Whole

LEMMA ScoreBound ==
    ASSUME NEW view, NEW b \in CandidateSet(view) PROVE PairScore(b) \in 0..One
<1>1. b.descriptor \in 0..One /\ b.spatial \in 0..One /\ b.angle \in 0..One
  BY DEF CandidateSet
<1> QED
  BY <1>1, Scales DEF PairScore

LEMMA WholeCandidate ==
    ASSUME NEW view \in Scans, NEW r \in Record, NEW from \in Record, NEW to \in Record,
           NEW spin \in Angles, NEW c \in Config, c.angle > 0, c.radius > 0,
           NEW used, NEW p \in DOMAIN view \ used, Fits(r, view[p], from, to, spin)
    PROVE  Whole(p) \in Candidates(r, Laid(r, from, to, spin), spin, view, used, c)
<1> DEFINE at == Laid(r, from, to, spin)
           s == view[p]
           area == c.radius * c.radius
<1>1. s \in Record /\ c.radius \in Nat /\ c.angle \in Nat /\ c.hamming \in Nat
  BY DEF Scans, Config
<1>2. SquaredDistance(s, at) = 0
  <2>1. at.x = s.x /\ at.y = s.y
    BY DEF Fits
  <2>2. s.x \in Int /\ s.y \in Int
    BY <1>1 DEF Record
  <2> HIDE DEF at, s
  <2> QED
    BY <2>1, <2>2 DEF SquaredDistance
<1>3. Hamming(r, s) = 0
  <2>1. SymDiff(r.bits, s.bits) = {}
    BY DEF Fits, SymDiff
  <2>2. Cardinality({}) = 0
    BY FS_EmptySet
  <2> QED
    BY <2>1, <2>2 DEF Hamming
<1>4. AngleError(r, s, spin) = 0 /\ SameClass(r, s)
  BY DEF Fits, SameClass
<1>5. area \in Nat /\ area > 0
  <2>1. area >= c.radius * 1
    BY <1>1
  <2> QED
    BY <1>1, <2>1
<1>6. Ratio(Bits - 0, Bits) = One
  BY Scales DEF Ratio
<1>7. \A n \in Nat : n > 0 => One - Ratio(0, n) = One
  <2> SUFFICES ASSUME NEW n \in Nat, n > 0 PROVE One - Ratio(0, n) = One
    OBVIOUS
  <2>1. (0 * One) \div n = 0
    BY Scales
  <2> QED
    BY <2>1, Scales DEF Ratio
<1>8. One - Ratio(0, area) = One /\ One - Ratio(0, c.angle) = One
  BY <1>1, <1>5, <1>7
<1>9. /\ p \in {q \in DOMAIN view \ used :
                  /\ SquaredDistance(view[q], at) <= c.radius * c.radius
                  /\ AngleError(r, view[q], spin) <= c.angle
                  /\ SameClass(r, view[q])
                  /\ Hamming(r, view[q]) <= c.hamming}
  BY <1>1, <1>2, <1>3, <1>4, <1>5
<1>10. Whole(p) = [probe |-> p,
                   descriptor |-> Ratio(Bits - Hamming(r, s), Bits),
                   spatial |-> One - Ratio(SquaredDistance(s, at), area),
                   angle |-> One - Ratio(AngleError(r, s, spin), c.angle)]
  BY <1>2, <1>3, <1>4, <1>6, <1>8 DEF Whole
<1> QED
  BY <1>9, <1>10 DEF Candidates

(***************************************************************************)
(* It wins, unless an earlier record is free.                              *)
(***************************************************************************)
LEMMA WholeWins ==
    ASSUME NEW view \in Scans, NEW pairs \in SUBSET CandidateSet(view),
           NEW p \in DOMAIN view, Whole(p) \in pairs,
           \A b \in pairs : p <= b.probe,
           \A b \in pairs : b.probe = p => b = Whole(p)
    PROVE  BestOf(pairs) = {Whole(p)}
<1>1. \A b \in pairs : PairScore(b) \in 0..One /\ b.probe \in Nat
  <2>1. \A b \in pairs : b.probe \in DOMAIN view
    BY DEF CandidateSet
  <2> QED
    BY <2>1, ScoreBound DEF Scans
<1>2. PairScore(Whole(p)) = One /\ One > 0 /\ One \in Nat
  BY WholeScore, Scales
<1>3. Whole(p).probe = p /\ p \in Nat
  BY DEF Whole, Scans
<1>4. Whole(p) \in BestOf(pairs)
  BY <1>1, <1>2, <1>3 DEF BestOf
<1>5. ASSUME NEW b \in BestOf(pairs) PROVE b = Whole(p)
  <2>1. b \in pairs /\ (PairScore(b) > One \/ (PairScore(b) = One /\ b.probe <= p))
    BY <1>2, <1>3 DEF BestOf
  <2>2. b.probe <= p
    BY <1>1, <1>2, <2>1
  <2>3. b.probe = p
    BY <1>1, <1>3, <2>1, <2>2
  <2> QED
    BY <2>1, <2>3
<1> QED
  BY <1>4, <1>5

LEMMA OneEach ==
    ASSUME NEW r, NEW at, NEW spin, NEW view, NEW used, NEW c,
           NEW a \in Candidates(r, at, spin, view, used, c),
           NEW b \in Candidates(r, at, spin, view, used, c), a.probe = b.probe
    PROVE  a = b
BY DEF Candidates

(***************************************************************************)
(* The first i records, paired with those that have their numbers.         *)
(***************************************************************************)
Perfect(i) == [used |-> 1..i, matched |-> i, descriptor |-> i * One,
               spatial |-> i * One, angle |-> i * One]

LEMMA PerfectMore ==
    ASSUME NEW view \in Scans, NEW r \in Record, NEW from \in Record, NEW to \in Record,
           NEW spin \in Angles, NEW c \in Config, c.angle > 0, c.radius > 0,
           NEW i \in DOMAIN view, Fits(r, view[i], from, to, spin)
    PROVE  Paired(Perfect(i - 1), r, view, c, from, to, spin) = Perfect(i)
<1> DEFINE used == 1..(i - 1)
           all == Candidates(r, Laid(r, from, to, spin), spin, view, used, c)
<1>1. i \in Nat /\ i > 0 /\ DOMAIN view = 1..Len(view) /\ Len(view) \in Nat
  BY DEF Scans
<1>2. i \in DOMAIN view \ used
  BY <1>1
<1>3. Whole(i) \in all
  BY <1>2, WholeCandidate
<1>4. all \in SUBSET CandidateSet(view)
  BY LaidType, CandidatesType
<1>5. \A b \in all : i <= b.probe
  <2> SUFFICES ASSUME NEW b \in all PROVE i <= b.probe
    OBVIOUS
  <2>1. b.probe \in DOMAIN view \ used
    BY DEF Candidates
  <2> QED
    BY <1>1, <2>1
<1>6. \A b \in all : b.probe = i => b = Whole(i)
  <2>1. Whole(i).probe = i
    BY DEF Whole
  <2> QED
    BY <1>3, <2>1, OneEach
<1> HIDE DEF all
<1>7. BestOf(all) = {Whole(i)}
  BY <1>3, <1>4, <1>5, <1>6, WholeWins
<1>8. (CHOOSE b \in {Whole(i)} : TRUE) = Whole(i)
  OBVIOUS
<1>9. Paired(Perfect(i - 1), r, view, c, from, to, spin) = OneMore(Perfect(i - 1), Whole(i))
  <2>1. Perfect(i - 1).used = used
    BY DEF Perfect
  <2>2. BestOf(Candidates(r, Laid(r, from, to, spin), spin, view, Perfect(i - 1).used, c))
          = {Whole(i)}
    BY <1>7, <2>1 DEF all
  <2> QED
    BY <1>8, <2>2 DEF Paired, WithRecord
<1>10. (1..(i - 1)) \cup {i} = 1..i /\ i - 1 + 1 = i
  BY <1>1
<1>11. (i - 1) * One + One = i * One
  BY <1>1, Scales
<1>12. OneMore(Perfect(i - 1), Whole(i)) = Perfect(i)
  <2>1. OneMore(Perfect(i - 1), Whole(i))
          = [used |-> (1..(i - 1)) \cup {i}, matched |-> i - 1 + 1,
             descriptor |-> (i - 1) * One + One, spatial |-> (i - 1) * One + One,
             angle |-> (i - 1) * One + One]
    BY DEF OneMore, Perfect, Whole
  <2> QED
    BY <1>10, <1>11, <2>1 DEF Perfect
<1> QED
  BY <1>9, <1>12

LEMMA PerfectPairing ==
    ASSUME NEW template \in Scans, NEW view \in Scans, IsMoved(template, view), Len(view) > 0,
           NEW c \in Config, c.angle > 0, c.radius > 0
    PROVE  Pairing(template, view, c, template[1], view[1],
                   Normalized(view[1].angle - template[1].angle)) = Perfect(Len(view))
<1> DEFINE from == template[1]
           to == view[1]
           spin == Normalized(to.angle - from.angle)
           n == Len(template)
<1>1. n = Len(view) /\ n \in Nat /\ DOMAIN view = 1..n /\ DOMAIN template = 1..n /\ n > 0
  BY MovedQuarters DEF Scans
<1>2. from \in Record /\ to \in Record
  BY <1>1 DEF Scans
<1>3. spin \in Angles
  <2>1. to.angle - from.angle \in Int
    BY <1>2 DEF Record
  <2> QED
    BY <2>1, NormalizedType
<1>4. \A i \in 1..n : template[i] \in Record /\ Fits(template[i], view[i], from, to, spin)
  BY <1>1, MovedFits DEF Scans
<1> HIDE DEF spin, from, to
<1>5. PICK f : /\ Pairs(f, template, view, c, from, to, spin, n)
               /\ Pairing(template, view, c, from, to, spin) = f[n]
  BY PairingIs
<1> HIDE DEF n
<1>6. \A i \in 0..n : f[i] = IF i = 0 THEN NoPairs
                             ELSE Paired(f[i - 1], template[i], view, c, from, to, spin)
  BY <1>5 DEF Pairs
<1> DEFINE S == {k \in Nat : k <= n => f[k] = Perfect(k)}
<1>7. 0 \in S
  <2>1. f[0] = NoPairs
    BY <1>1, <1>6
  <2>2. 0 * One = 0 /\ 1..0 = {}
    BY Scales
  <2> QED
    BY <2>1, <2>2 DEF NoPairs, Perfect
<1>8. ASSUME NEW k \in Nat, k \in S PROVE k + 1 \in S
  <2> SUFFICES ASSUME k + 1 <= n PROVE f[k + 1] = Perfect(k + 1)
    OBVIOUS
  <2> DEFINE i == k + 1
  <2>1. f[k] = Perfect(k) /\ i \in 0..n /\ i \in 1..n /\ i # 0 /\ i - 1 = k
    BY <1>1, <1>8
  <2> HIDE DEF i
  <2>2. f[i] = Paired(Perfect(i - 1), template[i], view, c, from, to, spin)
    BY <1>6, <2>1
  <2>3. template[i] \in Record /\ Fits(template[i], view[i], from, to, spin) /\ i \in DOMAIN view
    BY <1>1, <1>4, <2>1
  <2>4. f[i] = Perfect(i)
    BY <1>2, <1>3, <2>2, <2>3, PerfectMore
  <2> QED
    BY <2>4 DEF i
<1> HIDE DEF S
<1>9. n \in S
  BY <1>1, <1>7, <1>8, SetInduction
<1> QED
  BY <1>1, <1>5, <1>9 DEF S, spin, from, to

LEMMA MinOfTwo ==
    ASSUME NEW k \in Nat, NEW n \in Nat
    PROVE  Min({k, n}) = IF k <= n THEN k ELSE n
<1> DEFINE m == IF k <= n THEN k ELSE n
           P(x) == x \in {k, n} /\ \A y \in {k, n} : x <= y
<1>1. P(m) /\ \A x : P(x) => x = m
  OBVIOUS
<1>2. Min({k, n}) = CHOOSE x : P(x)
  BY DEF Min
<1> HIDE DEF P, m
<1>3. Min({k, n}) = m
  BY <1>1, <1>2
<1> QED
  BY <1>3 DEF m

LEMMA PerfectHypothesis ==
    ASSUME NEW template \in Scans, NEW view \in Scans, IsMoved(template, view), Len(view) > 0,
           NEW c \in Config, c.angle > 0, c.radius > 0, c.pairs > 0, c.pairs <= Len(view)
    PROVE  Hypothesis(template, view, c, Pair(template, view, 1, 1))
             = [matched |-> Len(view), score |-> One]
<1> DEFINE n == Len(view)
           most == Min({Len(template), Len(view)})
           seed == Pair(template, view, 1, 1)
<1>1. n \in Nat /\ n > 0 /\ Len(template) = n /\ c.pairs \in Nat /\ c.pairs <= n
  BY MovedQuarters DEF Scans, Config
<1>2. seed.t = 1 /\ seed.p = 1
  BY DEF Pair
<1>3. Hypothesis(template, view, c, seed) = Weighed(Perfect(n), most, c)
  <2>1. Hypothesis(template, view, c, seed)
          = Weighed(Pairing(template, view, c, template[1], view[1],
                            Normalized(view[1].angle - template[1].angle)), most, c)
    BY <1>2 DEF Hypothesis
  <2>2. Pairing(template, view, c, template[1], view[1],
                Normalized(view[1].angle - template[1].angle)) = Perfect(n)
    BY PerfectPairing
  <2> QED
    BY <2>1, <2>2
<1>4. most = n
  <2>1. Min({n, n}) = n
    BY <1>1, MinOfTwo
  <2> QED
    BY <1>1, <2>1
<1> HIDE DEF n, most, seed
<1>5. (n * One) \div n = One
  <2>1. n * One + 0 = n * One /\ n * One \in Int
    BY <1>1, Scales
  <2>2. 0 \in 0..(n - 1) /\ One \in Int
    BY <1>1, Scales
  <2>3. (n * One + 0) \div n = One
    BY <1>1, <2>2, Remainder
  <2> QED
    BY <2>1, <2>3
<1>6. Ratio(n, n) = One
  BY <1>1 DEF Ratio
<1>7. (65 * One + 15 * One + 10 * One + 10 * One) \div 100 = One
  BY Scales
<1>8. Weighed(Perfect(n), n, c) = [matched |-> n, score |-> One]
  <2>1. ~(n < c.pairs)
    BY <1>1
  <2> QED
    BY <1>5, <1>6, <1>7, <2>1 DEF Weighed, Perfect
<1> QED
  BY <1>3, <1>4, <1>8 DEF n, seed

(***************************************************************************)
(* The pair of the first records is the first seed: no distance is smaller *)
(* than none.                                                              *)
(***************************************************************************)
LEMMA FirstSeed ==
    ASSUME NEW template \in Scans, NEW view \in Scans, IsMoved(template, view), Len(view) > 0,
           NEW c \in Config, c.seeds > 0
    PROVE  /\ 1 \in DOMAIN Seeds(template, view, c)
           /\ Seeds(template, view, c)[1] = Pair(template, view, 1, 1)
<1> DEFINE all == SimilarPairs(template, view, c)
           seeds == Seeds(template, view, c)
           s == Pair(template, view, 1, 1)
           n == Len(seeds)
<1>1. 1 \in DOMAIN view /\ 1 \in DOMAIN template
  BY MovedQuarters DEF Scans
<1>2. s \in SeedKeys /\ s.t = 1 /\ s.p = 1
  BY <1>1, PairType
<1>3. s.hamming = 0
  <2>1. view[1].bits = template[1].bits
    BY <1>1, MovedQuarters DEF Shifted
  <2>2. SymDiff(template[1].bits, view[1].bits) = {} /\ Cardinality({}) = 0
    BY <2>1, FS_EmptySet DEF SymDiff
  <2> QED
    BY <2>2 DEF Pair, Hamming
<1>4. s \in all
  <2>1. s.hamming <= c.hamming
    BY <1>3 DEF Config
  <2> QED
    BY <1>1, <2>1 DEF SimilarPairs
<1>5. all \in SUBSET SeedKeys /\ \A r \in all : r.t \in Nat \ {0} /\ r.p \in Nat \ {0}
  <2>1. \A r \in all : r.t \in DOMAIN template /\ r.p \in DOMAIN view
    BY SimilarType
  <2>2. DOMAIN template \subseteq Nat \ {0} /\ DOMAIN view \subseteq Nat \ {0}
    BY DEF Scans
  <2>3. all \in SUBSET SeedKeys
    BY SimilarType
  <2> HIDE DEF all
  <2> QED
    BY <2>1, <2>2, <2>3
<1>6. Window(seeds, all, c.seeds)
  BY SeedsWindow
<1> HIDE DEF s, all, seeds
<1>7. \A r \in all : ~Ahead(r, s)
  <2> SUFFICES ASSUME NEW r \in all, Ahead(r, s) PROVE FALSE
    OBVIOUS
  <2>1. r.t \in Nat /\ r.p \in Nat /\ r.t >= 1 /\ r.p >= 1 /\ r.hamming \in Nat
    BY <1>5 DEF SeedKeys
  <2> QED
    BY <1>2, <1>3, <2>1 DEF Ahead
<1>8. /\ n \in Nat /\ DOMAIN seeds = 1..n /\ c.seeds \in Nat
      /\ \A i \in 1..n : seeds[i] \in all
      /\ \A i, j \in 1..n : i < j => Ahead(seeds[i], seeds[j])
  BY <1>6 DEF Window, Kept, Config
<1> HIDE DEF n
<1>9. In(s, seeds)
  <2> SUFFICES ASSUME Len(seeds) = c.seeds, AllAhead(seeds, s) PROVE FALSE
    BY <1>4, <1>6 DEF Window
  <2>1. 1 \in DOMAIN seeds /\ seeds[1] \in all
    BY <1>8 DEF n
  <2>2. Ahead(seeds[1], s)
    BY <2>1 DEF AllAhead
  <2> QED
    BY <1>7, <2>1, <2>2
<1>10. PICK i \in 1..n : seeds[i] = s
  BY <1>8, <1>9 DEF In
<1>11. i = 1 /\ 1 \in 1..n
  <2> SUFFICES ASSUME i # 1 PROVE FALSE
    BY <1>8, <1>10
  <2>1. 1 \in 1..n /\ 1 < i
    BY <1>8
  <2>2. Ahead(seeds[1], s) /\ seeds[1] \in all
    BY <1>8, <1>10, <2>1
  <2> QED
    BY <1>7, <2>2
<1> QED
  BY <1>8, <1>10, <1>11 DEF s, seeds

LEMMA PerfectViews ==
    ASSUME NEW template \in Scans, NEW view \in Scans, IsMoved(template, view),
           NEW c \in Config, c.seeds > 0, c.angle > 0, c.radius > 0, c.pairs > 0,
           c.pairs <= Len(view)
    PROVE  ScoreViews(template, view, c) = [matched |-> Len(view), score |-> One]
<1> DEFINE seeds == Seeds(template, view, c)
           n == Len(seeds)
           f == CHOOSE f : BestSoFar(f, template, view, c, seeds, n)
           best == [matched |-> Len(view), score |-> One]
<1>1. Len(view) \in Nat /\ Len(view) > 0 /\ Len(template) = Len(view)
  BY MovedQuarters DEF Scans, Config
<1>2. Window(seeds, SimilarPairs(template, view, c), c.seeds)
  BY SeedsWindow
<1>3. /\ n \in Nat /\ DOMAIN seeds = 1..n
      /\ \A i \in 1..n : seeds[i] \in SimilarPairs(template, view, c)
  BY <1>2 DEF Window, Kept
<1>4. 1 \in 1..n /\ seeds[1] = Pair(template, view, 1, 1)
  BY <1>1, <1>3, FirstSeed
<1>5. BestSoFar(f, template, view, c, seeds, n)
  BY <1>3, BestExists
<1>6. ScoreViews(template, view, c) = f[n]
  BY DEF ScoreViews, BestSoFar, NoMatch
<1> HIDE DEF seeds, n, f
<1>7. \A k \in 0..n : f[k] = IF k = 0 THEN NoMatch
                       ELSE BetterOf(f[k - 1], Hypothesis(template, view, c, seeds[k]))
  BY <1>5 DEF BestSoFar
<1>8. f[1] = best
  <2>1. f[0] = NoMatch
    BY <1>3, <1>7
  <2>2. f[1] = BetterOf(f[0], Hypothesis(template, view, c, seeds[1]))
    BY <1>4, <1>7
  <2>3. Hypothesis(template, view, c, seeds[1]) = best
    BY <1>1, <1>4, PerfectHypothesis
  <2>4. Better(best, NoMatch)
    BY Scales DEF Better, NoMatch
  <2> QED
    BY <2>1, <2>2, <2>3, <2>4 DEF BetterOf
<1>9. ASSUME NEW k \in 1..n PROVE ~Better(Hypothesis(template, view, c, seeds[k]), best)
  <2> DEFINE h == Hypothesis(template, view, c, seeds[k])
  <2>1. seeds[k].t \in DOMAIN template /\ seeds[k].p \in DOMAIN view
    BY <1>3, SimilarType
  <2>2. h \in Matches /\ h.matched \in 0..Len(template)
    BY <2>1, HypothesisType
  <2> HIDE DEF h
  <2>3. h.score \in Int /\ h.score <= One /\ h.matched \in Int /\ h.matched <= Len(view)
    BY <1>1, <2>2, Scales DEF Matches
  <2>4. ~Better(h, best)
    BY <1>1, <2>3, Scales DEF Better
  <2> QED
    BY <2>4 DEF h
<1> DEFINE S == {k \in Nat : 1 <= k /\ k <= n => f[k] = best}
<1>10. 0 \in S
  OBVIOUS
<1>11. ASSUME NEW k \in Nat, k \in S PROVE k + 1 \in S
  <2> SUFFICES ASSUME k + 1 <= n PROVE f[k + 1] = best
    OBVIOUS
  <2>1. CASE k = 0
    BY <1>8, <2>1
  <2>2. CASE k # 0
    <3>1. f[k] = best /\ k + 1 \in 0..n /\ k + 1 \in 1..n /\ k + 1 # 0 /\ (k + 1) - 1 = k
      BY <1>3, <1>11, <2>2
    <3>2. f[k + 1] = BetterOf(f[k], Hypothesis(template, view, c, seeds[k + 1]))
      BY <1>7, <3>1
    <3>3. ~Better(Hypothesis(template, view, c, seeds[k + 1]), best)
      BY <1>9, <3>1
    <3> HIDE DEF best
    <3> QED
      BY <3>1, <3>2, <3>3 DEF BetterOf
  <2> QED
    BY <2>1, <2>2
<1> HIDE DEF S
<1>12. n \in S
  BY <1>3, <1>10, <1>11, SetInduction
<1>13. f[n] = best
  BY <1>3, <1>4, <1>12 DEF S
<1> QED
  BY <1>6, <1>13

-----------------------------------------------------------------------------
(* The matcher: its behaviours.                                            *)

Entries == [sample : Nat, matched : Nat, score : 0..One]

Worse(a, b) == ~Better(a, b)

(***************************************************************************)
(* The samples up to n in a list, each at most once, the best ones first.  *)
(***************************************************************************)
Ranks(list, n) ==
    /\ list \in Seq(Entries)
    /\ Len(list) = (IF n < 3 THEN n ELSE 3)
    /\ \A k \in DOMAIN list : list[k].sample \in 1..n /\ list[k] = Entry(list[k].sample)
    /\ \A k, l \in DOMAIN list :
          k < l => list[k].sample # list[l].sample /\ Worse(list[l], list[k])

Decided ==
    result.status = "OK" =>
        /\ scored = Len(enrollment) /\ scored > 0
        /\ result.matched => /\ DecisionValid
                             /\ ConsensusScore >= config.threshold
                             /\ top[1].matched >= config.pairs

Usable == config \in Config /\ ConfigValid(config) /\ enrollment # <<>>

MatcherTypes ==
    /\ enrollment \in Seq(Scans)
    /\ probe \in Scans
    /\ config \in Config \cup {None}
    /\ scored \in 0..Len(enrollment)

MatcherInv ==
    /\ MatcherTypes
    /\ Matching \/ scored > 0 => Usable
    /\ Ranks(top, scored)
    /\ Decided

LEMMA UsableBounds ==
    ASSUME Usable
    PROVE  /\ config \in Config /\ config.seeds > 0 /\ config.pairs > 0
           /\ config.angle > 0 /\ config.radius > 0
           /\ config.consensus \in 1..3 /\ config.threshold \in 0..One
<1>1. MaxSeeds \in Nat /\ MaxRecords \in Nat /\ One \in Nat
  BY MatcherAssumption
<1> QED
  BY <1>1 DEF Usable, ConfigValid

LEMMA EntryType ==
    ASSUME MatcherTypes, Usable, NEW i \in 1..Len(enrollment)
    PROVE  Entry(i) \in Entries /\ Entry(i).sample = i
<1>1. enrollment[i] \in Scans /\ i \in Nat /\ probe \in Scans
  BY DEF MatcherTypes
<1>2. ScoreViews(enrollment[i], probe, config) \in Matches
  BY <1>1, UsableBounds, ScoreViewsType
<1> QED
  BY <1>1, <1>2 DEF Entry, Entries, Matches

LEMMA WorseOrders ==
    /\ \A a, b \in Entries : Worse(a, b) \/ Worse(b, a)
    /\ \A a, b, d \in Entries : Worse(a, b) /\ Worse(b, d) => Worse(a, d)
    /\ \A a, b \in Entries : Worse(a, b) => a.score <= b.score
<1>1. 0..One \subseteq Int
  BY Scales
<1>2. \A a \in Entries : a.score \in Int /\ a.matched \in Int
  BY <1>1 DEF Entries
<1> QED
  BY <1>2 DEF Worse, Better

(***************************************************************************)
(* A new sample goes behind the ones it is not better than.                *)
(***************************************************************************)
LEMMA TopMoves ==
    ASSUME MatcherTypes, Ranks(top, scored), Usable, scored < Len(enrollment)
    PROVE  Ranks(Ranked(Entry(scored + 1)), scored + 1)
<1> DEFINE e == Entry(scored + 1)
           n == Len(top)
           A == {i \in DOMAIN top : ~Better(e, top[i])}
<1>1. scored \in Nat /\ scored + 1 \in 1..Len(enrollment)
  BY DEF MatcherTypes
<1>2. e \in Entries /\ e.sample = scored + 1 /\ e = Entry(e.sample)
  BY <1>1, EntryType
<1>3. /\ top \in Seq(Entries) /\ n \in Nat /\ n = (IF scored < 3 THEN scored ELSE 3)
      /\ DOMAIN top = 1..n
  <2>1. top \in Seq(Entries)
    BY DEF Ranks
  <2>2. Len(top) \in Nat /\ DOMAIN top = 1..Len(top)
    BY <2>1
  <2>3. Len(top) = (IF scored < 3 THEN scored ELSE 3)
    BY DEF Ranks
  <2> QED
    BY <2>1, <2>2, <2>3
<1>4. \A k \in 1..n : /\ top[k] \in Entries
                      /\ top[k].sample \in 1..scored /\ top[k] = Entry(top[k].sample)
  BY <1>3 DEF Ranks
<1>5. \A k, l \in 1..n : k < l => top[k].sample # top[l].sample /\ Worse(top[l], top[k])
  BY <1>3 DEF Ranks
<1> HIDE DEF e, n
<1>6. A \in SUBSET (1..n) /\ \A i \in 1..n : i \in A <=> Worse(e, top[i])
  BY <1>3 DEF Worse
<1>7. Ranked(e) = Inserted(top, e, 3, A)
  BY DEF Ranked
<1> HIDE DEF A
<1>8. PICK m \in 0..n : A = 1..m
  <2>1. \A i \in A : \A j \in 1..i : j \in A
    <3> SUFFICES ASSUME NEW i \in A, NEW j \in 1..i PROVE j \in A
      OBVIOUS
    <3>1. i \in 1..n /\ j \in 1..n /\ Worse(e, top[i])
      BY <1>3, <1>6
    <3>2. CASE j = i
      BY <3>2
    <3>3. CASE j < i
      <4>1. Worse(top[i], top[j])
        BY <1>5, <3>1, <3>3
      <4>2. Worse(e, top[j])
        BY <1>2, <1>4, <3>1, <4>1, WorseOrders
      <4> QED
        BY <1>6, <3>1, <4>2
    <3> QED
      BY <3>1, <3>2, <3>3
  <2> QED
    BY <1>3, <1>6, <2>1, NoGaps
<1>9. /\ \A i \in 1..n : i <= m => Worse(e, top[i])
      /\ \A i \in 1..n : i > m => Worse(top[i], e)
  <2> SUFFICES ASSUME NEW i \in 1..n
               PROVE  (i <= m => Worse(e, top[i])) /\ (i > m => Worse(top[i], e))
    OBVIOUS
  <2>1. i \in A <=> i <= m
    BY <1>8
  <2> QED
    BY <1>2, <1>4, <1>6, <2>1, WorseOrders
<1> DEFINE new == Insertion(top, e, 3, m)
<1>10. /\ m = 3 => new = top
       /\ m < 3 => /\ new \in Seq(Entries)
                   /\ Len(new) = IF n < 3 THEN n + 1 ELSE 3
                   /\ MovedUp(new, top, m, e)
  <2>1. n <= 3
    BY <1>1, <1>3
  <2>2. top \in Seq(Entries) /\ 3 \in Nat /\ 3 > 0 /\ Len(top) <= 3 /\ m \in 0..Len(top)
    BY <1>3, <2>1 DEF n
  <2>3. /\ m = 3 => new = top
        /\ m < 3 => /\ new \in Seq(Entries)
                    /\ Len(new) = IF Len(top) < 3 THEN Len(top) + 1 ELSE 3
                    /\ MovedUp(new, top, m, e)
    <3> HIDE DEF new
    <3> QED
      BY <1>2, <2>2, InsertedIs DEF new
  <2> QED
    BY <2>3 DEF n
<1>11. Ranked(e) = new
  BY <1>7, <1>8 DEF Insertion
<1> HIDE DEF new
<1>12. CASE m = 3
  <2>1. n = 3 /\ new = top /\ ~(scored < 3)
    BY <1>1, <1>3, <1>10, <1>12
  <2>2. Len(new) = (IF scored + 1 < 3 THEN scored + 1 ELSE 3)
    BY <1>1, <2>1 DEF n
  <2>3. \A k \in 1..n : new[k].sample \in 1..(scored + 1) /\ new[k] = Entry(new[k].sample)
    BY <1>1, <1>4, <2>1
  <2> QED
    BY <1>3, <1>5, <1>11, <2>1, <2>2, <2>3 DEF e, Ranks
<1>13. CASE m < 3
  <2> DEFINE l == Len(new)
  <2>1. /\ new \in Seq(Entries) /\ l \in Nat /\ DOMAIN new = 1..l
        /\ l = (IF n < 3 THEN n + 1 ELSE 3) /\ l <= n + 1
        /\ m + 1 \in 1..l /\ new[m + 1] = e
        /\ \A i \in 1..l : i <= m => new[i] = top[i]
        /\ \A i \in 1..l : i > m + 1 => new[i] = top[i - 1]
    <3>1. new \in Seq(Entries)
      BY <1>10, <1>13
    <3>2. l = (IF n < 3 THEN n + 1 ELSE 3)
      BY <1>10, <1>13
    <3>3. l \in Nat /\ DOMAIN new = 1..l
      BY <3>1
    <3> HIDE DEF l
    <3>4. l <= n + 1
      BY <1>1, <1>3, <3>2
    <3>5. MovedUp(new, top, m, e)
      BY <1>10, <1>13
    <3> QED
      BY <3>1, <3>2, <3>3, <3>4, <3>5 DEF MovedUp
  <2> HIDE DEF l
  <2>2. \A i \in 1..l : /\ i <= m => i \in 1..n /\ new[i] = top[i]
                        /\ i > m + 1 => i - 1 \in 1..n /\ i - 1 > m /\ new[i] = top[i - 1]
                        /\ i <= m \/ i = m + 1 \/ i > m + 1
    BY <1>3, <2>1
  <2>3. l = (IF scored + 1 < 3 THEN scored + 1 ELSE 3)
    BY <1>1, <1>3, <2>1
  <2>4. ASSUME NEW k \in 1..l
        PROVE  new[k].sample \in 1..(scored + 1) /\ new[k] = Entry(new[k].sample)
    <3>1. CASE k <= m
      BY <1>1, <1>4, <2>2, <3>1
    <3>2. CASE k = m + 1
      BY <1>1, <1>2, <2>1, <3>2
    <3>3. CASE k > m + 1
      BY <1>1, <1>4, <2>2, <3>3
    <3> QED
      BY <2>2, <3>1, <3>2, <3>3
  <2>5. ASSUME NEW i \in 1..n PROVE top[i].sample # e.sample
    BY <1>1, <1>2, <1>4
  <2>6. ASSUME NEW i \in 1..l, NEW j \in 1..l, i < j
        PROVE  new[i].sample # new[j].sample /\ Worse(new[j], new[i])
    <3>1. CASE j <= m
      <4>1. i <= m
        BY <2>6, <3>1
      <4> QED
        BY <1>5, <2>2, <2>6, <3>1, <4>1
    <3>2. CASE j = m + 1
      <4>1. i <= m
        BY <2>6, <3>2
      <4> QED
        BY <1>9, <2>1, <2>2, <2>5, <3>2, <4>1
    <3>3. CASE j > m + 1
      <4>1. CASE i <= m
        <5>1. i < j - 1
          BY <3>3, <4>1
        <5> QED
          BY <1>5, <2>2, <3>3, <4>1, <5>1
      <4>2. CASE i = m + 1
        BY <1>9, <2>1, <2>2, <2>5, <3>3, <4>2
      <4>3. CASE i > m + 1
        <5>1. i - 1 < j - 1
          BY <2>6
        <5> QED
          BY <1>5, <2>2, <3>3, <4>3, <5>1
      <4> QED
        BY <2>2, <4>1, <4>2, <4>3
    <3> QED
      BY <2>2, <3>1, <3>2, <3>3
  <2>7. Ranked(Entry(scored + 1)) = new
    BY <1>11 DEF e
  <2>8. Len(new) = (IF scored + 1 < 3 THEN scored + 1 ELSE 3)
    BY <2>3 DEF l
  <2>9. \A k \in DOMAIN new :
           new[k].sample \in 1..(scored + 1) /\ new[k] = Entry(new[k].sample)
    BY <2>1, <2>4
  <2>10. \A k, j \in DOMAIN new :
            k < j => new[k].sample # new[j].sample /\ Worse(new[j], new[k])
    BY <2>1, <2>6
  <2>11. Ranks(new, scored + 1)
    BY <2>1, <2>8, <2>9, <2>10 DEF Ranks
  <2> QED
    BY <2>7, <2>11
<1> QED
  BY <1>3, <1>12, <1>13

LEMMA MatcherInvInit ==
    ASSUME MatcherInit PROVE MatcherInv
<1>1. MatcherTypes
  <2>1. enrollment \in Seq(Scans) /\ probe \in Scans
    BY MatcherAssumption DEF MatcherInit, Scans
  <2>2. Len(enrollment) \in Nat
    BY <2>1
  <2> QED
    BY <2>1, <2>2 DEF MatcherInit, MatcherTypes
<1>2. Ranks(top, scored)
  BY DEF MatcherInit, Ranks
<1>3. Decided /\ (Matching \/ scored > 0 => Usable)
  BY DEF MatcherInit, Decided, Matching, None
<1> QED
  BY <1>1, <1>2, <1>3 DEF MatcherInv

LEMMA MatcherCall ==
    ASSUME MatcherInv, NEW view \in Probes, NEW c \in Configs, Call(view, c)
    PROVE  MatcherInv'
<1>1. /\ enrollment' = enrollment /\ probe' = view /\ config' = c /\ scored' = 0 /\ top' = <<>>
      /\ result' = IF ~ConfigValid(c) THEN [status |-> "ARGUMENT"]
                   ELSE IF enrollment = <<>> THEN [status |-> "STATE"]
                   ELSE None
  BY DEF Call
<1>2. c \in Config /\ view \in Scans
  BY MatcherAssumption DEF Scans
<1>3. MatcherTypes'
  <2>1. Len(enrollment) \in Nat
    BY DEF MatcherInv, MatcherTypes
  <2> QED
    BY <1>1, <1>2, <2>1 DEF MatcherInv, MatcherTypes
<1>4. Ranks(top, scored)'
  BY <1>1 DEF Ranks
<1>5. result'.status # "OK"
  BY <1>1 DEF None
<1>6. result' = None => ConfigValid(c) /\ enrollment # <<>>
  BY <1>1 DEF None
<1>7. (Matching \/ scored > 0 => Usable)'
  BY <1>1, <1>2, <1>6 DEF Matching, Usable, ConfigValid
<1> QED
  BY <1>3, <1>4, <1>5, <1>7 DEF MatcherInv, Decided

LEMMA MatcherScore ==
    ASSUME MatcherInv, ScoreSample
    PROVE  MatcherInv'
<1>1. /\ enrollment' = enrollment /\ probe' = probe /\ config' = config
      /\ Matching /\ scored < Len(enrollment)
  BY DEF ScoreSample
<1>2. MatcherTypes /\ Usable /\ Ranks(top, scored) /\ scored \in Nat /\ Len(enrollment) \in Nat
  BY <1>1 DEF MatcherInv, MatcherTypes
<1>3. Usable'
  BY <1>1, <1>2 DEF Usable, ConfigValid
<1>4. CASE /\ top' = Ranked(Entry(scored + 1)) /\ scored' = scored + 1 /\ result' = result
  <2>1. MatcherTypes'
    BY <1>1, <1>2, <1>4 DEF MatcherTypes
  <2>2. Ranks(top', scored')
    BY <1>1, <1>2, <1>4, TopMoves
  <2>3. Ranks(top, scored)'
    BY <1>1, <2>2 DEF Ranks, Entry, Worse, Better
  <2>4. result'.status # "OK"
    BY <1>1, <1>4 DEF Matching, None
  <2> QED
    BY <1>3, <2>1, <2>3, <2>4 DEF MatcherInv, Decided
<1>5. CASE /\ result' = [status |-> "FEATURE"] /\ scored' = scored /\ top' = top
  <2>1. MatcherTypes'
    BY <1>1, <1>2, <1>5 DEF MatcherTypes
  <2>2. Ranks(top, scored)'
    BY <1>1, <1>2, <1>5 DEF Ranks, Entry, Worse, Better
  <2>3. result'.status # "OK"
    BY <1>5
  <2> QED
    BY <1>3, <2>1, <2>2, <2>3 DEF MatcherInv, Decided
<1> QED
  BY <1>4, <1>5 DEF ScoreSample

LEMMA MatcherDecide ==
    ASSUME MatcherInv, Decide
    PROVE  MatcherInv'
<1>1. /\ enrollment' = enrollment /\ probe' = probe /\ config' = config /\ scored' = scored
      /\ top' = top /\ Matching /\ scored = Len(enrollment)
      /\ result' = [status  |-> "OK", score |-> ConsensusScore,
                    matched |-> /\ DecisionValid
                                /\ ConsensusScore >= config.threshold
                                /\ top[1].matched >= config.pairs]
  BY DEF Decide
<1>2. MatcherTypes /\ Usable /\ Ranks(top, scored)
  BY <1>1 DEF MatcherInv
<1>3. MatcherTypes' /\ Usable'
  BY <1>1, <1>2 DEF MatcherTypes, Usable, ConfigValid
<1>4. Ranks(top, scored)'
  BY <1>1, <1>2 DEF Ranks, Entry, Worse, Better
<1>5. Decided'
  <2>1. scored > 0
    <3>1. enrollment \in Seq(Scans) /\ enrollment # <<>>
      BY <1>2 DEF MatcherTypes, Usable
    <3> QED
      BY <1>1, <3>1
  <2>2. DecisionValid' = DecisionValid /\ ConsensusScore' = ConsensusScore
    BY <1>1 DEF DecisionValid, ConsensusScore, Consensus
  <2> QED
    BY <1>1, <2>1, <2>2 DEF Decided
<1> QED
  BY <1>3, <1>4, <1>5 DEF MatcherInv

LEMMA MatcherHolds == MatcherSpec => []MatcherInv
<1>1. MatcherInit => MatcherInv
  BY MatcherInvInit
<1>2. MatcherInv /\ [MatcherNext]_matcherVars => MatcherInv'
  <2> SUFFICES ASSUME MatcherInv, [MatcherNext]_matcherVars PROVE MatcherInv'
    OBVIOUS
  <2>1. CASE \E view \in Probes, c \in Configs : Call(view, c)
    BY <2>1, MatcherCall
  <2>2. CASE ScoreSample
    BY <2>2, MatcherScore
  <2>3. CASE Decide
    BY <2>3, MatcherDecide
  <2>4. CASE UNCHANGED matcherVars
    BY <2>4 DEF matcherVars, MatcherInv, MatcherTypes, Matching, Usable, ConfigValid, Ranks,
                Entry, Worse, Better, Decided, DecisionValid, ConsensusScore, Consensus
  <2> QED
    BY <2>1, <2>2, <2>3, <2>4 DEF MatcherNext
<1> QED
  BY <1>1, <1>2, PTL DEF MatcherSpec

(***************************************************************************)
(* The window that seed_insert keeps over the stream of pairs holds, for   *)
(* any number of records and seeds, the nearest pairs of all, in the order *)
(* of their distances and then of their coming.                            *)
(***************************************************************************)
THEOREM SeedsAreTheNearest == MatcherSpec => []SeedsAreNearest
<1>1. MatcherInv => SeedsAreNearest
  <2> SUFFICES ASSUME MatcherInv, scored > 0
               PROVE  LET template == enrollment[scored]
                          pairs == SimilarPairs(template, probe, config)
                          seeds == Seeds(template, probe, config)
                      IN  /\ Len(seeds) = Min({config.seeds, Cardinality(pairs)})
                          /\ \A i \in DOMAIN seeds :
                                 Cardinality({s \in pairs : Ahead(s, seeds[i])}) = i - 1
    BY DEF SeedsAreNearest
  <2> DEFINE template == enrollment[scored]
             pairs == SimilarPairs(template, probe, config)
             seeds == Seeds(template, probe, config)
  <2>1. template \in Scans /\ probe \in Scans
    BY DEF MatcherInv, MatcherTypes
  <2>2. config \in Config /\ config.seeds > 0 /\ config.seeds \in Nat
    BY UsableBounds DEF MatcherInv, Config
  <2> HIDE DEF template
  <2>3. pairs \in SUBSET SeedKeys /\ IsFiniteSet(pairs)
    BY <2>1, SimilarType, SimilarFinite
  <2>4. Window(seeds, pairs, config.seeds)
    BY <2>1, <2>2, SeedsWindow
  <2> HIDE DEF pairs, seeds
  <2>5. Len(seeds) = Min({config.seeds, Cardinality(pairs)})
    BY <2>2, <2>3, <2>4, WindowCounts
  <2>6. \A i \in DOMAIN seeds : Cardinality({s \in pairs : Ahead(s, seeds[i])}) = i - 1
    BY <2>2, <2>3, <2>4, WindowCounts
  <2> QED
    BY <2>5, <2>6 DEF template, pairs, seeds
<1> QED
  BY <1>1, MatcherHolds, PTL

LEMMA ConsensusOfTwo ==
    ASSUME NEW a \in 0..One, NEW b \in 0..One, NEW t \in 0..One,
           b <= a, (5 * a + 3 * b) \div 8 >= t
    PROVE  a >= t
<1>1. a \in Int /\ b \in Int /\ t \in Int
  BY Scales
<1> QED
  BY <1>1

LEMMA ConsensusOfThree ==
    ASSUME NEW a \in 0..One, NEW b \in 0..One, NEW d \in 0..One, NEW t \in 0..One,
           b <= a, d <= b, (5 * a + 3 * b + 2 * d) \div 10 >= t
    PROVE  a >= t /\ b >= 2 * t - One
<1>1. a \in Int /\ b \in Int /\ d \in Int /\ t \in Int /\ One \in Int /\ a <= One
  BY Scales
<1> QED
  BY <1>1

(***************************************************************************)
(* The decision weighs the best samples, so the best of them reaches the   *)
(* threshold when their mean does; one of three that is worse than twice   *)
(* the threshold less one would pull the mean below it.  Hence no sample   *)
(* alone makes a match, whatever the fingers, thresholds and scales are.   *)
(***************************************************************************)
THEOREM NoSampleDecidesAlone == MatcherSpec => []MatchNeedsTwoSamples
<1>1. MatcherInv => MatchNeedsTwoSamples
  <2> DEFINE own == [i \in DOMAIN enrollment |-> ScoreViews(enrollment[i], probe, config)]
             first == top[1].sample
             second == top[2].sample
             n == Len(top)
             c == config.consensus
  <2> SUFFICES ASSUME MatcherInv, result.status = "OK" /\ result.matched
               PROVE  /\ Len(enrollment) >= config.consensus
                      /\ \E i \in DOMAIN enrollment :
                             /\ own[i].score >= config.threshold
                             /\ own[i].matched >= config.pairs
                             /\ config.consensus = 3 =>
                                    \E j \in DOMAIN enrollment \ {i} :
                                        own[j].score >= 2 * config.threshold - One
    BY DEF MatchNeedsTwoSamples
  <2>1. /\ scored = Len(enrollment) /\ scored > 0 /\ DecisionValid
        /\ ConsensusScore >= config.threshold /\ top[1].matched >= config.pairs
    BY DEF MatcherInv, Decided
  <2>2. Usable /\ Ranks(top, scored)
    BY <2>1 DEF MatcherInv
  <2>3. c \in 1..3 /\ config.threshold \in 0..One
    BY <2>2, UsableBounds
  <2>4. /\ enrollment \in Seq(Scans) /\ scored \in Nat
        /\ DOMAIN enrollment = 1..scored
    BY <2>1 DEF MatcherInv, MatcherTypes
  <2>5. /\ n \in Nat /\ DOMAIN top = 1..n
        /\ \A k \in 1..n : /\ top[k] \in Entries /\ top[k].sample \in 1..scored
                           /\ top[k] = Entry(top[k].sample)
        /\ \A k, l \in 1..n : k < l => top[k].sample # top[l].sample /\ Worse(top[l], top[k])
    <3>1. top \in Seq(Entries)
      BY <2>2 DEF Ranks
    <3>2. n \in Nat /\ DOMAIN top = 1..n /\ \A k \in 1..n : top[k] \in Entries
      BY <3>1
    <3>3. \A k \in DOMAIN top : top[k].sample \in 1..scored /\ top[k] = Entry(top[k].sample)
      BY <2>2 DEF Ranks
    <3>4. \A k, l \in DOMAIN top :
             k < l => top[k].sample # top[l].sample /\ Worse(top[l], top[k])
      BY <2>2 DEF Ranks
    <3> HIDE DEF n
    <3> QED
      BY <3>2, <3>3, <3>4
  <2>6. n = (IF scored < 3 THEN scored ELSE 3)
    BY <2>2 DEF Ranks
  <2> HIDE DEF n, c
  <2>7. Consensus = c
    BY <2>1 DEF DecisionValid, c
  <2>8. c <= n
    <3>1. Min({c, n}) = IF c <= n THEN c ELSE n
      BY <2>3, <2>5, MinOfTwo
    <3> QED
      BY <2>3, <2>5, <2>7, <3>1 DEF Consensus, c, n
  <2>9. Len(enrollment) >= c
    BY <2>1, <2>3, <2>4, <2>5, <2>6, <2>8
  <2>10. ASSUME NEW k \in 1..n
         PROVE  /\ top[k].sample \in DOMAIN enrollment
                /\ own[top[k].sample].score = top[k].score
                /\ own[top[k].sample].matched = top[k].matched
    BY <2>4, <2>5 DEF Entry
  <2>11. ASSUME NEW k \in 1..n PROVE top[k].score \in 0..One
    BY <2>5 DEF Entries
  <2>12. 1 \in 1..n
    BY <2>3, <2>5, <2>8
  <2>13. ASSUME 2 \in 1..n PROVE top[2].score <= top[1].score /\ second # first
    BY <2>5, <2>12, <2>13, WorseOrders
  <2>14. ASSUME 3 \in 1..n PROVE top[3].score <= top[2].score
    <3>1. 2 \in 1..n
      BY <2>5, <2>14
    <3> QED
      BY <2>5, <2>14, <3>1, WorseOrders
  <2> DEFINE Third == c = 3 => top[2].score >= 2 * config.threshold - One
  <2>15. top[1].score >= config.threshold /\ Third
    <3>1. CASE c = 1
      BY <2>1, <2>7, <3>1 DEF ConsensusScore
    <3>2. CASE c = 2
      <4>1. 2 \in 1..n
        BY <2>5, <2>8, <3>2
      <4>2. ConsensusScore = (5 * top[1].score + 3 * top[2].score) \div 8
        BY <2>7, <3>2 DEF ConsensusScore
      <4>3. top[1].score \in 0..One /\ top[2].score \in 0..One /\ top[2].score <= top[1].score
        BY <2>11, <2>12, <2>13, <4>1
      <4>4. (5 * top[1].score + 3 * top[2].score) \div 8 >= config.threshold
        BY <2>1, <4>2
      <4>5. top[1].score >= config.threshold
        BY <2>3, <4>3, <4>4, ConsensusOfTwo
      <4> QED
        BY <3>2, <4>5
    <3>3. CASE c = 3
      <4>1. 2 \in 1..n /\ 3 \in 1..n
        BY <2>5, <2>8, <3>3
      <4>2. ConsensusScore =
              (5 * top[1].score + 3 * top[2].score + 2 * top[3].score) \div 10
        BY <2>7, <3>3 DEF ConsensusScore
      <4>3. /\ top[1].score \in 0..One /\ top[2].score \in 0..One /\ top[3].score \in 0..One
            /\ top[2].score <= top[1].score /\ top[3].score <= top[2].score
        BY <2>11, <2>12, <2>13, <2>14, <4>1
      <4>4. (5 * top[1].score + 3 * top[2].score + 2 * top[3].score) \div 10 >= config.threshold
        BY <2>1, <4>2
      <4> DEFINE x == top[1].score
                 y == top[2].score
                 z == top[3].score
                 t == config.threshold
      <4>5. /\ x \in 0..One /\ y \in 0..One /\ z \in 0..One /\ t \in 0..One
            /\ y <= x /\ z <= y /\ (5 * x + 3 * y + 2 * z) \div 10 >= t
        BY <2>3, <4>3, <4>4
      <4> HIDE DEF x, y, z, t
      <4>6. x >= t /\ y >= 2 * t - One
        BY <4>5, ConsensusOfThree
      <4> QED
        BY <4>6 DEF x, y, t
    <3> QED
      BY <2>3, <3>1, <3>2, <3>3
  <2>16. /\ first \in DOMAIN enrollment /\ own[first].score >= config.threshold
         /\ own[first].matched >= config.pairs
    BY <2>1, <2>10, <2>12, <2>15
  <2>17. ASSUME c = 3
         PROVE  /\ second \in DOMAIN enrollment \ {first}
                /\ own[second].score >= 2 * config.threshold - One
    <3>1. 2 \in 1..n
      BY <2>5, <2>8, <2>17
    <3>2. second \in DOMAIN enrollment /\ own[second].score = top[2].score
      BY <2>10, <3>1
    <3>3. second # first
      BY <2>13, <3>1
    <3>4. top[2].score >= 2 * config.threshold - One
      BY <2>15, <2>17
    <3> QED
      BY <3>2, <3>3, <3>4
  <2> HIDE DEF own, first, second
  <2> QED
    BY <2>9, <2>16, <2>17 DEF c
<1> QED
  BY <1>1, MatcherHolds, PTL

(***************************************************************************)
(* A scan that is a sample moved and turned by quarters gets the perfect   *)
(* score: the pair of the first records is the first seed, it puts every   *)
(* record on its own, and each record takes its own before the greedy      *)
(* pairing can give that one away.                                         *)
(***************************************************************************)
THEOREM MovedFingersArePerfect == MatcherSpec => []MovedFingerIsPerfect
<1>1. MatcherInv => MovedFingerIsPerfect
  <2> SUFFICES ASSUME MatcherInv, scored > 0, IsMoved(enrollment[scored], probe),
                      Len(probe) >= config.pairs
               PROVE  ScoreViews(enrollment[scored], probe, config)
                        = [matched |-> Len(probe), score |-> One]
    BY DEF MovedFingerIsPerfect
  <2>1. enrollment[scored] \in Scans /\ probe \in Scans
    BY DEF MatcherInv, MatcherTypes
  <2>2. /\ config \in Config /\ config.seeds > 0 /\ config.pairs > 0
        /\ config.angle > 0 /\ config.radius > 0
    BY UsableBounds DEF MatcherInv
  <2>3. config.pairs <= Len(probe)
    BY <2>1, <2>2 DEF Scans, Config
  <2> QED
    BY <2>1, <2>2, <2>3, PerfectViews
<1> QED
  BY <1>1, MatcherHolds, PTL

=============================================================================
