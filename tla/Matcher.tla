------------------------------ MODULE Matcher ------------------------------
(***************************************************************************)
(* The matcher: a probe is compared with every sample of an enrollment,    *)
(* the best three samples are kept, and their weighted score decides.      *)
(*                                                                         *)
(* To compare two sets of records, pairs of similar descriptors are taken  *)
(* as seeds.  Each seed is a hypothesis: it lays the template over the     *)
(* probe by the rotation and translation that map one record of the seed   *)
(* to the other, and then pairs records greedily.                          *)
(*                                                                         *)
(* A record has the coordinates, the angle and the class of the code; its  *)
(* descriptor is the set of its bits that are one.  Angles and fixed-point *)
(* scales are constants, the trigonometric table too: the code computes it *)
(* by CORDIC, exactly for multiples of a quarter turn.                     *)
(*                                                                         *)
(* Definitions named ...Mutant are wrong variants of the definition after  *)
(* them, kept to show that the properties notice the difference.           *)
(***************************************************************************)
EXTENDS Integers, Sequences, SequencesExt

CONSTANTS Enrollments,  \* sequences of samples, a sample of records
          Probes,       \* the records of a scan
          Configs,      \* configurations passed to the matcher
          Period,       \* GX_MATCH_ANGLE_PERIOD, a full turn
          Cosine,       \* of -Half..Half, in units of 1 / Unit
          Sine,
          Unit,         \* 1 in Q14
          One,          \* GX_Q16_ONE
          Bits,         \* GX_MATCH_DESCRIPTOR_BITS
          MaxRecords,   \* GX_MATCH_MAX_RECORDS
          MaxSeeds      \* GX_MATCH_MAX_SEEDS

Half == Period \div 2

Record == [x : Nat, y : Nat, angle : Nat, class : Nat, bits : SUBSET (1..Bits)]

Config == [seeds : Nat, radius : Nat, angle : Nat, hamming : Nat, pairs : Nat,
           consensus : Nat, threshold : Nat]

ASSUME MatcherAssumption ==
    /\ Period \in Nat \ {0} /\ Period % 2 = 0
    /\ Cosine \in [-Half..Half -> Int] /\ Sine \in [-Half..Half -> Int]
    /\ {Unit, One, Bits, MaxRecords, MaxSeeds} \subseteq Nat \ {0}
    /\ Enrollments \subseteq Seq(Seq(Record))
    /\ Probes \subseteq Seq(Record)
    /\ Configs \subseteq Config

(***************************************************************************)
(* gx_feature_angle_sincos_q14 is exact for quarter turns.                 *)
(***************************************************************************)
ASSUME QuarterTurns ==
    /\ Cosine[0] = Unit /\ Sine[0] = 0
    /\ \A a \in {Half, -Half} : Cosine[a] = -Unit /\ Sine[a] = 0
    /\ \A a \in 1..Half :
           4 * a = Period => /\ Cosine[a] = 0 /\ Sine[a] = Unit
                             /\ Cosine[-a] = 0 /\ Sine[-a] = -Unit

VARIABLES
    enrollment,  \* the samples of the finger
    probe,       \* the scan that is matched
    config,      \* the configuration of the call
    scored,      \* samples of the call that are scored
    top,         \* the best three of them, the best one first
    result       \* what the latest call returned

matcherVars == <<enrollment, probe, config, scored, top, result>>

None == [status |-> "none"]

MatcherInit ==
    /\ enrollment \in Enrollments
    /\ probe = <<>>
    /\ config = None
    /\ scored = 0
    /\ top = <<>>
    /\ result = None

-----------------------------------------------------------------------------
(* Ordered lists of limited length, for seeds and for samples.             *)

(***************************************************************************)
(* The new element goes behind the last one that stays ahead of it; if the *)
(* list is full, the last one makes room, unless it stays ahead itself.    *)
(***************************************************************************)
Inserted(list, e, room, ahead) ==
    LET kept == IF Len(list) < room THEN list ELSE Front(list)
    IN  IF Len(list) >= room /\ Len(list) \in ahead
        THEN list
        ELSE InsertAt(kept, Max({0} \cup (ahead \cap DOMAIN kept)) + 1, e)

-----------------------------------------------------------------------------
(* One sample against the probe.                                           *)

Hamming(a, b) == Cardinality(SymDiff(a.bits, b.bits))

(***************************************************************************)
(* Both -Half and Half stay what they are.                                 *)
(***************************************************************************)
Normalized(angle) ==
    IF angle > Half THEN Half - ((Half - angle) % Period)
    ELSE IF angle < -Half THEN ((angle + Half) % Period) - Half
    ELSE angle

Magnitude(n) == IF n < 0 THEN -n ELSE n

Ratio(n, d) ==
    IF d = 0 THEN 0 ELSE IF n >= d THEN One ELSE (n * One) \div d

Readable(records) == Len(records) \in 1..MaxRecords

LatestMutant(s, r) == s.hamming <= r.hamming

Nearer(s, r) == s.hamming < r.hamming

Pair(template, scan, i, j) ==
    [t |-> i, p |-> j, hamming |-> Hamming(template[i], scan[j])]

(***************************************************************************)
(* The pairs whose descriptors are similar enough.                         *)
(***************************************************************************)
SimilarPairs(template, scan, c) ==
    {s \in {Pair(template, scan, i, j) : i \in DOMAIN template, j \in DOMAIN scan} :
        s.hamming <= c.hamming}

WithSeed(seeds, s, c) ==
    IF s.hamming <= c.hamming
    THEN Inserted(seeds, s, c.seeds, {i \in DOMAIN seeds : ~Nearer(s, seeds[i])})
    ELSE seeds

(***************************************************************************)
(* The seeds after record i of the template has met every record of the    *)
(* scan, and after all of its records have.                                *)
(***************************************************************************)
RowOfSeeds(template, scan, c, seeds, i) ==
    LET row[j \in 0..Len(scan)] ==
          IF j = 0 THEN seeds ELSE WithSeed(row[j - 1], Pair(template, scan, i, j), c)
    IN  row[Len(scan)]

Seeds(template, scan, c) ==
    LET rows[i \in 0..Len(template)] ==
          IF i = 0 THEN <<>> ELSE RowOfSeeds(template, scan, c, rows[i - 1], i)
    IN  rows[Len(template)]

BackwardsMutant(r, from, to, turn) ==
    LET dx == r.x - from.x
        dy == r.y - from.y
    IN  [x |-> to.x + (dx * Cosine[turn] + dy * Sine[turn]) \div Unit,
         y |-> to.y + (dy * Cosine[turn] - dx * Sine[turn]) \div Unit]

(***************************************************************************)
(* Where the turn around the seed's first record puts record r.            *)
(***************************************************************************)
Laid(r, from, to, turn) ==
    LET dx == r.x - from.x
        dy == r.y - from.y
    IN  [x |-> to.x + (dx * Cosine[turn] - dy * Sine[turn]) \div Unit,
         y |-> to.y + (dx * Sine[turn] + dy * Cosine[turn]) \div Unit]

SameClass(a, b) == a.class % 256 = b.class % 256 \/ a.class = 0 \/ b.class = 0

SquaredDistance(a, b) == (a.x - b.x) * (a.x - b.x) + (a.y - b.y) * (a.y - b.y)

AngleError(r, q, turn) == Magnitude(Normalized(q.angle - r.angle - turn))

PairScore(pair) == (7 * pair.descriptor + 2 * pair.spatial + pair.angle) \div 10

(***************************************************************************)
(* What the free records of the probe have in common with record r of the  *)
(* template, which the hypothesis puts at the place "at".                  *)
(***************************************************************************)
Candidates(r, at, turn, scan, used, c) ==
    {[probe      |-> p,
      descriptor |-> Ratio(Bits - Hamming(r, scan[p]), Bits),
      spatial    |-> One - Ratio(SquaredDistance(scan[p], at), c.radius * c.radius),
      angle      |-> One - Ratio(AngleError(r, scan[p], turn), c.angle)] :
        p \in {q \in DOMAIN scan \ used :
                 /\ SquaredDistance(scan[q], at) <= c.radius * c.radius
                 /\ AngleError(r, scan[q], turn) <= c.angle
                 /\ SameClass(r, scan[q])
                 /\ Hamming(r, scan[q]) <= c.hamming}}

(***************************************************************************)
(* None or one of them: the first one with the highest score.              *)
(***************************************************************************)
BestOf(pairs) ==
    {b \in pairs :
        /\ PairScore(b) > 0
        /\ \A r \in pairs :
               \/ PairScore(b) > PairScore(r)
               \/ PairScore(b) = PairScore(r) /\ b.probe <= r.probe}

(***************************************************************************)
(* The records paired so far: which ones of the probe, how many, and their *)
(* similarities added up.                                                  *)
(***************************************************************************)
NoPairs == [used |-> {}, matched |-> 0, descriptor |-> 0, spatial |-> 0, angle |-> 0]

OneMore(pairs, b) ==
    [used       |-> pairs.used \cup {b.probe},
     matched    |-> pairs.matched + 1,
     descriptor |-> pairs.descriptor + b.descriptor,
     spatial    |-> pairs.spatial + b.spatial,
     angle      |-> pairs.angle + b.angle]

WithRecord(pairs, best) ==
    IF best = {} THEN pairs ELSE OneMore(pairs, CHOOSE b \in best : TRUE)

Paired(pairs, r, scan, c, from, to, turn) ==
    WithRecord(pairs, BestOf(Candidates(r, Laid(r, from, to, turn), turn, scan,
                                        pairs.used, c)))

(***************************************************************************)
(* When "from" lies on "to", each record of the template, in its order,    *)
(* takes the probe's best free record near it.                             *)
(***************************************************************************)
Pairing(template, scan, c, from, to, turn) ==
    LET pairs[i \in 0..Len(template)] ==
          IF i = 0 THEN NoPairs
          ELSE Paired(pairs[i - 1], template[i], scan, c, from, to, turn)
    IN  pairs[Len(template)]

Weighed(pairs, most, c) ==
    LET Mean(total) == total \div pairs.matched
    IN  [matched |-> pairs.matched,
         score |-> IF pairs.matched < c.pairs THEN 0
                   ELSE (65 * Mean(pairs.descriptor) + 15 * Mean(pairs.spatial)
                            + 10 * Mean(pairs.angle) + 10 * Ratio(pairs.matched, most))
                        \div 100]

Hypothesis(template, scan, c, seed) ==
    LET from == template[seed.t]
        to == scan[seed.p]
    IN  Weighed(Pairing(template, scan, c, from, to,
                        Normalized(to.angle - from.angle)),
                Min({Len(template), Len(scan)}), c)

Better(a, b) ==
    \/ a.score > b.score
    \/ a.score = b.score /\ a.matched > b.matched

BetterOf(best, candidate) == IF Better(candidate, best) THEN candidate ELSE best

(***************************************************************************)
(* The best hypothesis, and of equal ones the first.                       *)
(***************************************************************************)
ScoreViews(template, scan, c) ==
    LET seeds == Seeds(template, scan, c)
        best[k \in 0..Len(seeds)] ==
          IF k = 0 THEN [matched |-> 0, score |-> 0]
          ELSE BetterOf(best[k - 1], Hypothesis(template, scan, c, seeds[k]))
    IN  best[Len(seeds)]

-----------------------------------------------------------------------------
(* The enrollment against the probe.                                       *)

ConfigValid(c) ==
    /\ c.seeds \in 1..MaxSeeds
    /\ c.radius > 0
    /\ c.angle \in 1..Half
    /\ c.hamming \in 0..Bits
    /\ c.pairs \in 1..MaxRecords
    /\ c.consensus \in 1..3
    /\ c.threshold \in 0..One

Matching == config # None /\ result = None

(***************************************************************************)
(* A call of gx5125_matcher_score_enrollment.                              *)
(***************************************************************************)
Call(scan, c) ==
    /\ ~Matching
    /\ probe' = scan
    /\ config' = c
    /\ scored' = 0
    /\ top' = <<>>
    /\ result' = IF ~ConfigValid(c) THEN [status |-> "ARGUMENT"]
                 ELSE IF enrollment = <<>> THEN [status |-> "STATE"]
                 ELSE None
    /\ UNCHANGED enrollment

Ranked(entry) ==
    Inserted(top, entry, 3, {i \in DOMAIN top : ~Better(entry, top[i])})

Entry(i) ==
    LET view == ScoreViews(enrollment[i], probe, config)
    IN  [sample |-> i, matched |-> view.matched, score |-> view.score]

ScoreSample ==
    /\ Matching
    /\ scored < Len(enrollment)
    /\ IF Readable(enrollment[scored + 1]) /\ Readable(probe)
       THEN /\ top' = Ranked(Entry(scored + 1))
            /\ scored' = scored + 1
            /\ UNCHANGED result
       ELSE /\ result' = [status |-> "FEATURE"]
            /\ UNCHANGED <<scored, top>>
    /\ UNCHANGED <<enrollment, probe, config>>

Consensus == Min({config.consensus, Len(top)})

ConsensusScore ==
    CASE Consensus = 1 -> top[1].score
      [] Consensus = 2 -> (5 * top[1].score + 3 * top[2].score) \div 8
      [] Consensus = 3 -> (5 * top[1].score + 3 * top[2].score + 2 * top[3].score) \div 10

AnyConsensusMutant == config.threshold # 0

DecisionValid == config.threshold # 0 /\ Consensus = config.consensus

Decide ==
    /\ Matching
    /\ scored = Len(enrollment)
    /\ result' = [status  |-> "OK",
                  score   |-> ConsensusScore,
                  matched |-> /\ DecisionValid
                              /\ ConsensusScore >= config.threshold
                              /\ top[1].matched >= config.pairs]
    /\ UNCHANGED <<enrollment, probe, config, scored, top>>

MatcherNext ==
    \/ \E scan \in Probes, c \in Configs : Call(scan, c)
    \/ ScoreSample
    \/ Decide

MatcherSpec == MatcherInit /\ [][MatcherNext]_matcherVars

-----------------------------------------------------------------------------
(* Properties.                                                             *)

(***************************************************************************)
(* Smaller distances go first, and of equal ones those met first.          *)
(***************************************************************************)
Ahead(a, b) ==
    \/ a.hamming < b.hamming
    \/ a.hamming = b.hamming /\ a.t < b.t
    \/ a.hamming = b.hamming /\ a.t = b.t /\ a.p < b.p

(***************************************************************************)
(* The seeds are the pairs with the smallest distances, as many as there   *)
(* is room for, and of equal ones those that come first: seed_insert keeps *)
(* a sorted window over a stream, and a pair it drops too early or shifts  *)
(* past its equals costs the matcher its best hypothesis.                  *)
(***************************************************************************)
SeedsAreNearest ==
    scored > 0 =>
        LET template == enrollment[scored]
            pairs == SimilarPairs(template, probe, config)
            seeds == Seeds(template, probe, config)
        IN  /\ Len(seeds) = Min({config.seeds, Cardinality(pairs)})
            /\ \A i \in DOMAIN seeds :
                   Cardinality({s \in pairs : Ahead(s, seeds[i])}) = i - 1

(***************************************************************************)
(* The scan is the sample, moved and turned by quarters.                   *)
(***************************************************************************)
Quarters(q, dx, dy) ==
    CASE q = 2         -> <<-dx, -dy>>
      [] q = -1        -> <<dy, -dx>>
      [] q = 0         -> <<dx, dy>>
      [] q = 1         -> <<-dy, dx>>

IsMoved(template, scan) ==
    /\ Len(scan) = Len(template)
    /\ \E q \in -1..2 : \A i \in DOMAIN scan :
           /\ scan[i].bits = template[i].bits
           /\ scan[i].class = template[i].class
           /\ (4 * (scan[i].angle - template[i].angle) - q * Period)
                  % (4 * Period) = 0
           /\ <<scan[i].x - scan[1].x, scan[i].y - scan[1].y>>
                  = Quarters(q, template[i].x - template[1].x,
                                template[i].y - template[1].y)

(***************************************************************************)
(* A finger that is only moved and turned on the sensor gets the perfect   *)
(* score, wherever the turn leads angles past the full circle, however few *)
(* seeds are kept, and although records are paired greedily (the self-test *)
(* of gx_matcher.c tries one such motion).                                 *)
(***************************************************************************)
MovedFingerIsPerfect ==
    scored > 0 /\ IsMoved(enrollment[scored], probe)
            /\ Len(probe) >= config.pairs =>
        ScoreViews(enrollment[scored], probe, config)
            = [matched |-> Len(probe), score |-> One]

(***************************************************************************)
(* A positive decision is never one sample's: with the consensus of three  *)
(* that the driver uses, one sample reaches the threshold by itself and    *)
(* another one comes as close as twice the threshold less one (31250 of    *)
(* 65536 for the driver's 48393).  An enrollment with fewer samples than   *)
(* the configured consensus never matches.                                 *)
(***************************************************************************)
MatchNeedsTwoSamples ==
    result.status = "OK" /\ result.matched =>
        LET own == [i \in DOMAIN enrollment |-> ScoreViews(enrollment[i], probe, config)]
        IN  /\ Len(enrollment) >= config.consensus
            /\ \E i \in DOMAIN enrollment :
                   /\ own[i].score >= config.threshold
                   /\ own[i].matched >= config.pairs
                   /\ config.consensus = 3 =>
                          \E j \in DOMAIN enrollment \ {i} :
                              own[j].score >= 2 * config.threshold - One
=============================================================================
