-------------------------- MODULE EnrollmentProofs --------------------------
(***************************************************************************)
(* Theorems about the enrollment engine, for any features, similarities,   *)
(* limits and number of samples.  The sum of the samples' records is a     *)
(* recursion, so what it does with one more sample is proved by induction. *)
(***************************************************************************)
EXTENDS Enrollment, WellFoundedInduction, TLAPS

(***************************************************************************)
(* The inductive invariant: what holds of the samples in memory holds of   *)
(* those on disk, which a reload brings back.                              *)
(***************************************************************************)
QualifyInv ==
    /\ SamplesQualify
    /\ file # NoFile => Qualified(file.config, file.samples)

PairsInv ==
    /\ PairsFit(samples, totals)
    /\ file # NoFile => PairsFit(file.samples, file.totals)

ExtremaInv ==
    /\ samples # <<>> => ExtremaFit(samples, totals)
    /\ file # NoFile => file.samples # <<>> /\ ExtremaFit(file.samples, file.totals)

-----------------------------------------------------------------------------
(* Types.                                                                  *)

LEMMA ConstantTypes ==
    /\ One \in Nat
    /\ \A f \in Features : RecordCount[f] \in Nat
    /\ \A f, g \in Features : Similarity[<<f, g>>] \in 0..One
    /\ Qualities \subseteq Nat
    /\ Coverages \subseteq Nat
BY EnrollmentAssumption

LEMMA ConfigType == Configs \subseteq Config
BY EnrollmentAssumption

LEMMA NoSamplesType == <<>> \in Seq(Sample) /\ Len(<<>>) = 0
OBVIOUS

LEMMA NoTotalsType == NoTotals \in Totals
BY ConstantTypes DEF NoTotals, Totals

LEMMA NoFileIsNoTemplate == NoFile \notin Template
BY DEF NoFile, Template

(***************************************************************************)
(* The statistics of one more sample are statistics.                       *)
(***************************************************************************)
LEMMA ExtendedType ==
    ASSUME TypeOK, NEW f \in Features, NEW q \in Qualities,
           NEW c \in Coverages, NEW best \in 0..One
    PROVE  Extended(f, q, c, best) \in Totals
<1>1. /\ RecordCount[f] \in Nat
      /\ q \in Nat
      /\ c \in Nat
      /\ best \in Nat
      /\ One - best \in 0..One
  BY ConstantTypes
<1> totals \in Totals
  BY DEF TypeOK
<1>2. CASE samples = <<>>
  BY <1>1, <1>2 DEF Extended, Totals
<1>3. CASE samples # <<>>
  BY <1>1, <1>3 DEF Extended, Totals, Lesser, Greater
<1> QED
  BY <1>2, <1>3

LEMMA SimilaritiesType ==
    ASSUME TypeOK, NEW f \in Features
    PROVE  Similarities(f) \subseteq 0..One
<1>1. \A i \in DOMAIN samples : samples[i] \in Sample
  BY DEF TypeOK
<1>2. \A i \in DOMAIN samples :
         Similarity[<<samples[i].feature, f>>] \in 0..One
  BY <1>1, ConstantTypes DEF Sample
<1>3. 0 \in 0..One
  BY ConstantTypes
<1> QED
  BY <1>2, <1>3 DEF Similarities

LEMMA TypeInit == Init => TypeOK
BY NoTotalsType, NoSamplesType, ConfigType DEF Init, TypeOK

LEMMA TypeAccept ==
    ASSUME TypeOK, enrolling, NEW f \in Features, NEW q \in Qualities,
           NEW c \in Coverages, ~Complete, Accept(f, q, c)
    PROVE  TypeOK'
<1>1. PICK best \in Similarities(f) : totals' = Extended(f, q, c, best)
  BY DEF Accept
<1>2. totals' \in Totals
  BY <1>1, SimilaritiesType, ExtendedType
<1>3. /\ samples' \in Seq(Sample)
      /\ Len(samples') = Len(samples) + 1
  <2>1. [feature |-> f, quality |-> q, coverage |-> c] \in Sample
    BY DEF Sample
  <2> QED
    BY <2>1 DEF Accept, TypeOK
<1>4. Len(samples') <= config'.target
  BY <1>3 DEF Accept, Complete, TypeOK, Config
<1> QED
  BY <1>2, <1>3, <1>4 DEF Accept, TypeOK

LEMMA TypeStep == TypeOK /\ [Next]_vars => TypeOK'
<1> SUFFICES ASSUME TypeOK, [Next]_vars
             PROVE  TypeOK'
  OBVIOUS
<1>1. ASSUME NEW c \in Configs, Create(c)
      PROVE  TypeOK'
  <2>1. config' \in Config
    BY <1>1, ConfigType DEF Create, TypeOK
  <2>2. Len(samples') = 0
    BY <1>1, NoSamplesType DEF Create, TypeOK
  <2>3. Len(samples') <= config'.target
    BY <2>1, <2>2 DEF Config
  <2> QED
    BY <1>1, <2>1, <2>3, NoTotalsType DEF Create, TypeOK
<1>2. CASE Reset
  <2>1. Len(samples') <= config'.target
    BY <1>2, NoSamplesType DEF Reset, TypeOK, Config
  <2> QED
    BY <1>2, <2>1, NoTotalsType, NoSamplesType DEF Reset, TypeOK
<1>3. CASE Destroy
  BY <1>3, NoTotalsType, NoSamplesType DEF Destroy, TypeOK
<1>4. ASSUME NEW f \in Features, NEW q \in Qualities, NEW c \in Coverages,
             Submit(f, q, c)
      PROVE  TypeOK'
  <2>1. CASE Accept(f, q, c) /\ Decision(f, q, c) = "ACCEPTED"
    <3>1. ~Complete
      BY <2>1 DEF Decision
    <3> QED
      BY <1>4, <2>1, <3>1, TypeAccept DEF Submit
  <2>2. ASSUME NEW reason \in {"MEMORY"} \cup Refusals, Refuse(reason)
        PROVE  TypeOK'
    BY <2>2 DEF Refuse, TypeOK
  <2>3. Decision(f, q, c) \in {"ACCEPTED"} \cup Refusals
    BY DEF Decision, Refusals
  <2> QED
    BY <1>4, <2>1, <2>2, <2>3 DEF Submit
<1>5. CASE Serialize
  BY <1>5 DEF Serialize, TypeOK, Template
<1>6. ASSUME NEW part \in {"header", "body"}, Damage(part)
      PROVE  TypeOK'
  BY <1>6, NoFileIsNoTemplate DEF Damage, TypeOK, Template
<1>7. CASE Deserialize
  <2>1. file \in Template
    BY <1>7 DEF Deserialize, TypeOK
  <2>2. CASE Fault(file) = "none" /\ enrolling'
    <3>1. Len(file.samples) = file.config.target
      BY <2>2 DEF Fault
    <3>2. /\ config' = file.config /\ samples' = file.samples
          /\ totals' = file.totals /\ result' = "OK" /\ file' = file
      BY <1>7, <2>2 DEF Deserialize
    <3>3. /\ file.config \in Config /\ file.samples \in Seq(Sample)
          /\ file.totals \in Totals
      BY <2>1 DEF Template
    <3>4. Len(samples') <= config'.target
      BY <3>1, <3>2, <3>3 DEF Config
    <3> QED
      BY <2>2, <3>2, <3>3, <3>4 DEF TypeOK
  <2>3. CASE UNCHANGED <<enrolling, config, samples, totals>>
    <3>1. Fault(file) \in {"none", "FORMAT", "INTEGRITY"}
      BY DEF Fault
    <3> QED
      BY <1>7, <2>3, <3>1 DEF Deserialize, TypeOK
  <2> QED
    BY <1>7, <2>2, <2>3 DEF Deserialize
<1>8. CASE UNCHANGED vars
  BY <1>8 DEF vars, TypeOK
<1> QED
  BY <1>1, <1>2, <1>3, <1>4, <1>5, <1>6, <1>7, <1>8 DEF Next

(***************************************************************************)
(* The engine's variables keep their types; in particular an enrollment    *)
(* never has more samples than its target.                                 *)
(***************************************************************************)
THEOREM TypeCorrect == Spec => []TypeOK
BY TypeInit, TypeStep, PTL DEF Spec

-----------------------------------------------------------------------------
(* Limits and duplicates.                                                  *)

LEMMA AppendQualified ==
    ASSUME NEW c, NEW s \in Seq(Sample), NEW x \in Sample,
           Qualified(c, s),
           x.quality >= c.quality,
           x.coverage >= c.coverage,
           RecordCount[x.feature] >= c.records,
           \A i \in DOMAIN s : s[i].feature # x.feature
    PROVE  Qualified(c, Append(s, x))
<1> DEFINE t == Append(s, x)
<1>1. /\ DOMAIN t = 1..(Len(s) + 1)
      /\ DOMAIN s = 1..Len(s)
      /\ Len(s) \in Nat
      /\ \A i \in DOMAIN s : t[i] = s[i]
      /\ t[Len(s) + 1] = x
  OBVIOUS
<1>2. \A i \in DOMAIN t : i \in DOMAIN s \/ i = Len(s) + 1
  BY <1>1
<1> HIDE DEF t
<1>3. \A i \in DOMAIN t : /\ t[i].quality >= c.quality
                          /\ t[i].coverage >= c.coverage
                          /\ RecordCount[t[i].feature] >= c.records
  BY <1>1, <1>2 DEF Qualified
<1>4. ASSUME NEW i \in DOMAIN t, NEW j \in DOMAIN t, t[i].feature = t[j].feature
      PROVE  i = j
  BY <1>1, <1>2, <1>4 DEF Qualified
<1>5. Qualified(c, t)
  BY <1>3, <1>4 DEF Qualified
<1> QED
  BY <1>5 DEF t

LEMMA EmptyQualified == \A c : Qualified(c, <<>>)
BY DEF Qualified

LEMMA QualifyInit == Init => QualifyInv
BY EmptyQualified DEF Init, QualifyInv, SamplesQualify

LEMMA QualifyStep == TypeOK /\ QualifyInv /\ [Next]_vars => QualifyInv'
<1> SUFFICES ASSUME TypeOK, QualifyInv, [Next]_vars
             PROVE  QualifyInv'
  OBVIOUS
<1> USE DEF QualifyInv, SamplesQualify
<1>1. ASSUME NEW c \in Configs, Create(c)
      PROVE  QualifyInv'
  BY <1>1, EmptyQualified DEF Create, TypeOK
<1>2. CASE Reset
  BY <1>2, EmptyQualified DEF Reset
<1>3. CASE Destroy
  BY <1>3, EmptyQualified DEF Destroy
<1>4. ASSUME NEW f \in Features, NEW q \in Qualities, NEW c \in Coverages,
             Submit(f, q, c)
      PROVE  QualifyInv'
  <2>1. CASE Accept(f, q, c) /\ Decision(f, q, c) = "ACCEPTED"
    <3> DEFINE x == [feature |-> f, quality |-> q, coverage |-> c]
    <3>1. /\ ~(q < config.quality) /\ ~(c < config.coverage)
          /\ ~(RecordCount[f] < config.records) /\ ~Duplicate(f)
      BY <2>1 DEF Decision
    <3>2. /\ q \in Nat /\ c \in Nat /\ RecordCount[f] \in Nat
          /\ config.quality \in Nat /\ config.coverage \in Nat
          /\ config.records \in Nat
      BY ConstantTypes DEF TypeOK, Config
    <3>3. /\ x.quality >= config.quality
          /\ x.coverage >= config.coverage
          /\ RecordCount[x.feature] >= config.records
      BY <3>1, <3>2
    <3>4. \A i \in DOMAIN samples : samples[i].feature # x.feature
      BY <3>1 DEF Duplicate
    <3>5. samples \in Seq(Sample) /\ x \in Sample
      BY DEF TypeOK, Sample
    <3> HIDE DEF x
    <3>6. Qualified(config, Append(samples, x))
      BY <3>3, <3>4, <3>5, AppendQualified
    <3> QED
      BY <2>1, <3>6 DEF Accept, x
  <2>2. ASSUME NEW reason, Refuse(reason)
        PROVE  QualifyInv'
    BY <2>2 DEF Refuse
  <2> QED
    BY <1>4, <2>1, <2>2 DEF Submit
<1>5. CASE Serialize
  BY <1>5 DEF Serialize
<1>6. ASSUME NEW part \in {"header", "body"}, Damage(part)
      PROVE  QualifyInv'
  BY <1>6 DEF Damage, TypeOK, Template
<1>7. CASE Deserialize
  BY <1>7 DEF Deserialize
<1>8. CASE UNCHANGED vars
  BY <1>8 DEF vars
<1> QED
  BY <1>1, <1>2, <1>3, <1>4, <1>5, <1>6, <1>7, <1>8 DEF Next

(***************************************************************************)
(* Whatever was submitted, refused, reset, stored and read back: every     *)
(* sample meets the limits of its enrollment and no scan is there twice.   *)
(***************************************************************************)
THEOREM SamplesAlwaysQualify == Spec => []SamplesQualify
<1>1. Init => TypeOK /\ QualifyInv
  BY TypeInit, QualifyInit
<1>2. (TypeOK /\ QualifyInv) /\ [Next]_vars => (TypeOK /\ QualifyInv)'
  BY TypeStep, QualifyStep
<1>3. QualifyInv => SamplesQualify
  BY DEF QualifyInv
<1> QED
  BY <1>1, <1>2, <1>3, PTL DEF Spec

-----------------------------------------------------------------------------
(* The closest pair.                                                       *)

LEMMA AppendPairs ==
    ASSUME NEW s \in Seq(Sample), NEW x \in Sample
    PROVE  PairSimilarities(Append(s, x)) =
             PairSimilarities(s) \cup
             {Similarity[<<s[i].feature, x.feature>>] : i \in DOMAIN s}
<1> DEFINE t    == Append(s, x)
           new  == {Similarity[<<s[i].feature, x.feature>>] : i \in DOMAIN s}
           sim(u, i, j) == Similarity[<<u[i].feature, u[j].feature>>]
<1>1. /\ DOMAIN t = 1..(Len(s) + 1)
      /\ DOMAIN s = 1..Len(s)
      /\ Len(s) \in Nat
      /\ \A i \in DOMAIN s : t[i] = s[i]
      /\ t[Len(s) + 1] = x
  OBVIOUS
<1> HIDE DEF t
<1>2. \A u, v : v \in PairSimilarities(u) <=>
        \E j \in DOMAIN u : \E i \in 1..(j - 1) : v = sim(u, i, j)
  BY DEF PairSimilarities
<1>3. ASSUME NEW v \in PairSimilarities(t)
      PROVE  v \in PairSimilarities(s) \cup new
  <2>0. PICK j \in DOMAIN t : \E i \in 1..(j - 1) : v = sim(t, i, j)
    BY <1>2, <1>3
  <2>1. PICK i \in 1..(j - 1) : v = sim(t, i, j)
    BY <2>0
  <2>2. CASE j \in DOMAIN s
    <3>1. i \in DOMAIN s
      BY <1>1, <2>1, <2>2
    <3>2. v = sim(s, i, j)
      BY <1>1, <2>1, <2>2, <3>1
    <3> QED
      BY <1>2, <2>1, <2>2, <3>1, <3>2
  <2>3. CASE j = Len(s) + 1
    <3>1. i \in DOMAIN s
      BY <1>1, <2>1, <2>3
    <3>2. v = Similarity[<<s[i].feature, x.feature>>]
      BY <1>1, <2>1, <2>3, <3>1
    <3> QED
      BY <3>1, <3>2
  <2>4. j \in DOMAIN s \/ j = Len(s) + 1
    BY <1>1
  <2> QED
    BY <2>2, <2>3, <2>4
<1>4. ASSUME NEW v \in PairSimilarities(s)
      PROVE  v \in PairSimilarities(t)
  <2>0. PICK j \in DOMAIN s : \E i \in 1..(j - 1) : v = sim(s, i, j)
    BY <1>2, <1>4
  <2>1. PICK i \in 1..(j - 1) : v = sim(s, i, j)
    BY <2>0
  <2>2. j \in DOMAIN t
    BY <1>1
  <2>3. i \in DOMAIN s
    BY <1>1, <2>1
  <2>4. t[i] = s[i] /\ t[j] = s[j]
    BY <1>1, <2>3
  <2>5. v = sim(t, i, j)
    BY <2>1, <2>4
  <2> QED
    BY <1>2, <2>1, <2>2, <2>5
<1>5. ASSUME NEW v \in new
      PROVE  v \in PairSimilarities(t)
  <2>1. PICK i \in DOMAIN s : v = Similarity[<<s[i].feature, x.feature>>]
    BY <1>5
  <2>2. /\ i \in 1..((Len(s) + 1) - 1) /\ Len(s) + 1 \in DOMAIN t
        /\ v = sim(t, i, Len(s) + 1)
    BY <1>1, <2>1
  <2> QED
    BY <1>2, <2>2
<1>6. PairSimilarities(t) = PairSimilarities(s) \cup new
  BY <1>3, <1>4, <1>5
<1> QED
  BY <1>6 DEF t

LEMMA EmptyPairs == PairsFit(<<>>, NoTotals)
<1>1. PairSimilarities(<<>>) = {}
  BY DEF PairSimilarities
<1> QED
  BY <1>1, ConstantTypes DEF PairsFit, IsGreatest, NoTotals

(***************************************************************************)
(* The greatest of a union is the greater of the greatest.                 *)
(***************************************************************************)
LEMMA GreatestOfUnion ==
    ASSUME NEW A \in SUBSET Nat, NEW B \in SUBSET Nat, NEW a, NEW b,
           IsGreatest(a, A), IsGreatest(b, B)
    PROVE  IsGreatest(Greater(a, b), A \cup B)
BY DEF IsGreatest, Greater

LEMMA ComplementOfGreater ==
    ASSUME NEW a \in 0..One, NEW b \in 0..One
    PROVE  Lesser(One - a, One - b) = One - Greater(a, b)
BY ConstantTypes DEF Lesser, Greater

LEMMA PairsType ==
    ASSUME NEW s \in Seq(Sample)
    PROVE  PairSimilarities(s) \subseteq 0..One
<1>1. ASSUME NEW j \in DOMAIN s, NEW i \in 1..(j - 1)
      PROVE  Similarity[<<s[i].feature, s[j].feature>>] \in 0..One
  <2>1. s[i] \in Sample /\ s[j] \in Sample
    OBVIOUS
  <2> QED
    BY <2>1, ConstantTypes DEF Sample
<1>2. ASSUME NEW v \in PairSimilarities(s)
      PROVE  v \in 0..One
  <2>1. PICK j \in DOMAIN s : \E i \in 1..(j - 1) :
                v = Similarity[<<s[i].feature, s[j].feature>>]
    BY <1>2 DEF PairSimilarities
  <2> QED
    BY <1>1, <2>1
<1> QED
  BY <1>2

LEMMA PairsAccept ==
    ASSUME TypeOK, PairsFit(samples, totals),
           NEW f \in Features, NEW q \in Qualities, NEW c \in Coverages,
           Accept(f, q, c)
    PROVE  PairsFit(samples', totals')
<1> DEFINE x   == [feature |-> f, quality |-> q, coverage |-> c]
           old == PairSimilarities(samples)
           new == {Similarity[<<samples[i].feature, f>>] : i \in DOMAIN samples}
<1>1. PICK best \in Similarities(f) :
         /\ \A s \in Similarities(f) : s <= best
         /\ totals' = Extended(f, q, c, best)
  BY DEF Accept
<1>2. IsGreatest(best, new \cup {0})
  BY <1>1 DEF IsGreatest, Similarities
<1>3. PairSimilarities(samples') = old \cup new
  <2>1. samples \in Seq(Sample) /\ x \in Sample /\ x.feature = f
    BY DEF TypeOK, Sample
  <2>2. samples' = Append(samples, x)
    BY DEF Accept
  <2> HIDE DEF x
  <2>3. PairSimilarities(samples') =
          old \cup {Similarity[<<samples[i].feature, x.feature>>] :
                      i \in DOMAIN samples}
    BY <2>1, <2>2, AppendPairs
  <2> QED
    BY <2>1, <2>3
<1>4. /\ old \cup {0} \subseteq Nat /\ new \cup {0} \subseteq Nat
      /\ best \in 0..One /\ totals.maxSimilarity \in 0..One
  <2>1. old \subseteq 0..One
    BY PairsType DEF TypeOK
  <2>2. Similarities(f) \subseteq 0..One
    BY SimilaritiesType
  <2>3. new \cup {0} = Similarities(f)
    BY DEF Similarities
  <2>4. totals.maxSimilarity \in 0..One
    BY DEF TypeOK, Totals
  <2>5. 0..One \subseteq Nat /\ 0 \in 0..One
    BY ConstantTypes
  <2> QED
    BY <1>1, <2>1, <2>2, <2>3, <2>4, <2>5
<1>5. /\ IsGreatest(totals.maxSimilarity, old \cup {0})
      /\ totals.minNovelty = One - totals.maxSimilarity
  BY DEF PairsFit
<1>6. CASE samples = <<>>
  <2>1. new = {} /\ totals'.maxSimilarity = totals.maxSimilarity
                 /\ totals'.minNovelty = totals.minNovelty
    BY <1>1, <1>6 DEF Extended
  <2>2. PairSimilarities(samples') = old
    BY <1>3, <2>1
  <2> QED
    BY <1>5, <2>1, <2>2 DEF PairsFit
<1>7. CASE samples # <<>>
  <2>1. /\ totals'.maxSimilarity = Greater(totals.maxSimilarity, best)
        /\ totals'.minNovelty = Lesser(totals.minNovelty, One - best)
    BY <1>1, <1>7 DEF Extended
  <2>2. IsGreatest(totals'.maxSimilarity, (old \cup {0}) \cup (new \cup {0}))
    <3> HIDE DEF old, new
    <3> QED
      BY <1>2, <1>4, <1>5, <2>1, GreatestOfUnion
  <2>3. (old \cup {0}) \cup (new \cup {0}) = PairSimilarities(samples') \cup {0}
    BY <1>3
  <2>4. totals'.minNovelty = One - totals'.maxSimilarity
    BY <1>4, <1>5, <2>1, ComplementOfGreater
  <2> QED
    BY <2>2, <2>3, <2>4 DEF PairsFit
<1> QED
  BY <1>6, <1>7

LEMMA PairsStep == TypeOK /\ PairsInv /\ [Next]_vars => PairsInv'
<1> SUFFICES ASSUME TypeOK, PairsInv, [Next]_vars
             PROVE  PairsInv'
  OBVIOUS
<1> USE DEF PairsInv
<1>1. ASSUME NEW c \in Configs, Create(c)
      PROVE  PairsInv'
  BY <1>1, EmptyPairs DEF Create, TypeOK
<1>2. CASE Reset
  BY <1>2, EmptyPairs DEF Reset
<1>3. CASE Destroy
  BY <1>3, EmptyPairs DEF Destroy
<1>4. ASSUME NEW f \in Features, NEW q \in Qualities, NEW c \in Coverages,
             Submit(f, q, c)
      PROVE  PairsInv'
  <2>1. CASE Accept(f, q, c)
    <3>1. file' = file
      BY <2>1 DEF Accept
    <3> QED
      BY <2>1, <3>1, PairsAccept
  <2>2. ASSUME NEW reason, Refuse(reason)
        PROVE  PairsInv'
    BY <2>2 DEF Refuse
  <2> QED
    BY <1>4, <2>1, <2>2 DEF Submit
<1>5. CASE Serialize
  BY <1>5 DEF Serialize
<1>6. ASSUME NEW part \in {"header", "body"}, Damage(part)
      PROVE  PairsInv'
  BY <1>6 DEF Damage, TypeOK, Template
<1>7. CASE Deserialize
  BY <1>7 DEF Deserialize
<1>8. CASE UNCHANGED vars
  BY <1>8 DEF vars
<1> QED
  BY <1>1, <1>2, <1>3, <1>4, <1>5, <1>6, <1>7, <1>8 DEF Next

(***************************************************************************)
(* The similarity kept is that of the closest pair, although a submission  *)
(* compares the new sample only, and the novelty its complement.           *)
(***************************************************************************)
THEOREM ClosestPairIsKept == Spec => []PairsFit(samples, totals)
<1>1. Init => TypeOK /\ PairsInv
  BY TypeInit, EmptyPairs DEF Init, PairsInv
<1>2. (TypeOK /\ PairsInv) /\ [Next]_vars => (TypeOK /\ PairsInv)'
  BY TypeStep, PairsStep
<1>3. PairsInv => PairsFit(samples, totals)
  BY DEF PairsInv
<1> QED
  BY <1>1, <1>2, <1>3, PTL DEF Spec

-----------------------------------------------------------------------------
(* Extrema.                                                                *)

LEMMA LeastOfMore ==
    ASSUME NEW S \in SUBSET Nat, NEW a, NEW b \in Nat, IsLeast(a, S)
    PROVE  IsLeast(Lesser(a, b), S \cup {b})
BY DEF IsLeast, Lesser

LEMMA GreatestOfMore ==
    ASSUME NEW S \in SUBSET Nat, NEW a, NEW b \in Nat, IsGreatest(a, S)
    PROVE  IsGreatest(Greater(a, b), S \cup {b})
BY DEF IsGreatest, Greater

LEMMA AppendImages ==
    ASSUME NEW s \in Seq(Sample), NEW x \in Sample
    PROVE  LET t == Append(s, x) IN
           /\ {RecordCount[t[i].feature] : i \in DOMAIN t} =
                {RecordCount[s[i].feature] : i \in DOMAIN s}
                  \cup {RecordCount[x.feature]}
           /\ {t[i].quality : i \in DOMAIN t} =
                {s[i].quality : i \in DOMAIN s} \cup {x.quality}
           /\ {t[i].coverage : i \in DOMAIN t} =
                {s[i].coverage : i \in DOMAIN s} \cup {x.coverage}
<1> DEFINE t == Append(s, x)
<1>1. /\ DOMAIN t = DOMAIN s \cup {Len(s) + 1}
      /\ \A i \in DOMAIN s : t[i] = s[i]
      /\ t[Len(s) + 1] = x
  OBVIOUS
<1> HIDE DEF t
<1>2. {RecordCount[t[i].feature] : i \in DOMAIN t} =
        {RecordCount[s[i].feature] : i \in DOMAIN s}
          \cup {RecordCount[x.feature]}
  BY <1>1
<1>3. {t[i].quality : i \in DOMAIN t} =
        {s[i].quality : i \in DOMAIN s} \cup {x.quality}
  BY <1>1
<1>4. {t[i].coverage : i \in DOMAIN t} =
        {s[i].coverage : i \in DOMAIN s} \cup {x.coverage}
  BY <1>1
<1> QED
  BY <1>2, <1>3, <1>4 DEF t

LEMMA ImageTypes ==
    ASSUME NEW s \in Seq(Sample)
    PROVE  /\ {RecordCount[s[i].feature] : i \in DOMAIN s} \subseteq Nat
           /\ {s[i].quality : i \in DOMAIN s} \subseteq Nat
           /\ {s[i].coverage : i \in DOMAIN s} \subseteq Nat
<1>1. \A i \in DOMAIN s : s[i] \in Sample
  OBVIOUS
<1> QED
  BY <1>1, ConstantTypes DEF Sample

LEMMA ExtremaAccept ==
    ASSUME TypeOK, ExtremaInv,
           NEW f \in Features, NEW q \in Qualities, NEW c \in Coverages,
           Accept(f, q, c)
    PROVE  samples' # <<>> /\ ExtremaFit(samples', totals')
<1> DEFINE x         == [feature |-> f, quality |-> q, coverage |-> c]
           counts    == {RecordCount[samples[i].feature] : i \in DOMAIN samples}
           qualities == {samples[i].quality : i \in DOMAIN samples}
           coverages == {samples[i].coverage : i \in DOMAIN samples}
<1>1. PICK best \in Similarities(f) : totals' = Extended(f, q, c, best)
  BY DEF Accept
<1>2. /\ samples \in Seq(Sample) /\ x \in Sample
      /\ x.feature = f /\ x.quality = q /\ x.coverage = c
      /\ samples' = Append(samples, x)
  BY DEF TypeOK, Sample, Accept
<1>3. samples' # <<>>
  BY <1>2
<1>4. /\ {RecordCount[samples'[i].feature] : i \in DOMAIN samples'} =
           counts \cup {RecordCount[f]}
      /\ {samples'[i].quality : i \in DOMAIN samples'} = qualities \cup {q}
      /\ {samples'[i].coverage : i \in DOMAIN samples'} = coverages \cup {c}
  <2> HIDE DEF x
  <2> QED
    BY <1>2, AppendImages
<1>5. /\ counts \subseteq Nat /\ qualities \subseteq Nat /\ coverages \subseteq Nat
      /\ RecordCount[f] \in Nat /\ q \in Nat /\ c \in Nat
  BY <1>2, ImageTypes, ConstantTypes
<1>6. CASE samples = <<>>
  <2>1. counts = {} /\ qualities = {} /\ coverages = {}
    BY <1>6
  <2>2. /\ totals'.minRecords = RecordCount[f]
        /\ totals'.maxRecords = RecordCount[f]
        /\ totals'.minQuality = q
        /\ totals'.minCoverage = c
    BY <1>1, <1>6 DEF Extended
  <2> HIDE DEF counts, qualities, coverages
  <2>3. \A n \in Nat : IsLeast(n, {} \cup {n}) /\ IsGreatest(n, {} \cup {n})
    BY DEF IsLeast, IsGreatest
  <2>4. /\ IsLeast(totals'.minRecords, counts \cup {RecordCount[f]})
        /\ IsGreatest(totals'.maxRecords, counts \cup {RecordCount[f]})
        /\ IsLeast(totals'.minQuality, qualities \cup {q})
        /\ IsLeast(totals'.minCoverage, coverages \cup {c})
    BY <1>5, <2>1, <2>2, <2>3
  <2> QED
    BY <1>3, <1>4, <2>4 DEF ExtremaFit
<1>7. CASE samples # <<>>
  <2>1. /\ IsLeast(totals.minRecords, counts)
        /\ IsGreatest(totals.maxRecords, counts)
        /\ IsLeast(totals.minQuality, qualities)
        /\ IsLeast(totals.minCoverage, coverages)
    BY <1>7 DEF ExtremaInv, ExtremaFit
  <2>2. /\ totals'.minRecords = Lesser(totals.minRecords, RecordCount[f])
        /\ totals'.maxRecords = Greater(totals.maxRecords, RecordCount[f])
        /\ totals'.minQuality = Lesser(totals.minQuality, q)
        /\ totals'.minCoverage = Lesser(totals.minCoverage, c)
    BY <1>1, <1>7 DEF Extended
  <2> HIDE DEF counts, qualities, coverages
  <2>3. IsLeast(Lesser(totals.minRecords, RecordCount[f]),
                counts \cup {RecordCount[f]})
    BY <1>5, <2>1, LeastOfMore
  <2>4. IsGreatest(Greater(totals.maxRecords, RecordCount[f]),
                   counts \cup {RecordCount[f]})
    BY <1>5, <2>1, GreatestOfMore
  <2>5. IsLeast(Lesser(totals.minQuality, q), qualities \cup {q})
    BY <1>5, <2>1, LeastOfMore
  <2>6. IsLeast(Lesser(totals.minCoverage, c), coverages \cup {c})
    BY <1>5, <2>1, LeastOfMore
  <2> QED
    BY <1>3, <1>4, <2>2, <2>3, <2>4, <2>5, <2>6 DEF ExtremaFit
<1> QED
  BY <1>6, <1>7

LEMMA ExtremaStep == TypeOK /\ ExtremaInv /\ [Next]_vars => ExtremaInv'
<1> SUFFICES ASSUME TypeOK, ExtremaInv, [Next]_vars
             PROVE  ExtremaInv'
  OBVIOUS
<1>1. ASSUME NEW c \in Configs, Create(c)
      PROVE  ExtremaInv'
  BY <1>1 DEF Create, TypeOK, ExtremaInv
<1>2. CASE Reset
  BY <1>2 DEF Reset, ExtremaInv
<1>3. CASE Destroy
  BY <1>3 DEF Destroy, ExtremaInv
<1>4. ASSUME NEW f \in Features, NEW q \in Qualities, NEW c \in Coverages,
             Submit(f, q, c)
      PROVE  ExtremaInv'
  <2>1. CASE Accept(f, q, c)
    <3>1. file' = file
      BY <2>1 DEF Accept
    <3>2. samples' # <<>> /\ ExtremaFit(samples', totals')
      BY <2>1, ExtremaAccept
    <3> QED
      BY <3>1, <3>2 DEF ExtremaInv
  <2>2. ASSUME NEW reason, Refuse(reason)
        PROVE  ExtremaInv'
    BY <2>2 DEF Refuse, ExtremaInv
  <2> QED
    BY <1>4, <2>1, <2>2 DEF Submit
<1>5. CASE Serialize
  <2>1. CASE Serializable
    <3>1. samples # <<>>
      BY <2>1, NoSamplesType DEF Serializable
    <3> QED
      BY <1>5, <2>1, <3>1 DEF Serialize, ExtremaInv
  <2>2. CASE ~Serializable
    BY <1>5, <2>2 DEF Serialize, ExtremaInv
  <2> QED
    BY <2>1, <2>2
<1>6. ASSUME NEW part \in {"header", "body"}, Damage(part)
      PROVE  ExtremaInv'
  BY <1>6 DEF Damage, TypeOK, Template, ExtremaInv
<1>7. CASE Deserialize
  BY <1>7 DEF Deserialize, ExtremaInv
<1>8. CASE UNCHANGED vars
  BY <1>8 DEF vars, ExtremaInv
<1> QED
  BY <1>1, <1>2, <1>3, <1>4, <1>5, <1>6, <1>7, <1>8 DEF Next

(***************************************************************************)
(* The extrema are those of the samples, all of them: what the reader      *)
(* recounts from a template it finds as the writer stored it.              *)
(***************************************************************************)
THEOREM ExtremaAreKept ==
    Spec => [](samples # <<>> => ExtremaFit(samples, totals))
<1>1. Init => TypeOK /\ ExtremaInv
  BY TypeInit DEF Init, ExtremaInv
<1>2. (TypeOK /\ ExtremaInv) /\ [Next]_vars => (TypeOK /\ ExtremaInv)'
  BY TypeStep, ExtremaStep
<1>3. ExtremaInv => (samples # <<>> => ExtremaFit(samples, totals))
  BY DEF ExtremaInv
<1> QED
  BY <1>1, <1>2, <1>3, PTL DEF Spec

-----------------------------------------------------------------------------
(* The records of all samples.                                             *)

LEMMA SetInduction ==
    ASSUME NEW S, 0 \in S, \A n \in Nat : n \in S => n + 1 \in S
    PROVE  Nat \subseteq S
<1> SUFFICES ASSUME Nat \ S # {} PROVE FALSE
  OBVIOUS
<1> DEFINE R == {ss \in Nat \X Nat : ss[1] < ss[2]}
<1>1. IsWellFoundedOn(R, Nat)
  BY NatLessThanWellFounded DEF OpToRel
<1>2. PICK x \in Nat \ S : \A y \in Nat \ S : ~ (<<y, x>> \in R)
  <2> HIDE DEF R
  <2>1. Nat \ S \subseteq Nat
    OBVIOUS
  <2> QED
    BY <1>1, <2>1, WFMin
<1>3. x # 0
  OBVIOUS
<1>4. x - 1 \in Nat /\ x - 1 < x /\ x - 1 + 1 = x
  BY <1>3
<1>5. x - 1 \in S
  BY <1>2, <1>4
<1> QED
  BY <1>4, <1>5

(***************************************************************************)
(* g adds up the records of the first samples of s, n of them at most.     *)
(***************************************************************************)
Sums(g, s, n) ==
    g = [i \in 0..n |-> IF i = 0 THEN 0 ELSE g[i - 1] + RecordCount[s[i].feature]]

LEMMA SumsExist ==
    ASSUME NEW s, NEW n \in Nat PROVE \E g : Sums(g, s, n)
<1> DEFINE S == {k \in Nat : \E g : Sums(g, s, k)}
<1>1. 0 \in S
  <2> DEFINE h == [i \in 0..0 |-> 0]
  <2>1. Sums(h, s, 0)
    BY DEF Sums
  <2> QED
    BY <2>1
<1>2. ASSUME NEW k \in Nat, k \in S PROVE k + 1 \in S
  <2>1. PICK g : Sums(g, s, k)
    BY <1>2
  <2> DEFINE h == [i \in 0..(k + 1) |->
                     IF i = k + 1 THEN g[k] + RecordCount[s[k + 1].feature] ELSE g[i]]
  <2>2. \A i \in 0..k : h[i] = g[i] /\ i \in 0..(k + 1) /\ i # k + 1
    OBVIOUS
  <2>3. \A i \in 0..k :
          g[i] = IF i = 0 THEN 0 ELSE g[i - 1] + RecordCount[s[i].feature]
    BY <2>1 DEF Sums
  <2>4. ASSUME NEW i \in 0..(k + 1)
        PROVE  h[i] = IF i = 0 THEN 0 ELSE h[i - 1] + RecordCount[s[i].feature]
    <3>1. CASE i = k + 1
      <4>1. h[i] = g[k] + RecordCount[s[i].feature] /\ i # 0 /\ i - 1 = k /\ k \in 0..k
        BY <3>1
      <4> QED
        BY <2>2, <4>1
    <3>2. CASE i \in 0..k
      <4>1. i # 0 => i - 1 \in 0..k
        BY <3>2
      <4> QED
        BY <2>2, <2>3, <3>2, <4>1
    <3> QED
      BY <3>1, <3>2
  <2>5. h = [i \in 0..(k + 1) |-> h[i]]
    OBVIOUS
  <2> HIDE DEF h
  <2>6. Sums(h, s, k + 1)
    BY <2>4, <2>5 DEF Sums
  <2> QED
    BY <2>6
<1> HIDE DEF S
<1>3. Nat \subseteq S
  BY <1>1, <1>2, SetInduction
<1> QED
  BY <1>3 DEF S

Agree(s, t, n) == \A i \in 1..n : s[i] = t[i]

(***************************************************************************)
(* Two sums of the same samples are the same as far as both go.            *)
(***************************************************************************)
LEMMA SumsAgree ==
    ASSUME NEW s, NEW t, NEW n \in Nat, NEW m \in Nat, n <= m,
           Agree(s, t, n), NEW g, NEW h, Sums(g, s, n), Sums(h, t, m)
    PROVE  g[n] = h[n]
<1> DEFINE S == {k \in Nat : k <= n => g[k] = h[k]}
<1>1. \A i \in 0..n :
        /\ g[i] = IF i = 0 THEN 0 ELSE g[i - 1] + RecordCount[s[i].feature]
        /\ h[i] = IF i = 0 THEN 0 ELSE h[i - 1] + RecordCount[t[i].feature]
  BY DEF Sums
<1>2. 0 \in S
  BY <1>1
<1>3. ASSUME NEW k \in Nat, k \in S PROVE k + 1 \in S
  <2>1. CASE k + 1 <= n
    <3>1. /\ k <= n /\ k + 1 \in 0..n /\ k + 1 \in 1..n
          /\ k + 1 # 0 /\ (k + 1) - 1 = k
      BY <2>1
    <3>2. g[k] = h[k] /\ s[k + 1] = t[k + 1]
      BY <1>3, <3>1 DEF Agree
    <3> QED
      BY <1>1, <3>1, <3>2
  <2>2. CASE ~(k + 1 <= n)
    BY <2>2
  <2> QED
    BY <2>1, <2>2
<1> HIDE DEF S
<1>4. n \in S
  BY <1>2, <1>3, SetInduction
<1> QED
  BY <1>4 DEF S

(***************************************************************************)
(* What Counted asks for is the last entry of the sums.                    *)
(***************************************************************************)
LEMMA CountedSum ==
    ASSUME NEW s \in Seq(Sample)
    PROVE  \E g : Sums(g, s, Len(s)) /\ \A n : Counted(s, n) <=> n = g[Len(s)]
<1> DEFINE sum == CHOOSE g : Sums(g, s, Len(s))
<1>1. Len(s) \in Nat
  OBVIOUS
<1>2. Sums(sum, s, Len(s))
  BY <1>1, SumsExist
<1>3. \A n : Counted(s, n) <=> n = sum[Len(s)]
  BY DEF Counted, Sums
<1> QED
  BY <1>2, <1>3

LEMMA CountedNothing == Counted(<<>>, 0)
<1>1. <<>> \in Seq(Sample) /\ Len(<<>>) = 0
  BY NoSamplesType
<1>2. PICK g : Sums(g, <<>>, 0) /\ \A n : Counted(<<>>, n) <=> n = g[0]
  BY <1>1, CountedSum
<1>3. g[0] = 0
  BY <1>2 DEF Sums
<1> QED
  BY <1>2, <1>3

LEMMA CountedMore ==
    ASSUME NEW s \in Seq(Sample), NEW x \in Sample, NEW n, Counted(s, n)
    PROVE  Counted(Append(s, x), n + RecordCount[x.feature])
<1> DEFINE t == Append(s, x)
<1>1. /\ t \in Seq(Sample) /\ Len(s) \in Nat /\ Len(t) = Len(s) + 1
      /\ \A i \in 1..Len(s) : s[i] = t[i]
      /\ t[Len(s) + 1] = x
  OBVIOUS
<1> HIDE DEF t
<1>2. PICK g : Sums(g, s, Len(s)) /\ \A k : Counted(s, k) <=> k = g[Len(s)]
  BY CountedSum
<1>3. PICK h : Sums(h, t, Len(t)) /\ \A k : Counted(t, k) <=> k = h[Len(t)]
  BY <1>1, CountedSum
<1>4. g[Len(s)] = h[Len(s)]
  <2>1. Len(s) \in Nat /\ Len(t) \in Nat /\ Len(s) <= Len(t)
    BY <1>1
  <2>2. Agree(s, t, Len(s))
    BY <1>1 DEF Agree
  <2>3. Sums(g, s, Len(s)) /\ Sums(h, t, Len(t))
    BY <1>2, <1>3
  <2> QED
    BY <2>1, <2>2, <2>3, SumsAgree
<1>5. h[Len(t)] = h[Len(s)] + RecordCount[x.feature]
  <2>1. /\ Len(t) \in 0..Len(t) /\ Len(t) # 0 /\ Len(t) - 1 = Len(s)
        /\ t[Len(t)] = x
    BY <1>1
  <2>2. h[Len(t)] = h[Len(t) - 1] + RecordCount[t[Len(t)].feature]
    BY <1>3, <2>1 DEF Sums
  <2> QED
    BY <2>1, <2>2
<1>6. Counted(t, n + RecordCount[x.feature])
  BY <1>2, <1>3, <1>4, <1>5
<1> QED
  BY <1>6 DEF t

(***************************************************************************)
(* The statistics in memory and on disk are in step, an object has a       *)
(* configuration that passed the limits, and what is on disk is complete.  *)
(***************************************************************************)
CountInv ==
    /\ Counted(samples, totals.records)
    /\ samples = <<>> => totals = NoTotals
    /\ enrolling => ConfigValid(config)
    /\ file # NoFile =>
         /\ Counted(file.samples, file.totals.records)
         /\ ConfigValid(file.config)
         /\ Len(file.samples) = file.config.target

LEMMA CountInit == Init => CountInv
<1>1. NoTotals.records = 0
  BY DEF NoTotals
<1> QED
  BY <1>1, CountedNothing DEF Init, CountInv

LEMMA CountAccept ==
    ASSUME TypeOK, CountInv,
           NEW f \in Features, NEW q \in Qualities, NEW c \in Coverages,
           Accept(f, q, c)
    PROVE  CountInv'
<1> DEFINE x == [feature |-> f, quality |-> q, coverage |-> c]
<1>1. PICK best \in Similarities(f) : totals' = Extended(f, q, c, best)
  BY DEF Accept
<1>2. /\ samples \in Seq(Sample) /\ x \in Sample /\ x.feature = f
      /\ samples' = Append(samples, x)
      /\ UNCHANGED <<enrolling, config, file>>
  BY DEF TypeOK, Sample, Accept
<1> HIDE DEF x
<1>3. totals'.records = totals.records + RecordCount[f]
  BY <1>1 DEF Extended
<1>4. Counted(samples', totals'.records)
  <2>1. Counted(samples, totals.records)
    BY DEF CountInv
  <2>2. Counted(Append(samples, x), totals.records + RecordCount[x.feature])
    BY <1>2, <2>1, CountedMore
  <2> QED
    BY <1>2, <1>3, <2>2
<1>5. samples' # <<>>
  BY <1>2
<1>6. UNCHANGED <<enrolling, config, file>>
  BY <1>2
<1> QED
  BY <1>4, <1>5, <1>6 DEF CountInv, ConfigValid

LEMMA CountStep == TypeOK /\ ExtremaInv /\ CountInv /\ [Next]_vars => CountInv'
<1> SUFFICES ASSUME TypeOK, ExtremaInv, CountInv, [Next]_vars
             PROVE  CountInv'
  OBVIOUS
<1> USE DEF ConfigValid
<1>1. ASSUME NEW c \in Configs, Create(c)
      PROVE  CountInv'
  <2>1. samples = <<>> /\ samples' = <<>> /\ file' = file /\ totals' = NoTotals
    BY <1>1 DEF Create, TypeOK
  <2>2. totals = NoTotals
    BY <2>1 DEF CountInv
  <2>3. enrolling' => ConfigValid(config')
    BY <1>1 DEF Create, CountInv
  <2> QED
    BY <2>1, <2>2, <2>3 DEF CountInv
<1>2. CASE Reset \/ Destroy
  <2>1. /\ samples' = <<>> /\ file' = file /\ totals' = NoTotals /\ config' = config
        /\ enrolling' => enrolling
    BY <1>2 DEF Reset, Destroy
  <2>2. NoTotals.records = 0
    BY DEF NoTotals
  <2>3. Counted(samples', totals'.records)
    BY <2>1, <2>2, CountedNothing
  <2> QED
    BY <2>1, <2>3 DEF CountInv
<1>3. ASSUME NEW f \in Features, NEW q \in Qualities, NEW c \in Coverages,
             Submit(f, q, c)
      PROVE  CountInv'
  <2>1. CASE Accept(f, q, c)
    BY <2>1, CountAccept
  <2>2. ASSUME NEW reason, Refuse(reason)
        PROVE  CountInv'
    BY <2>2 DEF Refuse, CountInv
  <2> QED
    BY <1>3, <2>1, <2>2 DEF Submit
<1>4. CASE Serialize
  <2>1. UNCHANGED <<enrolling, config, samples, totals>> /\ enrolling
    BY <1>4 DEF Serialize
  <2>2. CASE Serializable
    <3>1. /\ file' = [config |-> config, samples |-> samples,
                      totals |-> totals, damage |-> "none"]
          /\ Len(samples) = config.target
      BY <1>4, <2>2 DEF Serialize, Serializable
    <3>2. /\ file'.config = config /\ file'.samples = samples
          /\ file'.totals = totals
      BY <3>1
    <3> HIDE DEF ConfigValid
    <3>3. ConfigValid(config')
      BY <2>1 DEF CountInv
    <3> QED
      BY <2>1, <3>1, <3>2, <3>3 DEF CountInv
  <2>3. CASE ~Serializable
    <3>1. file' = file
      BY <1>4, <2>3 DEF Serialize
    <3> QED
      BY <2>1, <3>1 DEF CountInv
  <2> QED
    BY <2>2, <2>3
<1>5. ASSUME NEW part \in {"header", "body"}, Damage(part)
      PROVE  CountInv'
  <2>1. /\ UNCHANGED <<enrolling, config, samples, totals>>
        /\ file # NoFile /\ file' = [file EXCEPT !.damage = part]
    BY <1>5 DEF Damage
  <2>2. /\ file'.config = file.config /\ file'.samples = file.samples
        /\ file'.totals = file.totals
    BY <2>1 DEF TypeOK, Template
  <2> QED
    BY <2>1, <2>2 DEF CountInv
<1>6. CASE Deserialize
  <2>1. file' = file /\ file # NoFile
    BY <1>6 DEF Deserialize
  <2>2. CASE samples' = file.samples /\ totals' = file.totals /\ config' = file.config
    <3>1. file.samples # <<>>
      BY <2>1 DEF ExtremaInv
    <3> HIDE DEF ConfigValid
    <3>2. ConfigValid(config')
      BY <2>1, <2>2 DEF CountInv
    <3> QED
      BY <2>1, <2>2, <3>1, <3>2 DEF CountInv
  <2>3. CASE UNCHANGED <<enrolling, config, samples, totals>>
    BY <2>1, <2>3 DEF CountInv
  <2> QED
    BY <1>6, <2>2, <2>3 DEF Deserialize
<1>7. CASE UNCHANGED vars
  BY <1>7 DEF vars, CountInv
<1> QED
  BY <1>1, <1>2, <1>3, <1>4, <1>5, <1>6, <1>7 DEF Next

(***************************************************************************)
(* The running statistics are those of a recount, whatever was submitted,  *)
(* refused, reset or read back.                                            *)
(***************************************************************************)
THEOREM StatisticsAreKept == Spec => []StatisticsFit
<1> DEFINE Inv == TypeOK /\ PairsInv /\ ExtremaInv /\ CountInv
<1>1. Init => Inv
  BY TypeInit, CountInit, EmptyPairs DEF Init, PairsInv, ExtremaInv
<1>2. Inv /\ [Next]_vars => Inv'
  BY TypeStep, PairsStep, ExtremaStep, CountStep
<1>3. Inv => StatisticsFit
  BY DEF PairsInv, ExtremaInv, CountInv, StatisticsFit
<1> QED
  BY <1>1, <1>2, <1>3, PTL DEF Spec

(***************************************************************************)
(* The reader accepts each template the writer made, and nothing damaged.  *)
(***************************************************************************)
THEOREM TemplatesStayReadable == Spec => []TemplateReadable
<1> DEFINE Inv == TypeOK /\ ExtremaInv /\ CountInv
<1>1. Init => Inv
  BY TypeInit, CountInit DEF Init, ExtremaInv
<1>2. Inv /\ [Next]_vars => Inv'
  BY TypeStep, ExtremaStep, CountStep
<1>3. Inv => TemplateReadable
  <2> SUFFICES ASSUME TypeOK, ExtremaInv, CountInv, file # NoFile
               PROVE  Fault(file) = "none" <=> file.damage = "none"
    BY DEF TemplateReadable
  <2>1. /\ file \in Template /\ file.samples \in Seq(Sample) /\ file.totals \in Totals
        /\ file.damage \in {"none", "header", "body"}
    BY DEF TypeOK, Template
  <2>2. file.totals.maxSimilarity <= One /\ file.totals.minNovelty <= One
    BY <2>1, ConstantTypes DEF Totals
  <2>3. ASSUME NEW i \in DOMAIN file.samples
        PROVE  SampleValid(file.samples[i])
    <3>1. file.samples[i] \in Sample
      BY <2>1
    <3> QED
      BY <3>1, EnrollmentAssumption DEF Sample, SampleValid
  <2>4. /\ Len(file.samples) = file.config.target /\ ConfigValid(file.config)
        /\ Counted(file.samples, file.totals.records)
        /\ ExtremaFit(file.samples, file.totals)
    BY DEF ExtremaInv, CountInv
  <2> QED
    BY <2>1, <2>2, <2>3, <2>4 DEF Fault
<1> QED
  BY <1>1, <1>2, <1>3, PTL DEF Spec

=============================================================================
