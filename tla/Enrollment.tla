----------------------------- MODULE Enrollment -----------------------------
(***************************************************************************)
(* The enrollment engine: samples are submitted one by one, each is        *)
(* accepted or refused, statistics are kept along, and the finished        *)
(* template is written to a byte string and read back, by a verification,  *)
(* from a file that may have been damaged in between.                      *)
(*                                                                         *)
(* A feature stands for a scan's records and packed map; two features are  *)
(* equal if the bytes are.  Similarity is capture_similarity_q16 of a pair *)
(* (a weighted Jaccard ratio of maps and grids), left open here.  The      *)
(* metrics come with the scan: the same features can be seen at another    *)
(* quality.  The extractor only gives features with 1..MaxRecords records, *)
(* and metrics are percentages.                                            *)
(*                                                                         *)
(* Definitions named ...Mutant are wrong variants of the definition after  *)
(* them, kept to show that the properties notice the difference.           *)
(***************************************************************************)
EXTENDS Naturals, Sequences

CONSTANTS Features,     \* what an extraction may give
          RecordCount,  \* [Features -> records of the feature]
          Similarity,   \* [Features \X Features -> 0..One]
          Configs,      \* configurations passed to gx5125_enrollment_create
          Qualities,    \* qualities of a scan, in percent
          Coverages,    \* coverages of a scan, in percent
          One,          \* GX5125_Q16_ONE
          MaxRecords,   \* GX5125_EXTRACTOR_MAX_RECORDS
          MaxSamples    \* GX5125_ENROLLMENT_MAX_SAMPLES

Config == [target : Nat, quality : Nat, coverage : Nat, records : Nat]

ASSUME EnrollmentAssumption ==
    /\ MaxRecords \in Nat \ {0}
    /\ MaxSamples \in Nat \ {0}
    /\ One \in Nat
    /\ RecordCount \in [Features -> 1..MaxRecords]
    /\ Similarity \in [Features \X Features -> 0..One]
    /\ Configs \subseteq Config
    /\ Qualities \subseteq 0..100
    /\ Coverages \subseteq 0..100

VARIABLES
    enrolling,  \* there is an enrollment object
    config,     \* its configuration
    samples,    \* its samples, in the order of their acceptance
    totals,     \* its statistics
    result,     \* what the latest call returned
    file        \* the template on disk, or NoFile

vars == <<enrolling, config, samples, totals, result, file>>

Sample == [feature : Features, quality : Qualities, coverage : Coverages]

Totals == [records : Nat, minRecords : Nat, maxRecords : Nat,
           minQuality : Nat, minCoverage : Nat,
           maxSimilarity : 0..One, minNovelty : 0..One]

NoTotals == [records |-> 0, minRecords |-> 0, maxRecords |-> 0,
             minQuality |-> 0, minCoverage |-> 0,
             maxSimilarity |-> 0, minNovelty |-> One]

Template == [config : Config, samples : Seq(Sample), totals : Totals,
             damage : {"none", "header", "body"}]

NoFile == [damage |-> "missing"]

Refusals == {"already-complete", "low-quality", "low-coverage",
             "low-record-count", "exact-duplicate"}

TypeOK ==
    /\ enrolling \in BOOLEAN
    /\ config \in Config
    /\ samples \in Seq(Sample)
    /\ totals \in Totals
    /\ result \in {"none", "OK", "ACCEPTED", "ARGUMENT", "MEMORY", "STATE",
                   "FORMAT", "INTEGRITY"} \cup Refusals
    /\ file \in Template \cup {NoFile}
    /\ enrolling => Len(samples) <= config.target
    /\ ~enrolling => samples = <<>>

Init ==
    /\ enrolling = FALSE
    /\ config \in Configs
    /\ samples = <<>>
    /\ totals = NoTotals
    /\ result = "none"
    /\ file = NoFile

-----------------------------------------------------------------------------
(* The life of an enrollment object.                                       *)

ConfigValid(c) ==
    /\ c.target \in 1..MaxSamples
    /\ c.quality \in 0..100
    /\ c.coverage \in 0..100
    /\ c.records \in 1..MaxRecords

Create(c) ==
    /\ ~enrolling
    /\ IF ConfigValid(c)
       THEN /\ config' = c
            /\ \/ enrolling' = TRUE /\ result' = "OK"
               \/ enrolling' = FALSE /\ result' = "MEMORY"
       ELSE /\ result' = "ARGUMENT"
            /\ UNCHANGED <<enrolling, config>>
    /\ totals' = NoTotals
    /\ UNCHANGED <<samples, file>>

Reset ==
    /\ enrolling
    /\ samples' = <<>>
    /\ totals' = NoTotals
    /\ result' = "OK"
    /\ UNCHANGED <<enrolling, config, file>>

Destroy ==
    /\ enrolling
    /\ enrolling' = FALSE
    /\ samples' = <<>>
    /\ totals' = NoTotals
    /\ result' = "none"
    /\ UNCHANGED <<config, file>>

-----------------------------------------------------------------------------
(* Submitting a sample.                                                    *)

LastOnlyMutant(f) == samples # <<>> /\ samples[Len(samples)].feature = f

Duplicate(f) == \E i \in DOMAIN samples : samples[i].feature = f

Complete == Len(samples) >= config.target

(***************************************************************************)
(* The first reason to refuse a sample, in the order of the code.          *)
(***************************************************************************)
Decision(f, q, c) ==
    IF Complete THEN "already-complete"
    ELSE IF q < config.quality THEN "low-quality"
    ELSE IF c < config.coverage THEN "low-coverage"
    ELSE IF RecordCount[f] < config.records THEN "low-record-count"
    ELSE IF Duplicate(f) THEN "exact-duplicate"
    ELSE "ACCEPTED"

Similarities(f) ==
    {Similarity[<<samples[i].feature, f>>] : i \in DOMAIN samples} \cup {0}

Lesser(a, b)  == IF a < b THEN a ELSE b
Greater(a, b) == IF a > b THEN a ELSE b

NoFirstSampleMutant(f, q, c, best) ==
    [records       |-> totals.records + RecordCount[f],
     minRecords    |-> Lesser(totals.minRecords, RecordCount[f]),
     maxRecords    |-> Greater(totals.maxRecords, RecordCount[f]),
     minQuality    |-> Lesser(totals.minQuality, q),
     minCoverage   |-> Lesser(totals.minCoverage, c),
     maxSimilarity |-> Greater(totals.maxSimilarity, best),
     minNovelty    |-> Lesser(totals.minNovelty, One - best)]

(***************************************************************************)
(* The statistics with one more sample: the first one sets the extrema and *)
(* leaves the comparison of pairs alone.                                   *)
(***************************************************************************)
Extended(f, q, c, best) ==
    IF samples = <<>>
    THEN [records       |-> totals.records + RecordCount[f],
          minRecords    |-> RecordCount[f],
          maxRecords    |-> RecordCount[f],
          minQuality    |-> q,
          minCoverage   |-> c,
          maxSimilarity |-> totals.maxSimilarity,
          minNovelty    |-> totals.minNovelty]
    ELSE [records       |-> totals.records + RecordCount[f],
          minRecords    |-> Lesser(totals.minRecords, RecordCount[f]),
          maxRecords    |-> Greater(totals.maxRecords, RecordCount[f]),
          minQuality    |-> Lesser(totals.minQuality, q),
          minCoverage   |-> Lesser(totals.minCoverage, c),
          maxSimilarity |-> Greater(totals.maxSimilarity, best),
          minNovelty    |-> Lesser(totals.minNovelty, One - best)]

Accept(f, q, c) ==
    /\ samples' = Append(samples, [feature |-> f, quality |-> q, coverage |-> c])
    /\ \E best \in Similarities(f) :
          /\ \A s \in Similarities(f) : s <= best
          /\ totals' = Extended(f, q, c, best)
    /\ result' = "ACCEPTED"
    /\ UNCHANGED <<enrolling, config, file>>

Refuse(reason) ==
    /\ result' = reason
    /\ UNCHANGED <<enrolling, config, samples, totals, file>>

Submit(f, q, c) ==
    /\ enrolling
    /\ IF Decision(f, q, c) = "ACCEPTED"
       THEN Accept(f, q, c) \/ Refuse("MEMORY")
       ELSE Refuse(Decision(f, q, c))

-----------------------------------------------------------------------------
(* The template on disk.                                                   *)

AnyTimeMutant == samples # <<>>

(***************************************************************************)
(* gx5125_enrollment_serialized_size is not zero.                          *)
(***************************************************************************)
Serializable ==
    /\ Len(samples) \in 1..MaxSamples
    /\ Len(samples) = config.target
    /\ \A i \in DOMAIN samples :
          RecordCount[samples[i].feature] \in 1..MaxRecords

Serialize ==
    /\ enrolling
    /\ IF Serializable
       THEN /\ file' = [config |-> config, samples |-> samples,
                        totals |-> totals, damage |-> "none"]
            /\ result' = "OK"
       ELSE /\ result' = "STATE"
            /\ UNCHANGED file
    /\ UNCHANGED <<enrolling, config, samples, totals>>

(***************************************************************************)
(* The file may be damaged, in the fields that are checked before the      *)
(* checksum or in the bytes that the checksum covers.                      *)
(***************************************************************************)
Damage(part) ==
    /\ file # NoFile
    /\ file.damage = "none"
    /\ file' = [file EXCEPT !.damage = part]
    /\ UNCHANGED <<enrolling, config, samples, totals, result>>

(***************************************************************************)
(* The statistics as gx5125_enrollment_deserialize recounts them.          *)
(***************************************************************************)
Counted(s, n) ==
    LET sum[i \in 0..Len(s)] ==
          IF i = 0 THEN 0 ELSE sum[i - 1] + RecordCount[s[i].feature]
    IN  n = sum[Len(s)]

IsLeast(n, S)    == n \in S /\ \A m \in S : n <= m
IsGreatest(n, S) == n \in S /\ \A m \in S : m <= n

ExtremaFit(s, t) ==
    /\ IsLeast(t.minRecords, {RecordCount[s[i].feature] : i \in DOMAIN s})
    /\ IsGreatest(t.maxRecords, {RecordCount[s[i].feature] : i \in DOMAIN s})
    /\ IsLeast(t.minQuality, {s[i].quality : i \in DOMAIN s})
    /\ IsLeast(t.minCoverage, {s[i].coverage : i \in DOMAIN s})

SampleValid(s) ==
    /\ RecordCount[s.feature] \in 1..MaxRecords
    /\ s.quality \in 0..100
    /\ s.coverage \in 0..100

(***************************************************************************)
(* What gx5125_enrollment_deserialize finds wrong with a template.         *)
(***************************************************************************)
Fault(t) ==
    IF t.damage = "header" THEN "FORMAT"
    ELSE IF t.damage = "body" THEN "INTEGRITY"
    ELSE IF /\ Len(t.samples) = t.config.target
            /\ ConfigValid(t.config)
            /\ t.totals.maxSimilarity <= One
            /\ t.totals.minNovelty <= One
            /\ \A i \in DOMAIN t.samples : SampleValid(t.samples[i])
            /\ Counted(t.samples, t.totals.records)
            /\ ExtremaFit(t.samples, t.totals)
         THEN "none" ELSE "FORMAT"

(***************************************************************************)
(* Memory may run out once the header has been found good.                 *)
(***************************************************************************)
Deserialize ==
    /\ ~enrolling
    /\ file # NoFile
    /\ \/ /\ Fault(file) = "none"
          /\ enrolling' = TRUE
          /\ config' = file.config
          /\ samples' = file.samples
          /\ totals' = file.totals
          /\ result' = "OK"
       \/ /\ Fault(file) # "none"
          /\ result' = Fault(file)
          /\ UNCHANGED <<enrolling, config, samples, totals>>
       \/ /\ file.damage = "none"
          /\ result' = "MEMORY"
          /\ UNCHANGED <<enrolling, config, samples, totals>>
    /\ UNCHANGED file

-----------------------------------------------------------------------------
Next ==
    \/ \E c \in Configs : Create(c)
    \/ Reset
    \/ Destroy
    \/ \E f \in Features, q \in Qualities, c \in Coverages : Submit(f, q, c)
    \/ Serialize
    \/ \E part \in {"header", "body"} : Damage(part)
    \/ Deserialize

Spec == Init /\ [][Next]_vars
-----------------------------------------------------------------------------
(* What the driver and the matcher rely on.                                *)

Qualified(c, s) ==
    /\ \A i \in DOMAIN s :
          /\ s[i].quality >= c.quality
          /\ s[i].coverage >= c.coverage
          /\ RecordCount[s[i].feature] >= c.records
    /\ \A i, j \in DOMAIN s : s[i].feature = s[j].feature => i = j

(***************************************************************************)
(* Every sample of an enrollment, fresh or read back, passed its limits,   *)
(* and no two of them are the same scan.                                   *)
(***************************************************************************)
SamplesQualify == Qualified(config, samples)

(***************************************************************************)
(* The similarity kept is that of the closest pair of samples, and the     *)
(* novelty is its complement, however the samples came in.                 *)
(***************************************************************************)
PairSimilarities(s) ==
    UNION {{Similarity[<<s[i].feature, s[j].feature>>] : i \in 1..(j - 1)} :
              j \in DOMAIN s}

PairsFit(s, t) ==
    /\ IsGreatest(t.maxSimilarity, PairSimilarities(s) \cup {0})
    /\ t.minNovelty = One - t.maxSimilarity

(***************************************************************************)
(* The statistics kept with every acceptance are those of the samples, all *)
(* of them and no others, also after refusals, a reset and a reload.       *)
(***************************************************************************)
StatisticsFit ==
    /\ Counted(samples, totals.records)
    /\ samples # <<>> => ExtremaFit(samples, totals)
    /\ samples = <<>> => totals = NoTotals
    /\ PairsFit(samples, totals)

(***************************************************************************)
(* Whatever was written can be read: the checks of the reader accept every *)
(* template that the writer made and nothing damaged, so that a finger     *)
(* once enrolled can be verified.                                          *)
(***************************************************************************)
TemplateReadable ==
    file # NoFile => (Fault(file) = "none" <=> file.damage = "none")
=============================================================================
