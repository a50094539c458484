----------------------------- MODULE Extractor ------------------------------
(***************************************************************************)
(* The feature extractor: gx5125_extractor_extract_gray, stage by stage,   *)
(* with the memory it allocates, the state it carries from one image to    *)
(* the next (gx_feature_aux_metadata_state) and the records it hands out   *)
(* (Records.tla).  Every stage may fail; the label "cleanup" frees what    *)
(* was allocated and puts the state back.                                  *)
(*                                                                         *)
(* Of an image the model keeps what the metadata stage looks at: which     *)
(* pixels are dark or bright, from which it takes the largest regions      *)
(* (Components.tla), the coverage, the level and whether there are dark    *)
(* holes.  The arithmetic of the other stages only decides whether they    *)
(* fail.                                                                   *)
(*                                                                         *)
(* Every caller passes NULL for the auxiliary words, so that they are all  *)
(* zero: mode_group, tertiary and dark_reference are 0, secondary starts   *)
(* at 0, and previous_coverage and previous_level are written only.        *)
(*                                                                         *)
(* Definitions named ...Mutant are wrong variants of the definition after  *)
(* them, kept to show that the properties notice the difference.           *)
(***************************************************************************)
EXTENDS Records, Components

CONSTANTS Images,        \* the images that are captured
          MaxLabels,     \* GX_AUX_COMPONENT_MAX
          HistoryLabels  \* GX_AUX_COMPONENT_HISTORY_MAX

HistorySlots == 3
Levels == {0, 1, 2, 4, 5}
Nothing == 0
Dark    == 1
Bright  == 2

Selections == [Pixels -> {Nothing, Dark, Bright}]

(***************************************************************************)
(* What the pixels are, bright ones inside the mask only; whether the      *)
(* coverage is above 74; the primary level in the first row; whether there *)
(* are dark holes.                                                         *)
(***************************************************************************)
ASSUME ExtractorAssumption ==
    /\ Images \subseteq [picture : Selections, high : BOOLEAN,
                         level : Levels, holes : BOOLEAN]
    /\ {MaxLabels, HistoryLabels} \subseteq Nat \ {0}

VARIABLES
    stage,     \* the stage of extract_gray, "idle" between two calls
    image,     \* the image being processed
    status,    \* what the call is going to return
    heap,      \* what the call has allocated, and the feature handed out
    handed,    \* the caller has a feature
    history,   \* the selections of up to HistorySlots images
    stability, \* stability_counter
    backup,    \* state_backup
    uneven,    \* map_state is 1
    selected,  \* what the metadata stage has selected in the image
    classes    \* the pixels that it has classified: class_one, class_two

(***************************************************************************)
(* History variables: the selections of the last images with a high        *)
(* coverage, and the stability, of the successful calls since the reset.   *)
(***************************************************************************)
VARIABLES recent, earned

auxState == <<history, stability>>
successes == <<recent, earned>>
pickVars == <<selected, classes>>
callVars == <<regionVars, pickVars, image, backup, handed, successes>>
allVars  == <<recordVars, stage, status, heap, auxState, callVars, uneven>>

(***************************************************************************)
(* What a call allocates: images that are its own, and the parts of the    *)
(* feature; "slots" are the four descriptors of the feature maps.          *)
(***************************************************************************)
Locals == {"temporary", "gray", "prepared", "filtered", "u16", "mask",
           "optional"}
FeatureParts == {"feature", "object", "records", "slots", "aux", "packed",
                 "map0", "map1", "map2"}

Stages == {"idle", "flags", "gray", "object", "buffers", "mask", "optional",
           "filter", "maps", "aux", "dark", "darkHistory", "bright",
           "brightHistory", "metadata", "generate", "outputs", "window",
           "global", "prune", "compact", "partition", "neighbor", "handover",
           "cleanup"}
Errors == {"ARGUMENT", "INTERNAL", "AUX_METADATA", "UNSUPPORTED", "MEMORY",
           "MASK", "OPTIONAL_IMAGE", "FILTER", "FEATURE_MAP", "GENERATOR",
           "LOW_FEATURE_COUNT", "POSTPROCESS"}

ExtractorTypeOK ==
    /\ RecordsTypeOK
    /\ ComponentsTypeOK
    /\ stage \in Stages
    /\ status \in {"OK"} \cup Errors
    /\ heap \subseteq Locals \cup FeatureParts
    /\ handed \in BOOLEAN
    /\ history \in Seq(Selections) /\ Len(history) <= HistorySlots
    /\ selected \in Selections
    /\ classes \subseteq Pixels
    /\ stability \in 0..5
    /\ uneven \in BOOLEAN

(***************************************************************************)
(* gx5125_extractor_create.                                                *)
(***************************************************************************)
ExtractorInit ==
    /\ Empty
    /\ NoPicture
    /\ selected = [p \in Pixels |-> Nothing]
    /\ classes = {}
    /\ stage = "idle"
    /\ image \in Images
    /\ status = "OK"
    /\ heap = {}
    /\ handed = FALSE
    /\ history = <<>>
    /\ stability = 0
    /\ backup = auxState
    /\ uneven = FALSE
    /\ recent = <<>>
    /\ earned = 0

-----------------------------------------------------------------------------
(* The caller.                                                             *)

(***************************************************************************)
(* A call whose arguments are refused, or whose parameters are, returns at *)
(* once.                                                                   *)
(***************************************************************************)
Begin ==
    /\ stage = "idle"
    /\ ~handed
    /\ image' \in Images
    /\ backup' = auxState
    /\ \/ /\ stage' = "flags"
          /\ status' = "INTERNAL"
       \/ /\ status' \in {"ARGUMENT", "INTERNAL"}
          /\ UNCHANGED stage
    /\ UNCHANGED <<recordVars, regionVars, pickVars, heap, auxState, handed,
                   uneven, successes>>

(***************************************************************************)
(* gx5125_feature_destroy: the descriptors, the heap fields, the object.   *)
(***************************************************************************)
DestroyFeature ==
    /\ stage = "idle"
    /\ handed
    /\ handed' = FALSE
    /\ heap' = heap \ FeatureParts
    /\ UNCHANGED <<recordVars, regionVars, pickVars, stage, status, auxState,
                   image, backup, uneven, successes>>

(***************************************************************************)
(* gx5125_extractor_reset_state, or a new extractor in place of this one   *)
(* at the beginning of an operation.                                       *)
(***************************************************************************)
ResetState ==
    /\ stage = "idle"
    /\ history' = <<>>
    /\ stability' = 0
    /\ recent' = <<>>
    /\ earned' = 0
    /\ UNCHANGED <<recordVars, regionVars, pickVars, stage, status, heap,
                   handed, image, backup, uneven>>

-----------------------------------------------------------------------------
(* The stages before the records.                                          *)

Pass(next, new) ==
    /\ stage' = next
    /\ heap' = heap \cup new
    /\ UNCHANGED status

Fail(errors, left) ==
    /\ stage' = "cleanup"
    /\ status' \in errors
    /\ heap' \in {heap \cup l : l \in left}

(***************************************************************************)
(* A stage that allocates: all of it, or a part of it before it fails.     *)
(***************************************************************************)
Allocate(next, things, why) ==
    \/ Pass(next, things)
    \/ Fail({why}, SUBSET things \ {things})

(***************************************************************************)
(* gx_feature_root_aux_flags_parse: with an overlay flag in the first row  *)
(* the temporary map is made, and the image is refused.                    *)
(***************************************************************************)
ParseFlags ==
    /\ stage = "flags"
    /\ \/ Pass("gray", {})
       \/ Fail({"AUX_METADATA"}, {{}})
       \/ Fail({"UNSUPPORTED"}, {{"temporary"}})
    /\ UNCHANGED <<recordVars, auxState, callVars, uneven>>

AllocateGray ==
    /\ stage = "gray"
    /\ Allocate("object", {"gray"}, "MEMORY")
    /\ UNCHANGED <<recordVars, auxState, callVars, uneven>>

(***************************************************************************)
(* The feature, and gx_feature_object_create, which frees the object again *)
(* when there is no memory for the records.                                *)
(***************************************************************************)
CreateObject ==
    /\ stage = "object"
    /\ \/ Pass("buffers", {"feature", "object", "records"})
       \/ Fail({"MEMORY"}, SUBSET {"feature"})
    /\ UNCHANGED <<recordVars, auxState, callVars, uneven>>

AllocateBuffers ==
    /\ stage = "buffers"
    /\ Allocate("mask", {"prepared", "filtered", "u16", "mask"}, "MEMORY")
    /\ UNCHANGED <<recordVars, auxState, callVars, uneven>>

PrepareMask ==
    /\ stage = "mask"
    /\ Pass("optional", {}) \/ Fail({"MASK"}, {{}})
    /\ UNCHANGED <<recordVars, auxState, callVars, uneven>>

PrepareOptionalImage ==
    /\ stage = "optional"
    /\ Allocate("filter", {"optional"}, "OPTIONAL_IMAGE")
    /\ UNCHANGED <<recordVars, auxState, callVars, uneven>>

FilterImage ==
    /\ stage = "filter"
    /\ Pass("maps", {}) \/ Fail({"FILTER"}, {{}})
    /\ UNCHANGED <<recordVars, auxState, callVars, uneven>>

PrepareFeatureMaps ==
    /\ stage = "maps"
    /\ Pass("aux", {"slots"}) \/ Fail({"FEATURE_MAP"}, SUBSET {"slots"})
    /\ UNCHANGED <<recordVars, auxState, callVars, uneven>>

AllocateAuxMap ==
    /\ stage = "aux"
    /\ Allocate("dark", {"aux"}, "MEMORY")
    /\ UNCHANGED <<recordVars, auxState, callVars, uneven>>

-----------------------------------------------------------------------------
(* The stage that depends on earlier images.                               *)

(***************************************************************************)
(* gx_aux_component_filter, for the dark and for the bright pixels: the    *)
(* largest regions are selected.  When three images are remembered, not    *)
(* fewer, the selected pixels that have this class in all of them are      *)
(* classified, if they are in one of the largest regions again.            *)
(***************************************************************************)
FilterStages == {"dark", "darkHistory", "bright", "brightHistory"}

ClassOf(s) == IF s \in {"dark", "darkHistory"} THEN Dark ELSE Bright

Agreed(h, p, c) == Cardinality({i \in DOMAIN h : h[i][p] = c}) > 2

FilterInput ==
    IF stage \in {"dark", "bright"}
    THEN {p \in Pixels : image.picture[p] = ClassOf(stage)}
    ELSE {p \in Pixels : /\ selected[p] = ClassOf(stage)
                         /\ Agreed(history, p, ClassOf(stage))}

StartFilter ==
    /\ stage \in FilterStages
    /\ \/ /\ Start(FilterInput, IF stage \in {"dark", "bright"}
                                THEN MaxLabels ELSE HistoryLabels)
          /\ UNCHANGED <<stage, status, heap>>
       \/ /\ turn = "none"
          /\ Fail({"AUX_METADATA"}, {{}})
          /\ UNCHANGED regionVars
    /\ UNCHANGED <<recordVars, auxState, pickVars, image, backup, handed,
                   successes, uneven>>

FilterStep ==
    /\ stage \in FilterStages
    /\ ComponentsStep
    /\ UNCHANGED <<recordVars, stage, status, heap, auxState, pickVars, image,
                   backup, handed, successes, uneven>>

AfterFilter(s) ==
    CASE s = "dark"   -> IF Len(history) > 2 THEN "darkHistory" ELSE "bright"
      [] s = "bright" -> IF Len(history) > 2 THEN "brightHistory"
                                             ELSE "metadata"
      [] s = "darkHistory" -> "bright"
      [] OTHER             -> "metadata"

EndFilter ==
    /\ stage \in FilterStages
    /\ Forget
    /\ stage' = AfterFilter(stage)
    /\ IF stage \in {"dark", "bright"}
       THEN /\ selected' = [p \in Pixels |-> IF p \in Picked THEN ClassOf(stage)
                                             ELSE selected[p]]
            /\ UNCHANGED classes
       ELSE /\ classes' = classes \cup Picked
            /\ UNCHANGED selected
    /\ UNCHANGED <<recordVars, status, heap, auxState, image, backup, handed,
                   successes, uneven>>

Highest(m, n) == IF m < n THEN n ELSE m

Resolved(found, img) ==
    IF found = {} THEN img.level ELSE Highest(img.level, 4)

Secondary(found, img) ==
    IF found = {} THEN (IF img.holes THEN 0 ELSE 2)
                  ELSE (IF img.holes THEN 3 ELSE 6)

(***************************************************************************)
(* Both conditions are looked at, in this order.                           *)
(***************************************************************************)
Steadied(s, found, img) ==
    LET bad == Resolved(found, img) > 1 \/ Secondary(found, img) > 1
        up  == IF s < 5 /\ bad THEN s + 1 ELSE s
    IN  IF up > 0 /\ ~bad THEN up - 1 ELSE up

(***************************************************************************)
(* gx_aux_history_update: the slots are moved down by one when all three   *)
(* are in use.                                                             *)
(***************************************************************************)
OldestStaysMutant(h, sel) ==
    IF Len(h) < HistorySlots THEN Append(h, sel)
                             ELSE <<h[1], h[3], sel>>

HistoryUpdate(h, sel) ==
    IF Len(h) < HistorySlots THEN Append(h, sel)
                             ELSE <<h[2], h[3], sel>>

(***************************************************************************)
(* gx_feature_root_aux_metadata_prepare_profile24.                         *)
(***************************************************************************)
PrepareMetadata ==
    /\ stage = "metadata"
    /\ Pass("generate", {})
    /\ stability' = Steadied(stability, classes, image)
    /\ history' = IF image.high THEN HistoryUpdate(history, selected)
                                ELSE history
    /\ UNCHANGED <<recordVars, callVars, uneven>>

-----------------------------------------------------------------------------
(* The records.                                                            *)

(***************************************************************************)
(* generate_profile24.  Too few candidates are an error of their own.      *)
(***************************************************************************)
GenerateProfile24 ==
    /\ stage = "generate"
    /\ \/ Pass("outputs", {})
       \/ Fail({"MEMORY", "FILTER", "GENERATOR", "LOW_FEATURE_COUNT"}, {{}})
    /\ UNCHANGED <<recordVars, auxState, callVars, uneven>>

(***************************************************************************)
(* gx_feature_object_output_maps_ensure stops at the first map it does not *)
(* get.                                                                    *)
(***************************************************************************)
EnsureOutputMaps ==
    /\ stage = "outputs"
    /\ \/ Pass("window", {"map0", "map1", "map2"})
       \/ Fail({"MEMORY"}, {{}, {"map0"}, {"map0", "map1"}})
    /\ UNCHANGED <<recordVars, auxState, callVars, uneven>>

WindowQuality ==
    /\ stage = "window"
    /\ \/ /\ Pass("global", {})
          /\ \E n \in 1..Capacity : Fill(n)
       \/ /\ Fail({"POSTPROCESS"}, {{}})
          /\ UNCHANGED recordVars
    /\ UNCHANGED <<auxState, callVars, uneven>>

(***************************************************************************)
(* gx_feature_global_postprocess; what it returns is not looked at.        *)
(***************************************************************************)
GlobalPostprocess ==
    /\ stage = "global"
    /\ Pass("prune", {})
    /\ uneven' \in BOOLEAN
    /\ UNCHANGED <<recordVars, auxState, callVars>>

PruneMask ==
    /\ stage = "prune"
    /\ PruneStep
    /\ stage' = IF loop' = "pruned" THEN "compact" ELSE stage
    /\ UNCHANGED <<status, heap, auxState, callVars, uneven>>

CompactExpandAndPack ==
    /\ stage = "compact"
    /\ \/ Pass("partition", {"packed"})
       \/ Fail({"MEMORY", "POSTPROCESS"}, {{}})
    /\ UNCHANGED <<recordVars, auxState, callVars, uneven>>

PartitionRecords ==
    /\ stage = "partition"
    /\ StartPartition \/ PartitionStep
    /\ stage' = IF loop' = "done" THEN "neighbor" ELSE stage
    /\ UNCHANGED <<status, heap, auxState, callVars, uneven>>

(***************************************************************************)
(* The second pass over the qualities; it can fail for an uneven image     *)
(* only.                                                                   *)
(***************************************************************************)
NeighborQuality ==
    /\ stage = "neighbor"
    /\ \/ Pass("handover", {})
       \/ uneven /\ Fail({"POSTPROCESS"}, {{}})
    /\ UNCHANGED <<recordVars, auxState, callVars, uneven>>

-----------------------------------------------------------------------------
(* The end of the call.                                                    *)

(***************************************************************************)
(* The feature goes to the caller.                                         *)
(***************************************************************************)
LastThree(s) == SubSeq(s, Highest(1, Len(s) - 2), Len(s))

HandOver ==
    /\ stage = "handover"
    /\ stage' = "cleanup"
    /\ status' = "OK"
    /\ handed' = TRUE
    /\ earned' = Steadied(earned, classes, image)
    /\ recent' = IF image.high THEN LastThree(Append(recent, selected))
                               ELSE recent
    /\ UNCHANGED <<recordVars, regionVars, pickVars, heap, auxState, image,
                   backup, uneven>>

ClearRecords ==
    /\ covered' = {}
    /\ ones' = {}
    /\ detected' = {}
    /\ records' = [i \in Slots |-> Blank]
    /\ quality' = [i \in Slots |-> Blank]
    /\ count' = 0
    /\ loop' = "none"
    /\ front' = 0
    /\ last' = 0
    /\ zeroCount' = 0

KeepTemporaryMutant == Locals \ {"temporary"}

Released == Locals

KeepCounterMutant == <<backup[1], stability>>

Restored == backup

CleanUp ==
    /\ stage = "cleanup"
    /\ stage' = "idle"
    /\ IF status = "OK"
       THEN /\ heap' = heap \ Released
            /\ UNCHANGED auxState
       ELSE /\ heap' = heap \ (Released \cup FeatureParts)
            /\ history' = Restored[1]
            /\ stability' = Restored[2]
    /\ ClearRecords
    /\ selected' = [p \in Pixels |-> Nothing]
    /\ classes' = {}
    /\ uneven' = FALSE
    /\ UNCHANGED <<regionVars, status, image, backup, handed, successes>>

-----------------------------------------------------------------------------
Preparation == \/ ParseFlags \/ AllocateGray \/ CreateObject
               \/ AllocateBuffers \/ PrepareMask \/ PrepareOptionalImage
               \/ FilterImage \/ PrepareFeatureMaps \/ AllocateAuxMap
               \/ StartFilter \/ FilterStep \/ EndFilter
               \/ PrepareMetadata

Generation == \/ GenerateProfile24 \/ EnsureOutputMaps \/ WindowQuality
              \/ GlobalPostprocess \/ PruneMask \/ CompactExpandAndPack
              \/ PartitionRecords \/ NeighborQuality

ExtractorNext ==
    \/ Begin \/ DestroyFeature \/ ResetState
    \/ Preparation \/ Generation
    \/ HandOver \/ CleanUp

ExtractorSpec == ExtractorInit /\ [][ExtractorNext]_allVars
-----------------------------------------------------------------------------
(* What an extraction promises.                                            *)

(***************************************************************************)
(* Whichever stage failed, after the call no memory is left that nobody    *)
(* will free; and a feature that was handed out is complete.               *)
(***************************************************************************)
MemoryIsTheCallers ==
    stage = "idle" => heap = IF handed THEN FeatureParts ELSE {}

(***************************************************************************)
(* A failed extraction leaves no trace: the state that the next image is   *)
(* judged by is the one that the images of the successful calls give, the  *)
(* history being that of the last three of them with a high coverage.  A   *)
(* call that failed after the metadata stage had already changed it.       *)
(***************************************************************************)
AuxStateIsOfSuccesses ==
    stage = "idle" => history = recent /\ stability = earned
=============================================================================
