---------------------------- MODULE MCEnrollment ----------------------------
(***************************************************************************)
(* Four scans, one with too few records for the stricter configuration,    *)
(* and a similarity of its own for every pair of them; two configurations  *)
(* that can be met and one that is refused.  The unit is 6 for 65536.      *)
(***************************************************************************)
EXTENDS Enrollment

CONSTANTS left, middle, right, small

MCFeatures == {left, middle, right, small}

MCRecordCount ==
    [f \in MCFeatures |-> CASE f = left -> 3 [] f = middle -> 4
                            [] f = right -> 3 [] f = small -> 1]

Closeness(p) ==
    CASE p = {left, middle}  -> 5 [] p = {left, right}  -> 2
      [] p = {middle, right} -> 4 [] p = {left, small}  -> 1
      [] p = {middle, small} -> 3 [] p = {right, small} -> 0
      [] OTHER               -> 6

MCSimilarity == [p \in MCFeatures \X MCFeatures |-> Closeness({p[1], p[2]})]

MCConfigs ==
    {[target |-> 2, quality |-> 0,  coverage |-> 0,  records |-> 1],
     [target |-> 3, quality |-> 60, coverage |-> 70, records |-> 2],
     [target |-> 4, quality |-> 60, coverage |-> 70, records |-> 2]}

MCQualities == {59, 60}
MCCoverages == {69, 70}
=============================================================================
