---------------------------- MODULE MCExtractor -----------------------------
(***************************************************************************)
(* Five images of three by four pixels.  The first has a winding dark      *)
(* region, a bright one and specks of both; it is remembered, three times  *)
(* over it is an anomaly.  The second is empty, remembered and clean       *)
(* otherwise.  The others change nothing that is remembered: more specks   *)
(* than labels, a dark region too wide for the queue, and two dark regions *)
(* for one place, the larger of which goes on upwards.                     *)
(***************************************************************************)
EXTENDS Extractor, TLC

CONSTANTS k1, k2, k3

MCImage(rows, high, level, holes) ==
    [picture |-> [p \in Pixels |-> rows[p[1] + 1][p[2] + 1]],
     high |-> high, level |-> level, holes |-> holes]

MCImages ==
    {MCImage(<<<<1, 1, 0, 2>>,
               <<0, 1, 0, 2>>,
               <<1, 0, 2, 0>>>>, TRUE, 0, TRUE),
     MCImage(<<<<0, 0, 0, 0>>,
               <<0, 0, 0, 0>>,
               <<0, 0, 0, 0>>>>, TRUE, 0, TRUE),
     MCImage(<<<<1, 0, 1, 0>>,
               <<0, 1, 0, 1>>,
               <<1, 0, 1, 1>>>>, FALSE, 2, FALSE),
     MCImage(<<<<2, 0, 1, 1>>,
               <<2, 1, 1, 1>>,
               <<2, 2, 1, 1>>>>, FALSE, 2, FALSE),
     MCImage(<<<<0, 1, 0, 1>>,
               <<0, 1, 0, 1>>,
               <<1, 1, 0, 1>>>>, FALSE, 0, TRUE)}

Symmetry == Permutations(Keypoints)
=============================================================================
