--------------------------- MODULE MCStoredPrint ---------------------------
(***************************************************************************)
(* Four actions are enough for an open that is cancelled, the open after   *)
(* it, an operation and a close, and for open, enroll and verify; three    *)
(* captures for one before, one during and one after a cancellation.  Any  *)
(* part of a print may be damaged, and the size field together with the    *)
(* length.  The PSK file is good, another machine's, readable by others,   *)
(* or too short.                                                           *)
(***************************************************************************)
EXTENDS StoredPrint

MCKeys == {"k1", "k2"}

MCDamages ==
    {{part} : part \in {"type", "magic", "size", "salt", "tag", "body"}} \cup
    {{"size", "length"}}

GoodFile(k) == [key |-> k, regular |-> TRUE, private |-> TRUE,
                length |-> 65, digits |-> 64, junk |-> FALSE]

MCKeyFiles == {GoodFile("k1"), GoodFile("k2"),
               [GoodFile("k1") EXCEPT !.private = FALSE],
               [GoodFile("k1") EXCEPT !.digits = 63]}
=============================================================================
