----------------------------- MODULE MCMatcher -----------------------------
(***************************************************************************)
(* Enrollments of up to four samples out of five: a finger and a part of   *)
(* it with two records alike, both of them also moved and turned, and a    *)
(* stranger; the enrollment engine refuses a sample it has already.  The   *)
(* scans are the finger and the part turned the other way, and a blurred   *)
(* one.  A turn is 8 units, and 1.0 is 10 in a cosine and 100 in a score.  *)
(***************************************************************************)
EXTENDS Matcher

MCCosine == [a \in -4..4 |-> CASE Magnitude(a) = 0 -> 10 [] Magnitude(a) = 1 -> 7
                               [] Magnitude(a) = 2 -> 0  [] Magnitude(a) = 3 -> -7
                               [] OTHER -> -10]
MCSine == [a \in -4..4 |-> IF a < -2 THEN MCCosine[a + 6] ELSE MCCosine[a - 2]]

R(x, y, angle, class, bits) ==
    [x |-> x, y |-> y, angle |-> angle, class |-> class, bits |-> bits]

Turned(s, turn, dx, dy) ==
    [i \in DOMAIN s |->
        R(dx + (s[i].x * MCCosine[turn] - s[i].y * MCSine[turn]) \div 10,
          dy + (s[i].x * MCSine[turn] + s[i].y * MCCosine[turn]) \div 10,
          (s[i].angle + turn) % 8, s[i].class, s[i].bits)]

Finger   == <<R(2, 3, 0, 1, {1}), R(9, 3, 3, 1, {2, 3}), R(4, 9, 6, 2, {1, 3})>>
Part     == <<R(2, 3, 7, 1, {1}), R(2, 3, 7, 0, {1}), R(9, 4, 2, 1, {2, 3})>>
Blurred  == <<R(3, 3, 0, 1, {1, 2}), R(9, 4, 4, 1, {2}), R(4, 8, 6, 2, {1, 3})>>
Stranger == <<R(1, 1, 0, 1, {}), R(8, 8, 4, 1, {1, 2, 3})>>

MCSamples == {Finger, Turned(Finger, 2, 20, 5), Part, Turned(Part, 4, 30, 30),
              Stranger}

MCEnrollments == {e \in BoundedSeq(MCSamples, 4) : IsInjective(e)}

MCProbes == {Turned(Finger, -4, 20, 20), Turned(Part, -2, 3, 15), Blurred}

Configured(seeds, consensus, threshold) ==
    [seeds |-> seeds, radius |-> 2, angle |-> 1, hamming |-> 1, pairs |-> 2,
     consensus |-> consensus, threshold |-> threshold]

MCConfigs == {Configured(9, 3, 74), Configured(2, 3, 51), Configured(1, 2, 74),
              Configured(9, 4, 74)}
=============================================================================
