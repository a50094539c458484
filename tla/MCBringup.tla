----------------------------- MODULE MCBringup -----------------------------
(***************************************************************************)
(* Three calls: an open, what follows it, and an open after both; two      *)
(* replugs can hit any of them.  The template is the driver's.  Two        *)
(* memories: one with touch settings and one without, both with DAC values *)
(* of four different bytes.                                                *)
(***************************************************************************)
EXTENDS Bringup

MCTemplateBytes ==
    <<112, 17, 116, 133, 0, 133, 44, 177, 24, 201, 20, 221, 0, 221, 0, 221,
      0, 186, 0, 1, 128, 202, 0, 4, 0, 132, 0, 21, 179, 134, 0, 0,
      196, 136, 0, 0, 186, 138, 0, 0, 178, 140, 0, 0, 170, 142, 0, 0,
      193, 144, 0, 187, 187, 146, 0, 177, 177, 148, 0, 0, 168, 150, 0, 0,
      182, 152, 0, 0, 0, 154, 0, 0, 0, 210, 0, 0, 0, 212, 0, 0,
      0, 214, 0, 0, 0, 216, 0, 0, 0, 80, 0, 1, 5, 208, 0, 0,
      0, 112, 0, 0, 0, 114, 0, 120, 86, 116, 0, 52, 18, 32, 0, 16,
      64, 92, 0, 128, 1, 32, 2, 8, 8, 54, 2, 128, 0, 56, 2, 128,
      0, 58, 2, 128, 0, 42, 1, 130, 3, 34, 0, 1, 32, 36, 0, 20,
      0, 128, 0, 1, 0, 92, 0, 0, 1, 86, 0, 4, 32, 88, 0, 3,
      2, 50, 0, 12, 2, 102, 0, 3, 0, 124, 0, 0, 88, 130, 0, 128,
      21, 42, 1, 8, 0, 84, 0, 16, 1, 98, 0, 4, 3, 100, 0, 25,
      0, 102, 0, 3, 0, 124, 0, 0, 88, 42, 1, 8, 0, 82, 0, 8,
      0, 84, 0, 0, 1, 102, 0, 3, 0, 124, 0, 0, 88, 0, 0, 0>>

MCTemplate == [a \in 0..223 |-> MCTemplateBytes[a + 1]]

(***************************************************************************)
(* A memory as it leaves the factory: copies that agree, checksums that    *)
(* fit, and bytes nobody reads.  The checksums of the values are part of   *)
(* the domains.                                                            *)
(***************************************************************************)
Plain(dac, source, offset) ==
    [a \in 0..63 |->
       CASE a \in 46..49 -> dac[a - 45]
         [] a \in 50..53 -> dac[a - 49]
         [] a \in {42, 45} -> source
         [] a = 43 -> 255 - source
         [] a = 27 -> 17 * offset + 4 * (3 - offset)
         [] OTHER  -> (7 * a + 3) % 256]

WithDacSums(memory) ==
    [memory EXCEPT ![22] = Crc8(Bytes(memory, MtDac)), ![62] = Crc8(Bytes(memory, FtDac))]

WithSums(memory) ==
    [memory EXCEPT ![61] = Crc8(Bytes(memory, FtDomain)),
                ![63] = Crc8(Bytes(memory, MtDomain))]

Memory(dac, source, offset) == WithSums(WithDacSums(Plain(dac, source, offset)))

MCMemories == {Memory(<<132, 120, 135, 90>>, 58, 2), Memory(<<200, 131, 128, 127>>, 0, 0)}
=============================================================================
