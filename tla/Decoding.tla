------------------------------ MODULE Decoding ------------------------------
(***************************************************************************)
(* gx_chicagohu_decode: 12-bit pixels out of groups of six bytes, and the  *)
(* order in which they are put.  Its checksum is an outcome in Capture.    *)
(***************************************************************************)
EXTENDS Integers

Width  == 64
Height == 80
Pixels == Width * Height

PackedSize == 7680

(***************************************************************************)
(* Three bytes carry two pixels; of a group the second half lies the other *)
(* way round.                                                              *)
(***************************************************************************)
Low(half, byte)  == 256 * (half % 16) + byte
High(byte, half) == 16 * byte + (half \div 16)

Unpacked(raw, i) ==
    LET group == 6 * (i \div 4)
        b(k)  == raw[group + k]
    IN  CASE i % 4 = 0 -> Low(b(0), b(1))
          [] i % 4 = 1 -> High(b(3), b(0))
          [] i % 4 = 2 -> Low(b(5), b(2))
          [] i % 4 = 3 -> High(b(4), b(5))

(***************************************************************************)
(* Where pixel i goes.                                                     *)
(***************************************************************************)
Place(i) == (i % Width) * Height + (i \div Width)

Source(p) == CHOOSE i \in 0..(Pixels - 1) : Place(i) = p

Decode(raw) == [p \in 0..(Pixels - 1) |-> Unpacked(raw, Source(p))]
=============================================================================
