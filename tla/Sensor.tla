------------------------------- MODULE Sensor -------------------------------
(***************************************************************************)
(* What the driver computes from the sensor's one-time programmable memory *)
(* before it uploads a configuration: the settings that gx_otp_parse takes *)
(* from whichever copies are sound, and the configuration that             *)
(* gx_config_prepare patches with them.                                    *)
(*                                                                         *)
(* Memory and configuration are functions from 0-based addresses to bytes. *)
(* The third of the memory's domains (CP) goes only into a report and is   *)
(* left out.                                                               *)
(*                                                                         *)
(* Definitions named ...Mutant are wrong variants of the definition after  *)
(* them, kept to show that the properties notice the difference.           *)
(***************************************************************************)
EXTENDS Integers, Sequences, FiniteSets

CONSTANT Template   \* gx5125_chicagohu_config_template, from address 0

Byte == 0..255

OtpSize    == 64
ConfigSize == 224

ASSUME SensorAssumption == Template \in [0..(ConfigSize - 1) -> Byte]

-----------------------------------------------------------------------------
(* The checksum.                                                           *)

BitOf(value, i) == (value \div 2^i) % 2

Flipped(byte, i) == IF BitOf(byte, i) = 0 THEN byte + 2^i ELSE byte - 2^i

Xor == [a \in Byte |-> [b \in Byte |->
          LET sum[i \in 0..8] ==
                IF i = 0 THEN 0
                ELSE sum[i - 1] + (IF BitOf(a, i - 1) = BitOf(b, i - 1)
                                   THEN 0 ELSE 2^(i - 1))
          IN  sum[8]]]

(***************************************************************************)
(* The table of 256 bytes divides a byte by x^8 + x^2 + x + 1.             *)
(***************************************************************************)
Crc8Table ==
    [b \in Byte |->
       LET left[i \in 0..8] ==
             IF i = 0 THEN b
             ELSE IF left[i - 1] < 128 THEN 2 * left[i - 1]
                  ELSE Xor[(2 * left[i - 1]) % 256][7]
       IN  left[8]]

Crc8(data) ==
    LET left[i \in 0..Len(data)] ==
          IF i = 0 THEN 0 ELSE Crc8Table[Xor[left[i - 1]][data[i]]]
    IN  255 - left[Len(data)]

-----------------------------------------------------------------------------
(* The memory: domains are the addresses that one checksum covers.         *)

Run(first, length) == [i \in 1..length |-> first + i - 1]

FtDomain == Run(11, 9) \o Run(28, 1) \o Run(50, 4) \o Run(56, 4) \o Run(62, 1)
MtDomain == Run(20, 8) \o Run(29, 7) \o Run(40, 10) \o Run(54, 2)

FtSum == 61
MtSum == 63

(***************************************************************************)
(* Each domain has a copy of the four DAC values, with a checksum of their *)
(* own.                                                                    *)
(***************************************************************************)
FtDac == Run(50, 4)
MtDac == Run(46, 4)

FtDacSum == 62
MtDacSum == 22

Bytes(memory, addresses) == [i \in 1..Len(addresses) |-> memory[addresses[i]]]

SumFits(memory, addresses, sum) == Crc8(Bytes(memory, addresses)) = memory[sum]

NonZero(bytes) == \A i \in 1..Len(bytes) : bytes[i] # 0

(***************************************************************************)
(* gx_select_dac.  When no checksum holds, the copies are compared: three  *)
(* equal ones are enough, and the mean of the other three stands for the   *)
(* fourth.                                                                 *)
(***************************************************************************)
NoDac == <<>>

Sound(memory, domain, domainSum, dac, dacSum) ==
    \/ SumFits(memory, domain, domainSum)
    \/ NonZero(Bytes(memory, dac)) /\ SumFits(memory, dac, dacSum)

MeanOfOthers(bytes, i) ==
    (bytes[(i % 4) + 1] + bytes[((i + 1) % 4) + 1] + bytes[((i + 2) % 4) + 1]) \div 3

Compared(ft, mt) ==
    IF Cardinality({i \in 1..4 : mt[i] = ft[i] /\ ft[i] # 0}) < 3 THEN NoDac
    ELSE [i \in 1..4 |-> IF mt[i] = ft[i] THEN ft[i] ELSE MeanOfOthers(mt, i)]

SelectDac(memory) ==
    IF Sound(memory, FtDomain, FtSum, FtDac, FtDacSum) THEN Bytes(memory, FtDac)
    ELSE IF Sound(memory, MtDomain, MtSum, MtDac, MtDacSum) THEN Bytes(memory, MtDac)
    ELSE Compared(Bytes(memory, FtDac), Bytes(memory, MtDac))

(***************************************************************************)
(* gx_select_tcode_source: two copies and a complement, any two of which   *)
(* decide.                                                                 *)
(***************************************************************************)
SelectTcodeSource(memory) ==
    LET first      == memory[42]
        complement == memory[43]
        second     == memory[45]
    IN  IF first # 0 /\ first = 255 - complement THEN first
        ELSE IF second # 0 /\ second = 255 - complement THEN second
        ELSE IF first # 0 /\ first = second THEN first
        ELSE 0

(***************************************************************************)
(* gx_select_fdt_offset: the majority of three copies in one byte, the     *)
(* middle one inverted.                                                    *)
(***************************************************************************)
FirstOffsetMutant(value) == value % 4

SelectFdtOffset(value) ==
    LET first  == value % 4
        second == (value \div 16) % 4
        third  == ((255 - value) \div 4) % 4
    IN  IF first \in {second, third} THEN first
        ELSE IF second = third THEN second
        ELSE 0

Tcode(source) == IF source = 0 THEN 128 ELSE 16 * ((source \div 16) + 1) + 64

FdtDelta(source) ==
    IF source = 0 THEN 21
    ELSE ((((((source % 16) + 2) * 25600) \div Tcode(source)) \div 3) \div 16) % 256

(***************************************************************************)
(* gx_otp_parse; without DAC values it fails.                              *)
(***************************************************************************)
OtpParse(memory) ==
    [dac    |-> SelectDac(memory),
     tcode  |-> Tcode(SelectTcodeSource(memory)),
     delta  |-> FdtDelta(SelectTcodeSource(memory)),
     offset |-> SelectFdtOffset(memory[27])]

Parsed(info) == info.dac # NoDac

-----------------------------------------------------------------------------
(* The configuration: at its start a table of eight sections, in which     *)
(* registers of an address and a value follow one another; at its end a    *)
(* checksum.  All of them are 16-bit words.                                *)

Word(config, i) == config[i] + 256 * config[i + 1]

WithWord(config, i, value) ==
    [config EXCEPT ![i] = value % 256, ![i + 1] = value \div 256]

NoConfig == <<>>

(***************************************************************************)
(* The positions of the registers of a section.                            *)
(***************************************************************************)
Registers(config, section) ==
    LET start  == config[1 + section * 2]
        length == config[2 + section * 2]
    IN  IF start + length > ConfigSize - 2 \/ length % 4 # 0 THEN {}
        ELSE {start + 4 * k : k \in 0..((length \div 4) - 1)}

Found(config, section, address) ==
    {i \in Registers(config, section) : Word(config, i) = address}

(***************************************************************************)
(* In the driver's template the registers lie behind the table, none       *)
(* overlaps another, and none has its section's address a second time.     *)
(***************************************************************************)
ASSUME TemplateAssumption ==
    \A s, t \in 0..7 : \A i \in Registers(Template, s), k \in Registers(Template, t) :
        /\ i > 16
        /\ s # t \/ i # k => i + 4 <= k \/ k + 4 <= i
        /\ s = t /\ Word(Template, i) = Word(Template, k) => i = k

(***************************************************************************)
(* It has every register that gx_config_prepare patches.                   *)
(***************************************************************************)
ASSUME PatchAssumption ==
    /\ \A address \in {544, 566, 568, 570, 92} : Found(Template, 0, address) # {}
    /\ \A address \in {130, 86} : Found(Template, 2, address) # {}

(***************************************************************************)
(* Mode 0 sets the word, mode 1 its low byte, mode 2 its high byte.        *)
(***************************************************************************)
WholeWordMutant(current, value, mode) == value

Mixed(current, value, mode) ==
    CASE mode = 0 -> value
      [] mode = 1 -> 256 * (current \div 256) + (value % 256)
      [] mode = 2 -> 256 * (value \div 256) + (current % 256)

(***************************************************************************)
(* gx_config_modify: the first register of the section with the address.   *)
(***************************************************************************)
ConfigModify(config, patch) ==
    IF config = NoConfig \/ Found(config, patch.section, patch.address) = {}
    THEN NoConfig
    ELSE LET i == CHOOSE i \in Found(config, patch.section, patch.address) :
                    \A k \in Found(config, patch.section, patch.address) : i <= k
         IN  WithWord(config, i + 2,
                      Mixed(Word(config, i + 2), patch.value, patch.mode))

Patch(section, address, value, mode) ==
    [section |-> section, address |-> address, value |-> value, mode |-> mode]

Patches(info) ==
    <<Patch(0, 544, 16 * info.dac[1] + 8, 0),   \* 0x0220
      Patch(0, 566, info.dac[2], 0),            \* 0x0236
      Patch(0, 568, info.dac[3], 0),            \* 0x0238
      Patch(0, 570, info.dac[4], 0),            \* 0x023a
      Patch(0, 92, info.tcode, 0),              \* 0x005c
      Patch(2, 130, 256 * info.delta, 2)>>      \* 0x0082
    \o IF info.offset = 0 THEN <<>>
       ELSE <<Patch(2, 86, info.offset + 4, 1)>> \* 0x0056

(***************************************************************************)
(* The sum of the first n words, with the checksum's offset.               *)
(***************************************************************************)
SumOfWords(config, n) ==
    LET sum[i \in 0..n] == IF i = 0 THEN 0 ELSE sum[i - 1] + Word(config, 2 * (i - 1))
    IN  (42405 + sum[n]) % 65536      \* 0xa5a5

WithChecksum(config) ==
    WithWord(config, 222, (65536 - SumOfWords(config, 111)) % 65536)

ChecksumFits(config) == SumOfWords(config, 112) = 0

(***************************************************************************)
(* The template with one patch after another.                              *)
(***************************************************************************)
Modified(patches) ==
    LET config[i \in 0..Len(patches)] ==
          IF i = 0 THEN Template ELSE ConfigModify(config[i - 1], patches[i])
    IN  config[Len(patches)]

(***************************************************************************)
(* gx_config_prepare.                                                      *)
(***************************************************************************)
ConfigPrepare(info) ==
    LET patched == Modified(Patches(info))
    IN  IF patched = NoConfig THEN NoConfig
        ELSE IF ChecksumFits(WithChecksum(patched)) THEN WithChecksum(patched)
        ELSE NoConfig
=============================================================================
