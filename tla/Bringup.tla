------------------------------ MODULE Bringup ------------------------------
(***************************************************************************)
(* What gx5125_device_open does once the receiver runs: the commands of    *)
(* control_preflight, sensor_initialize and tls_connect, the settings read *)
(* from the sensor's memory, and the loop of the TLS handshake with the    *)
(* receiver thread and the sensor at its other end.  Device has these as   *)
(* three steps; here each of them is done command by command, and whatever *)
(* Device may do besides may happen in between.                            *)
(*                                                                         *)
(* OpenSSL and the sensor are modelled from how the code uses them.  The   *)
(* handshake is four flights: "hello" and "key" from the sensor, "parts"   *)
(* and "finished" from the driver.  A flight belongs to the connection     *)
(* whose D/0 started it, and flights of an earlier open may still be under *)
(* way.  A flight is a whole number of outer frames, which come in order   *)
(* or are lost.                                                            *)
(*                                                                         *)
(* A command is one step with an outcome; how it comes by it is in         *)
(* Session.                                                                *)
(***************************************************************************)
EXTENDS Device, Sensor

CONSTANT Memories   \* the memories with which sensors leave the factory

Addresses == 0..(OtpSize - 1)

ASSUME BringupAssumption == Memories \subseteq [Addresses -> Byte]

(***************************************************************************)
(* As it leaves the factory a memory has copies that agree, and checksums  *)
(* that fit: everything gx_otp_parse compares.                             *)
(***************************************************************************)
OffsetCopies(value) ==
    {value % 4, (value \div 16) % 4, ((255 - value) \div 4) % 4}

Undamaged(memory) ==
    /\ SumFits(memory, FtDomain, FtSum) /\ SumFits(memory, FtDac, FtDacSum)
    /\ SumFits(memory, MtDomain, MtSum) /\ SumFits(memory, MtDac, MtDacSum)
    /\ Bytes(memory, FtDac) = Bytes(memory, MtDac)
    /\ memory[45] = memory[42] /\ memory[43] = 255 - memory[42]
    /\ OffsetCopies(memory[27]) = {memory[27] % 4}

ASSUME FactoryAssumption == \A memory \in Memories : Undamaged(memory)

VARIABLES
    at,        \* the command the open is at, "none" outside the three steps
    polls,     \* how often tls_connect asked for the sensor's state
    otp,       \* what was read: the settings, those intended, bits flipped
    server,    \* OpenSSL's side: the last flight seen, of which connection
    input,     \* flights in OpenSSL's read BIO
    pending,   \* messages in its write BIO
    fifo       \* flights in session->tls_stream

(***************************************************************************)
(* The sensor and the ways to it.                                          *)
(***************************************************************************)
VARIABLES
    toSensor,  \* messages written and not yet handled
    toHost,    \* flights the sensor sent and the receiver has not read
    client,    \* the sensor's side: what it has seen, of which connection
    loaded,    \* the sensor's configuration: "none", "new" (this open's), "old"
    started,   \* connections so far
    dropped    \* a flight was lost since the latest D/0

openVars    == <<at, polls, otp>>
tlsVars     == <<server, input, pending, fifo>>
wayVars     == <<toSensor, toHost, dropped>>
sensorVars  == <<client, loaded>>
bringupVars == <<vars, openVars, tlsVars, wayVars, sensorVars, started>>

NoOtp     == "none"
NewServer == [seen |-> "none", conn |-> 0]
Idle      == [seen |-> "none", conn |-> 0]

BringupInit ==
    /\ Init
    /\ at = "none" /\ polls = 0 /\ otp = NoOtp
    /\ server = NewServer
    /\ input = <<>> /\ pending = <<>> /\ fifo = <<>>
    /\ toSensor = <<>> /\ toHost = <<>> /\ dropped = FALSE
    /\ client = Idle /\ loaded = "none"
    /\ started = 0

-----------------------------------------------------------------------------
(* Around the three steps.                                                 *)

Elsewhere ==
    /\ \/ Open \/ Close
       \/ ReadKey \/ InitTls \/ OpenUsb \/ ValidateLayout
       \/ SetAutoDetach \/ Detach \/ Claim
       \/ Release \/ Reattach \/ CloseUsb
    /\ UNCHANGED <<openVars, tlsVars, wayVars, sensorVars, started>>

(***************************************************************************)
(* gx_session_start begins with an empty FIFO.                             *)
(***************************************************************************)
EnterTalk ==
    /\ StartSession
    /\ at' = IF step' = "preflight" THEN "first" ELSE "none"
    /\ fifo' = <<>>
    /\ loaded' = IF loaded = "none" THEN "none" ELSE "old"
    /\ UNCHANGED <<polls, otp, server, input, pending, wayVars, client,
                   started>>

EndSession ==
    /\ StopSession
    /\ fifo' = <<>>
    /\ UNCHANGED <<openVars, server, input, pending, wayVars, sensorVars,
                   started>>

ForgetAll ==
    /\ CleanUp
    /\ server' = NewServer /\ input' = <<>> /\ pending' = <<>>
    /\ UNCHANGED <<openVars, fifo, wayVars, sensorVars, started>>

(***************************************************************************)
(* The sensor has lost its power, and with it what it knew.                *)
(***************************************************************************)
PowerCycle ==
    /\ Replug
    /\ client' = Idle /\ loaded' = "none"
    /\ toSensor' = <<>> /\ toHost' = <<>>
    /\ UNCHANGED <<openVars, tlsVars, dropped, started>>

(***************************************************************************)
(* A command of the three steps succeeds and the next one follows.         *)
(***************************************************************************)
Proceed(here, next) ==
    /\ at = here
    /\ at' = next
    /\ handle = "live"
    /\ UNCHANGED vars

(***************************************************************************)
(* Where an error ends the open: a command without an answer, a write or a *)
(* read that fails, a chip, an answer or a flight that is refused, or the  *)
(* deadline, looked at before OpenSSL is called and before a read.         *)
(***************************************************************************)
MaxPolls == 3

MayFail ==
    \/ at \in {"first", "idle", "chip", "otp", "upload", "init", "shake",
               "flush", "wait", "refused", "established"}
    \/ at = "poll" /\ polls = MaxPolls

GiveUp ==
    /\ Preflight \/ InitializeSensor \/ ConnectTls
    /\ step' = FirstCloseStep
    /\ at' = "none"
    /\ polls' = 0
    /\ otp' = NoOtp

Break ==
    /\ MayFail
    /\ GiveUp
    /\ UNCHANGED <<tlsVars, wayVars, sensorVars, started>>

-----------------------------------------------------------------------------
(* control_preflight and sensor_initialize.                                *)

AskFirst ==
    /\ Proceed("first", "idle")
    /\ UNCHANGED <<polls, otp, tlsVars, wayVars, sensorVars, started>>

PutToIdle ==
    /\ Proceed("idle", "chip")
    /\ UNCHANGED <<polls, otp, tlsVars, wayVars, sensorVars, started>>

CheckChip ==
    /\ at = "chip"
    /\ Preflight
    /\ step' = "sensor"
    /\ at' = "otp"
    /\ UNCHANGED <<polls, otp, tlsVars, wayVars, sensorVars, started>>

(***************************************************************************)
(* What may be read from a memory in which up to two bits have flipped:    *)
(* one anywhere, or two where the DAC values and their checksums are.  The *)
(* same flip in both copies of a value is left out: nothing could tell it. *)
(***************************************************************************)
Bits    == Addresses \X (0..7)
DacBits == ({MtDacSum} \cup (46..53) \cup (61..63)) \X (0..7)

Flip(memory, bit) == [memory EXCEPT ![bit[1]] = Flipped(@, bit[2])]

SameOfCopies(a, b) ==
    \E i \in 1..4 : {a, b} = {<<FtDac[i], a[2]>>, <<MtDac[i], a[2]>>}

Flips(memory) ==
    {[flips |-> 0, memory |-> memory]}
    \cup {[flips |-> 1, memory |-> Flip(memory, a)] : a \in Bits}
    \cup UNION {{[flips |-> 2, memory |-> Flip(Flip(memory, a), b)] :
                    b \in {b \in DacBits : b # a /\ ~SameOfCopies(a, b)}} : a \in DacBits}

ParsedFlips ==
    UNION {{[settings |-> OtpParse(f.memory), meant |-> OtpParse(memory),
             flips |-> f.flips] : f \in Flips(memory)} : memory \in Memories}

(***************************************************************************)
(* What the value of a register should be with the settings.  Of the touch *)
(* registers one half is the template's.                                   *)
(***************************************************************************)
Setting(info, section, address, template) ==
    CASE section = 0 /\ address = 544 -> 16 * info.dac[1] + 8
      [] section = 0 /\ address = 566 -> info.dac[2]
      [] section = 0 /\ address = 568 -> info.dac[3]
      [] section = 0 /\ address = 570 -> info.dac[4]
      [] section = 0 /\ address = 92  -> info.tcode
      [] section = 2 /\ address = 130 -> 256 * info.delta + (template % 256)
      [] section = 2 /\ address = 86 /\ info.offset # 0
                                      -> 256 * (template \div 256) + info.offset + 4
      [] OTHER                        -> template

Carries(config, info) ==
    /\ ChecksumFits(config)
    /\ \A section \in 0..7 : \A i \in Registers(Template, section) :
          /\ Word(config, i) = Word(Template, i)
          /\ Word(config, i + 2) =
                Setting(info, section, Word(Template, i), Word(Template, i + 2))

Readings ==
    {LET config == IF Parsed(p.settings) THEN ConfigPrepare(p.settings) ELSE NoConfig
     IN  [settings |-> p.settings, meant |-> p.meant, flips |-> p.flips,
          usable |-> config # NoConfig,
          carries |-> config # NoConfig /\ Carries(config, p.settings)]
       : p \in ParsedFlips}

ReadOtp ==
    /\ Proceed("otp", "prepare")
    /\ \E r \in Readings : otp' = r
    /\ UNCHANGED <<polls, tlsVars, wayVars, sensorVars, started>>

PrepareConfig ==
    /\ at = "prepare"
    /\ IF otp.usable
       THEN at' = "upload" /\ otp' = NoOtp /\ UNCHANGED <<vars, polls>>
       ELSE GiveUp
    /\ UNCHANGED <<tlsVars, wayVars, sensorVars, started>>

(***************************************************************************)
(* The order of gx_tls_server_handshake_usb: flights of earlier            *)
(* connections are dropped, D/0 makes the sensor begin, OpenSSL is called. *)
(***************************************************************************)
ClearLastMutant(now) ==
    CASE now = "upload" -> "init" [] now = "init" -> "clear" [] now = "clear" -> "shake"

Following(now) ==
    CASE now = "upload" -> "clear" [] now = "clear" -> "init" [] now = "init" -> "shake"

(***************************************************************************)
(* The sensor takes the configuration; its answer may be lost.             *)
(***************************************************************************)
Upload ==
    /\ at = "upload"
    /\ handle = "live"
    /\ loaded' = "new"
    /\ \/ /\ InitializeSensor
          /\ step' = "handshake"
          /\ at' = Following("upload")
          /\ UNCHANGED <<polls, otp>>
       \/ GiveUp
    /\ UNCHANGED <<tlsVars, wayVars, client, started>>

-----------------------------------------------------------------------------
(* gx_tls_server_handshake_usb.                                            *)

ClearTls ==
    /\ at = "clear"
    /\ at' = Following("clear")
    /\ fifo' = <<>>
    /\ UNCHANGED <<vars, polls, otp, server, input, pending, wayVars,
                   sensorVars, started>>

SendInit ==
    /\ Proceed("init", Following("init"))
    /\ started' = started + 1
    /\ toSensor' = Append(toSensor, [kind |-> "init", conn |-> started'])
    /\ dropped' = FALSE
    /\ UNCHANGED <<polls, otp, tlsVars, toHost, sensorVars>>

(***************************************************************************)
(* OpenSSL takes a flight.  A "key" fits when it was made for this server  *)
(* and this connection, with our key under the expected name.              *)
(***************************************************************************)
Taken(s, flight) ==
    IF s.seen = "none" /\ flight.kind = "hello"
    THEN [seen |-> "hello", conn |-> flight.conn]
    ELSE IF /\ s.seen = "hello"
            /\ flight.kind = "key" /\ flight.fits
            /\ flight.conn = s.conn /\ flight.server = started
    THEN [s EXCEPT !.seen = "key"]
    ELSE [s EXCEPT !.seen = "failed"]

Reply(s) ==
    [kind |-> CASE s.seen = "hello"  -> "parts"
                [] s.seen = "key"    -> "finished"
                [] s.seen = "failed" -> "alert",
     conn |-> s.conn, server |-> started]

(***************************************************************************)
(* One call of SSL_do_handshake: it takes flight after flight until it     *)
(* lacks input, is connected, or fails.                                    *)
(***************************************************************************)
HandshakeOver == server.seen \in {"key", "failed"}

TakeFlight ==
    /\ at = "shake"
    /\ input # <<>>
    /\ ~HandshakeOver
    /\ server' = Taken(server, Head(input))
    /\ input' = Tail(input)
    /\ pending' = Append(pending, Reply(server'))
    /\ UNCHANGED <<vars, openVars, fifo, wayVars, sensorVars, started>>

ReturnFromShake ==
    /\ at = "shake"
    /\ input = <<>> \/ HandshakeOver
    /\ at' = "flush"
    /\ UNCHANGED <<vars, polls, otp, tlsVars, wayVars, sensorVars, started>>

(***************************************************************************)
(* gx_tls_flush_usb comes before anything is made of the result.           *)
(***************************************************************************)
Afterwards ==
    CASE server.seen = "key"    -> "established"
      [] server.seen = "failed" -> "refused"
      [] OTHER                  -> "wait"

Flush ==
    /\ Proceed("flush", Afterwards)
    /\ toSensor' = toSensor \o pending
    /\ pending' = <<>>
    /\ UNCHANGED <<polls, otp, server, input, fifo, toHost, dropped, sensorVars,
                   started>>

(***************************************************************************)
(* gx_session_tls_read: all there is, or nothing after at most 500 ms.     *)
(***************************************************************************)
ReadFlights ==
    /\ at = "wait"
    /\ at' = "shake"
    /\ input' = fifo
    /\ fifo' = <<>>
    /\ UNCHANGED <<vars, polls, otp, server, pending, wayVars, sensorVars, started>>

-----------------------------------------------------------------------------
(* tls_connect goes on with D/2, whose acknowledgement may fail to come.   *)

Establish ==
    /\ Proceed("established", "poll")
    /\ UNCHANGED <<polls, otp, tlsVars, wayVars, sensorVars, started>>

(***************************************************************************)
(* get_mcu_state: the sensor says that it is connected, and not locked.    *)
(***************************************************************************)
AnyAnswerMutant == TRUE

SaysConnected == client.seen = "connected"

PollAgain ==
    /\ at = "poll"
    /\ polls < MaxPolls
    /\ polls' = polls + 1
    /\ UNCHANGED <<vars, at, otp, tlsVars, wayVars, sensorVars, started>>

BecomeActive ==
    /\ at = "poll"
    /\ polls < MaxPolls
    /\ SaysConnected
    /\ ConnectTls
    /\ step' = "rest"
    /\ at' = "none"
    /\ polls' = 0
    /\ UNCHANGED <<otp, tlsVars, wayVars, sensorVars, started>>

-----------------------------------------------------------------------------
(* The receiver thread, and the sensor.                                    *)

ReceiveFlight ==
    /\ session /\ handle = "live"
    /\ toHost # <<>>
    /\ toHost' = Tail(toHost)
    /\ \/ fifo' = Append(fifo, Head(toHost)) /\ dropped' = dropped
       \/ fifo' = fifo /\ dropped' = TRUE
    /\ UNCHANGED <<vars, openVars, server, input, pending, toSensor, sensorVars,
                   started>>

Hello(conn) == [kind |-> "hello", conn |-> conn]

(***************************************************************************)
(* Whether the sensor's key is ours shows in its second flight.            *)
(***************************************************************************)
Key(message, ours) ==
    [kind |-> "key", conn |-> client.conn, server |-> message.server,
     fits |-> ours /\ message.conn = client.conn]

Expected(message) ==
    \/ message.kind = "parts" /\ client.seen = "init"
    \/ /\ message.kind = "finished" /\ client.seen = "parts"
       /\ message.conn = client.conn

SensorHandles ==
    /\ toSensor # <<>>
    /\ toSensor' = Tail(toSensor)
    /\ LET message == Head(toSensor)
       IN  \/ /\ message.kind = "init"
              /\ client' = [seen |-> "init", conn |-> message.conn]
              /\ toHost' = Append(toHost, Hello(message.conn))
           \/ /\ message.kind = "parts" /\ Expected(message)
              /\ client' = [client EXCEPT !.seen = "parts"]
              /\ \E ours \in BOOLEAN : toHost' = Append(toHost, Key(message, ours))
           \/ /\ message.kind = "finished" /\ Expected(message)
              /\ client' = [client EXCEPT !.seen = "connected"]
              /\ UNCHANGED toHost
           \/ /\ message.kind # "init" /\ ~Expected(message)
              /\ client' = Idle
              /\ UNCHANGED toHost
    /\ UNCHANGED <<vars, openVars, tlsVars, dropped, loaded, started>>

-----------------------------------------------------------------------------
Rest ==
    /\ Finished
    /\ UNCHANGED bringupVars

Talking ==
    \/ AskFirst \/ PutToIdle \/ CheckChip
    \/ ReadOtp \/ PrepareConfig \/ Upload
    \/ ClearTls \/ SendInit \/ TakeFlight \/ ReturnFromShake \/ Flush \/ ReadFlights
    \/ Establish \/ PollAgain \/ BecomeActive

BringupNext ==
    \/ Elsewhere \/ EnterTalk \/ EndSession \/ ForgetAll
    \/ Talking \/ Break
    \/ ReceiveFlight \/ SensorHandles
    \/ PowerCycle
    \/ Rest

BringupSpec == BringupInit /\ [][BringupNext]_bringupVars
-----------------------------------------------------------------------------
(* What the users of an open device rely on.                               *)

(***************************************************************************)
(* An open device with its sensor plugged in has a sensor that is          *)
(* connected to it, in the connection that OpenSSL finished and no earlier *)
(* one, and that runs with the configuration of the memory just read.      *)
(***************************************************************************)
ActiveIsReady ==
    state = "ACTIVE" /\ handle = "live" =>
        /\ client = [seen |-> "connected", conn |-> started]
        /\ server = [seen |-> "key", conn |-> started]
        /\ loaded = "new"

(***************************************************************************)
(* While nothing is lost the handshake goes on: when the driver waits for  *)
(* a flight there is one on its way or something for the sensor to answer, *)
(* and when the driver is done the sensor is, or has what it lacks.        *)
(***************************************************************************)
HandshakeNeverStalls ==
    handle = "live" /\ ~dropped =>
        /\ at = "wait" => fifo # <<>> \/ toHost # <<>> \/ toSensor # <<>>
        /\ at \in {"established", "poll"} =>
             client.seen = "connected" \/ toSensor # <<>>

(***************************************************************************)
(* One flipped bit anywhere in the memory changes nothing.  Two flipped    *)
(* bits in the DAC values and their checksums may cost a value, but only   *)
(* for the mean of the other three, or the open: no damaged value is used. *)
(***************************************************************************)
DamageIsHarmless ==
    at = "prepare" =>
        /\ otp.flips < 2 => otp.settings = otp.meant /\ otp.usable
        /\ Parsed(otp.settings) =>
             \A i \in 1..4 : otp.settings.dac[i]
                               \in {otp.meant.dac[i], MeanOfOthers(otp.meant.dac, i)}

(***************************************************************************)
(* A configuration that is uploaded is the template with the settings in   *)
(* their registers, nothing else changed, and a checksum that fits.        *)
(***************************************************************************)
UploadCarriesSettings == at = "prepare" /\ otp.usable => otp.carries
=============================================================================
