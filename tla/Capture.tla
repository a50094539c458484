------------------------------- MODULE Capture -------------------------------
(***************************************************************************)
(* Image captures of an open device: the worker sends a request, the       *)
(* sensor answers with TLS records, the receiver thread puts them into the *)
(* session's FIFO, and the worker decrypts them and looks for an image in  *)
(* the plaintext.  Requests and answers carry no number: the numbers here  *)
(* are for the properties.                                                 *)
(*                                                                         *)
(* A record holds a whole image or one half of it (an outer frame carries  *)
(* one record; the encrypted acknowledgement is left out, it is only       *)
(* reported).  The second half of an image whose request was given up is a *)
(* stray: the parser looks for a header in it byte by byte, may find one   *)
(* in the pixels, and then waits for the length it claims.                 *)
(*                                                                         *)
(* Definitions named ...Mutant are wrong variants of the definition after  *)
(* them, kept to show that the properties notice the difference.           *)
(***************************************************************************)
EXTENDS Naturals, Sequences

CONSTANTS Attempts,    \* device->config.capture_attempts
          Requests,    \* bound: requests sent on a connection
          FifoRoom,    \* records that fit in session->tls_fifo
          FetchRoom,   \* records that fit in GX_TLS_IO_BUFFER
          StrayRoom,   \* records that fit in the plaintext stream with a stray
          MaxSpan      \* records that a false header may wait for

ASSUME CaptureAssumption ==
    /\ Attempts \in Nat \ {0}
    /\ Requests \in Nat
    /\ FifoRoom \in Nat \ {0}
    /\ FetchRoom \in Nat \ {0}
    /\ StrayRoom \in Nat \ {0}
    /\ MaxSpan \in Nat

VARIABLES
    asked,    \* requests that the sensor has not answered, oldest first
    wire,     \* records on their way to the receiver
    fifo,     \* session->tls_fifo
    bio,      \* records given to OpenSSL and not decrypted yet
    lost,     \* was the latest record dropped?
    receiver, \* is the receiver running?
    tls,      \* can OpenSSL still decrypt?
    cancel,   \* device->cancel_requested
    state,    \* device->state
    step,     \* where the worker is
    attempt,  \* attempts of the current capture
    plain,    \* the plaintext: a stray that waits for some records, and them
    image,    \* what the parser took for an image
    result,   \* what the latest capture returned
    sent,     \* requests sent on this connection
    given,    \* the latest image handed out on this connection
    givenUp   \* attempts on this connection that ended without an image

linkVars   == <<asked, wire, fifo, lost, receiver>>
tlsVars    == <<bio, tls>>
workerVars == <<state, step, attempt, plain, image, result>>
countVars  == <<sent, given, givenUp>>
captureVars == <<linkVars, tlsVars, cancel, workerVars, countVars>>

Record == [req : 1..Requests, part : {"whole", "head", "tail"},
           good : BOOLEAN, gap : BOOLEAN]

(***************************************************************************)
(* A spoilt image, noisy or made of something else, is nobody's answer.    *)
(***************************************************************************)
Image   == [found : BOOLEAN, req : 0..Requests]
NoImage == [found |-> FALSE, req |-> 0]
Spoilt  == [found |-> TRUE, req |-> 0]

Empty == [wait |-> 0, held |-> <<>>]

CaptureTypeOK ==
    /\ asked \in Seq(1..Requests)
    /\ wire \in Seq(Record) /\ fifo \in Seq(Record) /\ bio \in Seq(Record)
    /\ Len(fifo) <= FifoRoom
    /\ lost \in BOOLEAN /\ receiver \in BOOLEAN
    /\ tls \in {"ok", "failed"}
    /\ cancel \in BOOLEAN
    /\ state \in {"ACTIVE", "CAPTURING"}
    /\ step \in {"idle", "device", "request", "send", "wait", "read", "decode"}
    /\ attempt \in 0..Attempts
    /\ plain.wait \in 0..MaxSpan /\ plain.held \in Seq(Record)
    /\ Len(plain.held) <= StrayRoom
    /\ image \in Image
    /\ result \in {"none", "OK", "CANCELLED", "CAPTURE", "CRC"}
    /\ sent \in 0..Requests /\ given \in 0..Requests /\ givenUp \in 0..Requests

CaptureInit ==
    /\ asked = <<>> /\ wire = <<>> /\ fifo = <<>> /\ bio = <<>>
    /\ lost = FALSE /\ receiver = TRUE /\ tls = "ok" /\ cancel = FALSE
    /\ sent = 0 /\ given = 0 /\ givenUp = 0
    /\ state = "ACTIVE" /\ step = "idle" /\ attempt = 0
    /\ plain = Empty /\ image = NoImage /\ result = "none"

-----------------------------------------------------------------------------
(* The sensor and the receiver thread.                                     *)

(***************************************************************************)
(* The oldest request is answered, or ignored; the image may be noisy.     *)
(***************************************************************************)
Answer ==
    /\ asked # <<>>
    /\ asked' = Tail(asked)
    /\ \E good \in BOOLEAN :
          LET piece(part) == [req |-> Head(asked), part |-> part,
                              good |-> good, gap |-> FALSE]
          IN  wire' \in {wire, Append(wire, piece("whole")),
                         wire \o <<piece("head"), piece("tail")>>}
    /\ UNCHANGED <<fifo, lost, receiver, tlsVars, cancel, workerVars, countVars>>

HasRoom == Len(fifo) < FifoRoom

FileRecord ==
    /\ receiver /\ wire # <<>>
    /\ wire' = Tail(wire)
    /\ IF HasRoom
       THEN /\ fifo' = Append(fifo, [Head(wire) EXCEPT !.gap = lost])
            /\ lost' = FALSE
       ELSE /\ lost' = TRUE
            /\ UNCHANGED fifo
    /\ UNCHANGED <<asked, receiver, tlsVars, cancel, workerVars, countVars>>

(***************************************************************************)
(* A read that timed out with part of a frame, or a frame that the parser  *)
(* of the byte stream could not use.                                       *)
(***************************************************************************)
LoseRecord ==
    /\ receiver /\ wire # <<>>
    /\ wire' = Tail(wire)
    /\ lost' = TRUE
    /\ UNCHANGED <<asked, fifo, receiver, tlsVars, cancel, workerVars, countVars>>

ReceiverFails ==
    /\ receiver
    /\ receiver' = FALSE
    /\ UNCHANGED <<asked, wire, fifo, lost, tlsVars, cancel, workerVars, countVars>>

-----------------------------------------------------------------------------
(* The end of a capture and of an attempt.                                 *)

LeftCapturingMutant(status) == IF status = "CRC" THEN "CAPTURING" ELSE "ACTIVE"

StateAfter(status) == "ACTIVE"

End(status) ==
    /\ step' = "idle"
    /\ state' = StateAfter(status)
    /\ result' = status
    /\ plain' = Empty
    /\ attempt' = 0

Fail(status) ==
    IF attempt < Attempts
    THEN /\ step' = "device"
         /\ attempt' = attempt + 1
         /\ plain' = Empty
         /\ UNCHANGED <<state, result>>
    ELSE End(status)

(***************************************************************************)
(* Without an image: the deadline has passed, or something failed.         *)
(***************************************************************************)
GiveUp ==
    /\ Fail("CAPTURE")
    /\ image' = NoImage
    /\ givenUp' = givenUp + 1
    /\ UNCHANGED given

CancelledAfter(asking) ==
    /\ cancel
    /\ End("CANCELLED")
    /\ image' = NoImage
    /\ givenUp' = IF asking THEN givenUp + 1 ELSE givenUp
    /\ UNCHANGED <<linkVars, tlsVars, cancel, sent, given>>

-----------------------------------------------------------------------------
(* The worker.  The flag is looked at in gx5125_device_capture_raw16, once *)
(* more before the request, and before every read.                         *)

Begin ==
    /\ state = "ACTIVE"
    /\ sent + Attempts <= Requests
    /\ state' = "CAPTURING"
    /\ step' = "device"
    /\ attempt' = 1
    /\ result' = "none"
    /\ UNCHANGED <<linkVars, tlsVars, cancel, plain, image, countVars>>

Look(from, to) ==
    /\ step = from
    /\ ~cancel
    /\ step' = to
    /\ UNCHANGED <<linkVars, tlsVars, cancel, state, attempt, plain, image,
                   result, countVars>>

Cancelled ==
    \/ step \in {"device", "request"} /\ CancelledAfter(FALSE)
    \/ step = "wait" /\ CancelledAfter(TRUE)

(***************************************************************************)
(* A transmission that failed may have reached the sensor all the same.    *)
(***************************************************************************)
SentTwiceMutant == asked' = asked \o <<sent + 1, sent + 1>>

Reached == asked' = Append(asked, sent + 1)

SendRequest ==
    /\ step = "send"
    /\ sent' = sent + 1
    /\ \/ /\ Reached
          /\ step' = "wait"
          /\ UNCHANGED <<state, attempt, plain, image, result>>
          /\ UNCHANGED <<given, givenUp>>
       \/ /\ Reached \/ UNCHANGED asked
          /\ GiveUp
    /\ UNCHANGED <<wire, fifo, lost, receiver, tlsVars, cancel>>

Deadline ==
    /\ step = "wait"
    /\ GiveUp
    /\ UNCHANGED <<linkVars, tlsVars, cancel, sent>>

ReadTimeout ==
    /\ step = "read"
    /\ step' = "wait"
    /\ UNCHANGED <<linkVars, tlsVars, cancel, state, attempt, plain, image,
                   result, countVars>>

(***************************************************************************)
(* OpenSSL wants more: the worker gives it what the FIFO has, up to the    *)
(* size of a buffer, or learns that nothing will come any more.            *)
(***************************************************************************)
Fetch ==
    /\ step = "read" /\ tls = "ok" /\ bio = <<>> /\ fifo # <<>>
    /\ \E n \in 1..Len(fifo) :
          /\ n <= FetchRoom
          /\ bio' = SubSeq(fifo, 1, n)
          /\ fifo' = SubSeq(fifo, n + 1, Len(fifo))
    /\ UNCHANGED <<asked, wire, lost, receiver, tls, cancel, workerVars, countVars>>

ReadFails ==
    /\ step = "read"
    /\ \/ tls = "failed"
       \/ tls = "ok" /\ bio = <<>> /\ fifo = <<>> /\ ~receiver
    /\ GiveUp
    /\ UNCHANGED <<linkVars, tlsVars, cancel, sent>>

(***************************************************************************)
(* Records are authenticated with their number: one that follows a lost    *)
(* one is refused, and OpenSSL never reads from this connection again.     *)
(***************************************************************************)
RefuseRecord ==
    /\ step = "read" /\ tls = "ok" /\ bio # <<>>
    /\ Head(bio).gap
    /\ tls' = "failed"
    /\ bio' = Tail(bio)
    /\ GiveUp
    /\ UNCHANGED <<linkVars, cancel, sent>>

-----------------------------------------------------------------------------
(* The plaintext parser.                                                   *)

(***************************************************************************)
(* From the start of a frame on: the first image, or the half that is      *)
(* there.                                                                  *)
(***************************************************************************)
FromStart(held) ==
    IF held = <<>> \/ (held[1].part = "head" /\ Len(held) = 1)
    THEN [wait |-> 0, held |-> held, image |-> NoImage]
    ELSE [wait |-> 0, held |-> <<>>,
          image |-> IF held[1].good THEN [found |-> TRUE, req |-> held[1].req]
                    ELSE Spoilt]

Waits(held) ==
    {[wait |-> n, held |-> held, image |-> NoImage] : n \in 1..MaxSpan}

(***************************************************************************)
(* The claimed length of a false header is there.  If its checksum is      *)
(* wrong the search goes on behind it, maybe to another one.  If it is     *)
(* right (or the byte that stands for no checksum) everything under it is  *)
(* dropped, maybe up to the middle of a record, or taken for an image.     *)
(***************************************************************************)
FalseFrameEnds(held) ==
    {FromStart(held)} \cup Waits(held) \cup {FromStart(<<>>)} \cup Waits(<<>>)
        \cup {[wait |-> 0, held |-> <<>>, image |-> Spoilt]}

Parsed(record) ==
    LET held == Append(plain.held, record)
    IN  IF plain.wait > 1
        THEN {[wait |-> plain.wait - 1, held |-> held, image |-> NoImage]}
        ELSE IF plain.wait = 1 THEN FalseFrameEnds(held)
        ELSE IF plain.held = <<>> /\ record.part = "tail"
        THEN {FromStart(<<>>)} \cup Waits(<<>>)
        ELSE {FromStart(held)}

ReadRecord ==
    /\ step = "read" /\ tls = "ok" /\ bio # <<>>
    /\ ~Head(bio).gap
    /\ bio' = Tail(bio)
    /\ IF Len(plain.held) >= StrayRoom
       THEN GiveUp
       ELSE \E next \in Parsed(Head(bio)) :
               /\ plain' = [wait |-> next.wait, held |-> next.held]
               /\ image' = next.image
               /\ step' = IF next.image.found THEN "decode" ELSE "wait"
               /\ UNCHANGED <<state, attempt, result, given, givenUp>>
    /\ UNCHANGED <<linkVars, tls, cancel, sent>>

UncheckedMutant == TRUE
CrcOk == image.req # 0

DecodeImage ==
    /\ step = "decode"
    /\ IF CrcOk
       THEN End("OK") /\ given' = image.req
       ELSE Fail("CRC") /\ UNCHANGED given
    /\ image' = NoImage
    /\ UNCHANGED <<linkVars, tlsVars, cancel, sent, givenUp>>

-----------------------------------------------------------------------------
(* Other calls of the device.                                              *)

RequestCancel ==
    /\ ~cancel
    /\ cancel' = TRUE
    /\ UNCHANGED <<linkVars, tlsVars, workerVars, countVars>>

ClearCancel ==
    /\ state = "ACTIVE" /\ cancel
    /\ cancel' = FALSE
    /\ UNCHANGED <<linkVars, tlsVars, workerVars, countVars>>

(***************************************************************************)
(* A close and a successful open, which resets the sensor, begins a new    *)
(* session and makes new keys.                                             *)
(***************************************************************************)
Reconnect ==
    /\ state = "ACTIVE"
    /\ asked' = <<>> /\ wire' = <<>> /\ fifo' = <<>> /\ bio' = <<>>
    /\ lost' = FALSE /\ receiver' = TRUE /\ tls' = "ok" /\ cancel' = FALSE
    /\ sent' = 0 /\ given' = 0 /\ givenUp' = 0
    /\ result' = "none"
    /\ UNCHANGED <<state, step, attempt, plain, image>>

-----------------------------------------------------------------------------
Worker ==
    \/ Look("device", "request") \/ Look("request", "send") \/ Look("wait", "read")
    \/ Cancelled
    \/ SendRequest \/ Deadline \/ ReadTimeout
    \/ Fetch \/ ReadFails \/ RefuseRecord \/ ReadRecord \/ DecodeImage

CaptureNext ==
    \/ Answer \/ FileRecord \/ LoseRecord \/ ReceiverFails
    \/ Begin \/ Worker
    \/ RequestCancel \/ ClearCancel \/ Reconnect

(***************************************************************************)
(* The worker runs, and a deadline that it looks at again and again        *)
(* passes.  Nothing obliges the sensor or the receiver.                    *)
(***************************************************************************)
Fairness == WF_captureVars(Worker) /\ SF_captureVars(Deadline)

CaptureSpec == CaptureInit /\ [][CaptureNext]_captureVars /\ Fairness
-----------------------------------------------------------------------------
(***************************************************************************)
(* Images are handed out whole, in the order of their requests, and none   *)
(* twice: what a stray made of two images, or a noisy one, never is.       *)
(***************************************************************************)
ImagesInOrder ==
    [][~Reconnect => /\ given' >= given
                     /\ result' = "OK" /\ result # "OK" => given' > given]_captureVars

(***************************************************************************)
(* An image is at most as many requests old as attempts were given up on   *)
(* this connection: with none given up it answers the latest request.      *)
(***************************************************************************)
LagIsGivenUp == result = "OK" => sent - given <= givenUp

(***************************************************************************)
(* Every capture comes to an end, and leaves the device ready for another  *)
(* one, whatever the sensor does.                                          *)
(***************************************************************************)
CaptureReturns == state = "CAPTURING" ~> state = "ACTIVE"
=============================================================================
