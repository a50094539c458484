---------------------------- MODULE StoredPrint -----------------------------
(***************************************************************************)
(* The stored print of the libfprint driver.  enroll_done, in the main     *)
(* thread, seals the template that enroll_worker returned under a key      *)
(* derived from the sensor's PSK; goodix_verify unseals it before it       *)
(* starts verify_worker.  The module adds to Driver.tla what these two     *)
(* handlers do before the driver goes on: their steps change none of the   *)
(* driver's variables, and every other step is a step of the driver.       *)
(*                                                                         *)
(* The application keeps the print, and may lose parts of it; the          *)
(* administrator may write another PSK file at any moment.  OpenSSL is     *)
(* modelled as an ideal cipher: a payload is authentic when it was sealed  *)
(* under the same PSK and nothing of what the seal covers has changed.     *)
(*                                                                         *)
(* Definitions named ...Mutant are wrong variants of the definition after  *)
(* them, kept to show that the properties notice the difference.           *)
(***************************************************************************)
EXTENDS Driver

CONSTANTS Keys,       \* pre-shared keys
          KeyFiles,   \* states of the PSK file, see PskFile
          Damages,    \* bound: the sets of parts of a print that get damaged
          MaxFiles,   \* bound: times the PSK file is written
          NoPrint     \* a model value: no print

PskHexLength == 64
TextSize     == 256

(***************************************************************************)
(* A PSK file: a regular file or something else (or missing), closed to    *)
(* group and others or not, its length, and its text by what the parser    *)
(* tells apart: how many hexadecimal digits, of which key, and whether     *)
(* there is anything but digits, blanks, colons and hyphens.               *)
(***************************************************************************)
PskFile == [key : Keys, regular : BOOLEAN, private : BOOLEAN,
            length : Nat, digits : Nat, junk : BOOLEAN]

(***************************************************************************)
(* The parts of a stored print: its type (an array of bytes), the fields   *)
(* of the header, the ciphertext and its length.  A print is the key it    *)
(* was sealed under and the parts damaged since; the input of a            *)
(* verification, the print it comes from and the key it was opened with.   *)
(***************************************************************************)
Header == {"magic", "version", "headerSize", "size", "flag", "salt", "nonce"}
Parts  == Header \cup {"type", "tag", "body", "length"}
Prints == [key : Keys, damage : SUBSET Parts]
Inputs == [print : Prints, key : Keys]

ASSUME PrintAssumption ==
    /\ KeyFiles \subseteq PskFile
    /\ Damages \subseteq SUBSET Parts
    /\ MaxFiles \in Nat
    /\ NoPrint \notin Prints \cup Inputs

VARIABLES
    main,     \* what the main thread does in the two handlers
    success,  \* the variable ok of the payload function it is in
    held,     \* the secrets on its stack, and the plaintext it has made
    keyRead,  \* the PSK it has read
    keyFile,  \* the PSK file
    stored,   \* the application's print
    sealed,   \* the payload that enroll_done is about to hand over
    bytes,    \* template_bytes of enroll_worker's outcome exist
    input     \* template_bytes of verify_worker's input

(***************************************************************************)
(* History variables.                                                      *)
(***************************************************************************)
VARIABLES
    refused,  \* why the payload function in progress has failed, or "none"
    files     \* times the PSK file was written

sealVars  == <<main, success, held, keyRead, sealed, refused>>
worldVars == <<keyFile, stored, files>>
printVars == <<sealVars, worldVars, bytes, input>>
allVars   == <<vars, printVars>>

Secrets == {"psk", "key", "plaintext"}
Sealing == {"sealKey", "sealCipher", "sealOut", "sealDone"}
Unsealing == {"openHeader", "openKey", "openCipher", "openOut", "openDone"}

PrintTypeOK ==
    /\ main \in {"idle"} \cup Sealing \cup Unsealing
    /\ success \in BOOLEAN
    /\ held \subseteq Secrets
    /\ keyRead \in Keys
    /\ keyFile \in KeyFiles
    /\ stored \in Prints \cup {NoPrint}
    /\ sealed \in Prints \cup {NoPrint}
    /\ bytes \in BOOLEAN
    /\ input \in Inputs \cup {NoPrint}
    /\ refused \in {"none", "format", "size", "psk", "library", "tag"}
    /\ files \in 0..MaxFiles

PrintInit ==
    /\ Init
    /\ main = "idle"
    /\ success = FALSE
    /\ held = {}
    /\ keyFile \in KeyFiles
    /\ keyRead = keyFile.key
    /\ stored \in [key : Keys, damage : {{}}] \cup {NoPrint}
    /\ sealed = NoPrint
    /\ bytes = FALSE
    /\ input = NoPrint
    /\ refused = "none"
    /\ files = 0

-----------------------------------------------------------------------------
(* The PSK file.                                                           *)

(***************************************************************************)
(* gx_secret_parse_psk_hex.                                                *)
(***************************************************************************)
ParsesAsPsk(f) == ~f.junk /\ f.digits = PskHexLength

(***************************************************************************)
(* gx_secret_read_psk_file: a link is not followed, a file that others may *)
(* read is refused, and so is one that does not fit the buffer.            *)
(***************************************************************************)
PskReadable(f) ==
    /\ f.regular
    /\ f.private
    /\ f.length < TextSize
    /\ ParsesAsPsk(f)

(***************************************************************************)
(* read_fpprint_psk.  Reading may also fail for reasons of the system.     *)
(***************************************************************************)
ReadPsk(next, refusal) ==
    \/ /\ PskReadable(keyFile)
       /\ keyRead' = keyFile.key
       /\ held' = held \cup {"psk"}
       /\ main' = next
       /\ UNCHANGED <<success, refused>>
    \/ /\ main' = refusal
       /\ success' = FALSE
       /\ refused' = "psk"
       /\ UNCHANGED <<held, keyRead>>

(***************************************************************************)
(* The label "out" of both payload functions.                              *)
(***************************************************************************)
WipeKeysOnlyMutant == held' = held \ {"psk", "key"}

Wipe == held' = {}

-----------------------------------------------------------------------------
(* Enrollment: enroll_done and encrypt_fpprint_payload.                    *)

(***************************************************************************)
(* g_task_propagate_pointer has returned the outcome.                      *)
(***************************************************************************)
BeginSeal ==
    /\ main = "idle"
    /\ action = "enroll"
    /\ taskResult = "ok"
    /\ ~actionCancelled
    /\ main' = "sealKey"
    /\ UNCHANGED <<vars, success, held, keyRead, sealed, refused, worldVars,
                   bytes, input>>

SealKey ==
    /\ main = "sealKey"
    /\ ReadPsk("sealCipher", "sealOut")
    /\ UNCHANGED <<vars, sealed, worldVars, bytes, input>>

(***************************************************************************)
(* Header, random salt and nonce, key derivation, encryption and tag.  Any *)
(* of the library's calls may fail; derive_fpprint_key then has wiped its  *)
(* output.                                                                 *)
(***************************************************************************)
SealCipher ==
    /\ main = "sealCipher"
    /\ main' = "sealOut"
    /\ \/ /\ sealed' = [key |-> keyRead, damage |-> {}]
          /\ success' = TRUE
          /\ held' = held \cup {"key"}
       \/ /\ held' \in {held, held \cup {"key"}}
          /\ UNCHANGED <<sealed, success>>
    /\ UNCHANGED <<vars, keyRead, refused, worldVars, bytes, input>>

SealOut ==
    /\ main = "sealOut"
    /\ Wipe
    /\ main' = "sealDone"
    /\ UNCHANGED <<vars, success, keyRead, sealed, refused, worldVars, bytes,
                   input>>

(***************************************************************************)
(* enroll_done completes the action: with the sealed payload as the data   *)
(* of the print, or with the error.  Both ways it frees the outcome, which *)
(* wipes the template first.                                               *)
(***************************************************************************)
ForgetOnErrorMutant == bytes' = (bytes /\ ~success)

FreeOutcome == bytes' = FALSE

EnrollDone ==
    /\ main = "sealDone"
    /\ main' = "idle"
    /\ Complete
    /\ outcome'.result = IF success THEN "ok" ELSE "error"
    /\ stored' = IF success THEN sealed ELSE stored
    /\ sealed' = NoPrint
    /\ FreeOutcome
    /\ refused' = "none"
    /\ success' = FALSE
    /\ UNCHANGED <<held, keyRead, keyFile, files, input>>

-----------------------------------------------------------------------------
(* Verification: goodix_verify and decrypt_fpprint_payload.                *)

Refuse(reason, next) ==
    /\ refused' = reason
    /\ success' = FALSE
    /\ main' = next

BeginVerify ==
    /\ main = "idle"
    /\ action = "none"
    /\ ~finalized
    /\ isOpen
    /\ actions < MaxActions
    /\ stored # NoPrint
    /\ main' = "openHeader"
    /\ UNCHANGED <<vars, success, held, keyRead, sealed, refused, worldVars,
                   bytes, input>>

(***************************************************************************)
(* The checks of the type, the header's constants and the sizes.  A size   *)
(* field that is damaged may agree with a damaged length.                  *)
(***************************************************************************)
Constants == {"type", "magic", "version", "headerSize", "flag"}

CountsHeaderMutant(damage) ==
    IF {"size", "length"} \cap damage = {} THEN {FALSE} ELSE BOOLEAN

SizesAgree(damage) ==
    CASE {"size", "length"} \subseteq damage  -> BOOLEAN
      [] {"size", "length"} \cap damage = {} -> {TRUE}
      [] OTHER                               -> {FALSE}

OpenHeader ==
    /\ main = "openHeader"
    /\ IF stored.damage \cap Constants # {}
       THEN Refuse("format", "openOut")
       ELSE \E agree \in SizesAgree(stored.damage) :
              IF agree
              THEN main' = "openKey" /\ UNCHANGED <<success, refused>>
              ELSE Refuse("size", "openOut")
    /\ UNCHANGED <<vars, held, keyRead, sealed, worldVars, bytes, input>>

OpenKey ==
    /\ main = "openKey"
    /\ ReadPsk("openCipher", "openOut")
    /\ UNCHANGED <<vars, sealed, worldVars, bytes, input>>

(***************************************************************************)
(* What the tag covers: the header up to the nonce as additional data, and *)
(* the ciphertext.  The salt enters the key as well.                       *)
(***************************************************************************)
BodyOnlyMutant(p) ==
    p.key = keyRead /\ p.damage \cap {"salt", "nonce", "tag"} = {}

Authentic(p) ==
    /\ p.key = keyRead
    /\ p.damage \cap (Header \cup {"tag", "body", "length"}) = {}

(***************************************************************************)
(* Key derivation and decryption.  The plaintext is in the output buffer   *)
(* before the tag is checked.  The library's calls may fail.               *)
(***************************************************************************)
OpenCipher ==
    /\ main = "openCipher"
    /\ \/ /\ held' \in {held, held \cup {"key"}, held \cup {"key", "plaintext"}}
          /\ Refuse("library", "openOut")
       \/ /\ held' = held \cup {"key", "plaintext"}
          /\ IF Authentic(stored)
             THEN success' = TRUE /\ main' = "openOut" /\ UNCHANGED refused
             ELSE Refuse("tag", "openOut")
    /\ UNCHANGED <<vars, keyRead, sealed, worldVars, bytes, input>>

(***************************************************************************)
(* The label "out": the plaintext goes to the caller, who makes it the     *)
(* input of the task, or is wiped.                                         *)
(***************************************************************************)
OpenOut ==
    /\ main = "openOut"
    /\ Wipe
    /\ input' = IF success THEN [print |-> stored, key |-> keyRead] ELSE NoPrint
    /\ main' = "openDone"
    /\ UNCHANGED <<vars, success, keyRead, sealed, refused, worldVars, bytes>>

(***************************************************************************)
(* goodix_verify starts its worker, or completes the action on the spot.   *)
(***************************************************************************)
OpenDone ==
    /\ main = "openDone"
    /\ main' = "idle"
    /\ IF success THEN Begin("verify") ELSE RejectPrint
    /\ refused' = "none"
    /\ success' = FALSE
    /\ UNCHANGED <<held, keyRead, sealed, worldVars, bytes, input>>

-----------------------------------------------------------------------------
(* The other steps of the driver.                                          *)

(***************************************************************************)
(* The main thread's, when it is not in one of the two handlers.           *)
(***************************************************************************)
Elsewhere ==
    /\ main = "idle"
    /\ UNCHANGED printVars

ApplicationStep ==
    /\ Elsewhere
    /\ \/ \E a \in {"open", "close", "enroll"} : Begin(a)
       \/ Cancel
       \/ Finalize

CancelStep   == Elsewhere /\ RunCancel
ProgressStep == Elsewhere /\ ShowProgress

(***************************************************************************)
(* The task frees what it holds when it is completed: verify_input_free,   *)
(* and enroll_outcome_free for an outcome that was not propagated.         *)
(***************************************************************************)
CompleteOther ==
    /\ main = "idle"
    /\ ~(action = "enroll" /\ taskResult = "ok" /\ ~actionCancelled)
    /\ Complete
    /\ bytes' = FALSE
    /\ input' = NoPrint
    /\ UNCHANGED <<sealVars, worldVars>>

(***************************************************************************)
(* enroll_worker serialises the finished template into its outcome as the  *)
(* last thing it does.                                                     *)
(***************************************************************************)
WorkerStep ==
    /\ Worker
    /\ bytes' = (bytes \/ (action = "enroll" /\ taskResult' = "ok"))
    /\ UNCHANGED <<sealVars, worldVars, input>>

-----------------------------------------------------------------------------
(* The world.                                                              *)

Damage(parts) ==
    /\ main = "idle"
    /\ stored # NoPrint
    /\ stored.damage = {}
    /\ stored' = [stored EXCEPT !.damage = parts]
    /\ UNCHANGED <<vars, sealVars, keyFile, files, bytes, input>>

WriteKeyFile(f) ==
    /\ files < MaxFiles
    /\ files' = files + 1
    /\ keyFile' = f
    /\ UNCHANGED <<vars, sealVars, stored, bytes, input>>

-----------------------------------------------------------------------------
Seal   == BeginSeal \/ SealKey \/ SealCipher \/ SealOut \/ EnrollDone
Unseal == OpenHeader \/ OpenKey \/ OpenCipher \/ OpenOut \/ OpenDone

PrintNext ==
    \/ Seal
    \/ BeginVerify
    \/ Unseal
    \/ ApplicationStep
    \/ CancelStep
    \/ ProgressStep
    \/ CompleteOther
    \/ WorkerStep
    \/ \E parts \in Damages : Damage(parts)
    \/ \E f \in KeyFiles : WriteKeyFile(f)
    \/ Finished /\ UNCHANGED printVars

(***************************************************************************)
(* The driver's fairness, and that of the two handlers, which block on     *)
(* nothing.                                                                *)
(***************************************************************************)
PrintSpec ==
    /\ PrintInit
    /\ [][PrintNext]_allVars
    /\ WF_allVars(Seal)
    /\ WF_allVars(Unseal)
    /\ WF_allVars(CancelStep)
    /\ WF_allVars(ProgressStep)
    /\ WF_allVars(CompleteOther)
    /\ WF_allVars(WorkerStep)
-----------------------------------------------------------------------------
(* What the user of a fingerprint relies on.                               *)

(***************************************************************************)
(* No secret outlives its use: when neither handler runs, the main thread  *)
(* holds no key and no plaintext, wherever it failed; between two actions  *)
(* there is no template in the clear, also when the action was cancelled   *)
(* after the worker had finished it, or sealing it failed.                 *)
(***************************************************************************)
SecretsAreWiped ==
    main = "idle" =>
        /\ held = {}
        /\ action = "none" => (~bytes /\ input = NoPrint)

(***************************************************************************)
(* The worker deserialises only what an enrollment sealed: a print that    *)
(* was damaged anywhere, or sealed under another PSK, never gets that far, *)
(* although the plaintext exists before the tag is checked.                *)
(***************************************************************************)
OnlyGenuineTemplates ==
    input # NoPrint =>
        /\ input.print.damage = {}
        /\ input.print.key = input.key

(***************************************************************************)
(* A print is called invalid only when it is: one that is as it was sealed *)
(* opens under its PSK, unless the PSK file cannot be read or the library  *)
(* fails.                                                                  *)
(***************************************************************************)
GenuinePrintOpens ==
    main = "openDone" =>
        /\ refused \in {"format", "size"} => stored.damage # {}
        /\ refused = "tag" => (stored.damage # {} \/ stored.key # keyRead)

(***************************************************************************)
(* The two together: sealing and opening, whose checks are spread over two *)
(* functions and a library, agree about which prints are good.             *)
(***************************************************************************)
GoodPrintsAndNoOthers == OnlyGenuineTemplates /\ GenuinePrintOpens
=============================================================================
