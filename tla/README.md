# TLA+ models of the Goodix 27c6:5125 (ChicagoHS) driver

TLA+ modules for the driver in this repository, TLC configurations that check
them on small instances, and TLAPS proofs of the properties that matter most.
Every definition is translated from the source; the functions and lines are in
`PROJECT.json` under `map`, file names below are relative to the repository.

    tlc -config MCSession.cfg MCSession        model-check one run
    tlapm SessionProofs.tla                    check the proofs of one module

## 1. The system

A fingerprint sensor on USB, a user-space driver in C that opens it with a
pre-shared key, takes 64x80 images over a TLS-PSK channel inside a proprietary
framing, extracts features, enrolls and matches them, and presents itself to
fprintd as a libfprint device. A PAM wrapper and an installer put it behind sudo.

| Part | Source | State | Operations | Talks to |
|---|---|---|---|---|
| libfprint driver | `libfprint/goodix5125.c` | `self->pipeline` under `self->mutex`; the worker's task, progress event, template builder | open, close, enroll, verify, cancel, finalize | libfprint main loop (GTask, idle sources), pipeline |
| pipeline | `src/gx_pipeline.c` | base image, last raw, sticky `state` | create, open, close, reset, capture base / presence / feature, cancel flag | device, preprocessor, extractor |
| device | `src/gx_device.c` | `state` CLOSED..ACTIVE, PSK, calibration, `cancel_requested` atomic | open, close, capture, cancel | session, TLS, USB, capture |
| session | `src/gx_session.c` | receiver thread, per-code sequence counters and last answers, TLS FIFO, receiver error; one mutex, one condition | start, stop, command, TLS read / clear | USB bulk pipes |
| TLS server | `src/gx_tls.c` | OpenSSL objects, copy of the PSK | init, handshake, read, cleanup | session FIFO |
| capture | `src/gx_capture.c` | local plaintext stream | one image request, answer or timeout | TLS, transport |
| USB | `src/gx_usb.c` | context, handle, claimed and detached flags | open, layout check, claim, release, close, bulk I/O | libusb, kernel |
| framing | `src/gx_protocol.c`, `src/gx_transport.c` | none | encode, decode, checksums, chunked send | session |
| sensor data | `src/gx_sensor.c` | none | OTP parse, configuration patch, 12-bit unpack | device |
| PSK file | `src/gx_secret.c` | none | permission checks, hex decode, wipe | device |
| image processing | `src/gx_preprocess.c`, `src/gx_extractor.c`, `src/gx_feature_*.c` | base image; the extractor's history of images; kernels, tables | preprocess, extract, reset | pipeline |
| stored print | `libfprint/goodix5125.c` | none: the application keeps it | seal in `enroll_done`, open in `goodix_verify` | PSK file, libcrypto |
| enrollment | `src/gx_enrollment.c` | up to 12 samples, extrema, quality counters | submit, summary, serialize, deserialize | driver |
| matcher | `src/gx_matcher.c` | none | sample pairing, score, decision | driver |
| PAM wrapper | `pam/*.c` | process locale under a mutex, replaced conversation | the three PAM entry points | pam_fprintd |
| installer | `scripts/install.sh`, `uninstall.sh` | system files, rollback flags, guard process | install with rollback, uninstall | PAM, systemd |

### How they interact

The libfprint main thread starts an action and gets back to its loop; a GTask
worker thread carries the action out and returns its result to the main loop.
The worker reports progress by queueing an idle source and *waiting* until the
main loop has run it. A cancellation runs `goodix_cancel` from the main loop,
which sets an atomic flag the captures poll. Under the worker, the device's
session has its own receiver thread: commands go out from the worker, answers
come in on the receiver, which files them under their command code (there is no
transaction number) and wakes the worker. TLS bytes go through the same receiver
into a FIFO that the worker drains; image requests carry no number either.

### What is hard here

* Answers without identity: a late or repeated answer can stand for another
  command's, and a late frame for another request's. Retries make this worse.
* Three threads and two mutexes, with pointers used after the unlock
  (`get_pipeline`) and flags set and cleared by different threads.
* A ten-step open that may fail anywhere, with kernel drivers to give back.
* Loops that poll a sensor without touch interrupts and infer touches from
  frames that may be light, bright, spoilt or stale.
* Bounded buffers (TLS FIFO, parsers) whose overflow drops half a record.
* Twenty stages of an extraction that may fail, with state that must then be put
  back, record arrays that are rearranged in place, and a flood fill whose labels and
  queue may run out in silence.
* A process-wide locale changed for the time of a call, from several threads.

What makes each part correct: a session answers each command with evidence that
came in for it, and never hangs; the driver completes each action once, honours
its cancellation and no other, and never follows a destroyed pipeline; an
operation takes one sample per touch and shows the progress it made; a device
holds everything or nothing; an enrollment's samples, counters and extrema agree
in memory and after a round trip; the matcher finds a finger that was moved and
never decides by one sample; an extraction owns its memory and leaves a trace in
the extractor only when it succeeds; a print opens under its key and undamaged, or
not at all; the PAM wrapper puts locale and conversation back; the installer never
leaves PAM changed without a tested fingerprint. `PROJECT.json` lists the hazards with their lines.

## 2. The modules

| Module | Models | Checked by | Proved in |
|---|---|---|---|
| `Rpc` | what a command promises its caller (abstract) | `MCSession` | `SessionProofs` |
| `Session` | receiver thread and commands of `gx_session.c` | `MCSession` | `SessionProofs` |
| `Device` | `gx5125_device_open` / `_close`, `gx_usb.c` | through `MCBringup` | `DeviceProofs` |
| `Sensor` | `gx_sensor.c`: settings from the OTP, the patched configuration | through `MCBringup` | `DeviceProofs` (the configuration, damage to the memory) |
| `Bringup` | the commands of an open, the loop of the TLS handshake, the sensor at the other end; refines `Device`, uses `Sensor` | `MCBringup` | `DeviceProofs` (it implements `Device`; driver and sensor agree; the handshake goes on) |
| `Driver` | main and worker threads of `goodix5125.c` | through `MCStoredPrint` | `DriverProofs` |
| `StoredPrint` | sealing and opening of the print; refines `Driver` | `MCStoredPrint` | `DriverProofs` (it implements `Driver`) |
| `Touch` | enroll and verify loops, base / touch / lift polling | `MCTouch` | `TouchProofs` |
| `Capture` | image captures: `gx5125_device_capture_raw16`, `gx_capture.c`, the TLS FIFO and record reading | `MCCapture` | `FramingProofs` |
| `Framing` | the two stream parsers, `gx_stream_parse` and `gx_capture_parse_stream`, and the frames that `gx_inner_build` and `gx_outer_build` write | `MCFraming` | `FramingProofs` |
| `Decoding` | the 12-bit pixels of `gx_chicagohu_decode` and their order | | `FramingProofs` |
| `Enrollment` | `gx_enrollment.c`: submit, statistics, serialize, deserialize | `MCEnrollment` | `EnrollmentProofs` |
| `Matcher` | `gx_matcher.c`: seeds, hypotheses, pairing, score and decision | `MCMatcher` | `ExtractorProofs` |
| `Records` | the record arrays of a feature: dropping by the mask, partition by class | through `MCExtractor` | `ExtractorProofs` |
| `Components` | `gx_aux_label_components`, `gx_aux_select_largest`: flood fill of a picture and selection of its largest regions | through `MCExtractor` | `ExtractorProofs` |
| `Extractor` | `gx5125_extractor_extract_gray` with its memory and the state between images; uses `Records` and `Components` | `MCExtractor` | `ExtractorProofs` |
| `PamProxy` | `call_real` of the PAM wrapper, in several threads | `MCPamProxy` | `InstallerProofs` |
| `Installer` | `install.sh` with its rollback and guard, `uninstall.sh` | `MCInstaller` | `InstallerProofs` |

Definitions named `...Mutant` are plausible wrong versions of the definition
that follows them. No specification uses them; substituting one makes the
property named in `PROJECT.json` fail, which shows that the property notices.

### Session and Rpc

Two processes share `receiverError`, the filed answers and a condition
variable; each critical section of `session->mutex` is one action. The receiver
is `Poll` (looks at the stop flag), `ReadTimeout`, `Receive` (one answer is filed,
sleepers woken), `Lose` (an answer that a partial timeout, a damaged frame or the
parser dropped) and `ReceiverFails`. The caller is `Call` (reads the baselines),
`SendOk` / `SendFails`, `Sleep`, `SpuriousWake`, `Expire` (the wait's deadline), then
one action per way a wait can end: `AckArrives`, `ResponseArrives`, `AckFails` (on to
the 1 ms grace wait when a response is expected), `GraceFails`, `ResponseFails`.
`Start`, `RequestStop` and `Join` open and close the session. The IN pipe
`answers` is a sequence; which call an answer was for is kept as its data, so that
properties can tell a stale response from a fresh one.

`Rpc` is the caller's view: begin, evidence arrives, succeed only on sufficient
evidence, give up only after the last attempt. `Session` implements it under the
mapping `verdict <- Verdict, tries <- attempt` (`KeepsPromise`).

### Driver

`Begin` .. `Complete` is the life of a libfprint action on the main thread,
interleaved with `Cancel`, `RunCancel` (`goodix_cancel` from the main loop) and
`ShowProgress`; `Worker` is the union of the worker's steps for open, close and the
operations, one per critical section of `self->mutex` or access to the atomic
flag. `pipeline` is the shared pointer, `mine` the worker's local copy, `live` the
pipelines that exist: following a pointer to one that does not is what
`NoUseAfterDestroy` forbids. GTask's `check_cancellable`, which turns a finished
result into "cancelled", is in `Propagated`.

### StoredPrint

What `enroll_done` does before it completes the enrollment (read the key, salt and
nonce, derive, encrypt, build the payload) and `goodix_verify` before it starts the
worker (check format and sizes, read the key, derive, decrypt, look at the tag) is a
sequence of steps on `main`, with an early return at each. `held` are the secrets in
memory, `stored` the print the application keeps: the key it was sealed under and
the set of its damaged parts. OpenSSL is an ideal cipher: a payload is authentic
when the key is that of its sealing and no part under the tag is damaged; each of
its calls may fail. `keyFile` says what `gx_secret_read_psk_file` looks at (a regular file,
nobody else's, its length, its digits, what follows them) and is rewritten at any
moment. Steps of `Driver` leave the new variables alone, new steps those of `Driver`.

### Touch

One worker with the loops of `capture_clear_base`, `capture_feature_when_present`
and `wait_for_finger_absent` inside `enroll_worker` or `verify_worker`, and a finger
that comes and goes at any moment. A frame is what it shows (empty, bright,
weak, a scan) and the touch it was taken in. `late` is the queue of frames whose
request was given up by timeout or cancellation: the next request gets the
oldest of them. The state survives the operation, as the TLS connection does.
What the matcher and the enrollment engine decide about a usable scan is
nondeterministic here.

### Device

Each failure point of an open is a step that succeeds or goes to `fail`, which
closes the device; `Close` can also be called at any time between calls. The
kernel's side (`drivers`, `lost`) and libusb's auto-detach support (`auto`) are
modelled as `gx_usb.c` uses them. A sensor may be plugged out and in at any moment,
which binds its drivers again and leaves a handle that only gives errors.

### Bringup and Sensor

`Device` says of the commands of an open only that they succeed in three steps
(`Preflight`, `InitializeSensor`, `ConnectTls`) or fail. `Bringup` extends it with
the commands one by one (`at` is the next one), the sensor's side (`client`, `loaded`),
the ways between them (`toSensor`, `toHost`, the receiver's `fifo`) and OpenSSL's side as
the loop of `gx_tls_server_handshake_usb` sees it (`server`, `input`, `pending`). A flight
is one of four and carries the connection it belongs to; the code has no such
number, and flights of an open that failed may meet the next one. `Elsewhere`,
`EnterTalk`, `EndSession` and `ForgetAll` are the steps of `Device` with what they do to the
new variables, `Break` is any command that fails.

`Sensor` computes what `gx_otp_parse` and `gx_config_prepare` compute, with the
table of the checksum, the order in which copies are trusted, and the words and
halves of words that are patched. `ReadOtp` reads a factory memory in which
one bit has flipped, or two where the DAC values and their checksums are (but not
the same bit in both copies of a value, which nothing could tell). A factory memory is
`Undamaged`: everything that `gx_otp_parse` compares agrees. The template in `MCBringup` is the
driver's; `TemplateAssumption` and `PatchAssumption` say of it what the proofs need: no register
overlaps another, none has its section's address twice, and the seven registers that
`gx_config_prepare` patches are there.

### Capture

The worker in a capture, the receiver thread, and the sensor as it is used. A
record on `wire` is one outer frame of TLS; `FileRecord` puts it into `fifo` or, when
that is full, drops it and marks the next one with a `gap`. `Fetch` moves bytes from
the FIFO to OpenSSL (`bio`), `ReadRecord` decrypts one record, and a record behind a
gap is refused for good (`RefuseRecord`): the worker sees only failing captures
until a close and an open (`Reconnect`). `Look` is the test of the cancel flag, at
its three places. The plaintext is abstract here: a record is an image or a half of
one, and a half without its beginning (`tail`) is noise in which the parser may
see a header that waits for up to `MaxSpan` records. What `gx_capture_parse_stream`
does with bytes is in `Framing`. The numbers of requests (`req`, `sent`, `given`) are
the model's: the protocol has none. `Touch` takes one capture as a step with the
outcomes that `Capture` produces: an image, late or not, or a failure.

### Framing

One byte stream, one buffer, two parsers (`layer`). `Feed` is one bulk read or one
`SSL_read`, `OuterRound` and `PlainRound` are one turn of the loops. Bytes are numbers
below `Base`, headers and checksums are computed as in the code. `fed`, `offset` and
`found` are history: all bytes that came in, how many have left the buffer, and
which frames were handed on. `InnerBuild` and `OuterBuild` are what is written, with the
padding to blocks of `Block` bytes; no action uses them, the theorems relate them to
the parsers. `Decoding` has no state: `Unpacked` is the value at one position, `Place` where
it goes, `Decode` the image.

### Enrollment

`Create`, `Reset`, `Destroy`, `Submit`, `Serialize` and `Deserialize` are the functions of
the engine, `Decision` the order in which a sample is refused. A feature is a model
value with a number of records; what two features have in common is a constant
function `Similarity`. `file` is the template between an enrollment and a
verification: `Damage` changes it in the fields that are checked before the
checksum (`header`) or under it (`body`). `Fault` is the list of checks of the
reader, which counts the statistics again. What the outcomes do to the loop
around `Submit` is in `Touch`.

### Matcher

The comparison of two sets of records is a pure function, `ScoreViews`, written
as the code computes it: the seeds with the nearest descriptors (`Inserted` is
the sorted window of `seed_insert`, and that of the best three samples; `RowOfSeeds` is
one turn of the outer loop), one hypothesis per seed, greedy pairing under it
(`WithRecord`, record by record), and the weighted means. The state machine is `gx5125_matcher_score_enrollment`: `Call` checks the configuration,
`ScoreSample` is one turn of its loop, `Decide` the consensus. A descriptor is the
set of its bits. Angle period, fixed-point scales and the table of sines are
constants; what CORDIC computes is not checked here, but `QuarterTurns` is assumed of it:
`gx_feature_angle_sincos_q14` returns exactly 0 and 16384 at 0, 6434 and 12868, the code's
quarters of a turn. Coordinates are integers of
any size: in the code they are 16 bits wide and no product comes near 64 bits.

### Extractor, Components and Records

`stage` is the place in `gx5125_extractor_extract_gray`; a stage passes, or fails and
goes to `CleanUp`, with any part of what it allocates left in `heap`. Of an image the
model keeps what `gx_feature_root_aux_metadata_prepare_profile24` looks at: which pixels
are dark or bright, coverage, level, holes. `gx_aux_component_filter` runs up to four times (the
stages `dark`, `darkHistory`, `bright`, `brightHistory`): `StartFilter` makes its picture, of the
pixels of a class or of those that three remembered images agree on, `FilterStep` is a
step of `Components`, `EndFilter` writes `selected` or `classes`. From these follow the
stability counter, as the code moves it, and the history of three images; the state
after a failure is the copy made at the beginning. `recent` and `earned` are history
variables: what the successful calls alone would have left.

`Components` is the flood fill look by look: `PassPixel` and `StartRegion` are the outer loop
at `scan`, `TakePoint` and `Visit` the inner one at `point` and `direction`, `SelectNext` one slot of
`gx_aux_select_largest`. The ring buffer is a sequence with room for `QueueRoom`; a pixel
that finds none is labelled and forgotten, as in the code (`dropped` remembers it for
the property). `Places` and `Threshold` are what the filter uses for the sensor's 64 rows and
5120 pixels, the same in all four passes.

`Records` takes the loops of `gx_feature_post_prune_mask` and
`gx_feature_post_partition_records` one iteration at a time. A record is the keypoint it
describes, a quality whose quality it is; mask and classes are arbitrary.

### PamProxy

The steps of `call_real` in each thread: the check of the real module, the lock, the
locale saved and set to C, two libraries, the conversation, the entry point, and the
label `out` in its order. Each thread has a PAM handle of its own, as PAM requires.
`SetLocale` is the application, which knows nothing of the wrapper's mutex and may
come at any moment. `Ask` is a prompt of the real module, in the language of the
locale at that moment: in English the generic one, one that names a finger or one that
names a thumb (`enroll.sh` offers both), which stands for every placement prompt without
"finger on the fingerprint reader" in it. Three calls of `call_real` may fail without its
looking: `strdup`, the `setlocale` of `RestoreLocale` and the `pam_set_item` of
`GiveBackConversation`; `unsaved`, `refused` and `stuck` remember it.

### Installer

One action per command that changes the system or a variable of the script, from
the first saved file to the last released flag. `Abort` stands for a failing
command or a signal with a trap, `Kill` for the end without a trap; either may come
between any two commands, so that a rollback meets every half-done state. The
guard process is `Look`, `Restore` and its sleeps in `Tick`; time passes only there, so
that the guard's 180 looks, the settling sleep and the limit of the live test
race as they do in the script. `shell.credential` is sudo's timestamp: after
`sudo -k` and a failed test the rollback's `sudo -n` fails silently, the guard
restores PAM and the runtime stays replaced (`failedWithoutSudo`). A killed script
leaves its guard running, and the next script may start beside it.

## 3. The runs

| Run | Bounds | Distinct states | What it shows |
|---|---|---|---|
| `session` | 4 codes of the 4 kinds in use (ack and response, ack, response, neither), 2 attempts, 2 commands, 2 sessions | 309,319 | no answer is taken for another's before a retry; no lost wake-up; stop returns; `Session` implements `Rpc` |
| `print` | 4 actions, 3 captures per operation, 2 keys, 4 states of the PSK file written once, damage to any one part of the print or to size and length together | 691,870 | pipeline lifetime, cancellation, completion; secrets, prints |
| `touch` | 2 samples of 3 attempts, 2 verify attempts, 2 base attempts, 2 polls for a finger and 3 for its lift, 2 requests per capture, 1 late frame, 2 operations, 3 touches | 334,212 | samples, progress, verdicts, termination |
| `bringup` | 3 calls, 2 replugs, 2 factory memories with every flip of one bit and every pair of flips around the DAC values | 908,628 | resources and kernel drivers, handshake, settings |
| `capture` | 2 attempts, 4 requests per connection, FIFO of 2 records, false headers over 2 records | 1,968,564 | images in order, bounded lag, captures return |
| `framing` | 3 byte values, payloads of up to 3 bytes, reads of up to 3, 10 bytes in all | 607,047 | both parsers |
| `enrollment` | 4 features, 3 configurations, 2 qualities, 2 coverages, 3 samples, 6 units of similarity | 321,498 | samples, statistics, template round trip |
| `matcher` | enrollments of up to 4 of 5 samples, 3 scans, 4 configurations, up to 3 records of 3 bits, 8 angles, scores of 0..100 | 10,868 | seeds, moved fingers, decisions |
| `installer` | 2 scripts, guard of 3 looks, settling 1 tick, live test at most 3 | 68,481 | rollback, guard, the line of a passed installation |
| `installer_pass` | the same, 1 script | violation | `PassMeansLine` |
| `pam_proxy` | 2 threads, 3 calls, 3 locales, 2 changes by the application, 4 kinds of prompt | 791,728 | locale, conversation, prompts; the lock is always released |
| `extractor` | 5 images of 3 by 4 pixels, 4 labels and 2 in a history pass, queue of 2, 1 place, threshold 1, 3 keypoints in arrays of 3 | 1,983,686 | memory, state between images, regions, records and qualities |

Why these bounds are enough to be interesting:

* *session*: the second command can meet the leftovers of the first, with the same
  or another code, in the same or in a new session; two attempts give a retry and
  an exhausted command. Commands and sessions are bounded, losses are not.
* *print*: an open cancelled after it succeeded, the open refused after it, an
  operation and a close take four actions; three captures let a cancellation fall
  before, in and after one. One write of the PSK file falls before, between or after
  sealing and opening. Damaging both size and length meets the sum of the checks.
* *touch*: the source's numbers are 12 samples, 20 attempts, 3 verify attempts,
  40 base attempts, 120 polls, 3 requests. Every loop keeps at least two rounds
  and the lift wait three, so that a missed frame can break a streak of two. Two
  operations meet each other's late frames.
* *bringup*: an open after a failed open, with its flights still under way, and after
  a close; a replug during each. Four different DAC values show which copy was
  taken; one memory has touch settings and one has not, since they decide whether
  a register is patched at all.
* *capture*: two captures of two attempts each on one connection; two late images in
  halves overflow the FIFO (source: 131072 bytes, 17 images); stray halves can
  hide one another and the image behind them. Losses, noise, cancellations and
  connections are not bounded.
* *framing*: two shortest frames with noise between them, a false header around a
  good frame, in every cut. The bytes 0, 1, 2 stand for lengths, checksums, a family
  and a command at once, so that nearly every pair of readings of a byte occurs.
* *enrollment*: no bound on calls, the states are finite. Limits are met from both
  sides (59 and 60, 69 and 70, 1 and 2 records); one configuration asks for
  nothing, one for more samples than there may be. Every pair of features has a
  similarity of its own, so that a wrong pair shows.
* *matcher*: three records and nine pairs of them fill windows of 1, 2 and 9 seeds;
  two records of a sample are alike, so that the greedy choice can go wrong; turns
  lead angles past the full circle in both directions; four samples are one more
  than the best three. One configuration is refused.
* *pam_proxy*: one thread calls again while the other is inside or waits, so that the
  locale one call saved is not the one another found. The application changes it
  before, in and after a call.
* *extractor*: calls are not bounded, the state they leave is finite. Three images fill
  the history and a fourth replaces the oldest; one that is clean brings the
  stability down again. The pictures have a region that winds, one wider than the
  queue, more specks than labels, two large regions for one place, and regions of
  equal and of too small size (source: 70 labels, 30 in a history pass, a queue of 2450,
  3 places, more than 350 pixels of 5120). Three records give every order of drops, of
  exchanges and of meeting points; keypoints are symmetric.
* *installer*: the live test may outlast the guard (source: 220 half seconds
  against 180, after a settling of 6). Two scripts give an installation after an
  installation, a rollback and an uninstallation, with a guard of the first alive.

### Properties

*session.* `TrustedResponseIsOwn`: a response handed back was sent for that
command, if no earlier command with its code was retried or failed. The
condition is what the code gives: a late answer to a retried command is taken by
the next command with that code, and TLC shows it when the condition is dropped.
`DeadReceiverFailsFast`: no sleep and no timeout once the receiver has died.
`StopReturns`, `CallReturns`, `KeepsPromise`.

*print.* `PipelinesAreSafe`: no pointer is followed after its pipeline was destroyed,
and between actions the only pipeline is the published one. `CancelHitsItsTarget`: a
cancellation does not reach a later action, and in its own at most the capture in
progress goes on. `ActionCompletes`: the progress handshake does not deadlock. An open
whose cancellable fired after the worker had finished is completed as cancelled,
the pipeline stays published, and the next open is refused as busy until the
device object is finalised; the last part of `PipelinesAreSafe`,
`BusyOnlyAfterCancelledOpen`, says that this is the only way to a busy open.
`SecretsAreWiped`: when the main loop has control, no key, derived key or plaintext
is left in memory, whichever step failed; between actions no template is, also
when it was finished for an action that was then cancelled. `GoodPrintsAndNoOthers`:
the worker gets only what was sealed under the present key and is undamaged, and
such a print is refused only for a file or a library that fails.

*touch.* `SamplesAreSeparateTouches`: no two samples of a template come from one
touch, given that no two consecutive readable frames miss a resting finger.
`ScansFollowBase`: scans are processed against an empty base that is older than
their touch. `OperationEnds`. Proved rather than run: `ProgressFollowsSamples`, a
rejected scan does not advance the enrollment (README.md says so to the user), and
`TemplateIsFull` and `OneScanDecides`. The queue of late frames has a consequence the properties
spell out rather than exclude: after a request was abandoned, an operation works
on frames up to that much older, and may begin with images taken before it
began, until the connection is closed. Order is kept, so base, touch and lift
stay in sequence.

*bringup.* `ResourcesAreSafe` is `AllOrNothing`, at rest a device holds all of its resources
or none, and one copy of the key or none, and a failed open leaves none, with
`ReceiverHasInterfaces`, the receiver is joined before the first interface is released.
`DriversReturned`: with
the handle closed every kernel driver is back unless binding it failed, which
the code ignores. `ActiveIsReady`: an open device is one whose sensor finished this
connection's handshake, and no earlier one's, and runs with the configuration
just read. Nothing in the driver's code compares connections: it is the randoms of
the handshake, the order of the pipes and the polls of the sensor's state that make
it hold. `HandshakeNeverStalls`: while no flight is lost, a driver that waits has a
flight coming to it; for this one the FIFO has to be cleared before D/0. `DamageIsHarmless`: one flipped bit in the memory changes
no setting; two around the DAC values may cost one of them, but no damaged one is
used. `UploadCarriesSettings`: a register that is uploaded is the template's or carries
its setting, and the checksum fits.

*capture.* `ImagesInOrder`: images are handed out in the order of their requests,
none twice, and nothing that was noisy or made of two images. `LagIsGivenUp`: an
image is at most as many requests old as attempts were given up on the connection.
That is the strongest the code gives: an abandoned request stays in the queue.
`CaptureReturns`: no answer, dead receiver or broken record stream leaves the
device in CAPTURING.

*framing.* `FoundAreFrames`: what is handed on are good frames of the stream, disjoint.
`NoFrameMissed`: a good frame is passed over only under one that was handed on, or
while a header claims bytes that have not come. `BufferIsTail` is proved only: the
buffer is the end of the stream and holds less than one frame between reads, so
that the reset in `gx_stream_feed` is dead code for the receiver; the overflow of the
plaintext buffer is reachable.

*enrollment.* `SamplesQualify`: every sample, fresh or read back, met its limits and
is no duplicate. `StatisticsFit`: the statistics kept along are those of exactly
these samples. `TemplateReadable`: the reader accepts what the writer wrote, and
nothing damaged.

*matcher.* `SeedsAreNearest`: the window holds the nearest pairs, the earlier of
equal ones first, compared with a definition that counts instead of inserting.
`MovedFingerIsPerfect`: a finger that is only moved and turned by quarters (where
the sines are exact) gets 1.0, for whatever pairs are taken as seeds. With
other turns the rounding of coordinates costs some score, as in the code.
`MatchNeedsTwoSamples`: with the driver's consensus of three a match needs one
sample over the threshold and a second one not far below it, and an enrollment
with fewer samples than the consensus never matches.

*pam_proxy.* `LocaleReturned`: while no call is inside, the process has the locale the
application set last, with three exceptions that the code leaves: the application set it
during a call (the wrapper undoes that), a call had no memory to save it, or the `setlocale`
that restores it failed, whose result the code drops. In the last two the process may be
left in C, and in no other locale. `NoProxyOutlivesCall`: no handle keeps a conversation that
points into a finished call, but where `pam_set_item` refused to take the old one back,
which the code does not look at. `OnlyThumbsAreNamed`: calls of other threads never put the
real module into a language whose prompts the proxy cannot read, and of the English prompts
that name a finger only a thumb's gets through.

That one is a defect of the wrapper. Its comment says (lines 175-177) that it will "replace
the finger-specific placement sentence with a generic prompt that works for any enrolled
finger"; `is_fingerprint_placement_prompt` (lines 89-100) wants "finger on the fingerprint
reader" in the text, which "Place your left thumb on the fingerprint reader" does not
contain, and `enroll.sh:6-7` enrolls thumbs. `AnyFingerIsGeneric` states the comment;
`tlc -config MCPamProxyThumb.cfg MCPamProxy` prints a call in which a thumb's prompt
reaches the application as it is.

*extractor.* `MemoryIsTheCallers`: between calls exactly the feature handed out is
allocated, all of it. `AuxStateIsOfSuccesses`: failed calls leave history and stability
as the successful ones made them. `ArraysAreSound` is `RecordsPartitioned`, the loops in
place lose no record, keep none the mask excludes and double none, and those of class
zero are the first `zero_class_count`, with `QualityFollowsRecord`, the quality at an index is
that record's, as long as the mask drops none. The condition is what the code gives:
`gx_feature_post_prune_mask` moves records and not their qualities, so that one dropped
record gives the record moved into its place another one's quality.
`SelectionIsLargest`: what is selected are whole four-connected components over the
threshold, none smaller than one left out, and none left out while a place is free. Its
two conditions are again the code's: when the labels run out the rest of the picture
is not looked at, and when the queue is full a region may be found in pieces.

*installer.* `FailureRestoresRuntime`; `PassKeepsLine`: a passed installation keeps its
line if the guard had a look left when it was disarmed; `GuardRestores`: a guard
nobody disarmed restores the rules, even after a kill. Proved rather than run:
`RollbackRestores`, a rollback leaves sudo's rules as they were before it goes on, with
or without a sudo timestamp.

`PassMeansLine` is what the script says of itself and does not do (`findings` in
`PROJECT.json`): `install.sh` ends with `sudo_fingerprint:1` although the guard had run
out, or was in its last sleep, when the test succeeded, and restored the file.

Three gaps of the scripts are known and no run passes over them:
* `UninstallRemovesLine`: a script stopped between saving the PAM file and its meta
  file leaves the first alone; the next installation finds it and writes no meta,
  and an uninstallation then keeps the line and removes the module it names.
  `tlc -config MCInstallerUninstall.cfg MCInstaller` prints such a behaviour.
* `SudoFileIsRoots`: the backup is written by the user's shell and `cp -a` keeps its
  owner when the guard restores it; later installations stop at `install.sh:399`.
  `tlc -config MCInstallerOwner.cfg MCInstaller` prints one.
* Stopped between `install.sh:450` and `451`, the line stays and the rollback, whose
  flag is not set yet, removes the module. `RollbackRestores` has `pamArmed` as its
  condition for that reason.

### Fairness

* `Session`: weak fairness of the receiver (a bulk read ends in its 100 ms), of
  transmissions (bulk writes have timeouts), of the caller's steps, of deadlines
  (`pthread_cond_timedwait` has one in every wait) and of the join. Nothing obliges
  the sensor to answer: `Receive` may be passed over for `Lose` or `ReadTimeout`.
* `StoredPrint`, as in `Driver`: weak fairness of the worker (opens and captures have timeouts) and of
  the main loop's sources (a ready source is dispatched), and of the handlers' own
  steps, which run to their end once called. No fairness for the
  application's begin, cancel and finalize.
* `Touch`: weak fairness of the worker; the user may stay or stay away for ever.
* `Capture`: weak fairness of the worker (every wait in it is bounded), strong
  fairness of the deadline, at which the worker looks again and again while the
  monotonic clock goes on. None for sensor, receiver, cancellations or reconnections.
* `Device`, `Bringup`, `Enrollment`, `Framing`, `Matcher`, `Extractor`, `PamProxy`: safety only.
  The real PAM module may wait for a finger for ever; that the mutex is never left
  locked shows in the absence of deadlocks. The deadline of the
  handshake is a way for it to fail at any moment (`Break`).
* `Installer`: weak fairness of the guards and of time. No script has to be started
  or to go on.

Deadlock is checked in every run: the only rest is the `Finished` step, when the
bounds are used up and nothing is in progress (`Enrollment` and `Extractor` have no rest:
a call is always possible).

## 4. The proofs

For every value of the constants (sets of codes, attempts, bounds), from the
named assumptions `SessionAssumption`, `DeviceAssumption`, `DriverAssumption`,
`PrintAssumption`, `TouchAssumption`, `EnrollmentAssumption`, `FramingAssumption`,
`CaptureAssumption`, `RecordsAssumption`, `ComponentsAssumption`, `ExtractorAssumption`,
`MatcherAssumption`, `PamProxyAssumption` and `InstallerAssumption`, which are about types and
bounds, and from five that say something of a constant: `QuarterTurns` (the table of sines,
for `MovedFingersArePerfect` only), `TemplateAssumption` and `PatchAssumption` (the layout of the
template), `BringupAssumption` (memories are bytes) and `FactoryAssumption` (a memory leaves the
factory undamaged; with `PatchAssumption` for `DamageDoesNoHarm` only). Every run evaluates those of its modules, with the
driver's template and its quarters among them. What is proved and
adds nothing to a run is not repeated there: the `TypeCorrect` theorems,
`ClosedHasNoReceiver`, `ReceiverIsSafe`, `OpenMeansReady`, `ResultsAreEarned`, `ProgressIsExact`,
`RollbackIsComplete` and `BufferHoldsTail`.

`SessionProofs`
* `TypeCorrect`, `ClosedHasNoReceiver`: directly inductive, with the types.
* `FailsFastWhenDead`: by `DeadInv`. That a dead receiver never files anything
  again, that nobody sleeps outside a wait, and that a call begun after the error
  finds its counters at their baselines is what the property needs to be inductive.
* `ImplementsRpc`: by `EvidenceInv`, a counter that differs from its baseline stands
  for evidence that came in during the call, and the caller waits only for what
  it asked for. Each step of `Session` is then a step of `Rpc` or a stutter.
* `TrustedResponses`: by `TrustInv`, in four parts. `PipeInv`: responses in the pipe
  belong to a suspect code or to the call in progress. `FirstAttemptInv`: the first
  attempt of a clean code has at most one response, in the pipe or filed, not
  both. `FiledInv`: what is filed after the baseline is this call's. `ResultInv`
  carries it to the result.

`DeviceProofs`
* `TypeCorrect`.
* `HoldsAllOrNothing`, `ReceiverIsSafe`: by `HoldInv`, a table of what each step of an
  open holds (`OpeningHolds`) and what each step of a close has given back
  (`ClosingGivesBack`), with what goes together in between (`Consistent`).
* `GivesDriversBack`: by `DriverInv`: on a live handle the missing drivers are
  exactly those of claimed interfaces (auto-detach) or of interfaces marked as
  detached by hand, up to those whose binding failed.
* `ImplementsDevice`: every step of `Bringup` is a step of `Device` or leaves its
  variables alone (`BringupStep`), whatever `Sensor` computes and whatever memories
  there are. `BringupLeavesNothing` carries the theorems above over.
* `OpenDeviceIsReady` (`ActiveIsReady`): by five invariants on what is under way.
  `WayType`: types. `PlaceInv`: where the open is, and that OpenSSL's side is fresh when a
  handshake begins. `MailInv`, on what is written for the sensor: an answer of
  the latest connection comes after its D/0, and the last D/0 is that connection's.
  `FlightInv`: a key that fits was made after the last D/0 was handled. `AgreeInv`: before
  OpenSSL has the key nothing that would finish the connection was written;
  afterwards its "finished" is the last message; and once the sensor is connected
  nothing is left for it to read, so it stays connected until it loses power. That the
  FIFO is cleared is not needed here.
* `HandshakeGoesOn` (`HandshakeNeverStalls`): by `TurnInv` on top of those five. A handshake is a
  dialogue: the last message written is the one the sensor has to answer, and once it is
  handled a flight is on its way (`FlightUnderWay`). Which message that is depends on how far
  OpenSSL came: this open's D/0 (`BeforeHello`), an answer to a hello of whichever connection
  (`AfterHello`), or the last one (`AfterKey`). A flight of an earlier open may be what comes;
  then the handshake fails, and does not stall.
* `UploadsCarrySettings`: by `ReadingInv` (what is about to be prepared comes from a reading) and
  a fact about `ConfigPrepare`. A patch writes one word of one register, so the table and the
  addresses stay the template's (`Shaped`), and what a register holds after n patches is the
  one patch's that is for it, or the template's (`Patched`), by induction on n
  (`OnePatchMore`, `ModifiedIsPatched`). `PatchesFit`: no two patches are for one register.
  Memories are arbitrary bytes here, damaged or not.
* `DamageDoesNoHarm` (`DamageIsHarmless`): by `ReadingInv` and what the checksum can tell. The
  exclusive or is worked out bit by bit (`XorBits`); the table's shift is linear
  (`ShiftLinear`), and so the table is (`TableLinear`). What two memories differ by therefore
  runs through the same register as they do (`DifferenceRuns`), and if both fit, it ends at
  nought (`CodewordsMeet`). One wrong byte never ends there, as the table takes only 0 to 0
  (`OneErrorShows`). Two wrong bits do only if the first has become the second one's bit by
  then: a bit goes through 127 values before it comes back (`Orbit`, `OrbitTurns`), the first
  eight of which are single bits, so 1 to 14 or 17 to 30 bytes apart it never has
  (`TwoErrorsShow`), and no two of those places in a checksum's domain are another distance
  apart (`FtCodeword`, `MtCodeword`). A copy taken for sound is thus intact (`SoundIsIntact`), and
  if none is, so are values whose copies agree (`AgreeingIsIntact`). Last, no settings are
  refused: each patch finds its register (`AllPatchesWork`), and the checksum written completes
  the sum (`ChecksumCompletes`).

`DriverProofs`
* `PrintImplementsDriver`: a step of `StoredPrint` is a step of `Driver` or leaves its
  variables alone. The theorems about `Driver` below are stated of `PrintSpec`.
* `TypeCorrect`, `PrintTypeCorrect`.
* `PipelinesAreAlive`: by `PipeInv`, which says of each place of the worker which
  pipelines exist and whose they are. The pointer is used without the mutex; what
  protects it is that libfprint runs one action at a time and that only open and
  close destroy, after taking the pointer back.
* `OpenMeansReady`: by `OpenInv` and `OrphanInv`: libfprint's idea of the device and the
  pointer disagree only once a completed open was taken for cancelled.
* `CancelIsExact`: by `CancelInv` (a flag that is set once the worker has cleared it was
  set for this action) and `LateInv` (a capture that began late is the last).
* `NoSecretIsLeft`: by `HeldInv` (what is held at each step of the two handlers) and
  `ClearInv` (template bytes and the input of a verification belong to an action).
* `PrintsOpenExactly`: by `GenuineInv`, which says at each step of the opening which checks
  the print has passed, and of a refused one why it was refused.

`TouchProofs`
* `TypeCorrect`.
* `ResultsAreEarned`, `ProgressIsExact`: by `TemplateInv` (samples, their count and the
  progress shown go together at every step) and `VerdictInv` (a verification has
  compared no scan while it goes on).
* `SamplesComeFromSeparateTouches`, `ScansComeAfterTheirBase`: by `OrderInv`, for any number of
  late frames. A touch has two moments, down and gone. `Stream`: frames are in the
  order of their moments, in `late` as on the sensor, and of two empty frames with
  nothing readable between them the second is not of the first one's touch.
  `BaseFloor`, `SampleOrder`: a bright base, a sample, and two absent frames in a row each
  leave only later moments to be read (`Floor`); after one absent frame a second one
  rules the sample's touch out (`MissedAfter`). Every step keeps the stream and the floors
  (`FlowStep`); what the loops learn from a frame is `CaptureCarries`.

`EnrollmentProofs`
* `TypeCorrect`.
* `SamplesAlwaysQualify`, `ClosestPairIsKept`, `ExtremaAreKept`: by `QualifyInv`, `PairsInv` and
  `ExtremaInv`. Each says of the template on disk what it says of the samples in
  memory, since a template may be read back at any time; the reader's checks are
  not strong enough to establish it anew (they do not look at pairs).
* `StatisticsAreKept`: by `CountInv` with those. That the number of records kept is the sum over
  the samples needs what the sum, a recursive function, makes of one sample more
  (`CountedMore`), by induction over the samples (`SumsExist`, `SumsAgree`).
* `TemplatesStayReadable`: by `CountInv` and `ExtremaInv`, which say of a template on disk all that
  the reader recounts: it was written by an object whose configuration had passed the
  limits, with as many samples as its target.

`FramingProofs`
* `TypeCorrect`, `FoundFramesAreGood`, `NoFrameIsMissed`, `BufferHoldsTail`: by one
  invariant. `TailInv`: buffer and stream agree byte by byte, so the parsers see in the
  buffer what stands in the stream (`ShiftHeader`, `ShiftFrame`). `SettledInv`: a byte
  that left the buffer is under a frame that was handed on, or was refused for a
  reason that later bytes cannot change (`FrameStays`). `ReadInv`: a parser stops only
  for a header that lacks bytes, which bounds the buffer (`ReadLeavesRoom`).
  `FoundInv`: frames found lie behind `offset` and behind one another. Every round is
  a skip, a hand-on or a wait (`SkipStep`, `HandOnStep`, `WaitStep`). The checksum over the
  payload stays an opaque function of the frame's bytes: what it sums is an
  induction over data, and nothing in the argument needs it.
* `InnerFramesDecode`, `OuterFramesDecode`: by the bytes of the header one by one; the
  checksum is that of the same bytes again (`InnerBytes`, `OuterHeadBytes`), and `WireSize` is
  the first multiple of a block that is long enough (`WholeBlocks`). `WhatIsBuiltArrives`
  follows with `NoFrameIsMissed`, as a frame keeps its header wherever it stands in the
  stream (`StandingFrame`).
* `LagIsBounded`, `ImagesKeepOrder`, of `Capture`: by `CaptureInv`. Requests carry no number, so
  what is proved is that everything stands in line. A whole image of request n has rank
  2n, its second half 2n + 1; `LineInv`: plaintext, OpenSSL's input, FIFO, wire and the
  requests not answered are each in ascending order, and each before the next. `FreshInv`:
  nothing pending is older than the last image handed out, nor than `Floor`, the first
  request that was not given up; and once the parser waits for more of a record, what
  follows is past that image's second half too. `BudgetInv` and `PhaseInv` are what the
  steps need of bounds and places. `ImagesInOrder` is an action property: it holds of each
  step from a state with `CaptureInv`.
* `EveryPixelIsWritten`, `DecodingLosesNothing`: the order of the pixels has an inverse
  (`PlaceInverts`), and the four pixels of a group hold both halves of each of its six
  bytes (`LowKeeps`, `HighKeeps`, `HalvesMakeByte`).

`ExtractorProofs`
* `ExtractorTypeCorrect`.
* `LoopsAreCorrect` of `Records` alone and `ExtractedRecordsAreSound` of `Extractor`, every step
  of which is a step of `Records` or leaves its variables alone: by invariants of the
  loops. Before the index of the dropping loop all records are covered, and records
  and what was dropped together are what was detected; before `front` all are of class
  zero, behind `last` all of class one; with a mask that covers all, nothing moves but in
  the exchange, which moves both arrays.
* `LargestRegionsAreFound` of `Components` alone and `ExtractedSelectionIsLargest` of `Extractor`,
  for pictures of every size: by `ComponentsInvariant`. `ScanFits`: every pixel before the outer
  loop has a label. `Spread`: from a labelled pixel the label has gone to all its set
  neighbours, but for the directions that still wait in the queue; so a complete region
  is closed, and a neighbour that is met with a label has this region's (`NeighborIsOurs`,
  by the way back). `Joined`: no closed set tells two pixels of one label apart, so a
  region is no more than a component (`RegionsAreComponents`). `SizesFit`: the sizes are the
  cardinalities. `ChosenFit`: what is chosen is no smaller than what is open.
* `MemoryIsHandedOrFreed`: by a table of what may be allocated at each stage.
* `FailedExtractionsLeaveNoTrace`: the copy made at the beginning is what the successes
  left, and the state differs from it only behind the metadata stage.
* `SeedsAreTheNearest`, of `Matcher`: `RowMoves` and `SeedsWindow` say, pair by pair of the two
  loops, that the window holds those of the pairs seen so far that come first in the order
  of `Ahead`, in this order; `WindowCounts` turns this into the counting definition.
* `NoSampleDecidesAlone`: by `MatcherInv`, which has that `top` holds the best of the samples scored,
  each once, the best first (`Ranks`), and what a decision was made from (`Decided`). A mean
  over the threshold has its first term over it, and with two or three samples in the mean
  (weighted 5 and 3, or 5, 3 and 2) a second term not far below (`ConsensusOfTwo`,
  `ConsensusOfThree`).
* `MovedFingersArePerfect`: the first seed pairs the first records of the two scans, which
  agree in all bits, so that no pair comes before them (`FirstSeed`); under any seed scores are at most `One` (`ScoreBound`), and
  under that one the scan lies on the sample
  (`LaidOn`), so that record after record finds a partner with the full score
  (`PerfectMore`, `PerfectPairing`), and no hypothesis is better (`PerfectHypothesis`).

`InstallerProofs`
* `TypeCorrect`: by `TypeInv`, which adds that a guard that sleeps has a look left.
* `RollbackIsComplete`: by `RollbackInv`. A script is without its timestamp only while
  its guard runs undisarmed, and such a guard ends in no other way than by copying
  the backup back; so the rollback either copies itself or waits for the guard.
* `FailureIsUndone`: by `FailureInv`: a part is as it was found, or armed with its
  former state, before and after every command.
* `PassIsKept`: by `PassInv`: a guard disarmed with a look left ends at that look, and
  before it is started there is none for this script.
* `LocaleIsReturned`, `ProxyDiesWithCall`, `PromptsNameThumbsOnly`, of `PamProxy`: by `PamInv`. The
  thread between lock and unlock holds the mutex (`LockInv`), so at most one is there; the
  locale a call may leave (the application's, or C once a copy was not made or not taken)
  is in the process while nobody is, and in the holder's copy once it has one, and in
  between the process may only be in C besides (`LocaleInv`); from setlocale to the end of
  the entry point it is in C (`EnglishInv`).

TLC checked the inductive invariants before they were proved. What recursive functions
compute over sequences is proved by induction through sets of numbers (`SetInduction`): the
set of those n for which a statement holds contains 0 and, with n, n + 1.

Only model-checked: every liveness property (`CallReturns`, `StopReturns`,
`ActionCompletes`, `OperationEnds`, `CaptureReturns`, `GuardRestores`), as fairness and
ENABLED are beyond TLAPS. Every invariant of a run is proved. Only proved, as a run has no use
for them: what `Framing` builds, and `Decoding`, whose images of 7680 bytes are not enumerated.

## 5. What is not modelled, and the plan

Next, in order:

1. The stages of the installer before the first change to PAM.
2. An abstract enrollment (samples asked for, taken or refused, a template at the end) that
   `Touch` with `Enrollment` implements.

What is proved need not be run for ever: properties leave the runs for new ones
as their theorems come in.

Out of reach or of no use to a model checker: the preprocessor and the numeric kernels
and tables of `gx_feature_*.c` (arithmetic on an image, without state: a model would
repeat them pixel by pixel), OpenSSL's internals (ciphers and records; the
handshake's flights are in `Bringup`), a crash of the machine during an installation,
the probe and smoke-test tools with the prompt of `gx_secret.c` that only they use
(sequential callers of what is modelled), the Windows key extraction, packaging
and status scripts.

Abstractions that matter for reading the results: bytes, lengths and checksums
are only in `Framing`, `Decoding` and `Sensor` (elsewhere a frame is whole or lost); times are not in any model (a
deadline may pass at any moment); memory exhaustion is modelled where it changes
control (`Touch`: the pipeline's sticky error).
