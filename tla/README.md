# A TLA+ model of the file-transfer client

The program is a command-line client that registers (or reconnects) with a
server over TCP, receives an AES key encrypted under its RSA public key, and
sends one encrypted file, which the server confirms by a checksum. This
directory holds TLA+ modules that model the program, the configurations under
which TLC checks them, and proofs for TLAPS. Paths below are relative to the
repository (`src/`) and to this directory.

## 1. Inventory

| Component | Source | State | Operations | What makes it correct |
|---|---|---|---|---|
| Runs of the client | `main.cpp` | none but the flow of control | `main`, `handleClient` | reconnects with a known identity, registers otherwise, ends |
| Flows | `ProtocolHandler.cpp` | `clientName_`, `filePath_`, `socket_`, the local `clientId`, key pair | `handleConnection`, `handleConnectionRequest`, `handleRegistration`, `handleReconnection`, `handleRSARegistration`, `handleFileEncryptionAndSend` | nothing goes to the server before what must precede it; refused clients lose nothing |
| Transfer with retries | `ProtocolHandler.cpp` | `retry_count`, `status`, the encrypted request | `handleRetrySendFile`, `sendCRCStatusRequest` | bounded attempts, one verdict, result agrees with the server |
| Socket | `ProtocolHandler.cpp` | one TCP connection | `sendRequest`, `safeReceive`, `getResponse` | each reply is read by the call that sent its request |
| Files on disk | `FileHandler.cpp` | `transfer.info`, `me.info`, `priv.key`, the file to send | `readTransferInfo`, `readMeInfo`, `saveMeInfo`, `savePrivateRSAKey`, `readFileContents`, `openFile`, `writeToFile` | what is saved is what the server knows; fields fit the requests |
| Checksum | `checksum.cpp` | none | `memcrc`, `readCrc` | the POSIX cksum of the file |
| Codes | `constants.h` | none | | |
| Cryptography | `CryptoHandler.cpp`, the AES, RSA and Base64 wrappers | none kept | key generation, encryption, decryption | that of Crypto++ |
| Logger | `Logger.cpp` | none | output | |

**Interaction.** One thread. `main` calls `handleClient`, which reads
`transfer.info` and `me.info`, creates a `ProtocolHandler` and calls one flow;
the flow alternates `sendRequest` and a blocking `getResponse`, and in between
uses `FileHandler`, `CryptoHandler` and `readCrc`. Exceptions run the other way:
a `std::runtime_error` anywhere in the reconnection starts a registration on a
second connection, every other exception ends the run in `main`.

**What is hard.** Nothing runs in parallel inside the program, but the server,
the network, the disk, other programs and the user act between any two of its
steps: the server's end may close in the middle of a reply, the file may be
edited between encryption and comparison, the process may be killed between two
writes, and the next run starts from whatever that left. Responses carry no
reference to their request, `recv` has no timeout, `getResponse` returns an
uninitialized `Response` when the header does not arrive, and errors of `send`
and of writing to files are not reported to the caller. PROJECT.json lists these
hazards at their lines.

## 2. Modules

| Module | Models | Depends on |
|---|---|---|
| `Protocol` | the message codes of `constants.h` | |
| `Connection` | `sendRequest`, `safeReceive` and `getResponse` as operators on one connection, and the server's end of it | `Protocol` |
| `FileTransfer` | `handleRetrySendFile` and `sendCRCStatusRequest`, the server's part of a transfer, an edited file | `Connection`, instantiates `TransferPromise` |
| `TransferPromise` | the abstract transfer: bounded attempts, one verdict, one result | |
| `FileTransferProofs` | the theorems about `FileTransfer` | `FileTransfer`, `TLAPS` |
| `ClientRun` | whole runs: `handleClient`, both flows, the files on disk, the server's accounts, crashes | `FileTransfer`, instantiates `Enrolment` |
| `ClientRunProofs` | the theorems about `ClientRun` | `ClientRun`, `FileTransferProofs` |
| `Checksum` | `memcrc` with its table, `readCrc` | `CksumReference` |
| `CksumReference` | the POSIX cksum as division of polynomials | |
| `MemcrcProofs` | that `memcrc` is that division | `Checksum`, `TLAPS` |
| `ChecksumProofs` | the theorems about `readCrc` | `MemcrcProofs` |
| `DamageProofs` | the theorems about damaged files | `ChecksumProofs` |
| `Enrolment` | the abstract life of an account: registered once, given a key in that run or never, one uploader | |
| `EnrolmentProofs` | that `ClientRun` implements `Enrolment` | `ClientRunProofs` |
| `ResponseStream` | `getResponse` and `safeReceive` byte by byte on a TCP stream | |
| `ResponseStreamProofs` | the theorems about `ResponseStream` | `ResponseStream`, `TLAPS` |
| `TransferInfo` | `readTransferInfo`, and how the port, the name, the path and the sizes of the encrypted file fit the address and the requests | |
| `TransferInfoProofs` | the theorems about `TransferInfo` | `TransferInfo`, `TLAPS` |
| `MCFileTransfer`, `MCClientRun`, `MCChecksum`, `MCTransferInfo`, `MCResponseStream` | values of the constants for TLC | |

The last section of `FileTransfer`, `ClientRun`, `Checksum` and `ResponseStream`
is the inductive invariant of its proofs (`TransferInv`, `RunInv`, `ReadInv`,
`StreamInv`); it stands there, and not in the proof module, so that TLC can check
it as well. `Checksum` states one fact as an assumption, `CrctabAssumption`: that entry
i of the table is the remainder of i shifted out of the word, and that only entry 0
has an empty low byte. It mentions no constant and no variable, so TLC proves it by
evaluating it, which it does before each run of `MCChecksum`.

**Steps.** A step of the client is what its thread does between two points where
others can see or change something: a send, a blocking receive, a file that is
open and emptied but not yet written. `pc` names the point. In `FileTransfer`,
`pc` is `loop` at the head of the `while`, or `await_...` in the `getResponse`
that follows a send; `retry_count`, `status` and `calculatedCRC` are the
locals of that name. `FileRefused`, `CrcMatches` and `CrcDiffers` are the three
ways the loop body goes on after the reply to `SEND_FILE`; the status request
that two of them end in is part of the step. In `ClientRun`, `pc` also walks
through `connect`, the flow's request, `save_key`, `write_key`,
`write_me_info` and `send_key`, and the steps of `FileTransfer` follow
unchanged, so that one set of actions serves both modules.

In `ResponseStream` a call of `getResponse` is two steps, one for each `recv`, and
bytes arrive between any two of them. The bytes are left out: a position is the
number of bytes in front of it, and what `getResponse` finds at a position is the header of
the response that begins there, or garbage if none does. `Connection` models the
same calls by whole messages; `InStepUntilShortRead` is what makes that sound.
`TransferInfo` follows the numbers of one file through `readFileContents`,
`encrypt_with_aes`, `createFilePayloadBuffer`, `handleFileEncryptionAndSend` and
`sendRequest`, narrowing them where the code does.

**Data.** A file is a member of `Content`; an encrypted file is named by its
plaintext, as nothing in the flows looks inside it. A checksum is a value of
`CRC`, given by the function `CrcOf`, which may collide and may yield the
checksum 0 that `readCrc` also returns for errors. A client id is written as the name
it was assigned to; key pairs are numbered in the order they are generated.
`UninitId` is the value of an uninitialized `char clientId[16]`, assumed not to be
an id the server assigned to anyone (16 bytes of the stack against random ids);
`StaleId` is the id in a `me.info` from earlier times, which may be anything. An
uninitialized `Response` has any response code. In `Checksum` a 32-bit word is
the set of positions of its ones, which makes exclusive or the symmetric
difference and the width explicit in each shift. The `int` with which `memcrc`
counts bytes is `IntMax`: its increment is undefined from there on, so for a longer
file `memcrcOutcomes` has both a loop that goes on and one that ends there.

`granted` in `ClientRun` is a history variable, not part of the code: whether the last word of
the server on the current connection was a grant. The server's actions set it, a new
connection clears it, and nothing but `IdentityKeptUntilGranted` and its proof reads it.

**The server** is not in this repository. It is modelled from what the client
expects of it, in the actions that PROJECT.json marks external: it answers each
request once, in order, with the expected code, a refusal or an unknown code; it may store a
damaged file; it registers a name once, and approves a reconnection if it
lists a key for the name. It may close its end at any point, also in the middle
of a reply (`MayClose`). It never sends what it was not asked for.

**Assumptions** worth knowing:

- In the modules on top of `Connection`, `send` takes a request whole or not at
  all, and a message is cut short only by a close. `ResponseStream` drops the
  assumption for responses and `TransferInfo` for requests: it holds as long as
  no `recv` returns less than it was asked for, and for files up to
  `LargestFile`.
- `recv` for 0 bytes, which is the second `recv` of a response without payload,
  returns at once on macOS, where `CMakeLists.txt` builds the program. On Linux it
  waits until data or a close arrives, so there the client hangs on such a
  response. `ResponseStream` has both (`ZeroRecvWaits`); the other modules follow
  macOS.
- The server handles the requests of a connection before that client's next one
  or never.
- The client's disk writes reach the file when the stream is closed, and a file
  opened for writing is empty from then on.
- In `FileTransfer` the checksum is read in one step. `Checksum` opens this step
  up and shows what edits in the middle of it can do: `readCrc` then
  returns 0 or the checksum of a mixture.

`Crash` is a kill from outside at any step; the power failing (with the page
cache lost) is not modelled.

Some operators say in their comment that they are broken on purpose. They are
variants of the definition after them with a plausible mistake; substituting
one for the other must make a property fail, and PROJECT.json lists which.

## 3. What TLC checks

Passing runs:

| Run | Bounds | Properties |
|---|---|---|
| `FileTransfer_faults` | 4 contents (two of one checksum, one of checksum 0), 3 attempts as in the code, closes and edits anywhere; 34,580 states | types; `RepliesArePaired`; `AcceptedWasChecked`; `ResultAgrees`; `AcceptedIsFinal`; `KeepsPromise`; `Terminates` |
| `ClientRun_faults` | 2 names and the empty one, 2 runs, 1 attempt each, closes, crashes, disk errors; 304,024 states | types; `ExchangesArePaired`; `UploadsUnderListedKey`; `SavedIdentityIsRegistered`; `IdentityKeptUntilGranted`; `KeepsEnrolment`; `RunEnds` |
| `ClientRun_success` | the same with 3 runs and 3 attempts, on a disk that works; 397,674 states | `SuccessIsComplete` |
| `Checksum_torn` | every file of up to 2 bytes over 4 values, files of 5, 6, 255, 256, 257 and 259 bytes, of which an `int` counts 257, 2 contents during one read; 56,450 states | types; `QuietFileHasItsCksum`; `TornReadIsStillRead`; `DamageIsNoticed` |
| `TransferInfo_fields` | names and paths of 0 to 255 characters, ports around 0 and 65535, 15 sizes of files around every limit, words of 2^12 values and sends of 2000 bytes; 8,700 states | `NameArrives`; `StatusNamesTheFile`; `FileArrivesWhole` |
| `ResponseStream_split` | 3 calls, payloads of 0 and 9 bytes, segments of any length, a close or reset anywhere, garbage headers telling 0, 3 or more bytes than the stack holds, both kinds of `recv`; 209,487 states | types; `InStepUntilShortRead`; `CallReturns` |

What they show:

- **Pairing.** There is at most one message under way, and it belongs to the
  call the client is blocked in, through retries, both flows, their fallbacks
  and second connections. This is why `sendCRCStatusRequest` must read a reply
  even where its result is ignored.
- **Checked acceptance.** The server is only ever told that a file is correct
  when its checksum equals the one calculated from the file as it was at that
  moment, even if an uninitialized or truncated response caused the comparison.
- **Agreement.** If the connection is open at the end, `true` means accepted,
  and `false` not accepted. After a close it does not, see finding 1.
- **The promise.** `FileTransfer` implements `TransferPromise` under the mapping
  in `Promise`: attempts are counted by the `SEND_FILE`s sent, the verdict is
  what was sent of `CRC_CORRECT` and `CRC_INCORRECT_DONE`, and giving up comes
  only after every attempt.
- **Identity.** What the client saves with an id it was sent is registered under
  that id; on a live connection `me.info` and `priv.key` are touched only if the server's last
  answer on it was a grant, so that a refusal of any kind leaves them alone; and no
  file is sent before the server lists the key of the very run that sends it.
- **Enrolment.** `ClientRun` implements `Enrolment`: an account that was
  registered gets its key in that very run or never, and nobody uploads under an
  account without a key or while an account changes. The state the client cannot leave
  is part of it: if the server registered the name but the key did not follow (a crash or a
  refusal in between), reconnection is rejected for want of a key and
  registration for the name being taken, for ever (`"orphaned"`). No document
  promises otherwise.
- **Reading.** However a response is cut into segments, until the first `recv`
  that returns less than it was asked for, each `getResponse` returns the
  response to its own request and leaves nothing behind; only after such a short
  read can a garbage size overflow the stack. And a call in step always returns.
- **Size.** A file arrives whole exactly up to the size whose request one `send`
  takes: with the real widths 16 * ((SendMax - 347) div 32) + 15 bytes, a little below 2^30. From
  there on nothing that goes out looks like the whole file, whatever the four
  narrowings to 32 bits wrap around to; and no file that arrives is too long
  for the `int` in `memcrc` (one that grows before the reply may be).
- **Termination.** Transfers and runs end.
- **Checksum.** `memcrc`, with the table as it stands in the source, computes
  what bitwise division gives as long as the `int` counts the bytes, including
  lengths that take no byte, one byte and two bytes, and tells apart files that differ in up to four
  neighbouring bytes or in leading zeros.

**Why the bounds suffice.** In a transfer nothing depends on which content a
file has beyond equality of contents and of checksums, which the four contents
exhaust, and the number of attempts is the code's own. In `ClientRun` a run starts from
what earlier runs left on disk and at the server: two runs reach every
combination of an old, an empty, a half-written and a complete identity, and a
second name covers a `me.info` that differs from `transfer.info`. The flows
treat an attempt the same way whatever its number, so one attempt is enough
where the retries are not the subject. The lengths in `Checksum` and
`TransferInfo` lie on both sides of each limit in the code. The words of `TransferInfo` are
scaled to 12 bits, since TLC's integers cannot hold 2^32; the theorem
`WholeUpToLargest` holds for the real width. In `ResponseStream` a third call
shows what a short read in the first does to the one after the next; a payload
of 9 bytes is longer than a header, so that its rest can be taken for one.
`IntMax` is 257 in the run, with one file above it; the theorems hold for the real one. `ReadSize`, `MaxVersions`, `DamageByte`, `MaxDamaged`, `MaxRuns`, `String`, `FileSize`,
`MaxCalls`, `PayloadSize` and `GarbageSize` are the names of the bounds.

`Checksum`, `TransferInfo` and `ResponseStream` turn deadlock checking off, since
`readCrc` returns, a run is over after its last request, and nobody has to call
`getResponse` again; `FileTransfer` and
`ClientRun` never stop, because the file may always be edited.

**Fairness.** `Terminates` and `RunEnds` assume weak fairness of the client's
steps together (the one thread is scheduled while it is not blocked) and of
the server's steps together (a server that was sent a request answers it, unless
it closes). The second is an assumption about the server: `recv` has no
timeout, so against a silent server on an open connection the client hangs.
`CallReturns` assumes weak fairness of the client, of the server answering and
of the network delivering, each of which ends with the connection.
Nothing is assumed of closes, edits, crashes or the user.

## 4. Where the code departs from its documents

Each has a run that ends in a counterexample.

1. `FileTransfer_unverified`: `handleRetrySendFile` can return `true` without
   verification. In the trace the connection ends before the first `SEND_FILE`, and
   every reply is the uninitialized `Response` of `ProtocolHandler.cpp:117`.
2. `ClientRun_unfamiliar`: the `catch` at `main.cpp:25` registers clients that
   the server knows, when the file to send cannot be opened.
3. `ResponseStream_partial`: a response that arrives in two segments is taken for
   an error although the connection stays open, and the next call reads the rest
   of it as its header (`ProtocolHandler.cpp:115`, `:133`).
4. `ClientRun_nameless`: an interrupted write of `me.info` makes the next run
   use an empty name.
5. `ClientRun_unassigned`: the connection ends before a reply, and the
   uninitialized `Response` makes the client save an uninitialized id: its code happens
   to be `REGISTRATION_SUCCESS`, and its payload is empty. A grant without its payload
   does the same.
6. `TransferInfo_longpath`: a path of more than 255 characters is cut in one
   request and not in another; the validation that the comment at
   `ProtocolHandler.cpp:227` relies on does not exist.

Three more were met while modelling and have no run: the registration chart shows
the first transmission and three more, the code makes three in all
(`ProtocolHandler.cpp:179`); a reconnection renews the key pair
(`ProtocolHandler.cpp:408`), where the reconnection chart goes on with the old one, and the
comment at `ProtocolHandler.cpp:406` suggests that the chart is what is out of
date; and `readTransferInfo` documents
`std::runtime_error` for a malformed port, where `std::stoi` throws other types
and a port above 65535 is silently cut (`FileHandler.cpp:67`).

## 5. What is proved

`FileTransferProofs` proves, for any set of contents, any checksum function,
any number of attempts and with or without closes, under the assumptions
`TransferAssumption` and `MayCloseAssumption` only:

| Theorem | States |
|---|---|
| `TransferInvariance` | `TransferSpec => []TransferInv` |
| `TypeCorrectness` | `TransferSpec => []TransferTypeOK` |
| `RepliesStayPaired` | `TransferSpec => []RepliesArePaired` |
| `AcceptedIsChecked` | `TransferSpec => []AcceptedWasChecked` |
| `ResultIsAgreed` | `TransferSpec => []ResultAgrees` |
| `AcceptedStays` | `TransferSpec => AcceptedIsFinal` |
| `PromiseIsKept` | `TransferSpec => KeepsPromise` |
| `VerifiedOnWholeReplies` | `TransferSpec => []TrueOnlyIfVerified`, if every reply arrives whole: the server never closes in mid-session, and no reply comes in pieces (`Connection`) |

**The argument.** None of the properties is inductive alone. That an accepted
file was checked needs to know that the server holds that very file while
`CRC_CORRECT` is under way (`StoredInv`), which needs that no second `SEND_FILE` can be
in the queue (`RepliesArePaired`), which needs that each reply is consumed
before the next send, and that a closed connection holds no requests
(`ClosedInv`). That a verdict is given once and giving up comes last needs the
relation of `pc`, `retry_count` and the numbers of requests sent (`RetryInv`,
`VerdictInv`); that the results agree needs what the pending reply says of
`accepted` (`AcceptedInv`, `AgreementInv`). `TransferInv` is their conjunction.
The proof has lemmas for the three kinds of step (the client sends and waits,
the client receives, the server takes a request and replies), one lemma for each
action, and one temporal step per theorem. The refinement maps each action to an
action of `TransferPromise` or to a stutter under the same invariant.

`ResponseStreamProofs` proves, for any number of calls, any payload sizes and any
segments, under `StreamAssumption` only:

| Theorem | States |
|---|---|
| `StreamInvariance` | `Spec => []StreamInv` |
| `StreamTypeCorrectness` | `Spec => []StreamTypeOK` |
| `StaysInStep` | `Spec => []InStepUntilShortRead` |
| `WholeSegmentsAreOwn` | `Spec => [](ResponseIsOwn /\ (open => ~shortRead))`, if no response is split |

That a call returns its own response needs to know where in the stream each
response begins (`LayoutInv`: they lie one behind the other, so no two begin
at one place) and at which of these places the client is in each of its steps
(`InStepInv`). The client's steps keep that because a whole header is read
where a response begins and tells that response's size; the server's because
a response it adds lies behind all others. `WholeSegmentsAreOwn` adds
`SegmentInv`: while the connection is open, what has arrived is either all read or all
that was written, so a `recv` that finds anything finds all it asks for. It
delimits finding 3 (below).

`TransferInfoProofs` proves, for any strings and any sizes, under
`TransferInfoAssumption`, which the real widths satisfy:

| Theorem | States |
|---|---|
| `WholeUpToLargest` | `Spec => []FileArrivesWhole` |
| `NamesArrive` | `Spec => []NameArrives` |
| `PathsAgree` | `Spec => []StatusNamesTheFile`, if no path is longer than 255 characters |

The first rests on arithmetic alone: if no number was changed by a narrowing,
the encryption of n bytes takes 32 * (n div 16) + 64, and if the total fits one
`send` none was (`WordKeeps`, `EncryptedSizeOf`, `LargestFileIs`). The others rest on what
`strncpy` keeps of a text that fits (`TextOf`, `CopyKeepsText`).

`ClientRunProofs` proves, for any set of names, contents and checksums and any
number of runs and attempts, with or without closes, crashes and disk errors,
under the named assumptions of the constants:

| Theorem | States |
|---|---|
| `RunInvariance` | `Spec => []RunInv` |
| `RunTypeCorrectness` | `Spec => []TypeOK` |
| `ExchangesStayPaired` | `Spec => []ExchangesArePaired` |
| `UploadsAreUnderListedKey` | `Spec => []UploadsUnderListedKey` |
| `SavedIdentitiesAreRegistered` | `Spec => []SavedIdentityIsRegistered` |
| `SuccessIsWhole` | `Spec => []SuccessIsComplete`, on a disk that works (as in the run) |
| `IdentityIsKept` | `Spec => IdentityKeptUntilGranted` |
| `AssignedOnWholeReplies` | `Spec => []SavedIdIsAssigned`, if every reply arrives whole (as above) and the old `me.info` held a real id |
| `NamedUnlessInterrupted` | `Spec => []AlwaysNamed`, if `transfer.info` gives a name, without crashes and disk errors |
| `FirstRegistersUnfamiliar` | `Spec => [](sockets = 1 /\ connected => RegistersOnlyIfUnfamiliar)`, on a disk that works |

**The argument.** A file may be sent only under a key the server lists. That rests on the
reply to `SEND_PUBLIC_KEY`, and so on what each reply means while it is under way:
`HandshakeInv` says that a flow that waits has its own request in the queue, or
the reply to it, or a closed connection, and that a payload that grants something
is there only if the server did what it grants (`Entitled`). `QueueInv` keeps the
queue to one message across crashes, whose request the server may still serve;
`BeforeInv` leaves the locals of `handleRetrySendFile` at their initial values
until the loop; from then on `UploadInv` is the invariant of the transfer, so the
lemmas of `FileTransferProofs` serve both modules. `GrantedInv` follows the local
`clientId` to the disk: it is the id of a registered name, or uninitialized on a
connection that is gone, which is why an uninitialized id can be saved but no
file sent under it. That two connections and two key pairs in a run are the
most is counting (`CountInv`): the fallback in the `catch` happens once, since it
leaves `inTry`. `DiskInv` adds that on a disk that works the files hold
what the flow goes on with. Each action has a lemma, and the transfer's actions
share one. `IdentityIsKept` rests on `GrantHistoryInv` (whatever reads like a grant on an open
connection was one) and on `WhoTouchesTheDisk`.

`FirstRegistersUnfamiliar` is about the first connection of a run. There a client with a
`me.info` uses the name found in it (`FirstFlowInv`), so a rejection, over a connection
that is still open, speaks of that name; the server rejects it only if it
lists no key for it, and lists none before the client sends one. Only the `catch`
clause, on a second connection, loses this.

**The findings, from the other side.** Each finding's run shows a documented claim
broken. For each there is a theorem that gives conditions under which the claim holds:
`VerifiedOnWholeReplies` (1), `FirstRegistersUnfamiliar` (2), `WholeSegmentsAreOwn` (3),
`NamedUnlessInterrupted` (4), `AssignedOnWholeReplies` (5) and `PathsAgree` (6). The
conditions are not the causes: 1 and 5 are proved on top of `Connection`, which delivers
messages whole, so that closes are all that can cut one short there. In the code a
reply that comes in pieces on an open connection (finding 3) does the same as a
close. Likewise the client accepts a `transfer.info` whose name is empty, which 4 excludes.

`EnrolmentProofs` proves, under the same assumptions:

| Theorem | States |
|---|---|
| `EnrolmentIsKept` | `Spec => KeepsEnrolment` |
| `AccountsAreFinal` | a listed account stays listed and an orphaned one orphaned |

The mapping calls an account `"waiting"` while its key may still come: the grant, the
run that was granted it, or `SEND_PUBLIC_KEY` is under way. The proof reads the
same from `RunInv` as `KeyDue` and shows that this holds of one name at a time
(`OneKeyIsDue`), so that a step that changes one account changes no other. A step
either moves one account, or lets a key that was due get lost (`Fades`), or begins
or ends an upload (`UploadMoves`); these are the steps of `Enrolment`.

`MemcrcProofs` proves of the algorithm, for an `int` of at most 32 bits:

| Theorem | States |
|---|---|
| `MemcrcIsCksum` | `memcrcOutcomes(b) = {Cksum(b)}` for every sequence `b` of at most `IntMax` bytes |

The division takes eight bits at a time, and `memcrc` keeps its word four octets ahead
of it: it adds a byte where it leaves the word, the division where it enters. That
both come to the same is linearity over the field of two elements
(`TimesX32IsLinear`: the remainder of a sum is the sum of the remainders), which also
lets the table entry of the byte shifted out stand for eight steps of division
(`CrctabAssumption`). The two loops run beside the division octet by octet,
the first over the file, the second over the octets of the length as `while (n)` takes
them, and the division then takes the four zeros of x^32 that `memcrc` had in advance. The
recursive functions on both sides are unfolded by induction over the natural numbers,
stated about sets (`SetInduction`), since the library's theorems about operators
cannot be instantiated here.

`ChecksumProofs` proves, for any contents, any sizes of the pieces read and
any number of writes by others, under `ChecksumAssumption`:

| Theorem | States |
|---|---|
| `ReadInvariance` | `Spec => []ReadInv` |
| `ChecksumTypeCorrectness` | `Spec => []ChecksumTypeOK` |
| `QuietFileIsReadWhole` | undisturbed, `readCrc` applies `memcrc` to the whole file |
| `QuietFileGetsItsCksum` | `Spec => []QuietFileHasItsCksum` |
| `TornReadsAreReads` | `Spec => []TornReadIsStillRead` |

`ReadInv` says of every byte read so far that it was at its place in some version
of the file (`BytesInv`), that the file and what was noted of it are among the
versions (`VersionsInv`), and what the result is made of (`ResultInv`).
The last two properties claim the cksum for files an `int` can count only. With
the usual `int` those are the files below 2^31 bytes; `ChecksumAssumption` keeps `IntMax`
below the four octets in which `CksumReference` takes a length.

`DamageProofs` proves, under the same assumption:

| Theorem | States |
|---|---|
| `BurstsAreNoticed` | files of one length up to `IntMax` that differ in one stretch of four bytes have different checksums |
| `ZerosAreNoticed` | zero bytes in front of a file change its checksum, up to a length of 255 |
| `DamageIsAlwaysNoticed` | `Spec => []DamageIsNoticed`, if `MaxDamaged <= 252` |

The argument runs the loop backwards. The low byte of a word tells which table entry
was added last, because the low bytes of the entries differ (`EntriesTell`), so equal
words come from words and bytes that fit together: over equal bytes from equal words, and over
four bytes that may differ, from words that leave no room for a difference. Bursts are so noticed at
any length an `int` can count. Zeros in front of a file change nothing in the word until the
length comes, which differs; as long as it takes one byte, that byte tells. Past 255
the longer file may take one more turn for its length, and nothing forces the words apart.
`Damaged` puts up to three zeros in front, hence 252.

**Only model-checked:** the liveness properties `Terminates`, `RunEnds` and
`CallReturns`, since fairness and ENABLED are out of reach of the prover. Every invariant,
action property and refinement that a passing run checks is a theorem.

## 6. Not modelled, and what is left

Not modelled: the encryption itself (only the size of its result is) and the
wrappers around Crypto++; logging;
the unused `readfile` and rows 1 to 7 of `crctab`; the layout of request headers
in memory (padding and byte order are agreed on with the server); a power failure.

What could still be added:

1. A proof by hand of the three liveness properties, with a measure that each fair step
   lowers; its steps without ENABLED could be checked.
2. Whether zero bytes in front of longer files are noticed: the lengths that take two,
   three and four bytes.
3. A model of a power failure, once it is known what the file systems in use promise.
