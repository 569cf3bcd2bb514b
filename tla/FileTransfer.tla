---------------------------- MODULE FileTransfer ----------------------------
(***************************************************************************)
(* Sending one file: ProtocolHandler::handleRetrySendFile and the          *)
(* sendCRCStatusRequest it calls, against a server and a file system that  *)
(* go on meanwhile.                                                        *)
(*                                                                         *)
(* The client is one thread.  It runs from one blocking getResponse to the *)
(* next, and each such stretch, with the send that ends it, is one action  *)
(* here.  The server's replies, the close of the connection and the edits  *)
(* of the file happen between any two of them.                             *)
(***************************************************************************)
EXTENDS Connection

CONSTANTS
  Content,      \* the contents a file can have
  NoFile,       \* no file: it cannot be opened, or nothing is stored
  CRC,          \* checksums
  CrcOf,        \* the checksum (memcrc) of each content
  CrcError,     \* what readCrc returns when it cannot read: the checksum 0
  MaxRetries    \* handleRetrySendFile's maxRetries

ASSUME TransferAssumption ==
  /\ MaxRetries \in Nat
  /\ CrcOf \in [Content -> CRC]
  /\ CrcError \in CRC
  /\ NoFile \notin Content
  /\ EmptyPayload \notin CRC

VARIABLES
  pc,             \* where the client is
  retry_count,    \* attempts that have failed
  status,         \* what handleRetrySendFile will return
  calculatedCRC,  \* the checksum of the file at the last comparison
  encrypted,      \* the content inside encrypted_content, read once before
  file,           \* the file at filePath_ now
  stored,         \* the content the server holds from the last SEND_FILE
  accepted        \* the content the server was told is correct

clientVars   == <<pc, retry_count, status, calculatedCRC, encrypted>>
serverVars   == <<stored, accepted>>
transferVars == <<connVars, clientVars, serverVars, file>>

AwaitFile    == "await_file"     \* reply to SEND_FILE
AwaitCorrect == "await_correct"  \* reply to CRC_CORRECT
AwaitResend  == "await_resend"   \* reply to CRC_INCORRECT_RESEND
AwaitDone    == "await_done"     \* reply to CRC_INCORRECT_DONE
TransferAwaiting == {AwaitFile, AwaitCorrect, AwaitResend, AwaitDone}

\* "returned": handleRetrySendFile returned; "killed": SIGPIPE.
Ended == {"returned", "killed"}

TransferTypeOK ==
  /\ requests \in Seq([code : RequestCode, payload : Content \cup {EmptyPayload}])
  /\ responses \in Seq([code : ResponseCode, payload : CRC \cup {EmptyPayload}])
  /\ connected \in BOOLEAN
  /\ sends \in [RequestCode -> Nat]
  /\ pc \in {"loop"} \cup TransferAwaiting \cup Ended
  /\ retry_count \in 0 .. MaxRetries
  /\ status \in BOOLEAN
  /\ calculatedCRC \in CRC
  /\ encrypted \in Content
  /\ file \in Content \cup {NoFile}
  /\ stored \in Content \cup {NoFile}
  /\ accepted \in Content \cup {NoFile}

\* handleRetrySendFile is called when the file has just been read and
\* encrypted; the connection carries nothing, and the server's end may be
\* closed already.  The locals are initialized.  (calculatedCRC has no value
\* before the first comparison.)
TransferInit ==
  /\ requests = <<>>
  /\ responses = <<>>
  /\ connected \in {TRUE, ~MayClose}
  /\ sends = NeverSent
  /\ pc = "loop"
  /\ retry_count = 0
  /\ status = FALSE
  /\ calculatedCRC = CrcError
  /\ encrypted \in Content
  /\ file = encrypted
  /\ stored = NoFile
  /\ accepted = NoFile

-----------------------------------------------------------------------------
(* The client.                                                             *)

\* The client sends and blocks in getResponse, or dies of SIGPIPE.
SendAndAwait(code, payload, await) ==
  \/ /\ SendRequest(code, payload)
     /\ pc' = await
  \/ /\ SigPipe
     /\ pc' = "killed"

\* Broken on purpose, as a mutant: one attempt too many.
AttemptOnceMore ==
  /\ pc = "loop"
  /\ retry_count <= MaxRetries
  /\ SendAndAwait(SEND_FILE, encrypted, AwaitFile)
  /\ UNCHANGED <<responses, connected, retry_count, status, calculatedCRC,
                 encrypted, serverVars, file>>

\* The loop condition holds: send the encrypted file, the same bytes on
\* every attempt.
Attempt ==
  /\ pc = "loop"
  /\ retry_count < MaxRetries
  /\ SendAndAwait(SEND_FILE, encrypted, AwaitFile)
  /\ UNCHANGED <<responses, connected, retry_count, status, calculatedCRC,
                 encrypted, serverVars, file>>

\* Broken on purpose, as a mutant: giving up waits for one attempt
\* more than the loop makes.
GiveUpLate ==
  /\ pc = "loop"
  /\ retry_count > MaxRetries
  /\ SendAndAwait(CRC_INCORRECT_DONE, EmptyPayload, AwaitDone)
  /\ UNCHANGED <<responses, connected, retry_count, status, calculatedCRC,
                 encrypted, serverVars, file>>

\* The loop is over and every attempt failed: tell the server to give up.
GiveUp ==
  /\ pc = "loop"
  /\ ~(retry_count < MaxRetries)
  /\ retry_count = MaxRetries
  /\ SendAndAwait(CRC_INCORRECT_DONE, EmptyPayload, AwaitDone)
  /\ UNCHANGED <<responses, connected, retry_count, status, calculatedCRC,
                 encrypted, serverVars, file>>

\* readCrc(filePath_): the file as it is now, not as it was sent.
ReadCrc == IF file = NoFile THEN CrcError ELSE CrcOf[file]

\* The four bytes of payload that end at payload.size().  With an empty
\* payload they lie in front of the string and hold any value.
ReceivedCRC(r) == IF r.payload = EmptyPayload THEN CRC ELSE {r.payload}

\* Broken on purpose, as a mutant: a refusal uses up all attempts.
FileRefusedForGood ==
  /\ pc = AwaitFile
  /\ \E r \in GetResponse : r.code # FILE_RECEIVED_CRC_OK
  /\ ConsumeResponse
  /\ retry_count' = MaxRetries
  /\ pc' = "loop"
  /\ UNCHANGED <<requests, connected, sends, status, calculatedCRC,
                 encrypted, serverVars, file>>

\* A reply other than FILE_RECEIVED_CRC_OK: the attempt failed and no status
\* is sent.
FileRefused ==
  /\ pc = AwaitFile
  /\ \E r \in GetResponse : r.code # FILE_RECEIVED_CRC_OK
  /\ ConsumeResponse
  /\ retry_count' = retry_count + 1
  /\ pc' = "loop"
  /\ UNCHANGED <<requests, connected, sends, status, calculatedCRC,
                 encrypted, serverVars, file>>

\* Broken on purpose, as a mutant: the checksums are not compared.
CrcTrusted ==
  /\ pc = AwaitFile
  /\ \E r \in GetResponse : r.code = FILE_RECEIVED_CRC_OK
  /\ ConsumeResponse
  /\ calculatedCRC' = ReadCrc
  /\ SendAndAwait(CRC_CORRECT, EmptyPayload, AwaitCorrect)
  /\ UNCHANGED <<connected, retry_count, status, encrypted, serverVars, file>>

\* The checksums agree: report CRC_CORRECT.
CrcMatches ==
  /\ pc = AwaitFile
  /\ \E r \in GetResponse :
       /\ r.code = FILE_RECEIVED_CRC_OK
       /\ \E receivedCRC \in ReceivedCRC(r) : receivedCRC = ReadCrc
  /\ ConsumeResponse
  /\ calculatedCRC' = ReadCrc
  /\ SendAndAwait(CRC_CORRECT, EmptyPayload, AwaitCorrect)
  /\ UNCHANGED <<connected, retry_count, status, encrypted, serverVars, file>>

\* Broken on purpose, as a mutant: the reply to
\* CRC_INCORRECT_RESEND, which nobody needs, is left unread.
CrcDiffersUnread ==
  /\ pc = AwaitFile
  /\ \E r \in GetResponse :
       /\ r.code = FILE_RECEIVED_CRC_OK
       /\ \E receivedCRC \in ReceivedCRC(r) : receivedCRC # ReadCrc
  /\ ConsumeResponse
  /\ calculatedCRC' = ReadCrc
  /\ retry_count' = retry_count + 1
  /\ SendAndAwait(CRC_INCORRECT_RESEND, EmptyPayload, "loop")
  /\ UNCHANGED <<connected, status, encrypted, serverVars, file>>

\* The checksums differ: report CRC_INCORRECT_RESEND, also after the last
\* attempt.
CrcDiffers ==
  /\ pc = AwaitFile
  /\ \E r \in GetResponse :
       /\ r.code = FILE_RECEIVED_CRC_OK
       /\ \E receivedCRC \in ReceivedCRC(r) : receivedCRC # ReadCrc
  /\ ConsumeResponse
  /\ calculatedCRC' = ReadCrc
  /\ SendAndAwait(CRC_INCORRECT_RESEND, EmptyPayload, AwaitResend)
  /\ UNCHANGED <<connected, retry_count, status, encrypted, serverVars, file>>

\* Broken on purpose, as a mutant: a status that is not confirmed
\* is treated like a failed attempt; any reply counts as a confirmation.
CorrectRetried ==
  /\ pc = AwaitCorrect
  /\ \E r \in GetResponse :
       IF r.code = CONFIRM_MSG
       THEN status' = TRUE /\ pc' = "returned" /\ UNCHANGED retry_count
       ELSE pc' = "loop" /\ retry_count' = retry_count + 1 /\ UNCHANGED status
  /\ ConsumeResponse
  /\ UNCHANGED <<requests, connected, sends, calculatedCRC, encrypted,
                 serverVars, file>>

CorrectAssumed ==
  /\ pc = AwaitCorrect
  /\ GetResponse # {}
  /\ status' = TRUE
  /\ ConsumeResponse
  /\ pc' = "returned"
  /\ UNCHANGED <<requests, connected, sends, retry_count, calculatedCRC,
                 encrypted, serverVars, file>>

\* The reply to CRC_CORRECT decides the result; either way the loop is left
\* with retry_count < maxRetries, so no CRC_INCORRECT_DONE follows.
CorrectAnswered ==
  /\ pc = AwaitCorrect
  /\ \E r \in GetResponse : status' = IF r.code = CONFIRM_MSG THEN TRUE ELSE status
  /\ ConsumeResponse
  /\ pc' = "returned"
  /\ UNCHANGED <<requests, connected, sends, retry_count, calculatedCRC,
                 encrypted, serverVars, file>>

\* The reply to CRC_INCORRECT_RESEND is read and ignored.
ResendAnswered ==
  /\ pc = AwaitResend
  /\ GetResponse # {}
  /\ ConsumeResponse
  /\ retry_count' = retry_count + 1
  /\ pc' = "loop"
  /\ UNCHANGED <<requests, connected, sends, status, calculatedCRC,
                 encrypted, serverVars, file>>

\* The reply to CRC_INCORRECT_DONE is read and ignored.
DoneAnswered ==
  /\ pc = AwaitDone
  /\ GetResponse # {}
  /\ ConsumeResponse
  /\ pc' = "returned"
  /\ UNCHANGED <<requests, connected, sends, retry_count, status,
                 calculatedCRC, encrypted, serverVars, file>>

TransferClient ==
  \/ Attempt \/ GiveUp
  \/ FileRefused \/ CrcMatches \/ CrcDiffers
  \/ CorrectAnswered \/ ResendAnswered \/ DoneAnswered

-----------------------------------------------------------------------------
(* The server, and whoever edits the file.                                 *)

\* The server decrypts and stores the file, intact or damaged, and reports
\* the checksum of what it stored.
ServerStores ==
  /\ Takes(SEND_FILE)
  /\ stored' \in Content
  /\ Reply(FILE_RECEIVED_CRC_OK, CrcOf[stored'])
  /\ UNCHANGED <<clientVars, accepted, file>>

\* The server is told that the checksums agree.
ServerAccepts ==
  /\ Takes(CRC_CORRECT)
  /\ accepted' = stored
  /\ Reply(CONFIRM_MSG, EmptyPayload)
  /\ UNCHANGED <<clientVars, stored, file>>

\* The server acknowledges that the file was wrong.
ServerAcknowledges ==
  /\ Takes(CRC_INCORRECT_RESEND) \/ Takes(CRC_INCORRECT_DONE)
  /\ Reply(CONFIRM_MSG, EmptyPayload)
  /\ UNCHANGED <<clientVars, serverVars, file>>

\* The server answers any request with an error and does nothing else.
ServerRefuses ==
  /\ \E c \in {SEND_FILE, CRC_CORRECT, CRC_INCORRECT_RESEND, CRC_INCORRECT_DONE} : Takes(c)
  /\ Reply(OTHER_CODE, EmptyPayload)
  /\ UNCHANGED <<clientVars, serverVars, file>>

ServerGoes ==
  /\ ServerCloses
  /\ UNCHANGED <<clientVars, serverVars, file>>

TransferServer ==
  ServerStores \/ ServerAccepts \/ ServerAcknowledges \/ ServerRefuses

\* Another program edits, removes or restores the file at any moment.
FileChanges ==
  /\ file' \in (Content \cup {NoFile}) \ {file}
  /\ UNCHANGED <<connVars, clientVars, serverVars>>

TransferNext == TransferClient \/ TransferServer \/ ServerGoes \/ FileChanges

TransferSpec == TransferInit /\ [][TransferNext]_transferVars

\* The client thread runs whenever it is not blocked, and the server answers
\* a request it was sent unless it closes.  Nobody has to close or to edit the
\* file.
TransferFairSpec ==
  /\ TransferSpec
  /\ WF_transferVars(TransferClient)
  /\ WF_transferVars(TransferServer)

-----------------------------------------------------------------------------
(* Properties.                                                             *)

\* The request whose reply the client waits for in each blocking state.
Awaited(at) ==
  CASE at = AwaitFile    -> SEND_FILE
    [] at = AwaitCorrect -> CRC_CORRECT
    [] at = AwaitResend  -> CRC_INCORRECT_RESEND
    [] at = AwaitDone    -> CRC_INCORRECT_DONE

AnswersTo(code) ==
  {OTHER_CODE,
   IF code = SEND_FILE THEN FILE_RECEIVED_CRC_OK ELSE CONFIRM_MSG}

\* Requests and replies stay paired on the one socket: at most one message is
\* under way, it belongs to the call the client is blocked in, and there is
\* exactly one while the connection lives.  sendCRCStatusRequest reads a
\* reply even where its caller ignores the result; were one left unread, every
\* later reply would be taken for the answer to the wrong request.
RepliesArePaired ==
  /\ pc \notin TransferAwaiting => requests = <<>> /\ responses = <<>>
  /\ pc \in TransferAwaiting =>
       /\ Len(requests) + Len(responses) <= 1
       /\ connected => Len(requests) + Len(responses) = 1
       /\ \A i \in 1 .. Len(requests) : requests[i].code = Awaited(pc)
       /\ \A i \in 1 .. Len(responses) : responses[i].code \in AnswersTo(Awaited(pc))

\* A file the server accepted has the checksum the client calculated, from
\* the file as it was when the reply came (handleRetrySendFile compares the
\* two before it sends CRC_CORRECT), whatever edits, damage, refusals, closes
\* and uninitialized responses came before.
AcceptedWasChecked ==
  accepted # NoFile => CrcOf[accepted] = calculatedCRC

\* Once the server accepted the file the client sends nothing that makes it
\* store another or give the file up: CRC_CORRECT ends the loop.
AcceptedIsFinal ==
  [][accepted # NoFile =>
       /\ stored' = stored
       /\ accepted' = accepted
       /\ sends'[CRC_INCORRECT_DONE] = 0]_transferVars

\* If the server's end is still open when handleRetrySendFile returns, it
\* returns true exactly if the server accepted the file: the two ends agree on
\* the outcome of the transfer.
ResultAgrees ==
  pc = "returned" /\ connected => (status <=> accepted # NoFile)

\* handleRetrySendFile returns, or the process is killed: three attempts
\* cannot go on forever, and no exchange leaves both ends waiting.
Terminates == <>(pc \in Ended)

\* What a transfer promises, as an abstract specification.
Promise ==
  INSTANCE TransferPromise WITH
    attempts <- sends[SEND_FILE],
    verdict  <- IF sends[CRC_CORRECT] > 0 THEN "correct"
                ELSE IF sends[CRC_INCORRECT_DONE] > 0 THEN "done" ELSE "none",
    server   <- IF accepted # NoFile THEN "accepted" ELSE "pending",
    result   <- IF pc = "killed" THEN "killed"
                ELSE IF pc # "returned" THEN "pending"
                ELSE IF status THEN "true" ELSE "false"

\* handleRetrySendFile, with the server and the network, implements the
\* promise: every step is a step of the abstract transfer or none of its
\* business.
KeepsPromise == Promise!Spec

\* The documented result: handleRetrySendFile returns "True if the file was
\* successfully sent and verified, false otherwise."
TrueOnlyIfVerified ==
  pc = "returned" /\ status => accepted # NoFile

-----------------------------------------------------------------------------
(* The inductive invariant behind the safety properties.                   *)

\* A closed connection holds no request: the server's end dropped what it had
\* not taken, and later sends go nowhere.
ClosedInv == ~connected => requests = <<>>

\* Where the client stands in the loop fixes how often it sent the file.
RetryInv ==
  /\ pc = "loop" => sends[SEND_FILE] = retry_count
  /\ pc \in {AwaitFile, AwaitCorrect, AwaitResend} =>
       retry_count < MaxRetries /\ sends[SEND_FILE] = retry_count + 1
  /\ pc = AwaitDone => retry_count = MaxRetries
  /\ sends[CRC_INCORRECT_DONE] > 0 => sends[SEND_FILE] = MaxRetries
  /\ sends[SEND_FILE] <= MaxRetries

\* No verdict before the client decides, one afterwards, and true is returned
\* only after CRC_CORRECT.
VerdictInv ==
  /\ pc \notin {AwaitCorrect, AwaitDone, "returned"} =>
       sends[CRC_CORRECT] = 0 /\ sends[CRC_INCORRECT_DONE] = 0
  /\ pc = AwaitCorrect => sends[CRC_CORRECT] = 1 /\ sends[CRC_INCORRECT_DONE] = 0
  /\ pc = AwaitDone => sends[CRC_CORRECT] = 0 /\ sends[CRC_INCORRECT_DONE] = 1
  /\ pc = "returned" => sends[CRC_CORRECT] + sends[CRC_INCORRECT_DONE] = 1
  /\ sends[CRC_CORRECT] > 0 => sends[SEND_FILE] > 0
  /\ status => pc = "returned" /\ sends[CRC_CORRECT] = 1

\* While the connection lives, what the server stored is what the client is
\* told about, and later what it has checked.
StoredInv ==
  connected =>
    /\ pc = AwaitFile /\ responses # <<>> /\ Head(responses).code = FILE_RECEIVED_CRC_OK =>
         stored \in Content /\ Head(responses).payload = CrcOf[stored]
    /\ pc = AwaitCorrect => stored \in Content /\ CrcOf[stored] = calculatedCRC

\* The server accepts only between CRC_CORRECT and its reply.
AcceptedInv ==
  accepted # NoFile =>
    /\ pc \in {AwaitCorrect, "returned"}
    /\ sends[CRC_CORRECT] = 1
    /\ requests = <<>>
    /\ CrcOf[accepted] = calculatedCRC

\* While the connection lives, the reply to CRC_CORRECT tells what the server
\* did.
AgreementInv ==
  /\ connected /\ pc = AwaitCorrect /\ responses # <<>> =>
       (Head(responses).code = CONFIRM_MSG <=> accepted # NoFile)
  /\ ResultAgrees

TransferInv ==
  /\ TransferTypeOK
  /\ RepliesArePaired
  /\ ClosedInv
  /\ RetryInv
  /\ VerdictInv
  /\ StoredInv
  /\ AcceptedInv
  /\ AgreementInv
=============================================================================
