----------------------------- MODULE ClientRun ------------------------------
(***************************************************************************)
(* Whole runs of the client: handleClient in main.cpp, the registration    *)
(* and reconnection flows of ProtocolHandler, the identity FileHandler     *)
(* keeps on disk between runs, and the file transfer each run ends in,     *)
(* against a server that knows clients by name.                            *)
(*                                                                         *)
(* A step is a stretch of the one client thread between two points where   *)
(* others may be seen: a blocking getResponse, a send, or a file that is   *)
(* open and truncated but not yet written.  The process may be killed      *)
(* between any two steps and the user may run the program again.           *)
(*                                                                         *)
(* A name is registered at most once, so the id the server assigns is      *)
(* written as the name it was assigned to.  RSA key pairs are numbered.    *)
(***************************************************************************)
EXTENDS FileTransfer

CONSTANTS
  Name,          \* client names, EmptyName among them
  EmptyName,     \* the empty name, as read from an empty me.info
  TransferName,  \* the name in transfer.info
  UninitId,      \* the bytes of an uninitialized char clientId[16], no id ever assigned
  StaleId,       \* the id in a me.info of earlier times
  MayCrash,      \* whether the process may be killed from outside
  DiskMayFail,   \* whether opening and writing files may fail
  MaxRuns        \* bound: how often the program is run

ASSUME RunAssumption ==
  /\ EmptyName \in Name /\ TransferName \in Name
  /\ MayCrash \in BOOLEAN /\ DiskMayFail \in BOOLEAN
  /\ MaxRuns \in Nat
  /\ EmptyPayload \notin Name /\ EmptyPayload \notin Nat
  /\ UninitId \notin Name

VARIABLES
  runs,        \* runs started
  inTry,       \* handleClient is inside its try block
  clientName,  \* clientName_ of the ProtocolHandler in use
  clientId,    \* the flow's char clientId[16]
  privateKey,  \* the key pair of this run, 0 before it is generated
  keys,        \* key pairs generated so far, by any run
  sockets,     \* connections this run opened; none is ever closed
  meInfo,      \* me.info on disk, as readMeInfo reads it
  privKey,     \* priv.key on disk, 0 if it is empty
  registered,  \* the server's clients, by name
  publicKey,   \* the key the server lists for each name, 0 if none
  granted      \* history: the server's last answer on this connection was a grant

processVars == <<runs, inTry, clientName, clientId, privateKey, keys, sockets>>
diskVars    == <<meInfo, privKey>>
accountVars == <<registered, publicKey, granted>>
runVars     == <<processVars, diskVars, accountVars>>
vars        == <<transferVars, runVars>>

\* handleRetrySendFile's locals.
transferLocals == <<retry_count, status, calculatedCRC, encrypted>>

AwaitRegistration == "await_registration"   \* reply to REGISTRATION
AwaitReconnection == "await_reconnection"   \* reply to RECONNECT
AwaitKey          == "await_key"            \* reply to SEND_PUBLIC_KEY

Awaiting ==
  TransferAwaiting \cup {AwaitRegistration, AwaitReconnection, AwaitKey}

\* me.info complete, and as an open with trunc leaves it: getline reads three
\* empty strings and readMeInfo reports no error.
MeInfo(name, id, key) == [name |-> name, id |-> id, key |-> key]
EmptyMeInfo == MeInfo(EmptyName, UninitId, 0)

\* No process yet.  The first run finds no me.info, or one of earlier times;
\* the server knows one name with its key, or none.
Init ==
  /\ requests = <<>> /\ responses = <<>>
  /\ connected = FALSE /\ sends = NeverSent
  /\ pc = "off" /\ retry_count = 0
  /\ status = FALSE /\ calculatedCRC = CrcError
  /\ encrypted \in Content /\ file \in {encrypted, NoFile}
  /\ stored = NoFile /\ accepted = NoFile
  /\ runs = 0 /\ inTry = FALSE /\ sockets = 0
  /\ clientName = TransferName /\ clientId = UninitId
  /\ privateKey = 0 /\ keys = 1
  /\ meInfo \in {NoFile}
       \cup {MeInfo(n, StaleId, 1) : n \in Name \ {EmptyName}}
  /\ privKey = IF meInfo = NoFile THEN NoFile ELSE 1
  /\ registered \in {{}} \cup {{n} : n \in Name \ {EmptyName}}
  /\ publicKey = [n \in Name |-> IF n \in registered THEN 1 ELSE 0]
  /\ granted = FALSE

-----------------------------------------------------------------------------
(* handleClient.                                                           *)

\* The user runs the program.  With a me.info it will reconnect under the
\* name found there; without one readMeInfo throws, and the catch clause goes
\* for a registration under the name of transfer.info.
Start ==
  /\ pc = "off" /\ runs < MaxRuns
  /\ runs' = runs + 1
  /\ \/ /\ meInfo # NoFile
        /\ inTry' = TRUE /\ clientName' = meInfo.name
     \/ /\ meInfo = NoFile \/ DiskMayFail
        /\ inTry' = FALSE /\ clientName' = TransferName
  /\ pc' = "connect"
  /\ clientId' = UninitId /\ privateKey' = 0 /\ sockets' = 0
  /\ retry_count' = 0 /\ status' = FALSE /\ calculatedCRC' = CrcError
  /\ UNCHANGED <<connVars, encrypted, serverVars, file, keys, diskVars, accountVars>>

\* handleConnection, and the flow handleClient calls next; false from
\* handleConnection ends the run.  What was under way on an earlier connection,
\* of this run or of a killed one, is never seen again.
Connect ==
  /\ pc = "connect"
  /\ \/ /\ requests' = <<>> /\ responses' = <<>> /\ connected' = TRUE
        /\ sends' = NeverSent
        /\ stored' = NoFile /\ accepted' = NoFile
        /\ sockets' = sockets + 1 /\ granted' = FALSE
        /\ pc' = IF inTry THEN "reconnect" ELSE "register"
     \/ /\ pc' = "off"
        /\ UNCHANGED <<connVars, serverVars, sockets, granted>>
  /\ UNCHANGED <<transferLocals, file, runs, inTry, clientName, clientId,
                 privateKey, keys, diskVars, registered, publicKey>>

\* Broken on purpose, as a mutant: every exception starts the
\* registration over.
RuntimeErrorAgain ==
  clientName' = TransferName /\ pc' = "connect" /\ UNCHANGED inTry

\* A std::runtime_error.  Thrown anywhere in the try block, it starts a
\* registration on a second connection; thrown later, it ends the run.
RuntimeError ==
  IF inTry
  THEN inTry' = FALSE /\ clientName' = TransferName /\ pc' = "connect"
  ELSE UNCHANGED <<inTry, clientName>> /\ pc' = "off"

NoError == UNCHANGED <<inTry, clientName>>

-----------------------------------------------------------------------------
(* The registration and reconnection flows.                                *)

\* handleConnectionRequest up to its getResponse: the name goes out, with a
\* client id of zeros.
ConnectionRequest(flow, code, await) ==
  /\ pc = flow
  /\ SendAndAwait(code, clientName, await)
  /\ UNCHANGED <<responses, connected, transferLocals, serverVars, file, runVars>>

SendRegistration == ConnectionRequest("register", REGISTRATION, AwaitRegistration)
SendReconnection == ConnectionRequest("reconnect", RECONNECT, AwaitReconnection)

\* A pair that was never generated before.
GenerateRsaKeyPair ==
  /\ keys' = keys + 1
  /\ privateKey' = keys'

\* handleConnectionRequest copies the id out of the payload, as far as there
\* is one.  The flow then calls handleRSARegistration, which generates a key
\* pair.
Granted(r) ==
  /\ clientId' = IF r.payload = EmptyPayload THEN UninitId ELSE r.payload
  /\ GenerateRsaKeyPair
  /\ pc' = "save_key"

\* Broken on purpose, as a mutant: a client goes on whatever the reply says,
\* also after REGISTRATION_FAILED.
RegistrationAssumed ==
  /\ pc = AwaitRegistration
  /\ \E r \in GetResponse : Granted(r)
  /\ ConsumeResponse
  /\ UNCHANGED <<requests, connected, sends, transferLocals, serverVars, file,
                 runs, inTry, clientName, sockets, diskVars, accountVars>>

RegistrationAnswered ==
  /\ pc = AwaitRegistration
  /\ \E r \in GetResponse :
       \/ r.code = REGISTRATION_SUCCESS /\ Granted(r)
       \/ /\ r.code # REGISTRATION_SUCCESS
          /\ pc' = "off"
          /\ UNCHANGED <<clientId, keys, privateKey>>
  /\ ConsumeResponse
  /\ UNCHANGED <<requests, connected, sends, transferLocals, serverVars, file,
                 runs, inTry, clientName, sockets, diskVars, accountVars>>

\* Broken on purpose, as a mutant: the reply that rejects a client
\* is looked at but left in the socket.
ReconnectionPeeked ==
  /\ pc = AwaitReconnection
  /\ \E r \in GetResponse :
       \/ r.code = APPROVE_RECONNECT_SEND_AES /\ Granted(r) /\ ConsumeResponse
       \/ /\ r.code # APPROVE_RECONNECT_SEND_AES
          /\ pc' = IF r.code = RECONNECT_REJECTED THEN "register" ELSE "off"
          /\ UNCHANGED <<clientId, keys, privateKey, responses>>
  /\ UNCHANGED <<requests, connected, sends, transferLocals, serverVars, file,
                 runs, inTry, clientName, sockets, diskVars, accountVars>>

\* Broken on purpose, as a mutant: a rejected client goes on with the id it
\* saved.
ReconnectionInsists ==
  /\ pc = AwaitReconnection
  /\ \E r \in GetResponse :
       \/ r.code = APPROVE_RECONNECT_SEND_AES /\ Granted(r)
       \/ r.code = RECONNECT_REJECTED /\ Granted([r EXCEPT !.payload = meInfo.id])
       \/ /\ r.code \notin {APPROVE_RECONNECT_SEND_AES, RECONNECT_REJECTED}
          /\ pc' = "off"
          /\ UNCHANGED <<clientId, keys, privateKey>>
  /\ ConsumeResponse
  /\ UNCHANGED <<requests, connected, sends, transferLocals, serverVars, file,
                 runs, inTry, clientName, sockets, diskVars, accountVars>>

\* A rejected client registers, on the same connection and under the same
\* name.
ReconnectionAnswered ==
  /\ pc = AwaitReconnection
  /\ \E r \in GetResponse :
       \/ r.code = APPROVE_RECONNECT_SEND_AES /\ Granted(r)
       \/ /\ r.code # APPROVE_RECONNECT_SEND_AES
          /\ pc' = IF r.code = RECONNECT_REJECTED THEN "register" ELSE "off"
          /\ UNCHANGED <<clientId, keys, privateKey>>
  /\ ConsumeResponse
  /\ UNCHANGED <<requests, connected, sends, transferLocals, serverVars, file,
                 runs, inTry, clientName, sockets, diskVars, accountVars>>

\* savePrivateRSAKey opens priv.key, which empties it; nothing reaches the
\* disk before the close.
OpenKeyFile ==
  /\ pc = "save_key"
  /\ \/ privKey' = 0 /\ pc' = "write_key" /\ NoError
     \/ DiskMayFail /\ UNCHANGED privKey /\ RuntimeError
  /\ UNCHANGED <<connVars, transferLocals, serverVars, file, runs, clientId,
                 privateKey, keys, sockets, meInfo, accountVars>>

\* Broken on purpose, as a mutant: the key never reaches priv.key.
KeyNotWritten ==
  /\ pc = "write_key"
  /\ \/ meInfo' = EmptyMeInfo /\ pc' = "write_me_info" /\ NoError
     \/ DiskMayFail /\ UNCHANGED meInfo /\ RuntimeError
  /\ UNCHANGED <<connVars, transferLocals, serverVars, file, runs, clientId,
                 privateKey, keys, sockets, privKey, accountVars>>

\* The key is written, or the error of the stream goes unnoticed; then
\* saveMeInfo opens and empties me.info.
WriteKeyOpenMeInfo ==
  /\ pc = "write_key"
  /\ privKey' = privateKey \/ (DiskMayFail /\ UNCHANGED privKey)
  /\ \/ meInfo' = EmptyMeInfo /\ pc' = "write_me_info" /\ NoError
     \/ DiskMayFail /\ UNCHANGED meInfo /\ RuntimeError
  /\ UNCHANGED <<connVars, transferLocals, serverVars, file, runs, clientId,
                 privateKey, keys, sockets, accountVars>>

\* Broken on purpose, as a mutant: the name saved is always the one
\* of transfer.info.
WriteTransferName ==
  /\ pc = "write_me_info"
  /\ \/ meInfo' = MeInfo(TransferName, clientId, privateKey)
     \/ DiskMayFail /\ UNCHANGED meInfo
  /\ pc' = "send_key"
  /\ UNCHANGED <<connVars, transferLocals, serverVars, file, processVars,
                 privKey, accountVars>>

\* me.info is written, unless that fails unnoticed.
WriteMeInfo ==
  /\ pc = "write_me_info"
  /\ \/ meInfo' = MeInfo(clientName, clientId, privateKey)
     \/ DiskMayFail /\ UNCHANGED meInfo
  /\ pc' = "send_key"
  /\ UNCHANGED <<connVars, transferLocals, serverVars, file, processVars,
                 privKey, accountVars>>

\* Broken on purpose, as a mutant: the key's reply is awaited but the
\* key is not sent.
PublicKeyNotSent ==
  /\ pc = "send_key"
  /\ pc' = AwaitKey
  /\ UNCHANGED <<connVars, transferLocals, serverVars, file, runVars>>

\* The public key goes out under the id that was received.
SendPublicKey ==
  /\ pc = "send_key"
  /\ SendAndAwait(SEND_PUBLIC_KEY, [id |-> clientId, key |-> privateKey], AwaitKey)
  /\ UNCHANGED <<responses, connected, transferLocals, serverVars, file, runVars>>

\* decrypt_with_rsa finds the AES key in what was encrypted under the public
\* key of this run, and throws on anything else; on a payload too short to
\* hold a key, substr throws before it.
Decrypts(payload) == payload = privateKey

\* Broken on purpose, as a mutant: any reply counts as the AES key.
KeyAssumed ==
  /\ pc = AwaitKey
  /\ ConsumeResponse
  /\ GetResponse # {}
  /\ \/ /\ file # NoFile
        /\ encrypted' = file
        /\ pc' = "loop" /\ NoError
     \/ /\ file = NoFile
        /\ UNCHANGED encrypted /\ RuntimeError
  /\ UNCHANGED <<requests, connected, sends, retry_count, status, calculatedCRC,
                 serverVars, file, runs, clientId, privateKey, keys, sockets,
                 diskVars, accountVars>>

\* The AES key arrived and was decrypted.  The file is read and encrypted, and
\* handleRetrySendFile begins; or it cannot be opened.  What fails before the
\* file is opened is not a runtime_error and ends the run in main.
KeyAnswered ==
  /\ pc = AwaitKey
  /\ ConsumeResponse
  /\ \E r \in GetResponse :
       IF r.code = RECEIVED_PUBLIC_KEY_SEND_AES /\ Decrypts(r.payload)
       THEN \/ /\ file # NoFile
               /\ encrypted' = file
               /\ pc' = "loop" /\ NoError
            \/ /\ file = NoFile
               /\ UNCHANGED encrypted /\ RuntimeError
       ELSE pc' = "off" /\ UNCHANGED encrypted /\ NoError
  /\ UNCHANGED <<requests, connected, sends, retry_count, status, calculatedCRC,
                 serverVars, file, runs, clientId, privateKey, keys, sockets,
                 diskVars, accountVars>>

\* main logs the result, and the process ends.
Exit ==
  /\ pc \in Ended
  /\ pc' = "off"
  /\ UNCHANGED <<connVars, transferLocals, serverVars, file, runVars>>

\* The process is killed.
Crash ==
  /\ MayCrash
  /\ pc # "off"
  /\ pc' = "off"
  /\ UNCHANGED <<connVars, transferLocals, serverVars, file, runVars>>

RunClient ==
  \/ Connect
  \/ SendRegistration \/ SendReconnection
  \/ RegistrationAnswered \/ ReconnectionAnswered
  \/ OpenKeyFile \/ WriteKeyOpenMeInfo \/ WriteMeInfo
  \/ SendPublicKey \/ KeyAnswered
  \/ TransferClient /\ UNCHANGED runVars
  \/ Exit

-----------------------------------------------------------------------------
(* The server's accounts.                                                  *)

Asked == Head(requests).payload

ServerRegisters ==
  /\ Takes(REGISTRATION)
  /\ IF Asked \in registered
     THEN /\ Reply(REGISTRATION_FAILED, EmptyPayload)
          /\ granted' = FALSE /\ UNCHANGED registered
     ELSE /\ Reply(REGISTRATION_SUCCESS, Asked)
          /\ granted' = TRUE /\ registered' = registered \cup {Asked}
  /\ UNCHANGED <<clientVars, serverVars, file, processVars, diskVars, publicKey>>

\* A reconnection needs a listed key.  The AES key in the approval is not
\* modelled: the client reads only the id.
ServerReconnects ==
  /\ Takes(RECONNECT)
  /\ IF Asked \in registered /\ publicKey[Asked] # 0
     THEN Reply(APPROVE_RECONNECT_SEND_AES, Asked) /\ granted' = TRUE
     ELSE Reply(RECONNECT_REJECTED, EmptyPayload) /\ granted' = FALSE
  /\ UNCHANGED <<clientVars, serverVars, file, processVars, diskVars,
                 registered, publicKey>>

\* The server lists the key under the id, and answers with an AES key that is
\* encrypted under it.
ServerListsKey ==
  /\ Takes(SEND_PUBLIC_KEY)
  /\ Asked.id \in registered
  /\ publicKey' = [publicKey EXCEPT ![Asked.id] = Asked.key]
  /\ Reply(RECEIVED_PUBLIC_KEY_SEND_AES, Asked.key)
  /\ granted' = TRUE
  /\ UNCHANGED <<clientVars, serverVars, file, processVars, diskVars, registered>>

\* The server answers with an error and does nothing else; it must for an id
\* it does not know.
ServerRefusesClient ==
  /\ \E c \in {REGISTRATION, RECONNECT, SEND_PUBLIC_KEY} : Takes(c)
  /\ Reply(OTHER_CODE, EmptyPayload)
  /\ granted' = FALSE
  /\ UNCHANGED <<clientVars, serverVars, file, processVars, diskVars,
                 registered, publicKey>>

RunServer ==
  \/ ServerRegisters \/ ServerReconnects \/ ServerListsKey \/ ServerRefusesClient
  \/ TransferServer /\ UNCHANGED runVars

Surroundings ==
  \/ ServerGoes /\ UNCHANGED runVars
  \/ FileChanges /\ UNCHANGED runVars
  \/ Crash

Next == Start \/ RunClient \/ RunServer \/ Surroundings

Spec == Init /\ [][Next]_vars

\* The client thread runs unless it is blocked, and the server answers a
\* request it was sent unless it closes.  Nobody has to close, to start the
\* program, to kill it, or to edit the file.
FairSpec ==
  /\ Spec
  /\ WF_vars(RunClient)
  /\ WF_vars(RunServer)

-----------------------------------------------------------------------------
(* Properties.                                                             *)

Saving    == {"save_key", "write_key", "write_me_info", "send_key"}
Uploading == {"loop"} \cup TransferAwaiting \cup {"returned"}

TypeOK ==
  /\ connected \in BOOLEAN
  /\ pc \in {"off", "connect", "register", "reconnect", "killed"}
              \cup Awaiting \cup Saving \cup Uploading
  /\ retry_count \in 0 .. MaxRetries /\ status \in BOOLEAN
  /\ calculatedCRC \in CRC /\ encrypted \in Content
  /\ {file, stored, accepted} \subseteq Content \cup {NoFile}
  /\ runs \in 0 .. MaxRuns /\ inTry \in BOOLEAN /\ sockets \in 0 .. 2
  /\ clientName \in Name /\ clientId \in Name \cup {UninitId}
  /\ keys \in 1 .. 1 + 2 * MaxRuns /\ privateKey \in 0 .. keys
  /\ meInfo \in {NoFile} \cup
       [name : Name, id : Name \cup {UninitId, StaleId}, key : 0 .. keys]
  /\ privKey \in {NoFile} \cup 0 .. keys
  /\ registered \subseteq Name /\ publicKey \in [Name -> 0 .. keys]
  /\ granted \in BOOLEAN

AwaitedRequest(at) ==
  CASE at = AwaitRegistration -> REGISTRATION
    [] at = AwaitReconnection -> RECONNECT
    [] at = AwaitKey          -> SEND_PUBLIC_KEY
    [] OTHER                  -> Awaited(at)

RepliesTo(code) ==
  CASE code = REGISTRATION    ->
         {REGISTRATION_SUCCESS, REGISTRATION_FAILED, OTHER_CODE}
    [] code = RECONNECT       ->
         {APPROVE_RECONNECT_SEND_AES, RECONNECT_REJECTED, OTHER_CODE}
    [] code = SEND_PUBLIC_KEY -> {RECEIVED_PUBLIC_KEY_SEND_AES, OTHER_CODE}
    [] OTHER                  -> AnswersTo(code)

\* Through both flows, the fallback of one into the other, a second connection
\* after an exception and runs after a crash, each getResponse can only return
\* the reply to the request of the same call: replies carry no reference to
\* their request, so one left unread would be taken for the next one's.
ExchangesArePaired ==
  /\ pc \in {"register", "reconnect"} \cup Saving \cup {"loop", "returned"} =>
       requests = <<>> /\ responses = <<>>
  /\ pc \in Awaiting =>
       /\ Len(requests) + Len(responses) <= 1
       /\ connected => Len(requests) + Len(responses) = 1
       /\ \A i \in 1 .. Len(requests) : requests[i].code = AwaitedRequest(pc)
       /\ \A i \in 1 .. Len(responses) :
            responses[i].code \in RepliesTo(AwaitedRequest(pc))

\* The file is sent only after the server listed the key of this very run
\* under the id and the name the client uses, whatever refusals, closes,
\* crashes, write errors and uninitialized responses came before
\* (handleRSARegistration, then handleFileEncryptionAndSend).
UploadsUnderListedKey ==
  pc \in Uploading =>
    /\ clientId = clientName /\ clientName \in registered
    /\ privateKey # 0 /\ publicKey[clientName] = privateKey

\* On a disk that works, a run that returns true over a connection still open
\* has its file accepted by the server, and leaves on disk the identity and the
\* key that the server lists, so the next run can reconnect with them.
SuccessIsComplete ==
  pc = "returned" /\ status /\ connected =>
    /\ accepted # NoFile
    /\ publicKey[clientName] = privateKey /\ privKey = privateKey
    /\ meInfo = MeInfo(clientName, clientName, privateKey)

\* A me.info this client wrote with an id it was sent names a client the server
\* registered, and the id is that client's, after any crashes, write errors,
\* closes, fallbacks and re-runs (saveMeInfo).
SavedIdentityIsRegistered ==
  meInfo \notin {NoFile, EmptyMeInfo} /\ meInfo.id \notin {StaleId, UninitId} =>
    meInfo.name \in registered /\ meInfo.id = meInfo.name

\* While the connection is open, me.info and priv.key are touched only after
\* the last word of the server on this very connection was a grant: a client
\* that is refused, rejected or answered with an error keeps the identity it
\* had, although a reply read out of turn, or one left over from the rejected
\* reconnection, would look like a grant (handleRegistration and
\* handleReconnection return before they save).
IdentityKeptUntilGranted ==
  [][<<meInfo, privKey>>' # <<meInfo, privKey>> /\ connected => granted]_vars

\* Every run comes to an end: no reply is waited for that nobody owes, and
\* the fallbacks from reconnection to registration do not go in circles.
RunEnds == (pc # "off") ~> (pc = "off")

\* handleClient's comment: "If the MeInfo file exists, we will try to
\* reconnect. If not, or if it exists but the server isn't familiar with the
\* user, we will try and register the user."
RegistersOnlyIfUnfamiliar ==
  pc = AwaitRegistration =>
    \/ meInfo = NoFile
    \/ meInfo.name \notin registered \/ publicKey[meInfo.name] = 0

\* The key of a registered name can still come: it is on its way, or the run
\* that was granted the name is, or the grant is.
KeyMayCome(n) ==
  \/ \E i \in 1 .. Len(requests) :
       requests[i].code = SEND_PUBLIC_KEY /\ requests[i].payload.id = n
  \/ pc \in Saving /\ clientId = n
  \/ \E i \in 1 .. Len(responses) :
       /\ pc = AwaitRegistration
       /\ responses[i] = [code |-> REGISTRATION_SUCCESS, payload |-> n]

\* What a name's account and the upload under way look like from outside.
AccountOf(n) ==
  IF n \notin registered THEN "unknown"
  ELSE IF publicKey[n] # 0 THEN "listed"
  ELSE IF KeyMayCome(n) THEN "waiting" ELSE "orphaned"

Uploader == IF pc \in Uploading THEN clientName ELSE EmptyPayload

\* The life of the accounts, as an abstract specification.
Enrolled ==
  INSTANCE Enrolment WITH
    Nobody   <- EmptyPayload,
    account  <- [n \in Name |-> AccountOf(n)],
    uploader <- Uploader

\* Runs, crashes, closes and refusals implement that life: a name is enrolled
\* in one run or never, since a reconnection without a key is rejected and a
\* second registration fails; and nobody uploads under a name that is not
\* enrolled, or while an account changes.
KeepsEnrolment == Enrolled!Spec

\* readMeInfo's comment: it returns "A MeInfo structure containing the client's
\* name, UUID, and base64-encoded key", so no request has an empty name.
AlwaysNamed == pc \in Awaiting => clientName # EmptyName

\* saveMeInfo's comment: "The client's unique identifier" is what it saves.
SavedIdIsAssigned ==
  meInfo \notin {NoFile, EmptyMeInfo} => meInfo.id # UninitId

-----------------------------------------------------------------------------
(* The inductive invariant behind the safety properties.                   *)

\* Where a flow has nothing under way, where it waits for a reply, and where
\* handleRetrySendFile's own invariant holds.
Quiet             == {"register", "reconnect"} \cup Saving
HandshakeAwaiting == {AwaitRegistration, AwaitReconnection, AwaitKey}
Transferring      == Uploading \cup {"killed"}

\* The requests of this client.
SentRequest ==
  [code : {REGISTRATION, RECONNECT}, payload : Name]
  \cup [code : {SEND_PUBLIC_KEY},
        payload : [id : Name \cup {UninitId}, key : 1 .. keys]]
  \cup [code : SEND_FILE .. CRC_INCORRECT_DONE, payload : Content \cup {EmptyPayload}]

\* A request under way is the only message, also when the process that sent it
\* is gone, and the server's end is still there to take it.
QueueInv ==
  requests # <<>> =>
    connected /\ responses = <<>> /\ \E m \in SentRequest : requests = <<m>>

\* A run makes at most two connections and generates at most two key pairs:
\* one in the try block, one in the catch clause.
CountInv ==
  /\ inTry => sockets <= 1
  /\ pc = "connect" => sockets <= IF inTry THEN 0 ELSE 1
  /\ keys <= 1 + 2 * runs
  /\ pc \notin {"off", "killed"} /\ inTry => keys <= 2 * runs
  /\ pc \in {"connect", "register", "reconnect", AwaitRegistration, AwaitReconnection} =>
       keys <= IF inTry THEN 2 * runs - 1 ELSE 2 * runs

\* handleRetrySendFile's locals and what was sent, before it begins.
BeforeInv ==
  /\ pc \in {"connect"} \cup Quiet \cup HandshakeAwaiting => retry_count = 0 /\ ~status
  /\ pc \in Quiet \cup HandshakeAwaiting =>
       /\ sends \in [RequestCode -> Nat] /\ accepted = NoFile
       /\ sends[SEND_FILE] = 0 /\ sends[CRC_CORRECT] = 0
       /\ sends[CRC_INCORRECT_DONE] = 0

\* The request a flow waits on, and the one payload that grants it.
Outstanding ==
  [code    |-> AwaitedRequest(pc),
   payload |-> IF pc = AwaitKey THEN [id |-> clientId, key |-> privateKey] ELSE clientName]

Grant == IF pc = AwaitKey THEN privateKey ELSE clientName

GrantCode == {REGISTRATION_SUCCESS, APPROVE_RECONNECT_SEND_AES, RECEIVED_PUBLIC_KEY_SEND_AES}

\* What the server did before it grants.
Entitled ==
  /\ clientName \in registered
  /\ pc = AwaitReconnection => publicKey[clientName] # 0
  /\ pc = AwaitKey => clientId = clientName /\ publicKey[clientName] = privateKey

\* A flow that waits has its request under way, or the reply to it, or was
\* left; a grant is true, and without its payload only if it was cut short.
HandshakeInv ==
  /\ pc \in Quiet => requests = <<>> /\ responses = <<>>
  /\ pc \in HandshakeAwaiting =>
       \/ requests = <<Outstanding>> /\ responses = <<>>
       \/ ~connected /\ requests = <<>> /\ responses = <<>>
       \/ /\ requests = <<>>
          /\ \E c \in RepliesTo(AwaitedRequest(pc)), p \in {EmptyPayload, Grant} :
               /\ responses = <<[code |-> c, payload |-> p]>>
               /\ p = Grant => Entitled
               /\ c \in GrantCode /\ p = EmptyPayload => ~connected

\* Once granted, the client goes on with the id of its registered name, or
\* with none at all on a connection that is gone.
GrantedInv ==
  pc \in Saving \cup {AwaitKey} =>
    /\ privateKey # 0
    /\ \/ clientId = clientName /\ clientName \in registered
       \/ clientId = UninitId /\ ~connected

\* What reads like a grant on an open connection was one.
GrantHistoryInv ==
  connected =>
    /\ pc \in Saving => granted
    /\ pc \in {AwaitRegistration, AwaitReconnection} /\ responses # <<>>
         /\ Head(responses).code \in GrantCode => granted

\* No key is listed for a name that is not registered.
AccountInv == \A n \in Name : n \notin registered => publicKey[n] = 0

\* On a disk that works, what was written is what the client goes on with.
DiskInv ==
  ~DiskMayFail =>
    /\ pc \in {"write_me_info", "send_key", AwaitKey} \cup Uploading =>
         privKey = privateKey
    /\ pc \in {"send_key", AwaitKey} \cup Uploading =>
         meInfo = MeInfo(clientName, clientId, privateKey)

\* From the loop on, the invariant of the file transfer.
UploadInv == pc \in Transferring => TransferInv

RunInv ==
  /\ TypeOK
  /\ QueueInv
  /\ CountInv
  /\ BeforeInv
  /\ HandshakeInv
  /\ GrantedInv
  /\ AccountInv
  /\ DiskInv
  /\ UploadInv
  /\ UploadsUnderListedKey
  /\ SavedIdentityIsRegistered
=============================================================================
