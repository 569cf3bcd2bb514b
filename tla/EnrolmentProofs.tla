--------------------------- MODULE EnrolmentProofs ---------------------------
(***************************************************************************)
(* ClientRun implements Enrolment: every step of the runs, the server and  *)
(* the surroundings is a step in the life of the accounts, or none.        *)
(***************************************************************************)
EXTENDS ClientRunProofs

USE DEF REGISTRATION, SEND_PUBLIC_KEY, RECONNECT, SEND_FILE, CRC_CORRECT,
        CRC_INCORRECT_RESEND, CRC_INCORRECT_DONE, RequestCode,
        REGISTRATION_SUCCESS, REGISTRATION_FAILED, RECEIVED_PUBLIC_KEY_SEND_AES,
        FILE_RECEIVED_CRC_OK, CONFIRM_MSG, APPROVE_RECONNECT_SEND_AES,
        RECONNECT_REJECTED, OTHER_CODE, ResponseCode,
        AwaitFile, AwaitCorrect, AwaitResend, AwaitDone, TransferAwaiting, Ended,
        AwaitRegistration, AwaitReconnection, AwaitKey,
        Saving, Uploading, Quiet, HandshakeAwaiting, Transferring

-----------------------------------------------------------------------------
(* From queues to accounts.                                                *)

\* KeyMayCome where queues hold one message at most: SEND_PUBLIC_KEY carries the
\* key, the run that was granted the name is about to send it, or the grant is
\* under way.
KeySent(n) ==
  \E key : requests = <<[code |-> SEND_PUBLIC_KEY, payload |-> [id |-> n, key |-> key]]>>

KeyGranted(n) ==
  /\ pc = AwaitRegistration
  /\ responses = <<[code |-> REGISTRATION_SUCCESS, payload |-> n]>>

KeyDue(n) ==
  \/ KeySent(n)
  \/ pc \in Saving /\ clientId = n
  \/ KeyGranted(n)

\* In every state of the runs the key of a name is due exactly if it may come.
LEMMA KeyIsDue == RunInv => \A n \in Name : KeyMayCome(n) <=> KeyDue(n)
<1> SUFFICES ASSUME RunInv, NEW n \in Name
             PROVE  KeyMayCome(n) <=> KeyDue(n)
  OBVIOUS
<1>1. ASSUME KeyDue(n) PROVE KeyMayCome(n)
  <2>1. CASE \E key : requests = <<[code |-> SEND_PUBLIC_KEY, payload |-> [id |-> n, key |-> key]]>>
    <3>1. PICK key : requests = <<[code |-> SEND_PUBLIC_KEY, payload |-> [id |-> n, key |-> key]]>>
      BY <2>1
    <3>2. /\ Len(requests) = 1
          /\ requests[1] = [code |-> SEND_PUBLIC_KEY, payload |-> [id |-> n, key |-> key]]
      BY <3>1, OneMessage
    <3>3. 1 \in 1 .. Len(requests) /\ requests[1].code = SEND_PUBLIC_KEY /\ requests[1].payload.id = n
      BY <3>2
    <3> QED
      BY <3>3 DEF KeyMayCome
  <2>2. CASE pc \in Saving /\ clientId = n
    BY <2>2 DEF KeyMayCome
  <2>3. CASE pc = AwaitRegistration /\ responses = <<[code |-> REGISTRATION_SUCCESS, payload |-> n]>>
    <3>1. Len(responses) = 1 /\ responses[1] = [code |-> REGISTRATION_SUCCESS, payload |-> n]
      BY <2>3, OneMessage
    <3>2. 1 \in 1 .. Len(responses)
      BY <3>1
    <3> QED
      BY <2>3, <3>1, <3>2 DEF KeyMayCome
  <2> QED
    BY <1>1, <2>1, <2>2, <2>3 DEF KeyDue, KeySent, KeyGranted
<1>2. ASSUME NEW i \in 1 .. Len(requests), requests[i].code = SEND_PUBLIC_KEY,
             requests[i].payload.id = n
      PROVE  KeyDue(n)
  <2>1. requests # <<>>
    BY <1>2
  <2>2. PICK m \in SentRequest : requests = <<m>>
    BY <2>1 DEF RunInv, QueueInv
  <2>3. m.code = SEND_PUBLIC_KEY /\ m.payload.id = n
    <3>1. Len(requests) = 1 /\ requests[1] = m
      BY <2>2, OneMessage
    <3>2. i = 1
      BY <3>1
    <3> QED
      BY <1>2, <3>1, <3>2
  <2>4. m = [code |-> SEND_PUBLIC_KEY, payload |-> [id |-> n, key |-> m.payload.key]]
    <3>1. m \in [code : {SEND_PUBLIC_KEY}, payload : [id : Name \cup {UninitId}, key : 1 .. keys]]
      BY <2>3 DEF SentRequest
    <3>2. m = [code |-> SEND_PUBLIC_KEY, payload |-> m.payload]
      BY <3>1
    <3>3. m.payload = [id |-> m.payload.id, key |-> m.payload.key]
      BY <3>1
    <3> QED
      BY <2>3, <3>2, <3>3
  <2> QED
    BY <2>2, <2>4 DEF KeyDue, KeySent, KeyGranted
<1>3. ASSUME NEW i \in 1 .. Len(responses), pc = AwaitRegistration,
             responses[i] = [code |-> REGISTRATION_SUCCESS, payload |-> n]
      PROVE  KeyDue(n)
  <2>1. responses # <<>>
    BY <1>3
  <2>2. PICK r : responses = <<r>>
    BY <1>3, <2>1 DEF RunInv, HandshakeInv
  <2>3. Len(responses) = 1 /\ responses[1] = r
    BY <2>2, OneMessage
  <2>4. i = 1
    BY <2>3
  <2> QED
    BY <1>3, <2>2, <2>3, <2>4 DEF KeyDue, KeySent, KeyGranted
<1> QED
  BY <1>1, <1>2, <1>3 DEF KeyMayCome, KeyDue, KeySent, KeyGranted

\* A key is due for one name at most.
LEMMA OneKeyIsDue ==
  ASSUME RunInv, NEW m, KeyDue(m), NEW n, KeyDue(n)
  PROVE  m = n
<1>1. CASE requests # <<>>
  <2>1. responses = <<>> /\ pc \notin Saving
    BY <1>1 DEF RunInv, QueueInv, HandshakeInv
  <2>2. ASSUME NEW k, KeyDue(k) PROVE Head(requests).payload.id = k
    <3>1. PICK key : requests = <<[code |-> SEND_PUBLIC_KEY, payload |-> [id |-> k, key |-> key]]>>
      BY <2>1, <2>2, OneMessage DEF KeyDue, KeySent, KeyGranted
    <3> QED
      BY <3>1, OneMessage
  <2>3. Head(requests).payload.id = m
    BY <2>2
  <2>4. Head(requests).payload.id = n
    BY <2>2
  <2> QED
    BY <2>3, <2>4
<1>2. CASE requests = <<>>
  <2>1. ASSUME NEW k, KeyDue(k)
        PROVE  \/ pc \in Saving /\ clientId = k
               \/ pc = AwaitRegistration /\ Head(responses).payload = k
    <3>1. ~ \E key : requests = <<[code |-> SEND_PUBLIC_KEY, payload |-> [id |-> k, key |-> key]]>>
      BY <1>2, OneMessage
    <3>2. ASSUME responses = <<[code |-> REGISTRATION_SUCCESS, payload |-> k]>>
          PROVE  Head(responses).payload = k
      BY <3>2, OneMessage
    <3> QED
      BY <2>1, <3>1, <3>2 DEF KeyDue, KeySent, KeyGranted
  <2> QED
    BY <2>1
<1> QED
  BY <1>1, <1>2

NoKeyDue == \A n : ~KeyDue(n)

\* No key is due while a file is sent.
LEMMA NoKeyDueInTransfer == RunInv => (pc \in Transferring => NoKeyDue)
<1> SUFFICES ASSUME RunInv, pc \in Transferring, NEW n, KeyDue(n)
             PROVE  FALSE
  BY DEF NoKeyDue
<1>1. PICK key : requests = <<[code |-> SEND_PUBLIC_KEY, payload |-> [id |-> n, key |-> key]]>>
  BY DEF KeyDue, KeySent, KeyGranted
<1>2. Head(requests).code = SEND_PUBLIC_KEY /\ requests # <<>>
  BY <1>1, OneMessage
<1>3. TransferInv
  BY DEF RunInv, UploadInv
<1>4. PICK m : requests = <<m>> /\ m.code \in SEND_FILE .. CRC_INCORRECT_DONE
  BY <1>2, <1>3, TransferQueue
<1> QED
  BY <1>2, <1>4, OneMessage

\* The accounts in terms of the due keys.
AccountsByDueKeys ==
  \A n \in Name :
    AccountOf(n) = IF n \notin registered THEN "unknown"
                   ELSE IF publicKey[n] # 0 THEN "listed"
                   ELSE IF KeyDue(n) THEN "waiting" ELSE "orphaned"

\* In every state of the runs the due keys tell the accounts apart.
LEMMA AccountCases == RunInv => AccountsByDueKeys
BY KeyIsDue DEF AccountOf, AccountsByDueKeys

-----------------------------------------------------------------------------
(* From accounts to steps of Enrolment.                                    *)

\* One account changes while nobody uploads.
LEMMA OneAccountMoves ==
  ASSUME NEW n \in Name, NEW from, NEW to, pc \notin Uploading, pc' \notin Uploading,
         AccountOf(n) \in from, AccountOf(n)' = to,
         \A m \in Name : m # n => AccountOf(m)' = AccountOf(m)
  PROVE  Enrolled!Becomes(n, from, to)
<1> DEFINE account == [m \in Name |-> AccountOf(m)]
<1>1. Uploader = EmptyPayload /\ Uploader' = EmptyPayload
  BY DEF Uploader
<1>2. account[n] \in from
  OBVIOUS
<1>3. account' = [account EXCEPT ![n] = to]
  OBVIOUS
<1> QED
  BY <1>1, <1>2, <1>3 DEF Enrolled!Becomes

\* Nothing changes.
LEMMA NoAccountMoves ==
  ASSUME Uploader' = Uploader, \A m \in Name : AccountOf(m)' = AccountOf(m)
  PROVE  UNCHANGED Enrolled!vars
BY DEF Enrolled!vars

\* Where nobody uploads, no account changes hands and no key that was not due
\* becomes due for a name without one, at most one name is abandoned.
LEMMA Fades ==
  ASSUME RunInv, RunInv', pc \notin Uploading, pc' \notin Uploading,
         UNCHANGED <<registered, publicKey>>,
         \A n \in registered : publicKey[n] = 0 /\ KeyDue(n)' => KeyDue(n)
  PROVE  [Enrolled!Next]_(Enrolled!vars)
<1>1. Uploader' = Uploader
  BY DEF Uploader
<1>2. \A n \in Name :
        AccountOf(n) = IF n \notin registered THEN "unknown"
                       ELSE IF publicKey[n] # 0 THEN "listed"
                       ELSE IF KeyDue(n) THEN "waiting" ELSE "orphaned"
  BY AccountCases DEF AccountsByDueKeys
<1>3. \A n \in Name :
        AccountOf(n)' = IF n \notin registered THEN "unknown"
                        ELSE IF publicKey[n] # 0 THEN "listed"
                        ELSE IF KeyDue(n)' THEN "waiting" ELSE "orphaned"
  <2>1. AccountsByDueKeys'
    BY AccountCases, PTL
  <2> QED
    BY <2>1 DEF AccountsByDueKeys
<1>4. CASE \A n \in Name : AccountOf(n)' = AccountOf(n)
  BY <1>1, <1>4, NoAccountMoves
<1>5. ASSUME NEW n \in Name, AccountOf(n)' # AccountOf(n)
      PROVE  Enrolled!Abandon(n)
  <2>1. /\ n \in registered /\ publicKey[n] = 0 /\ KeyDue(n) /\ ~KeyDue(n)'
        /\ AccountOf(n) = "waiting" /\ AccountOf(n)' = "orphaned"
    BY <1>2, <1>3, <1>5
  <2>2. \A m \in Name : m # n => AccountOf(m)' = AccountOf(m)
    <3> SUFFICES ASSUME NEW m \in Name, m # n
                 PROVE  AccountOf(m)' = AccountOf(m)
      OBVIOUS
    <3>1. ~KeyDue(m)
      BY <2>1, OneKeyIsDue
    <3>2. m \in registered /\ publicKey[m] = 0 => ~KeyDue(m)'
      BY <3>1
    <3> QED
      BY <1>2, <1>3, <3>1, <3>2
  <2>3. Enrolled!Becomes(n, {"waiting"}, "orphaned")
    BY <2>1, <2>2, OneAccountMoves
  <2> QED
    BY <2>3 DEF Enrolled!Abandon
<1> QED
  BY <1>4, <1>5 DEF Enrolled!Next

\* While a file is sent no account changes, and the upload goes on or ends.
LEMMA UploadMoves ==
  ASSUME RunAssumption, RunInv, RunInv', pc \in Uploading,
         UNCHANGED <<registered, publicKey, clientName>>,
         pc' \in Transferring \/ (pc' = "off" /\ UNCHANGED requests)
  PROVE  [Enrolled!Next]_(Enrolled!vars)
<1>1. NoKeyDue
  BY NoKeyDueInTransfer
<1>2. NoKeyDue'
  <2>1. CASE pc' \in Transferring
    <3>1. (pc \in Transferring)' => NoKeyDue'
      BY NoKeyDueInTransfer, PTL
    <3> QED
      BY <2>1, <3>1
  <2>2. CASE pc' = "off" /\ UNCHANGED requests
    BY <1>1, <2>2 DEF NoKeyDue, KeyDue, KeySent, KeyGranted
  <2> QED
    BY <2>1, <2>2
<1>3. \A n \in Name :
        AccountOf(n) = IF n \notin registered THEN "unknown"
                       ELSE IF publicKey[n] # 0 THEN "listed" ELSE "orphaned"
  BY <1>1, AccountCases DEF NoKeyDue, AccountsByDueKeys
<1>4. \A n \in Name :
        AccountOf(n)' = IF n \notin registered THEN "unknown"
                        ELSE IF publicKey[n] # 0 THEN "listed" ELSE "orphaned"
  <2>1. AccountsByDueKeys'
    BY AccountCases, PTL
  <2> QED
    BY <1>2, <2>1 DEF NoKeyDue, AccountsByDueKeys
<1>5. \A n \in Name : AccountOf(n)' = AccountOf(n)
  BY <1>3, <1>4
<1>6. CASE pc' \in Uploading
  BY <1>5, <1>6, NoAccountMoves DEF Uploader
<1>7. CASE pc' \notin Uploading
  <2>1. Uploader # EmptyPayload /\ Uploader' = EmptyPayload
    BY <1>7 DEF Uploader, RunInv, TypeOK, RunAssumption
  <2> QED
    BY <1>5, <2>1 DEF Enrolled!Next, Enrolled!End
<1> QED
  BY <1>6, <1>7

-----------------------------------------------------------------------------
(* handleClient and its flows.                                             *)

\* The start and the end of a run, and a new connection, which takes a key
\* under way with it.
LEMMA RunBoundsMove ==
  ASSUME RunAssumption, RunInv, RunInv', Start \/ Connect \/ Exit \/ Crash
  PROVE  [Enrolled!Next]_(Enrolled!vars)
<1>1. CASE Start \/ Connect
  <2>1. /\ pc \in {"off", "connect"} /\ pc' \in {"connect", "reconnect", "register", "off"}
        /\ requests' = requests \/ requests' = <<>>
        /\ UNCHANGED <<registered, publicKey>>
    BY <1>1 DEF Start, Connect, connVars, accountVars
  <2>2. \A n : KeyDue(n)' => KeyDue(n)
    BY <2>1, OneMessage DEF KeyDue, KeySent, KeyGranted
  <2> QED
    BY <2>1, <2>2, Fades
<1>2. CASE Exit \/ Crash
  <2>1. /\ pc' = "off" /\ UNCHANGED <<requests, registered, publicKey, clientName>>
    BY <1>2 DEF Exit, Crash, connVars, runVars, processVars, accountVars
  <2>2. CASE pc \in Uploading
    BY <2>1, <2>2, UploadMoves
  <2>3. CASE pc \notin Uploading
    <3>1. \A n : KeyDue(n)' => KeyDue(n)
      BY <2>1 DEF KeyDue, KeySent, KeyGranted
    <3> QED
      BY <2>1, <2>3, <3>1, Fades
  <2> QED
    BY <2>2, <2>3
<1> QED
  BY <1>1, <1>2

\* A request for a name leaves the accounts alone.
LEMMA ConnectionRequestMoves ==
  ASSUME RunInv, RunInv', SendRegistration \/ SendReconnection
  PROVE  [Enrolled!Next]_(Enrolled!vars)
<1>1. PICK code \in {REGISTRATION, RECONNECT}, await \in {AwaitRegistration, AwaitReconnection} :
        pc \in Quiet \ Saving /\ SendAndAwait(code, clientName, await)
  BY DEF SendRegistration, SendReconnection, ConnectionRequest
<1>2. UNCHANGED <<responses, registered, publicKey>>
  BY DEF SendRegistration, SendReconnection, ConnectionRequest, runVars, accountVars
<1>3. /\ responses' = <<>> /\ pc' \in {await, "killed"}
      /\ \/ requests' = <<[code |-> code, payload |-> clientName]>>
         \/ requests' = <<>>
  BY <1>1, <1>2, SendInFlow
<1>4. \A n : ~KeyDue(n)'
  BY <1>3, OneMessage DEF KeyDue, KeySent, KeyGranted
<1> QED
  BY <1>1, <1>2, <1>3, <1>4, Fades

\* The run that reads the grant of its registration is the one whose key is
\* still due; a refused one abandons nothing.
LEMMA RegistrationAnsweredMoves ==
  ASSUME RunAssumption, RunInv, RunInv', RegistrationAnswered
  PROVE  [Enrolled!Next]_(Enrolled!vars)
<1>1. /\ pc = AwaitRegistration /\ ConsumeResponse
      /\ UNCHANGED <<requests, registered, publicKey>>
  BY DEF RegistrationAnswered, accountVars
<1>2. PICK r \in GetResponse :
        \/ r.code = REGISTRATION_SUCCESS /\ Granted(r)
        \/ pc' = "off"
  BY DEF RegistrationAnswered
<1>3. /\ requests = <<>> /\ responses' = <<>>
  BY <1>1, ReceiveInFlow
<1>4. ASSUME NEW n \in Name, KeyDue(n)' PROVE KeyDue(n)
  <2>1. pc' \in Saving /\ clientId' = n
    BY <1>1, <1>3, <1>4, OneMessage DEF KeyDue, KeySent, KeyGranted
  <2>2. r.code = REGISTRATION_SUCCESS /\ r.payload = n /\ r.payload # EmptyPayload
    BY <1>2, <2>1 DEF Granted, RunAssumption
  <2>3. responses # <<>>
    BY <2>2 DEF GetResponse, UninitializedResponse
  <2>4. PICK c, p : responses = <<[code |-> c, payload |-> p]>>
    BY <1>1, <2>3 DEF RunInv, HandshakeInv
  <2>5. r = [code |-> c, payload |-> p]
    BY <2>3, <2>4, OneMessage DEF GetResponse
  <2>6. responses = <<[code |-> REGISTRATION_SUCCESS, payload |-> n]>>
    BY <2>2, <2>4, <2>5
  <2> QED
    BY <1>1, <2>6 DEF KeyDue, KeySent, KeyGranted
<1>5. pc' \in {"off", "save_key"}
  BY <1>2 DEF Granted
<1>6. registered \subseteq Name
  BY DEF RunInv, TypeOK
<1> QED
  BY <1>1, <1>4, <1>5, <1>6, Fades

\* A reconnection is granted only to a name whose key is listed already.
LEMMA ReconnectionAnsweredMoves ==
  ASSUME RunAssumption, RunInv, RunInv', ReconnectionAnswered
  PROVE  [Enrolled!Next]_(Enrolled!vars)
<1>1. /\ pc = AwaitReconnection /\ ConsumeResponse
      /\ UNCHANGED <<requests, registered, publicKey>>
  BY DEF ReconnectionAnswered, accountVars
<1>2. PICK r \in GetResponse :
        Granted(r) \/ pc' \in {"register", "off"}
  BY DEF ReconnectionAnswered
<1>3. /\ requests = <<>> /\ responses' = <<>>
      /\ \/ r.payload = Grant /\ Entitled
         \/ r.payload = EmptyPayload
  BY <1>1, ReceiveInFlow
<1>4. registered \subseteq Name
  BY DEF RunInv, TypeOK
<1>5. ASSUME NEW n \in registered, KeyDue(n)' PROVE publicKey[n] # 0
  <2>1. pc' \in Saving /\ clientId' = n
    BY <1>1, <1>3, <1>5, OneMessage DEF KeyDue, KeySent, KeyGranted
  <2>2. r.payload = n /\ r.payload # EmptyPayload
    BY <1>2, <1>4, <2>1 DEF Granted, RunAssumption
  <2>3. n = clientName /\ Entitled
    BY <1>1, <1>3, <2>2 DEF Grant
  <2> QED
    BY <1>1, <2>3 DEF Entitled
<1>6. pc' \in {"off", "register", "save_key"}
  BY <1>2 DEF Granted
<1> QED
  BY <1>1, <1>5, <1>6, Fades

\* The key stays due while it is saved; a disk error abandons the name.
LEMMA SavingMoves ==
  ASSUME RunInv, RunInv', OpenKeyFile \/ WriteKeyOpenMeInfo \/ WriteMeInfo
  PROVE  [Enrolled!Next]_(Enrolled!vars)
<1>1. /\ pc \in Saving
      /\ UNCHANGED <<requests, responses, clientId, registered, publicKey>>
  BY DEF OpenKeyFile, WriteKeyOpenMeInfo, WriteMeInfo, connVars, processVars, accountVars
<1>2. pc' \in Saving \cup {"connect", "off"}
  BY DEF OpenKeyFile, WriteKeyOpenMeInfo, WriteMeInfo, RuntimeError
<1>3. \A n : KeyDue(n)' => KeyDue(n)
  BY <1>1, <1>2 DEF KeyDue, KeySent, KeyGranted
<1> QED
  BY <1>1, <1>2, <1>3, Fades

\* The key goes out under the id the run was granted, or is lost with the
\* connection.
LEMMA SendPublicKeyMoves ==
  ASSUME RunInv, RunInv', SendPublicKey
  PROVE  [Enrolled!Next]_(Enrolled!vars)
<1> DEFINE upload == [id |-> clientId, key |-> privateKey]
<1>1. /\ pc = "send_key" /\ SendAndAwait(SEND_PUBLIC_KEY, upload, AwaitKey)
      /\ UNCHANGED <<responses, clientId, registered, publicKey>>
  BY DEF SendPublicKey, runVars, processVars, accountVars
<1>2. /\ responses' = <<>> /\ pc' \in {AwaitKey, "killed"}
      /\ requests' = <<[code |-> SEND_PUBLIC_KEY, payload |-> upload]>> \/ requests' = <<>>
  BY <1>1, SendInFlow
<1>3. ASSUME NEW n, KeyDue(n)' PROVE KeyDue(n)
  <2>1. PICK key : requests' = <<[code |-> SEND_PUBLIC_KEY, payload |-> [id |-> n, key |-> key]]>>
    BY <1>2, <1>3, OneMessage DEF KeyDue, KeySent, KeyGranted
  <2>2. Head(requests') = [code |-> SEND_PUBLIC_KEY, payload |-> upload]
    BY <1>2, <2>1, OneMessage
  <2>3. upload = [id |-> n, key |-> key]
    BY <2>1, <2>2, OneMessage
  <2>4. clientId = n
    BY <2>3
  <2> QED
    BY <1>1, <2>4 DEF KeyDue, KeySent, KeyGranted
<1> QED
  BY <1>1, <1>2, <1>3, Fades

\* A run that can decrypt the AES key is under a listed account and begins its
\* upload; any other leaves the accounts alone.
LEMMA KeyAnsweredMoves ==
  ASSUME RunAssumption, RunInv, RunInv', KeyAnswered
  PROVE  [Enrolled!Next]_(Enrolled!vars)
<1>1. /\ pc = AwaitKey /\ ConsumeResponse
      /\ UNCHANGED <<requests, registered, publicKey>>
      /\ GetResponse # {}
      /\ (pc' = "loop" /\ NoError) \/ pc' \in {"connect", "off"}
  BY DEF KeyAnswered, RuntimeError, accountVars
<1>2. requests = <<>> /\ requests' = <<>>
  <2>1. PICK r \in GetResponse : TRUE
    BY <1>1
  <2> QED
    BY <1>1, ReceiveInFlow
<1>3. NoKeyDue /\ NoKeyDue'
  BY <1>1, <1>2, OneMessage DEF NoKeyDue, KeyDue, KeySent, KeyGranted
<1>4. CASE pc' \in {"connect", "off"}
  BY <1>1, <1>3, <1>4, Fades DEF NoKeyDue
<1>5. CASE pc' = "loop" /\ NoError
  <2>1. clientName \in Name /\ Uploader = EmptyPayload /\ Uploader' = clientName
    BY <1>1, <1>5 DEF RunInv, TypeOK, Uploader, NoError
  <2>2. UploadsUnderListedKey'
    BY DEF RunInv
  <2>3. clientName \in registered /\ publicKey[clientName] # 0
    BY <1>1, <1>5, <2>2 DEF UploadsUnderListedKey, NoError
  <2>4. AccountOf(clientName) = "listed"
    BY <2>1, <2>3 DEF AccountOf
  <2>5. AccountsByDueKeys /\ AccountsByDueKeys'
    BY AccountCases, PTL
  <2>6. \A n \in Name : AccountOf(n)' = AccountOf(n)
    BY <1>1, <1>3, <2>5 DEF NoKeyDue, AccountsByDueKeys
  <2>7. Enrolled!Begin(clientName)
    BY <2>1, <2>4, <2>6 DEF Enrolled!Begin
  <2> QED
    BY <2>1, <2>7 DEF Enrolled!Next
<1> QED
  BY <1>1, <1>4, <1>5

-----------------------------------------------------------------------------
(* The server, the file transfer, and who else acts.                       *)

\* A name is registered while its client waits for it, or after that client is
\* gone; a second registration changes nothing.
LEMMA ServerRegistersMoves ==
  ASSUME RunAssumption, RunInv, RunInv', ServerRegisters
  PROVE  [Enrolled!Next]_(Enrolled!vars)
<1>1. /\ Takes(REGISTRATION) /\ REGISTRATION \in RequestCode
      /\ UNCHANGED <<pc, clientId, publicKey>>
  BY DEF ServerRegisters, clientVars, processVars
<1>2. /\ connected /\ connected \in BOOLEAN /\ responses = <<>> /\ requests' = <<>>
      /\ \/ pc \in {"off", "connect"}
         \/ pc \in HandshakeAwaiting /\ AwaitedRequest(pc) = REGISTRATION
         \/ pc \in TransferAwaiting /\ Awaited(pc) = REGISTRATION
  BY <1>1, TakeRequest
<1>3. PICK r \in SentRequest : requests = <<r>> /\ r.code = REGISTRATION /\ Asked = r.payload
  BY <1>1, TakeRequest
<1>4. pc \notin Uploading \cup Saving /\ pc' \notin Uploading \cup Saving
  BY <1>1, <1>2, AwaitedCodes
<1>5. Asked \in Name
  BY <1>3 DEF SentRequest
<1>6. NoKeyDue
  <2> SUFFICES ASSUME NEW n, KeyDue(n) PROVE FALSE
    BY DEF NoKeyDue
  <2>1. PICK key : requests = <<[code |-> SEND_PUBLIC_KEY, payload |-> [id |-> n, key |-> key]]>>
    BY <1>2, <1>4, OneMessage DEF KeyDue, KeySent, KeyGranted
  <2>2. r = [code |-> SEND_PUBLIC_KEY, payload |-> [id |-> n, key |-> key]]
    BY <1>3, <2>1, OneMessage
  <2> QED
    BY <1>3, <2>2
<1>7. CASE Asked \in registered
  <2>1. Reply(REGISTRATION_FAILED, EmptyPayload) /\ UNCHANGED registered
    BY <1>7 DEF ServerRegisters
  <2>2. \/ responses' = <<[code |-> REGISTRATION_FAILED, payload |-> EmptyPayload]>>
        \/ responses' = <<>>
    BY <1>2, <2>1, ReplyOnIdle
  <2>3. \A n : ~KeyDue(n)'
    <3> SUFFICES ASSUME NEW n, KeyDue(n)' PROVE FALSE
      OBVIOUS
    <3>1. responses' = <<[code |-> REGISTRATION_SUCCESS, payload |-> n]>>
      BY <1>2, <1>4, OneMessage DEF KeyDue, KeySent, KeyGranted
    <3>2. [code |-> REGISTRATION_SUCCESS, payload |-> n]
            = [code |-> REGISTRATION_FAILED, payload |-> EmptyPayload]
      BY <2>2, <3>1, OneMessage
    <3> QED
      BY <3>2
  <2> QED
    BY <1>1, <1>4, <2>1, <2>3, Fades
<1>8. CASE Asked \notin registered
  <2>1. PICK n \in Name : n = Asked
    BY <1>5
  <2>2. Reply(REGISTRATION_SUCCESS, n) /\ registered' = registered \cup {n}
    BY <1>8, <2>1 DEF ServerRegisters
  <2>3. \/ responses' = <<[code |-> REGISTRATION_SUCCESS, payload |-> n]>>
        \/ responses' = <<[code |-> REGISTRATION_SUCCESS, payload |-> EmptyPayload]>>
        \/ responses' = <<>>
    BY <1>2, <2>2, ReplyOnIdle
  <2>4. ASSUME NEW m \in Name, KeyDue(m)' PROVE m = n
    <3>1. responses' = <<[code |-> REGISTRATION_SUCCESS, payload |-> m]>>
      BY <1>2, <1>4, <2>4, OneMessage DEF KeyDue, KeySent, KeyGranted
    <3>2. \/ [code |-> REGISTRATION_SUCCESS, payload |-> m]
               = [code |-> REGISTRATION_SUCCESS, payload |-> n]
          \/ [code |-> REGISTRATION_SUCCESS, payload |-> m]
               = [code |-> REGISTRATION_SUCCESS, payload |-> EmptyPayload]
      BY <2>3, <3>1, OneMessage
    <3>3. m # EmptyPayload
      BY <2>4 DEF RunAssumption
    <3> QED
      BY <3>2, <3>3
  <2>5. AccountsByDueKeys /\ AccountsByDueKeys'
    BY AccountCases, PTL
  <2>6. \A m \in Name : m # n => AccountOf(m)' = AccountOf(m)
    BY <1>1, <1>6, <2>2, <2>4, <2>5 DEF NoKeyDue, AccountsByDueKeys
  <2>7. AccountOf(n) \in {"unknown"}
    BY <1>8, <2>1, <2>5 DEF AccountsByDueKeys
  <2>8. publicKey'[n] = 0
    BY <1>1, <1>8, <2>1 DEF RunInv, AccountInv
  <2>9. AccountOf(n)' \in {"waiting", "orphaned"}
    BY <2>2, <2>5, <2>8 DEF AccountsByDueKeys
  <2>10. \E to \in {"waiting", "orphaned"} : Enrolled!Becomes(n, {"unknown"}, to)
    BY <1>4, <2>6, <2>7, <2>9, OneAccountMoves
  <2> QED
    BY <2>10 DEF Enrolled!Next, Enrolled!Register
<1> QED
  BY <1>7, <1>8

\* The server lists a key that was due, or replaces the one of a name that is
\* listed already.
LEMMA ServerListsKeyMoves ==
  ASSUME RunAssumption, RunInv, RunInv', ServerListsKey
  PROVE  [Enrolled!Next]_(Enrolled!vars)
<1>1. /\ Takes(SEND_PUBLIC_KEY) /\ SEND_PUBLIC_KEY \in RequestCode
      /\ Asked.id \in registered /\ publicKey' = [publicKey EXCEPT ![Asked.id] = Asked.key]
      /\ UNCHANGED <<pc, clientId, registered>>
  BY DEF ServerListsKey, clientVars, processVars
<1>2. /\ responses = <<>> /\ requests' = <<>>
      /\ \/ pc \in {"off", "connect"}
         \/ pc \in HandshakeAwaiting /\ AwaitedRequest(pc) = SEND_PUBLIC_KEY
         \/ pc \in TransferAwaiting /\ Awaited(pc) = SEND_PUBLIC_KEY
  BY <1>1, TakeRequest
<1>3. PICK r \in SentRequest : requests = <<r>> /\ r.code = SEND_PUBLIC_KEY /\ Asked = r.payload
  BY <1>1, TakeRequest
<1>4. pc \in {"off", "connect", AwaitKey} /\ pc' = pc
  BY <1>1, <1>2, AwaitedCodes
<1>5. Asked \in [id : Name \cup {UninitId}, key : 1 .. keys]
  BY <1>3 DEF SentRequest
<1>6. PICK n, key : n = Asked.id /\ key = Asked.key
  OBVIOUS
<1>7. KeyDue(n)
  <2>1. r = [code |-> SEND_PUBLIC_KEY, payload |-> [id |-> n, key |-> key]]
    <3>1. r \in [code : {SEND_PUBLIC_KEY}, payload : [id : Name \cup {UninitId}, key : 1 .. keys]]
      BY <1>3 DEF SentRequest
    <3>2. r = [code |-> SEND_PUBLIC_KEY, payload |-> Asked]
      BY <1>3, <3>1
    <3>3. Asked = [id |-> n, key |-> key]
      BY <1>5, <1>6
    <3> QED
      BY <3>2, <3>3
  <2>2. requests = <<[code |-> SEND_PUBLIC_KEY, payload |-> [id |-> n, key |-> key]]>>
    BY <1>3, <2>1, Zenon
  <2> DEFINE KeyOf(k) == <<[code |-> SEND_PUBLIC_KEY, payload |-> [id |-> n, key |-> k]]>>
  <2>3. requests = KeyOf(key)
    BY <2>2
  <2>4. \E k : requests = KeyOf(k)
    <3> HIDE DEF KeyOf
    <3> WITNESS key
    <3> QED
      BY <2>3
  <2> QED
    BY <2>4 DEF KeyDue, KeySent
<1>8. NoKeyDue'
  BY <1>2, <1>4, OneMessage DEF NoKeyDue, KeyDue, KeySent, KeyGranted
<1>9. registered \subseteq Name /\ publicKey \in [Name -> 0 .. keys] /\ n \in registered
  BY <1>1, <1>6 DEF RunInv, TypeOK
<1>10. publicKey'[n] # 0 /\ \A m \in Name : m # n => publicKey'[m] = publicKey[m]
  BY <1>1, <1>5, <1>9, <1>6
<1>11. AccountsByDueKeys /\ AccountsByDueKeys'
  BY AccountCases, PTL
<1>12. \A m \in Name : m # n => AccountOf(m)' = AccountOf(m)
  <2> SUFFICES ASSUME NEW m \in Name, m # n
               PROVE  AccountOf(m)' = AccountOf(m)
    OBVIOUS
  <2>1. ~KeyDue(m)
    BY <1>7, OneKeyIsDue
  <2> QED
    BY <1>1, <1>8, <1>10, <1>11, <2>1 DEF NoKeyDue, AccountsByDueKeys
<1>13. AccountOf(n)' = "listed"
  BY <1>1, <1>9, <1>10, <1>11 DEF AccountsByDueKeys
<1>14. CASE publicKey[n] = 0
  <2>1. AccountOf(n) \in {"waiting"}
    BY <1>1, <1>7, <1>9, <1>11, <1>14 DEF AccountsByDueKeys
  <2>2. Enrolled!Becomes(n, {"waiting"}, "listed")
    BY <1>4, <1>9, <1>12, <1>13, <2>1, OneAccountMoves
  <2> QED
    BY <1>9, <2>2 DEF Enrolled!Next, Enrolled!List
<1>15. CASE publicKey[n] # 0
  <2>1. AccountOf(n) = "listed"
    BY <1>1, <1>9, <1>11, <1>15 DEF AccountsByDueKeys
  <2>2. \A m \in Name : AccountOf(m)' = AccountOf(m)
    BY <1>12, <1>13, <2>1
  <2>3. Uploader' = Uploader
    BY <1>4 DEF Uploader
  <2> QED
    BY <2>2, <2>3, NoAccountMoves
<1> QED
  BY <1>14, <1>15

\* A reply to a reconnection, or a refusal, gives no name a key; the key of a
\* refused request will not come.
LEMMA ServerRepliesMoves ==
  ASSUME RunAssumption, RunInv, RunInv', ServerReconnects \/ ServerRefusesClient
  PROVE  [Enrolled!Next]_(Enrolled!vars)
<1>1. PICK c, code, payload :
        /\ c \in {REGISTRATION, RECONNECT, SEND_PUBLIC_KEY} /\ c \in RequestCode
        /\ Takes(c) /\ Reply(code, payload) /\ code # REGISTRATION_SUCCESS
  BY DEF ServerReconnects, ServerRefusesClient
<1>2. UNCHANGED <<pc, registered, publicKey>>
  BY DEF ServerReconnects, ServerRefusesClient, clientVars, runVars, accountVars
<1>3. /\ connected /\ connected \in BOOLEAN /\ responses = <<>> /\ requests' = <<>>
      /\ \/ pc \in {"off", "connect"}
         \/ pc \in HandshakeAwaiting
         \/ pc \in TransferAwaiting /\ Awaited(pc) = c
  BY <1>1, TakeRequest
<1>4. pc \in {"off", "connect"} \cup HandshakeAwaiting /\ pc' = pc
  BY <1>1, <1>2, <1>3, AwaitedCodes
<1>5. responses' = <<>> \/ \E p : responses' = <<[code |-> code, payload |-> p]>>
  BY <1>1, <1>3, ReplyOnIdle
<1>6. \A n : ~KeyDue(n)'
  <2> SUFFICES ASSUME NEW n, KeyDue(n)' PROVE FALSE
    OBVIOUS
  <2>1. responses' = <<[code |-> REGISTRATION_SUCCESS, payload |-> n]>>
    BY <1>3, <1>4, OneMessage DEF KeyDue, KeySent, KeyGranted
  <2>2. responses' # <<>>
    BY <2>1, OneMessage
  <2>3. PICK p : responses' = <<[code |-> code, payload |-> p]>>
    BY <1>5, <2>2, Zenon
  <2>4. [code |-> REGISTRATION_SUCCESS, payload |-> n] = [code |-> code, payload |-> p]
    BY <2>1, <2>3, OneMessage
  <2> QED
    BY <1>1, <2>4
<1> QED
  BY <1>2, <1>4, <1>6, Fades

\* The transfer's steps belong to an upload, or answer one that is gone; a
\* close loses a key that is under way.
LEMMA TransferMoves ==
  ASSUME TransferAssumption, MayCloseAssumption, RunAssumption,
         RunInv, RunInv', TransferNext, UNCHANGED runVars
  PROVE  [Enrolled!Next]_(Enrolled!vars)
<1>1. UNCHANGED <<clientName, clientId, registered, publicKey>>
  BY DEF runVars, processVars, accountVars
<1>2. CASE TransferClient
  <2>1. pc \in Uploading
    BY <1>2, ClientSteps
  <2>2. TransferInv
    BY <2>1 DEF RunInv, UploadInv
  <2>3. TransferInv'
    BY <2>2, StepInv
  <2>4. pc' \in Transferring
    BY <2>3 DEF TransferInv, TransferTypeOK
  <2> QED
    BY <1>1, <2>1, <2>4, UploadMoves
<1>3. CASE TransferServer \/ ServerGoes \/ FileChanges
  <2>1. /\ pc' = pc
        /\ \/ requests' = <<>> /\ UNCHANGED responses
           \/ UNCHANGED <<requests, responses>>
           \/ \E c \in SEND_FILE .. CRC_INCORRECT_DONE : Takes(c)
    BY <1>3 DEF TransferServer, ServerStores, ServerAccepts, ServerAcknowledges,
       ServerRefuses, ServerGoes, ServerCloses, FileChanges, connVars, clientVars
  <2>2. CASE pc \in Uploading
    BY <1>1, <2>1, <2>2, UploadMoves
  <2>3. CASE pc \notin Uploading /\ (requests' = <<>> \/ UNCHANGED requests) /\ UNCHANGED responses
    <3>1. \A n : KeyDue(n)' => KeyDue(n)
      BY <1>1, <2>1, <2>3, OneMessage DEF KeyDue, KeySent, KeyGranted
    <3> QED
      BY <1>1, <2>1, <2>3, <3>1, Fades
  <2>4. ASSUME pc \notin Uploading, NEW c \in SEND_FILE .. CRC_INCORRECT_DONE, Takes(c)
        PROVE  [Enrolled!Next]_(Enrolled!vars)
    <3>1. c \in RequestCode
      OBVIOUS
    <3>2. /\ requests' = <<>>
          /\ pc \in {"off", "connect"} \/ (pc \in HandshakeAwaiting /\ AwaitedRequest(pc) = c)
      BY <2>4, <3>1, TakeRequest
    <3>3. pc \in {"off", "connect"}
      BY <3>2, AwaitedCodes
    <3>4. \A n : ~KeyDue(n)'
      BY <2>1, <3>2, <3>3, OneMessage DEF KeyDue, KeySent, KeyGranted
    <3> QED
      BY <1>1, <2>1, <3>3, <3>4, Fades
  <2> QED
    BY <2>1, <2>2, <2>3, <2>4
<1> QED
  BY <1>2, <1>3 DEF TransferNext

\* Every step of the runs, and none, is a step in the life of the accounts, or
\* none.
LEMMA EnrolmentStep ==
  ASSUME TransferAssumption, MayCloseAssumption, RunAssumption, RunInv, [Next]_vars
  PROVE  [Enrolled!Next]_(Enrolled!vars)
<1>1. RunInv'
  BY RunStep
<1>2. CASE Start \/ RunClient
  <2>1. CASE Start \/ Connect \/ Exit
    BY <1>1, <2>1, RunBoundsMove
  <2>2. CASE SendRegistration \/ SendReconnection
    BY <1>1, <2>2, ConnectionRequestMoves
  <2>3. CASE RegistrationAnswered
    BY <1>1, <2>3, RegistrationAnsweredMoves
  <2>4. CASE ReconnectionAnswered
    BY <1>1, <2>4, ReconnectionAnsweredMoves
  <2>5. CASE OpenKeyFile \/ WriteKeyOpenMeInfo \/ WriteMeInfo
    BY <1>1, <2>5, SavingMoves
  <2>6. CASE SendPublicKey
    BY <1>1, <2>6, SendPublicKeyMoves
  <2>7. CASE KeyAnswered
    BY <1>1, <2>7, KeyAnsweredMoves
  <2>8. CASE TransferClient /\ UNCHANGED runVars
    BY <1>1, <2>8, TransferMoves DEF TransferNext
  <2> QED
    BY <1>2, <2>1, <2>2, <2>3, <2>4, <2>5, <2>6, <2>7, <2>8 DEF RunClient
<1>3. CASE RunServer
  <2>1. CASE ServerRegisters
    BY <1>1, <2>1, ServerRegistersMoves
  <2>2. CASE ServerListsKey
    BY <1>1, <2>2, ServerListsKeyMoves
  <2>3. CASE ServerReconnects \/ ServerRefusesClient
    BY <1>1, <2>3, ServerRepliesMoves
  <2>4. CASE TransferServer /\ UNCHANGED runVars
    BY <1>1, <2>4, TransferMoves DEF TransferNext
  <2> QED
    BY <1>3, <2>1, <2>2, <2>3, <2>4 DEF RunServer
<1>4. CASE Surroundings
  <2>1. CASE Crash
    BY <1>1, <2>1, RunBoundsMove
  <2>2. CASE (ServerGoes \/ FileChanges) /\ UNCHANGED runVars
    BY <1>1, <2>2, TransferMoves DEF TransferNext
  <2> QED
    BY <1>4, <2>1, <2>2 DEF Surroundings
<1>5. CASE UNCHANGED vars
  <2>1. UNCHANGED <<requests, responses, pc, clientName, clientId, registered, publicKey>>
    BY <1>5 DEF vars, transferVars, connVars, clientVars, runVars, processVars, accountVars
  <2>2. \A n \in Name : AccountOf(n)' = AccountOf(n)
    BY <2>1 DEF AccountOf, KeyMayCome
  <2>3. Uploader' = Uploader
    BY <2>1 DEF Uploader
  <2> QED
    BY <2>2, <2>3, NoAccountMoves
<1> QED
  BY <1>2, <1>3, <1>4, <1>5 DEF Next

-----------------------------------------------------------------------------
(* The theorems.                                                           *)

\* Runs, crashes, closes and refusals, for any names and any number of runs,
\* implement the life of the accounts: a name gets its key in the run that
\* registered it or never, and only a client with a listed key uploads.
THEOREM EnrolmentIsKept == Spec => KeepsEnrolment
<1>1. Init => Enrolled!Init
  <2> SUFFICES ASSUME Init PROVE Enrolled!Init
    OBVIOUS
  <2>1. Uploader = EmptyPayload
    BY DEF Init, Uploader
  <2>2. \A n \in Name : AccountOf(n) \in {"unknown", "listed"}
    BY DEF Init, AccountOf
  <2> QED
    BY <2>1, <2>2 DEF Enrolled!Init
<1>2. RunInv /\ [Next]_vars => [Enrolled!Next]_(Enrolled!vars)
  BY EnrolmentStep, TransferAssumption, MayCloseAssumption, RunAssumption
<1> QED
  BY <1>1, <1>2, RunInvariance, PTL DEF Spec, KeepsEnrolment, Enrolled!Spec

\* A name that was registered and lost its key stays without one, whatever its
\* user runs later, and a listed name stays listed: a crash, close or disk
\* error between the reply to the registration and SEND_PUBLIC_KEY is final.
THEOREM AccountsAreFinal ==
  Spec => [][\A n \in Name : AccountOf(n) \in {"listed", "orphaned"} =>
               AccountOf(n)' = AccountOf(n)]_vars
<1>1. ASSUME RunInv, [Next]_vars, NEW n \in Name, AccountOf(n) \in {"listed", "orphaned"}
      PROVE  AccountOf(n)' = AccountOf(n)
  <2> DEFINE account == [m \in Name |-> AccountOf(m)]
  <2>1. account'[n] = AccountOf(n)' /\ account[n] = AccountOf(n)
    OBVIOUS
  <2>2. CASE account' = account
    BY <2>1, <2>2
  <2>3. ASSUME NEW m \in Name, NEW from \in {{"unknown"}, {"waiting"}}, NEW to,
               Enrolled!Becomes(m, from, to)
        PROVE  AccountOf(n)' = AccountOf(n)
    <3>1. account[m] \in from /\ account' = [account EXCEPT ![m] = to]
      BY <2>3 DEF Enrolled!Becomes
    <3>2. n # m
      BY <1>1, <3>1
    <3> QED
      BY <2>1, <3>1, <3>2
  <2>4. [Enrolled!Next]_(Enrolled!vars)
    BY <1>1, EnrolmentStep, TransferAssumption, MayCloseAssumption, RunAssumption
  <2>5. \/ account' = account
        \/ \E m \in Name, from \in {{"unknown"}, {"waiting"}} : \E to : Enrolled!Becomes(m, from, to)
    BY <2>4 DEF Enrolled!Next, Enrolled!vars, Enrolled!End, Enrolled!Begin,
       Enrolled!Register, Enrolled!List, Enrolled!Abandon
  <2> QED
    BY <2>2, <2>3, <2>5
<1>2. RunInv /\ [Next]_vars =>
        [\A n \in Name : AccountOf(n) \in {"listed", "orphaned"} =>
           AccountOf(n)' = AccountOf(n)]_vars
  BY <1>1
<1> QED
  BY <1>2, RunInvariance, PTL DEF Spec
=============================================================================
