------------------------- MODULE TransferInfoProofs -------------------------
(***************************************************************************)
(* Theorems about TransferInfo, for any sizes of files and words: TLC      *)
(* checks them with words of 12 bits, the code's have 32.                  *)
(***************************************************************************)
EXTENDS TransferInfo, SequenceTheorems, TLAPS

USE TransferInfoAssumption DEF TransferInfoAssumption

\* A number that fits a word is not changed by it.
LEMMA WordKeeps ==
  ASSUME NEW n \in Nat
  PROVE  Word(n) \in Nat /\ (n < WordSize => Word(n) = n)
  BY DEF Word

\* The size of an encrypted file whose size fits a word.
LEMMA EncryptedSizeOf ==
  ASSUME NEW size \in Nat, Word(size) = size
  PROVE  /\ EncryptedSize(size) = 2 * (size - (size % 16) + 32)
         /\ EncryptedSize(size) = 32 * (size \div 16) + 64
         /\ EncryptedSize(size) \in Nat
         /\ size < EncryptedSize(size)
<1>1. /\ size % 16 \in 0 .. 15 /\ size \div 16 \in Nat
      /\ size = 16 * (size \div 16) + (size % 16)
  OBVIOUS
<1>2. EncryptedSize(size) = 2 * (16 + 16 * (size \div 16 + 1))
  BY DEF EncryptedSize, AesSize, BLOCKSIZE
<1> QED BY <1>1, <1>2

\* The largest file is the largest whose request one send takes.
LEMMA LargestFileIs ==
  ASSUME NEW size \in Nat
  PROVE  size <= LargestFile <=> 347 + 32 * (size \div 16) <= SendMax
<1>1. LargestFile = 16 * ((SendMax - 347) \div 32) + 15
  BY DEF LargestFile, BLOCKSIZE, HEADER_SIZE
<1>2. SendMax - 347 \in Int
  OBVIOUS
<1> DEFINE q == (SendMax - 347) \div 32
           d == size \div 16
<1>3. q \in Int /\ 32 * q <= SendMax - 347 /\ SendMax - 347 < 32 * q + 32
  BY <1>2
<1>4. d \in Nat /\ 16 * d <= size /\ size < 16 * d + 16
  OBVIOUS
<1>5. size <= 16 * q + 15 <=> d <= q
  <2> HIDE DEF q, d
  <2> QED BY <1>3, <1>4
<1>6. d <= q <=> 347 + 32 * d <= SendMax
  <2> HIDE DEF q, d
  <2> QED BY <1>3, <1>4
<1> QED BY <1>1, <1>5, <1>6

-----------------------------------------------------------------------------
(* The file.                                                               *)

\* SEND_FILE holds what handleFileEncryptionAndSend makes of the file.
FileRequestInv ==
  /\ fileSize \in FileSize
  /\ \/ fileRequest = Nothing
     \/ \E sent \in SentOf(HEADER_SIZE + FileRequest(0).payloadSize) :
          fileRequest = FileRequest(sent)

\* What SEND_FILE tells of a file that arrives whole.
LEMMA WholeFits ==
  ASSUME NEW sent, sent \in SentOf(HEADER_SIZE + FileRequest(0).payloadSize),
         fileRequest = FileRequest(sent), fileSize \in Nat
  PROVE  /\ ArrivesWhole => fileSize <= LargestFile
         /\ ArrivesWhole => 2 * (fileSize + 1) <= WordSize
<1> DEFINE c == EncryptedSize(fileSize)
           w == Word(259 + c)
<1>1. /\ fileRequest.plain = Word(fileSize)
      /\ fileRequest.contentSize = Word(c)
      /\ fileRequest.payloadSize = w
      /\ fileRequest.sent = sent
      /\ FileRequest(0).payloadSize = w
  BY DEF FileRequest, ReadFileContents
<1> SUFFICES ASSUME ArrivesWhole
             PROVE  fileSize <= LargestFile /\ 2 * (fileSize + 1) <= WordSize
  OBVIOUS
<1>2. Word(fileSize) = fileSize
  BY <1>1 DEF ArrivesWhole
<1>3. /\ c = 2 * (fileSize - (fileSize % 16) + 32)
      /\ c = 32 * (fileSize \div 16) + 64 /\ c \in Nat
  BY <1>2, EncryptedSizeOf
<1>4. w = 259 + c
  BY <1>1, <1>3 DEF ArrivesWhole
<1>5. sent = 24 + w /\ sent \in SentOf(24 + w)
  BY <1>1 DEF ArrivesWhole, HEADER_SIZE
<1>6. 24 + 259 + c <= SendMax
  <2> HIDE DEF c, w
  <2> QED BY <1>3, <1>4, <1>5 DEF SentOf
<1>7. fileSize <= LargestFile
  <2>1. 347 + 32 * (fileSize \div 16) <= SendMax
    BY <1>3, <1>6
  <2> QED BY <2>1, LargestFileIs
<1>8. 2 * (fileSize + 1) <= WordSize
  BY <1>3, <1>6
<1> QED BY <1>7, <1>8

\* A file that one send takes arrives whole.
LEMMA FittingArrives ==
  ASSUME NEW sent, sent \in SentOf(HEADER_SIZE + FileRequest(0).payloadSize),
         fileRequest = FileRequest(sent), fileSize \in Nat, fileSize <= LargestFile
  PROVE  ArrivesWhole
<1> DEFINE c == EncryptedSize(fileSize)
           w == Word(259 + c)
<1>1. /\ fileRequest.plain = Word(fileSize)
      /\ fileRequest.contentSize = Word(c)
      /\ fileRequest.payloadSize = w
      /\ fileRequest.sent = sent
      /\ FileRequest(0).payloadSize = w
  BY DEF FileRequest, ReadFileContents
<1>2. 347 + 32 * (fileSize \div 16) <= SendMax
  BY LargestFileIs
<1>3. fileSize < WordSize
  BY <1>2
<1>4. Word(fileSize) = fileSize
  BY <1>3, WordKeeps
<1>5. /\ c = 2 * (fileSize - (fileSize % 16) + 32)
      /\ c = 32 * (fileSize \div 16) + 64 /\ c \in Nat
  BY <1>4, EncryptedSizeOf
<1>6. 24 + 259 + c <= SendMax
  BY <1>2, <1>5
<1>7. Word(c) = c /\ w = 259 + c
  <2>1. c < WordSize /\ 259 + c \in Nat /\ 259 + c < WordSize
    BY <1>5, <1>6
  <2> HIDE DEF c
  <2> QED BY <1>5, <2>1, WordKeeps
<1>8. sent = 24 + w
  <2>1. sent \in SentOf(24 + w)
    BY <1>1 DEF HEADER_SIZE
  <2> HIDE DEF c, w
  <2> QED BY <1>5, <1>6, <1>7, <2>1 DEF SentOf
<1> QED BY <1>1, <1>4, <1>5, <1>7, <1>8 DEF ArrivesWhole, HEADER_SIZE

\* A file arrives whole exactly up to LargestFile, for words and sends of any
\* size (handleFileEncryptionAndSend, encrypt_with_aes, createFilePayloadBuffer
\* and sendRequest).
THEOREM WholeUpToLargest == Spec => []FileArrivesWhole
<1>1. Init => FileRequestInv
  BY DEF Init, FileRequestInv
<1>2. FileRequestInv /\ [Next]_vars => FileRequestInv'
  <2> SUFFICES ASSUME FileRequestInv, [Next]_vars
               PROVE  FileRequestInv'
    OBVIOUS
  <2>1. CASE SendFile
    BY <2>1 DEF SendFile, infoVars, FileRequestInv, FileRequest, ReadFileContents, SentOf
  <2>2. CASE UNCHANGED <<fileSize, fileRequest>>
    BY <2>2 DEF FileRequestInv, FileRequest, ReadFileContents, SentOf
  <2>3. SendFile \/ UNCHANGED <<fileSize, fileRequest>>
    BY DEF Next, ReadTransferInfo, Connect, SendName, SendKey, SendStatus, infoVars,
           fieldVars, vars
  <2> QED BY <2>1, <2>2, <2>3
<1>3. FileRequestInv => FileArrivesWhole
  <2> SUFFICES ASSUME FileRequestInv, fileRequest # Nothing
               PROVE  /\ ArrivesWhole <=> fileSize <= LargestFile
                      /\ ArrivesWhole => fileSize < WordSize \div 2
    BY DEF FileArrivesWhole
  <2>1. fileSize \in Nat
    BY DEF FileRequestInv
  <2>2. PICK sent \in SentOf(HEADER_SIZE + FileRequest(0).payloadSize) :
          fileRequest = FileRequest(sent)
    BY DEF FileRequestInv
  <2>3. ArrivesWhole => fileSize <= LargestFile /\ 2 * (fileSize + 1) <= WordSize
    BY <2>1, <2>2, WholeFits
  <2>4. fileSize <= LargestFile => ArrivesWhole
    BY <2>1, <2>2, FittingArrives
  <2>5. 2 * (fileSize + 1) <= WordSize => fileSize < WordSize \div 2
    BY <2>1
  <2> QED BY <2>3, <2>4, <2>5
<1> QED BY <1>1, <1>2, <1>3, PTL DEF Spec

-----------------------------------------------------------------------------
(* The name.                                                               *)

LEMMA MinIs ==
  ASSUME NEW S, S \subseteq Int, NEW m \in S, \A y \in S : m <= y
  PROVE  Min(S) = m
<1>1. \E x \in S : \A y \in S : x <= y
  OBVIOUS
<1>2. Min(S) \in S /\ \A y \in S : Min(S) <= y
  BY <1>1, Zenon DEF Min
<1>3. Min(S) <= m /\ m <= Min(S) /\ Min(S) \in Int /\ m \in Int
  BY <1>2
<1> QED BY <1>3

\* A field that begins with a text, and has zeros behind it, holds that text.
LEMMA TextOf ==
  ASSUME NEW text \in Seq(Nat \ {0}), NEW field \in Seq(Nat), Len(text) <= Len(field),
         \A i \in 1 .. Len(field) : field[i] = IF i <= Len(text) THEN text[i] ELSE 0
  PROVE  Text(field) = text
<1> DEFINE L == Len(text)
           Z == {i - 1 : i \in {j \in DOMAIN field : field[j] = 0}} \cup {Len(field)}
<1>1. L \in Nat /\ Len(field) \in Nat /\ \A i \in 1 .. L : text[i] \in Nat \ {0}
  BY ElementOfSeq
<1>2. {j \in DOMAIN field : field[j] = 0} = L + 1 .. Len(field)
  BY <1>1
<1>3. Min(Z) = L
  <2>1. L \in Z
    <3>1. CASE L = Len(field)
      BY <3>1
    <3>2. CASE L < Len(field)
      <4>1. L + 1 \in {j \in DOMAIN field : field[j] = 0} /\ L = (L + 1) - 1
        BY <1>1, <1>2, <3>2
      <4> QED BY <4>1
    <3> QED BY <1>1, <3>1, <3>2
  <2>2. Z \subseteq Int /\ \A y \in Z : L <= y
    BY <1>1, <1>2
  <2> HIDE DEF Z
  <2> QED BY <2>1, <2>2, MinIs
<1>4. Text(field) = SubSeq(field, 1, L)
  BY <1>3 DEF Text
<1>5. \A i \in 1 .. L : field[i] = text[i] /\ field[i] \in Nat
  BY <1>1, SMTT(30)
<1>6. /\ SubSeq(field, 1, L) \in Seq(Nat) /\ Len(SubSeq(field, 1, L)) = L
      /\ \A i \in 1 .. L : SubSeq(field, 1, L)[i] = text[i]
  BY <1>1, <1>5, SubSeqProperties
<1>7. text \in Seq(Nat)
  OBVIOUS
<1> QED BY <1>4, <1>6, <1>7, SeqEqual

\* strncpy keeps a text that is no longer than what it copies.
LEMMA CopyKeepsText ==
  ASSUME NEW text \in Seq(Nat \ {0}), NEW n \in Nat, NEW size \in Nat \ {0},
         Len(text) <= n, n <= size
  PROVE  Text(CopyN(text, n, size)) = text /\ CopyN(text, n, size) # <<>>
<1> DEFINE field == CopyN(text, n, size)
           L == Len(text)
<1>1. L \in Nat /\ \A i \in 1 .. L : text[i] \in Nat \ {0}
  BY ElementOfSeq
<1>2. Min({n, L}) = L
  <2>1. L \in {n, L} /\ {n, L} \subseteq Int /\ \A y \in {n, L} : L <= y
    BY <1>1
  <2> QED BY <2>1, MinIs
<1>3. field = [i \in 1 .. size |-> IF i <= L THEN text[i] ELSE 0]
  BY <1>2 DEF CopyN
<1>4. \A i \in 1 .. size : field[i] = IF i <= L THEN text[i] ELSE 0
  BY <1>3
<1>5. field \in Seq(Nat) /\ Len(field) = size
  <2>1. field \in [1 .. size -> Nat]
    BY <1>1, <1>3
  <2> HIDE DEF field
  <2> QED BY <2>1, SeqDef
<1> HIDE DEF field
<1>6. Text(field) = text
  BY <1>1, <1>4, <1>5, TextOf
<1>7. field # <<>>
  BY <1>5
<1> QED BY <1>6, <1>7 DEF field

\* Past readTransferInfo the name is short, and what was copied of it is it.
NameInv ==
  /\ name \in String
  /\ pc \in {"connect", "name", "key"} => Len(name) <= 254
  /\ pc = "key" => nameField # <<>>
  /\ nameField # <<>> => nameField = CopyN(name, 254, 255) /\ Len(name) <= 254
  /\ keyNameField # <<>> => keyNameField = CopyN(name, 254, 255) /\ nameField # <<>>

\* The whole name, whatever it is, reaches the server with the registration or
\* reconnection and with the key (readTransferInfo, handleConnectionRequest,
\* handleRSARegistration).
THEOREM NamesArrive == Spec => []NameArrives
<1>1. Init => NameInv
  BY DEF Init, NameInv
<1>2. NameInv /\ [Next]_vars => NameInv'
  <2> SUFFICES ASSUME NameInv, [Next]_vars
               PROVE  NameInv'
    OBVIOUS
  <2>0. name \in Seq(Nat \ {0}) /\ Len(name) \in Nat
    BY DEF NameInv
  <2>1. CASE ReadTransferInfo
    <3>1. Thrown = "" => Len(name) <= 254
      BY <2>0 DEF Thrown, ThrownFor
    <3>2. /\ pc = "read" /\ UNCHANGED <<name, nameField, keyNameField>>
          /\ \/ Thrown = "" /\ pc' = "connect"
             \/ pc' = "failed"
      BY <2>1 DEF ReadTransferInfo, infoVars, fieldVars
    <3> QED BY <3>1, <3>2 DEF NameInv
  <2>2. CASE Connect
    BY <2>2 DEF Connect, infoVars, NameInv
  <2>3. CASE SendName
    <3>1. nameField' = CopyN(name, 254, 255) /\ nameField' # <<>>
      BY <2>0, <2>3, CopyKeepsText DEF SendName, NameInv, NAME_FIELD_SIZE
    <3> QED BY <2>3, <3>1 DEF SendName, infoVars, NameInv
  <2>4. CASE SendKey
    BY <2>4 DEF SendKey, infoVars, NameInv, NAME_FIELD_SIZE
  <2>5. CASE SendFile \/ SendStatus
    BY <2>5 DEF SendFile, SendStatus, infoVars, NameInv
  <2>6. CASE UNCHANGED vars
    BY <2>6 DEF vars, infoVars, fieldVars, NameInv
  <2> QED BY <2>1, <2>2, <2>3, <2>4, <2>5, <2>6 DEF Next
<1>3. NameInv => NameArrives
  <2> SUFFICES ASSUME NameInv PROVE NameArrives
    OBVIOUS
  <2>1. Len(name) <= 254 => Text(CopyN(name, 254, 255)) = name
    BY CopyKeepsText DEF NameInv
  <2> QED BY <2>1 DEF NameInv, NameArrives
<1> QED BY <1>1, <1>2, <1>3, PTL DEF Spec

-----------------------------------------------------------------------------
(* The path.                                                               *)

\* What was copied of the path.
PathInv ==
  /\ filePath \in String
  /\ pc = "status" => fileNameField = CopyN(filePath, 255, 255)
  /\ statusName # <<>> =>
       fileNameField = CopyN(filePath, 255, 255) /\ statusName = Append(filePath, 0)

\* If no path is longer than 255 characters, as the comment in
\* createFilePayloadBuffer takes for granted, the status names the file that was
\* sent (createFilePayloadBuffer, sendCRCStatusRequest).
THEOREM PathsAgree ==
  ASSUME \A path \in String : Len(path) <= 255
  PROVE  Spec => []StatusNamesTheFile
<1>1. Init => PathInv
  BY DEF Init, PathInv
<1>2. PathInv /\ [Next]_vars => PathInv'
  <2> SUFFICES ASSUME PathInv, [Next]_vars
               PROVE  PathInv'
    OBVIOUS
  <2>1. CASE SendFile
    BY <2>1 DEF SendFile, createFilePayloadBuffer, infoVars, PathInv
  <2>2. CASE SendStatus
    BY <2>2 DEF SendStatus, infoVars, PathInv
  <2>3. CASE ReadTransferInfo \/ Connect \/ SendName \/ SendKey
    <3>1. pc' # "status" /\ UNCHANGED <<filePath, fileNameField, statusName>>
      BY <2>3 DEF ReadTransferInfo, Connect, SendName, SendKey, infoVars, fieldVars
    <3> QED BY <3>1 DEF PathInv
  <2>4. CASE UNCHANGED vars
    BY <2>4 DEF vars, infoVars, fieldVars, PathInv
  <2> QED BY <2>1, <2>2, <2>3, <2>4 DEF Next
<1>3. PathInv => StatusNamesTheFile
  <2> SUFFICES ASSUME PathInv, statusName # <<>>
               PROVE  Text(statusName) = Text(fileNameField)
    BY DEF StatusNamesTheFile
  <2>1. filePath \in Seq(Nat \ {0}) /\ Len(filePath) <= 255 /\ Len(filePath) \in Nat
    BY DEF PathInv
  <2>2. Text(fileNameField) = filePath
    BY <2>1, CopyKeepsText DEF PathInv
  <2>3. Text(statusName) = filePath
    <3>1. /\ statusName \in Seq(Nat) /\ Len(statusName) = Len(filePath) + 1
          /\ \A i \in 1 .. Len(filePath) : statusName[i] = filePath[i]
          /\ statusName[Len(filePath) + 1] = 0
      BY <2>1, SMTT(30) DEF PathInv
    <3> QED BY <2>1, <3>1, TextOf
  <2> QED BY <2>2, <2>3
<1> QED BY <1>1, <1>2, <1>3, PTL DEF Spec
=============================================================================
