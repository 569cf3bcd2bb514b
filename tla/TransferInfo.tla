---------------------------- MODULE TransferInfo ----------------------------
(***************************************************************************)
(* What becomes of the fields of transfer.info: readTransferInfo parses    *)
(* them, the port, the name and the file path go into an address and into  *)
(* fields of fixed size in the requests, and the file at the path is read, *)
(* encrypted and sent.  The limits the code checks, the sizes of the       *)
(* fields and the widths of the sizes are in different places.             *)
(*                                                                         *)
(* A std::string is a sequence of characters other than 0; of the file     *)
(* only the size matters here.                                             *)
(***************************************************************************)
EXTENDS FiniteSetsExt, Integers, Sequences

CONSTANTS
  String,      \* bound: the names and paths that may be in transfer.info
  PortText,    \* what may stand after the colon: the number stoi reads, or
  NotANumber,  \*   text that does not begin with a number
  TooBig,      \*   a number that is no int
  NoColon,     \*   no colon at all
  FileSize,    \* bound: the sizes the file at the path may have
  WordSize,    \* 2^32: how many values a uint32_t or unsigned int has
  SendMax      \* the most bytes one send takes

ASSUME TransferInfoAssumption ==
  /\ String \subseteq Seq(Nat \ {0})
  /\ PortText \subseteq Int \cup {NotANumber, TooBig, NoColon}
  /\ {NotANumber, TooBig, NoColon} \cap Int = {}
  /\ FileSize \subseteq Nat
  /\ WordSize \in Nat /\ SendMax \in Nat /\ 2 * SendMax < WordSize

VARIABLES
  portText, name, filePath,  \* the lines of transfer.info
  fileSize,                  \* the size of the file at filePath
  pc,                        \* the next thing handleClient does with them
  error,                     \* the exception readTransferInfo threw, or ""
  port,                      \* TransferInfo::port
  sinPort,                   \* the port connect() is called with
  nameField,                 \* the name in REGISTRATION or RECONNECT
  keyNameField,              \* the name in SEND_PUBLIC_KEY
  fileNameField,             \* the path in SEND_FILE
  fileRequest,               \* the sizes in SEND_FILE: bytes of the file that
                             \*   are in it, contentSize, payloadSize, and how
                             \*   many bytes of it were sent
  statusName                 \* the payload of CRC_CORRECT

infoVars  == <<portText, name, filePath, fileSize>>
fieldVars == <<sinPort, nameField, keyNameField, fileNameField, fileRequest,
               statusName>>
vars      == <<infoVars, pc, error, port, fieldVars>>

NAME_FIELD_SIZE == 255
BLOCKSIZE       == 16      \* CryptoPP::AES::BLOCKSIZE
HEADER_SIZE     == 32 - 8  \* sizeof(Request) - sizeof(request.payload)

Nothing == [plain |-> 0, contentSize |-> 0, payloadSize |-> 0, sent |-> 0]

Init ==
  /\ portText \in PortText /\ name \in String /\ filePath \in String
  /\ fileSize \in FileSize
  /\ pc = "read" /\ error = "" /\ port = 0
  /\ sinPort = 0
  /\ nameField = <<>> /\ keyNameField = <<>>
  /\ fileNameField = <<>> /\ fileRequest = Nothing /\ statusName = <<>>

-----------------------------------------------------------------------------
\* The exceptions of readTransferInfo, in the order of its checks; the last
\* two are stoi's.
ThrownFor(longest) ==
  IF Len(name) > longest THEN "runtime_error"
  ELSE IF portText = NoColon THEN "runtime_error"
  ELSE IF portText = NotANumber THEN "invalid_argument"
  ELSE IF portText = TooBig THEN "out_of_range"
  ELSE ""

\* Broken on purpose, as a mutant: the limit is the size of the field, not
\* leaving room for a final 0.
ThrownLate == ThrownFor(NAME_FIELD_SIZE)

Thrown == ThrownFor(254)

\* handleClient calls it outside its try block, so any exception ends the run.
ReadTransferInfo ==
  /\ pc = "read"
  /\ error' = Thrown
  /\ IF Thrown = "" THEN port' = portText /\ pc' = "connect"
                    ELSE pc' = "failed" /\ UNCHANGED port
  /\ UNCHANGED <<infoVars, fieldVars>>

\* htons takes an unsigned short.
Connect ==
  /\ pc = "connect"
  /\ sinPort' = port % 2^16
  /\ pc' = "name"
  /\ UNCHANGED <<infoVars, error, port, nameField, keyNameField,
                 fileNameField, fileRequest, statusName>>

\* strncpy of at most n characters into a field that was filled with zeros.
CopyN(text, n, fieldSize) ==
  [i \in 1 .. fieldSize |-> IF i <= Min({n, Len(text)}) THEN text[i] ELSE 0]

\* handleConnectionRequest.
SendName ==
  /\ pc = "name"
  /\ nameField' = CopyN(name, NAME_FIELD_SIZE - 1, NAME_FIELD_SIZE)
  /\ pc' = "key"
  /\ UNCHANGED <<infoVars, error, port, sinPort, keyNameField, fileNameField,
                 fileRequest, statusName>>

\* handleRSARegistration.
SendKey ==
  /\ pc = "key"
  /\ keyNameField' = CopyN(name, NAME_FIELD_SIZE - 1, NAME_FIELD_SIZE)
  /\ pc' = "file"
  /\ UNCHANGED <<infoVars, error, port, sinPort, nameField, fileNameField,
                 fileRequest, statusName>>

\* Broken on purpose, as a mutant: the path keeps room for a final 0.
FilePayloadShort == CopyN(filePath, 254, 255)

\* createFilePayloadBuffer, as far as the path is concerned.
createFilePayloadBuffer == CopyN(filePath, 255, 255)

\* What becomes of a value that is put into 32 bits.
Word(n) == n % WordSize

\* AESWrapper::encrypt, whose length is an unsigned int: an initialization
\* vector, and the text with the padding of CBC mode, at least one byte.
AesSize(length) == BLOCKSIZE + BLOCKSIZE * (length \div BLOCKSIZE + 1)

\* encrypt_with_aes writes two hexadecimal digits for each byte, none of which
\* ends the string createFilePayloadBuffer copies with strcpy.
EncryptedSize(size) == 2 * AesSize(Word(size))

\* readFileContents gets all bytes of the file, whatever they are.
ReadFileContents == fileSize

\* sendRequest: one send, whose result is only compared with -1.  A send of
\* more than it takes moves what it takes (Linux) or nothing (macOS).
SentOf(total) == IF total <= SendMax THEN {total} ELSE {SendMax, 0}

\* Broken on purpose, as a mutant: the payload's size leaves out the path.
FileRequestWithoutPath(sent) ==
  LET content == EncryptedSize(ReadFileContents)
  IN  [plain |-> Word(ReadFileContents), contentSize |-> Word(content),
       payloadSize |-> Word(4 + content), sent |-> sent]

\* The request as handleFileEncryptionAndSend makes it of the file.
FileRequest(sent) ==
  LET content == EncryptedSize(ReadFileContents)
  IN  [plain |-> Word(ReadFileContents), contentSize |-> Word(content),
       payloadSize |-> Word(4 + 255 + content), sent |-> sent]

\* handleFileEncryptionAndSend, up to the first SEND_FILE.
SendFile ==
  /\ pc = "file"
  /\ fileNameField' = createFilePayloadBuffer
  /\ \E sent \in SentOf(HEADER_SIZE + FileRequest(0).payloadSize) :
       fileRequest' = FileRequest(sent)
  /\ pc' = "status"
  /\ UNCHANGED <<infoVars, error, port, sinPort, nameField, keyNameField,
                 statusName>>

\* sendCRCStatusRequest: the path and its final 0.
SendStatus ==
  /\ pc = "status"
  /\ statusName' = Append(filePath, 0)
  /\ pc' = "done"
  /\ UNCHANGED <<infoVars, error, port, sinPort, nameField, keyNameField,
                 fileNameField, fileRequest>>

Next ==
  \/ ReadTransferInfo \/ Connect \/ SendName \/ SendKey
  \/ SendFile \/ SendStatus

Spec == Init /\ [][Next]_vars

-----------------------------------------------------------------------------
(* Properties.                                                             *)

\* What a field holds up to its first 0, or its end.
Text(field) ==
  SubSeq(field, 1, Min({i - 1 : i \in {j \in DOMAIN field : field[j] = 0}}
                         \cup {Len(field)}))

\* The server finds the client's whole name, of any length that
\* readTransferInfo lets through, and the same one with the key: a name cut
\* short could be another client's.
NameArrives ==
  /\ nameField # <<>> => Text(nameField) = name
  /\ keyNameField # <<>> => Text(keyNameField) = Text(nameField)

\* CRC_CORRECT names the file as SEND_FILE did.  createFilePayloadBuffer:
\* "assuming fileName won't exceed 255 chars due to previous validations".
StatusNamesTheFile ==
  statusName # <<>> => Text(statusName) = Text(fileNameField)

\* The largest file whose SEND_FILE one send takes: its encryption adds 17 to
\* 32 bytes and is doubled by the hexadecimal digits.
LargestFile ==
  BLOCKSIZE * ((SendMax - HEADER_SIZE - 4 - 255 - 64) \div 32) + BLOCKSIZE - 1

\* The server can get all of the file out of what was sent.
ArrivesWhole ==
  /\ fileRequest.plain = fileSize
  /\ fileRequest.contentSize = 2 * (fileSize - (fileSize % 16) + 32)
  /\ fileRequest.payloadSize = 4 + 255 + fileRequest.contentSize
  /\ fileRequest.sent = HEADER_SIZE + fileRequest.payloadSize

\* Through the padding, the doubling, the sums and four narrowings to 32 bits,
\* the file arrives whole exactly up to the size whose request one send takes,
\* a little below 2^30 bytes; from there on nothing that was sent is the whole
\* file, whatever wraps around.  Such a file is also small enough for the int
\* with which memcrc walks over it.
FileArrivesWhole ==
  fileRequest # Nothing =>
    /\ ArrivesWhole <=> fileSize <= LargestFile
    /\ ArrivesWhole => fileSize < WordSize \div 2
=============================================================================
