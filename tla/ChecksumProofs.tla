--------------------------- MODULE ChecksumProofs ----------------------------
(***************************************************************************)
(* Proofs about readCrc, for files of any content and length, read in any  *)
(* pieces and written to any number of times meanwhile.  What memcrc       *)
(* calculates of the bytes is the subject of MemcrcProofs.                 *)
(***************************************************************************)
EXTENDS MemcrcProofs

-----------------------------------------------------------------------------
(* Reading the rest of a file.                                             *)

\* The smaller of two lengths.
LEMMA MinOfTwo ==
  ASSUME NEW a \in Nat, NEW b \in Nat
  PROVE  Min({a, b}) = IF a <= b THEN a ELSE b
<1> DEFINE least == IF a <= b THEN a ELSE b
<1>1. least \in {a, b} /\ \A y \in {a, b} : least <= y
  OBVIOUS
<1>2. \A x \in {a, b} : (\A y \in {a, b} : x <= y) => x = least
  OBVIOUS
<1> HIDE DEF least
<1>3. Min({a, b}) = least
  BY <1>1, <1>2 DEF Min
<1> QED
  BY <1>3 DEF least

\* A content is a sequence of bytes.
LEMMA Bytes ==
  ASSUME ChecksumAssumption, NEW v \in Content
  PROVE  v \in Seq(0 .. 255) /\ Len(v) \in Nat /\ \A i \in 1 .. Len(v) : v[i] \in 0 .. 255
<1>1. v \in Seq(0 .. 255)
  BY DEF ChecksumAssumption
<1> QED
  BY <1>1, ElementOfSeq, LenProperties

\* What the system can return of an open file: the bytes after those read, up
\* to the size noted or to the end of the file, whichever comes first.
LEMMA RestOfFile ==
  ASSUME ChecksumAssumption, file \in Content, size \in Nat, Len(buffer) \in Nat
  PROVE  /\ Rest \in Seq(0 .. 255)
         /\ Len(buffer) + Len(Rest) <= size \/ Len(Rest) = 0
         /\ \A i \in 1 .. Len(Rest) :
              /\ Len(buffer) + i <= Len(file)
              /\ Rest[i] = file[Len(buffer) + i]
         /\ Rest = <<>> => Len(buffer) >= size \/ Len(buffer) >= Len(file)
<1> DEFINE n == Len(buffer)
           l == Len(file)
           end == Min({size, l})
<1>1. n \in Nat /\ l \in Nat /\ \A i \in 1 .. l : file[i] \in 0 .. 255
  BY Bytes
<1>2. end \in Nat /\ end <= size /\ end <= l /\ (end = size \/ end = l)
  BY <1>1, MinOfTwo
<1>3. Rest = SubSeq(file, n + 1, end)
  BY DEF Rest
<1> HIDE DEF n, l, end
<1>4. \A i \in n + 1 .. end : file[i] \in 0 .. 255
  BY <1>1, <1>2
<1>5. /\ Rest \in Seq(0 .. 255)
      /\ Len(Rest) = IF n + 1 <= end THEN end - (n + 1) + 1 ELSE 0
      /\ \A i \in 1 .. end - (n + 1) + 1 : Rest[i] = file[n + 1 + i - 1]
  <2>1. n + 1 \in Int /\ end \in Int
    BY <1>1, <1>2
  <2> QED
    BY <1>3, <1>4, <2>1, SubSeqProperties, SMTT(60)
<1>6. n + Len(Rest) <= size \/ Len(Rest) = 0
  BY <1>1, <1>2, <1>5
<1>7. \A i \in 1 .. Len(Rest) : n + i <= l /\ Rest[i] = file[n + i]
  <2> SUFFICES ASSUME NEW i \in 1 .. Len(Rest)
               PROVE  n + i <= l /\ Rest[i] = file[n + i]
    OBVIOUS
  <2>1. n + 1 <= end /\ i \in 1 .. end - (n + 1) + 1
    BY <1>1, <1>2, <1>5
  <2>2. n + 1 + i - 1 = n + i /\ n + i <= end
    BY <1>1, <1>2, <2>1
  <2> QED
    BY <1>1, <1>2, <1>5, <2>1, <2>2
<1>8. Rest = <<>> => n >= size \/ n >= l
  <2>1. Rest = <<>> => Len(Rest) = 0
    BY EmptySeq
  <2> QED
    BY <1>1, <1>2, <1>5, <2>1
<1> QED
  BY <1>5, <1>6, <1>7, <1>8 DEF n, l

-----------------------------------------------------------------------------
(* The invariant.                                                          *)

\* Before the file is opened nothing was read.
LEMMA ReadInit ==
  ASSUME ChecksumAssumption, Init
  PROVE  ReadInv
<1>1. ChecksumTypeOK
  BY DEF Init, ChecksumTypeOK, ErrorResult, Word
<1>2. VersionsInv /\ BytesInv /\ ResultInv
  BY FS_EmptySet DEF Init, VersionsInv, BytesInv, ResultInv
<1> QED
  BY <1>1, <1>2 DEF ReadInv

\* The size noted is the length of the first version.
LEMMA OpenInv ==
  ASSUME ChecksumAssumption, ReadInv, Open
  PROVE  ReadInv'
<1>1. /\ pc = "open" /\ pc' = "read" /\ file # NoFile /\ size' = Len(file)
      /\ versions' = {file} /\ UNCHANGED <<file, buffer, result>>
  BY DEF Open
<1>2. file \in Content /\ buffer = <<>> /\ result \in Word
  BY <1>1 DEF ReadInv, ChecksumTypeOK, VersionsInv
<1>3. Len(file) \in Nat /\ Len(buffer) = 0
  BY <1>2, Bytes
<1>4. ChecksumTypeOK'
  BY <1>1, <1>2, <1>3 DEF ChecksumTypeOK
<1>5. VersionsInv'
  BY <1>1, FS_Singleton DEF VersionsInv
<1>6. BytesInv' /\ ResultInv'
  BY <1>1, <1>2, <1>3 DEF BytesInv, ResultInv
<1> QED
  BY <1>4, <1>5, <1>6 DEF ReadInv

\* A file that cannot be opened is an error.
LEMMA CannotOpenInv ==
  ASSUME ReadInv, CannotOpen
  PROVE  ReadInv'
<1>1. /\ pc = "open" /\ pc' = "returned" /\ file = NoFile /\ result' = ErrorResult
      /\ UNCHANGED <<file, size, buffer, versions>>
  BY DEF CannotOpen
<1>2. ChecksumTypeOK'
  BY <1>1 DEF ReadInv, ChecksumTypeOK, ErrorResult, Word
<1>3. VersionsInv' /\ BytesInv' /\ ResultInv'
  BY <1>1 DEF ReadInv, VersionsInv, BytesInv, ResultInv
<1> QED
  BY <1>2, <1>3 DEF ReadInv

\* Another piece of the file goes where it was in the file.
LEMMA ReadSomeInv ==
  ASSUME ChecksumAssumption, ReadInv, ReadSome
  PROVE  ReadInv'
<1>1. pc = "read" /\ UNCHANGED <<pc, file, size, result, versions>>
  BY DEF ReadSome
<1>2. /\ file \in Content /\ file \in versions /\ size \in Nat /\ Len(buffer) \in Nat
      /\ buffer \in Seq(0 .. 255)
  BY <1>1 DEF ReadInv, ChecksumTypeOK, VersionsInv, BytesInv
<1>3. /\ Rest \in Seq(0 .. 255) /\ Len(Rest) \in Nat
      /\ Len(buffer) + Len(Rest) <= size \/ Len(Rest) = 0
      /\ \A i \in 1 .. Len(Rest) :
           Len(buffer) + i <= Len(file) /\ Rest[i] = file[Len(buffer) + i]
  BY <1>2, RestOfFile, LenProperties
<1>4. PICK k : /\ k \in Nat /\ 0 < k /\ k <= Len(Rest)
               /\ buffer' = buffer \o SubSeq(Rest, 1, k)
  <2>1. PICK k \in {Len(Rest)} \cup {j \in ReadSize : j < Len(Rest)} :
          k > 0 /\ buffer' = buffer \o SubSeq(Rest, 1, k)
    BY Zenon DEF ReadSome
  <2>2. k = Len(Rest) \/ (k \in ReadSize /\ k < Len(Rest))
    BY <2>1, Zenon
  <2>3. k \in Nat
    BY <1>3, <2>2 DEF ChecksumAssumption
  <2> DEFINE l == Len(Rest)
  <2>4. l \in Nat /\ (k = l \/ k < l)
    BY <1>3, <2>2
  <2> HIDE DEF l
  <2>5. 0 < k /\ k <= l
    BY <2>1, <2>3, <2>4
  <2>6. k <= Len(Rest)
    BY <2>5 DEF l
  <2> QED
    BY <2>1, <2>3, <2>5, <2>6, Zenon
<1> DEFINE piece == SubSeq(Rest, 1, k)
<1>5. /\ piece \in Seq(0 .. 255) /\ Len(piece) = k
      /\ \A i \in 1 .. k : piece[i] = Rest[i]
  <2>1. \A i \in 1 .. k : Rest[i] \in 0 .. 255
    <3>1. \A i \in 1 .. Len(Rest) : Rest[i] \in 0 .. 255
      <4> SUFFICES ASSUME NEW i \in 1 .. Len(Rest)
                   PROVE  Rest[i] \in 0 .. 255
        OBVIOUS
      <4>1. Rest \in Seq(0 .. 255)
        BY <1>3
      <4> QED
        BY <4>1, ElementOfSeq, Zenon
    <3> DEFINE l == Len(Rest)
    <3>2. l \in Nat /\ k <= l
      BY <1>3, <1>4
    <3> HIDE DEF l
    <3>3. \A i \in 1 .. k : i \in 1 .. l
      BY <1>4, <3>2
    <3> QED
      BY <3>1, <3>3 DEF l
  <2>2. 1 \in Int /\ k \in Int
    BY <1>4
  <2>3. /\ piece \in Seq(0 .. 255)
        /\ Len(piece) = IF 1 <= k THEN k - 1 + 1 ELSE 0
        /\ \A i \in 1 .. k - 1 + 1 : piece[i] = Rest[1 + i - 1]
    BY <2>1, <2>2, SubSeqProperties
  <2> QED
    BY <1>4, <2>3
<1> HIDE DEF piece
<1>6. buffer' = buffer \o piece
  BY <1>4 DEF piece
<1>7. /\ buffer' \in Seq(0 .. 255) /\ Len(buffer') = Len(buffer) + k
      /\ \A i \in 1 .. Len(buffer) + k :
           buffer'[i] = IF i <= Len(buffer) THEN buffer[i] ELSE piece[i - Len(buffer)]
  <2>1. /\ buffer \o piece \in Seq(0 .. 255)
        /\ Len(buffer \o piece) = Len(buffer) + Len(piece)
        /\ \A i \in 1 .. Len(buffer) + Len(piece) :
             (buffer \o piece)[i] = IF i <= Len(buffer) THEN buffer[i] ELSE piece[i - Len(buffer)]
    BY <1>2, <1>5, ConcatProperties, ZenonT(60)
  <2> QED
    BY <1>5, <1>6, <2>1
<1>8. Len(buffer') \in 0 .. size
  <2> DEFINE n == Len(buffer)
             l == Len(Rest)
  <2>1. n \in Nat /\ l \in Nat /\ k \in Nat /\ 0 < k /\ k <= l /\ (n + l <= size \/ l = 0)
    BY <1>2, <1>3, <1>4
  <2> HIDE DEF n, l
  <2>2. n + k \in 0 .. size
    BY <1>2, <2>1
  <2> QED
    BY <1>7, <2>2 DEF n
<1>9. ChecksumTypeOK'
  BY <1>1, <1>8 DEF ReadInv, ChecksumTypeOK
<1>10. VersionsInv'
  BY <1>1 DEF ReadInv, VersionsInv
<1>11. BytesInv'
  <2> SUFFICES ASSUME NEW i \in 1 .. Len(buffer')
               PROVE  \E v \in versions : i <= Len(v) /\ v[i] = buffer'[i]
    BY <1>1, <1>7 DEF BytesInv
  <2>1. CASE i <= Len(buffer)
    <3>1. i \in 1 .. Len(buffer) /\ buffer'[i] = buffer[i]
      BY <1>2, <1>4, <1>7, <2>1
    <3> QED
      BY <3>1 DEF ReadInv, BytesInv
  <2>2. CASE ~(i <= Len(buffer))
    <3> DEFINE n == Len(buffer)
               j == i - n
    <3>1. j \in 1 .. k /\ n + j = i /\ buffer'[i] = piece[j]
      BY <1>2, <1>4, <1>7, <2>2
    <3> HIDE DEF j
    <3>2. buffer'[i] = Rest[j] /\ j \in 1 .. Len(Rest)
      BY <1>3, <1>4, <1>5, <3>1
    <3>3. i <= Len(file) /\ file[i] = buffer'[i]
      BY <1>3, <3>1, <3>2
    <3> QED
      BY <1>2, <3>3
  <2> QED
    BY <2>1, <2>2
<1>12. ResultInv'
  BY <1>1 DEF ResultInv
<1> QED
  BY <1>9, <1>10, <1>11, <1>12 DEF ReadInv

\* The file ends too early only if it is not the version whose size was noted.
LEMMA ReadFailsInv ==
  ASSUME ChecksumAssumption, ReadInv, ReadFails
  PROVE  ReadInv'
<1>1. /\ pc = "read" /\ pc' = "returned" /\ result' = ErrorResult
      /\ Len(buffer) < size /\ Rest = <<>>
      /\ UNCHANGED <<file, size, buffer, versions>>
  BY DEF ReadFails
<1>2. ChecksumTypeOK'
  BY <1>1 DEF ReadInv, ChecksumTypeOK, ErrorResult, Word
<1>3. VersionsInv' /\ BytesInv'
  BY <1>1 DEF ReadInv, VersionsInv, BytesInv
<1>4. versions # {file}
  <2>1. /\ file \in Content /\ size \in Nat /\ Len(buffer) \in Nat
        /\ \E v \in versions : Len(v) = size
    BY <1>1 DEF ReadInv, ChecksumTypeOK, VersionsInv
  <2>2. Len(buffer) >= size \/ Len(buffer) >= Len(file)
    BY <1>1, <2>1, RestOfFile
  <2>3. Len(file) # size
    BY <1>1, <2>1, <2>2, Bytes
  <2> QED
    BY <2>1, <2>3
<1>5. ResultInv'
  BY <1>1, <1>4 DEF ResultInv
<1> QED
  BY <1>2, <1>3, <1>5 DEF ReadInv

\* memcrc is applied to a full buffer.
LEMMA CalculateInv ==
  ASSUME ReadInv, Calculate
  PROVE  ReadInv'
<1>1. /\ pc = "read" /\ pc' = "returned" /\ result' \in memcrcOutcomes(buffer)
      /\ Len(buffer) = size /\ UNCHANGED <<file, size, buffer, versions>>
  BY DEF Calculate
<1>2. result' \in Word
  BY <1>1 DEF memcrcOutcomes, memcrc, Word
<1>3. ChecksumTypeOK'
  BY <1>1, <1>2 DEF ReadInv, ChecksumTypeOK
<1>4. VersionsInv' /\ BytesInv'
  BY <1>1 DEF ReadInv, VersionsInv, BytesInv
<1>5. ResultInv'
  <2>1. result' \in memcrcOutcomes(buffer') /\ Len(buffer') = size'
    BY <1>1
  <2> QED
    BY <2>1 DEF ResultInv
<1> QED
  BY <1>3, <1>4, <1>5 DEF ReadInv

\* A new content is a new version.
LEMMA FileWrittenInv ==
  ASSUME ChecksumAssumption, ReadInv, FileWritten
  PROVE  ReadInv'
<1>1. /\ pc = "read" /\ file' \in Content /\ versions' = versions \cup {file'}
      /\ UNCHANGED <<pc, size, buffer, result>>
  BY DEF FileWritten
<1>2. file # NoFile /\ file' # NoFile
  BY <1>1 DEF ReadInv, VersionsInv, ChecksumAssumption
<1>3. ChecksumTypeOK'
  BY <1>1 DEF ReadInv, ChecksumTypeOK
<1>4. IsFiniteSet(versions')
  BY <1>1, FS_AddElement DEF ReadInv, VersionsInv
<1>5. VersionsInv'
  BY <1>1, <1>2, <1>4 DEF ReadInv, VersionsInv
<1>6. BytesInv' /\ ResultInv'
  BY <1>1 DEF ReadInv, BytesInv, ResultInv
<1> QED
  BY <1>3, <1>5, <1>6 DEF ReadInv

\* Every step of readCrc and of those who write to its file, and none, keeps
\* the invariant.
LEMMA ReadStep ==
  ASSUME ChecksumAssumption, ReadInv, [Next]_vars
  PROVE  ReadInv'
<1>1. CASE UNCHANGED vars
  BY <1>1 DEF vars, ReadInv, ChecksumTypeOK, VersionsInv, BytesInv, ResultInv
<1> QED
  BY <1>1, OpenInv, CannotOpenInv, ReadSomeInv, ReadFailsInv, CalculateInv, FileWrittenInv
  DEF Next

-----------------------------------------------------------------------------
(* The theorems.                                                           *)

\* The inductive invariant holds, for any contents, any sizes of the pieces
\* read and any number of versions.
THEOREM ReadInvariance == Spec => []ReadInv
<1>1. Init => ReadInv
  BY ReadInit, ChecksumAssumption
<1>2. ReadInv /\ [Next]_vars => ReadInv'
  BY ReadStep, ChecksumAssumption
<1> QED
  BY <1>1, <1>2, PTL DEF Spec

\* Every variable keeps its type; no more is read than the size noted, the
\* room readCrc has for it.
THEOREM ChecksumTypeCorrectness == Spec => []ChecksumTypeOK
<1>1. ReadInv => ChecksumTypeOK
  BY DEF ReadInv
<1> QED
  BY <1>1, ReadInvariance, PTL

\* Of a file that keeps one content, the buffer is the whole file.
LEMMA QuietBuffer ==
  ASSUME ChecksumAssumption, ReadInv, pc = "returned", file # NoFile, Cardinality(versions) <= 1
  PROVE  result \in memcrcOutcomes(file) /\ size = Len(file)
<1>1. /\ file \in Content /\ file \in versions /\ IsFiniteSet(versions)
      /\ buffer \in Seq(0 .. 255)
  BY DEF ReadInv, ChecksumTypeOK, VersionsInv, BytesInv
<1>2. versions = {file}
  <2>1. Cardinality(versions) \in Nat /\ Cardinality(versions) # 0
    BY <1>1, FS_CardinalityType, FS_EmptySet
  <2>2. Cardinality(versions) = 1
    BY <2>1
  <2> QED
    BY <1>1, <2>2, FS_Singleton
<1>3. result \in memcrcOutcomes(buffer) /\ Len(buffer) = size /\ size = Len(file)
  BY <1>2 DEF ReadInv, ResultInv, VersionsInv
<1>4. \A i \in 1 .. Len(buffer) : buffer[i] = file[i]
  BY <1>2 DEF ReadInv, BytesInv
<1>5. buffer = file
  BY <1>1, <1>3, <1>4, Bytes, SeqEqual
<1> QED
  BY <1>3, <1>5

\* readCrc applies memcrc to the whole file, unless others write to the file
\* meanwhile.
THEOREM QuietFileIsReadWhole ==
  Spec => [](pc = "returned" /\ Cardinality(versions) <= 1 =>
               result \in IF file = NoFile THEN {ErrorResult} ELSE memcrcOutcomes(file))
<1>1. ReadInv => (pc = "returned" /\ Cardinality(versions) <= 1 =>
                    result \in IF file = NoFile THEN {ErrorResult} ELSE memcrcOutcomes(file))
  BY QuietBuffer, ChecksumAssumption DEF ReadInv, VersionsInv
<1> QED
  BY <1>1, ReadInvariance, PTL

\* Of a file that nobody writes to, of any length an int can count and in however
\* many pieces it is read, readCrc returns the cksum.
THEOREM QuietFileGetsItsCksum == Spec => []QuietFileHasItsCksum
<1>1. ASSUME ReadInv PROVE QuietFileHasItsCksum
  <2>1. CASE file = NoFile
    BY <1>1, <2>1 DEF ReadInv, VersionsInv, QuietFileHasItsCksum
  <2>2. CASE file # NoFile
    <3> SUFFICES ASSUME pc = "returned", Cardinality(versions) <= 1, size <= IntMax
                 PROVE  result = Cksum(file)
      BY <2>2 DEF QuietFileHasItsCksum
    <3>1. result \in memcrcOutcomes(file) /\ Len(file) <= IntMax
      BY <1>1, <2>2, QuietBuffer, ChecksumAssumption
    <3>2. file \in Seq(0 .. 255)
      BY <1>1, <2>2, Bytes, ChecksumAssumption DEF ReadInv, ChecksumTypeOK
    <3>3. memcrcOutcomes(file) = {Cksum(file)}
      BY <3>1, <3>2, MemcrcIsCksum, Zenon
    <3> QED
      BY <3>1, <3>3
  <2> QED
    BY <2>1, <2>2
<1> QED
  BY <1>1, ReadInvariance, PTL

\* If readCrc does not fail, it returns the cksum of bytes that were in the file
\* in their places, as many as there were when it was opened, however often
\* others write to the file meanwhile; of more bytes than an int can count, it
\* may return something else.
THEOREM TornReadsAreReads == Spec => []TornReadIsStillRead
<1>1. ASSUME ReadInv PROVE TornReadIsStillRead
  <2> SUFFICES ASSUME pc = "returned", result # ErrorResult
               PROVE  /\ size <= IntMax => result = Cksum(buffer)
                      /\ Len(buffer) = size
                      /\ \A i \in 1 .. size :
                           \E v \in versions : i <= Len(v) /\ v[i] = buffer[i]
    BY DEF TornReadIsStillRead
  <2>1. /\ result \in memcrcOutcomes(buffer) /\ Len(buffer) = size
        /\ buffer \in Seq(0 .. 255)
    BY <1>1 DEF ReadInv, VersionsInv, ResultInv, BytesInv
  <2>2. ASSUME size <= IntMax PROVE result = Cksum(buffer)
    <3>1. Len(buffer) <= IntMax
      BY <2>1, <2>2
    <3>2. memcrcOutcomes(buffer) = {Cksum(buffer)}
      BY <2>1, <3>1, MemcrcIsCksum, Zenon
    <3> QED
      BY <2>1, <3>2
  <2> QED
    BY <1>1, <2>1, <2>2 DEF ReadInv, BytesInv
<1> QED
  BY <1>1, ReadInvariance, PTL
=============================================================================
