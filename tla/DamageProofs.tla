----------------------------- MODULE DamageProofs -----------------------------
(***************************************************************************)
(* Proofs that the checksum notices damage: bytes changed within four      *)
(* neighbours, in a file of any length an int can count, and zero bytes    *)
(* put in front of a file whose length still takes one byte.               *)
(*                                                                         *)
(* The argument runs memcrc's loop backwards.  The low byte of a word      *)
(* tells which table entry was added last, so words that agree in n bits   *)
(* come from the same entry, and from words that agree in n - 8 bits:      *)
(* equal words four turns later leave nothing that could differ.           *)
(***************************************************************************)
EXTENDS ChecksumProofs

-----------------------------------------------------------------------------
(* One turn.                                                               *)

\* Two words have the same lowest n bits.
LowBitsAgree(s, t, n) == \A d \in 0 .. n - 1 : d \in s <=> d \in t

\* The low bytes of the table's entries tell them apart: their differences are
\* entries, too, and only the first one has none.
LEMMA EntriesTell ==
  ASSUME NEW x \in SUBSET (0 .. 7), NEW y \in SUBSET (0 .. 7),
         LowBitsAgree(crctab[x], crctab[y], 8)
  PROVE  x = y
<1> DEFINE z == SymDiff(x, y)
<1>1. x \in Word /\ y \in Word /\ z \in SUBSET (0 .. 7)
  BY DEF Word, SymDiff
<1>2. TimesX32(z) = SymDiff(TimesX32(x), TimesX32(y))
  BY <1>1, TimesX32IsLinear
<1> HIDE DEF z
<1>3. crctab[x] = TimesX32(x) /\ crctab[y] = TimesX32(y) /\ crctab[z] = TimesX32(z)
  BY <1>1, CrctabAssumption, Zenon DEF CrctabAssumption
<1>4. crctab[z] = SymDiff(crctab[x], crctab[y])
  BY <1>2, <1>3
<1>5. ASSUME NEW d \in 0 .. 7 PROVE d \notin crctab[z]
  <2>1. d \in crctab[x] <=> d \in crctab[y]
    BY DEF LowBitsAgree
  <2> QED
    BY <1>4, <2>1, InSymDiff, Zenon
<1>6. crctab[z] \cap (0 .. 7) = {}
  BY <1>5
<1>7. z = {}
  BY <1>1, <1>6, CrctabAssumption, Zenon DEF CrctabAssumption
<1> QED
  BY <1>7 DEF z, SymDiff

\* Which entry a turn adds.
Index(s, byte) == SymDiff({i - 24 : i \in {j \in s : j >= 24}}, Bits(byte))

\* The index is one of the table's, and its bits are those of the word's top and
\* of the byte.
LEMMA IndexBits ==
  ASSUME NEW s \in Word, NEW byte \in 0 .. 255
  PROVE  /\ Index(s, byte) \in SUBSET (0 .. 7)
         /\ \A d \in 0 .. 7 : d \in Index(s, byte) <=> ~(d + 24 \in s <=> d \in Bits(byte))
<1> DEFINE top  == {i - 24 : i \in {j \in s : j >= 24}}
           bits == Bits(byte)
<1>1. bits \in SUBSET (0 .. 7)
  BY BitsTell
<1>2. top \in SUBSET (0 .. 7)
  BY DEF Word
<1>3. ASSUME NEW d \in 0 .. 7 PROVE d \in top <=> d + 24 \in s
  <2>1. ASSUME d + 24 \in s PROVE d \in top
    <3>1. d + 24 >= 24 /\ d = (d + 24) - 24
      OBVIOUS
    <3> QED
      BY <2>1, <3>1
  <2>2. ASSUME d \in top PROVE d + 24 \in s
    <3>1. PICK i \in s : i >= 24 /\ d = i - 24
      BY <2>2, Zenon
    <3>2. i \in 0 .. 31
      BY DEF Word
    <3>3. i = d + 24
      BY <3>1, <3>2
    <3> QED
      BY <3>3
  <2> QED
    BY <2>1, <2>2
<1>4. Index(s, byte) = SymDiff(top, bits)
  BY DEF Index
<1> HIDE DEF top, bits
<1>5. \A d : d \in Index(s, byte) <=> ~(d \in top <=> d \in bits)
  BY <1>4 DEF SymDiff
<1>6. Index(s, byte) \in SUBSET (0 .. 7)
  BY <1>1, <1>2, <1>5
<1> QED
  BY <1>3, <1>5, <1>6 DEF bits

\* A turn shifts the word by eight, and adds the entry.
LEMMA StepCoefficients ==
  ASSUME NEW s \in Word, NEW byte \in 0 .. 255
  PROVE  /\ CrcStep(s, byte) \in Word
         /\ \A d \in 0 .. 31 :
              d \in CrcStep(s, byte) <=> ~(d - 8 \in s <=> d \in crctab[Index(s, byte)])
<1> DEFINE shifted == {i + 8 : i \in {j \in s : j < 24}}
           entry   == crctab[Index(s, byte)]
<1>1. CrcStep(s, byte) = SymDiff(shifted, entry)
  BY Zenon DEF CrcStep, Index
<1>2. shifted \in Word
  BY DEF Word
<1>3. entry \in Word
  <2>1. Index(s, byte) \in SUBSET (0 .. 7)
    BY IndexBits
  <2>2. Index(s, byte) \in Word
    BY <2>1 DEF Word
  <2>3. entry = TimesX32(Index(s, byte))
    BY <2>1, CrctabAssumption, Zenon DEF CrctabAssumption
  <2> HIDE DEF entry
  <2> QED
    BY <2>2, <2>3, TimesX32IsLinear
<1>4. ASSUME NEW d \in 0 .. 31 PROVE d \in shifted <=> d - 8 \in s
  <2>1. ASSUME d - 8 \in s PROVE d \in shifted
    <3>1. d - 8 < 24 /\ d = (d - 8) + 8
      OBVIOUS
    <3> QED
      BY <2>1, <3>1
  <2>2. ASSUME d \in shifted PROVE d - 8 \in s
    <3>1. PICK i \in s : i < 24 /\ d = i + 8
      BY <2>2, Zenon
    <3>2. i \in 0 .. 31
      BY DEF Word
    <3>3. i = d - 8
      BY <3>1, <3>2
    <3> QED
      BY <3>3
  <2> QED
    BY <2>1, <2>2
<1> HIDE DEF shifted
<1>5. CrcStep(s, byte) \in Word
  BY <1>1, <1>2, <1>3, SymDiffType
<1> HIDE DEF entry
<1>6. \A d : d \in CrcStep(s, byte) <=> ~(d \in shifted <=> d \in entry)
  BY <1>1 DEF SymDiff
<1> QED
  BY <1>4, <1>5, <1>6 DEF entry

\* What the words after a turn have in common, backwards: the entry, and eight
\* bits less of the words before it.
LEMMA StepBackwards ==
  ASSUME NEW s \in Word, NEW t \in Word, NEW b \in 0 .. 255, NEW c \in 0 .. 255,
         NEW n \in 8 .. 32, LowBitsAgree(CrcStep(s, b), CrcStep(t, c), n)
  PROVE  Index(s, b) = Index(t, c) /\ LowBitsAgree(s, t, n - 8)
<1> DEFINE x == Index(s, b)
           y == Index(t, c)
           p == crctab[x]
           q == crctab[y]
<1>1. x \in SUBSET (0 .. 7) /\ y \in SUBSET (0 .. 7)
  BY IndexBits
<1>2. \A d \in 0 .. 31 : d \in CrcStep(s, b) <=> ~(d - 8 \in s <=> d \in p)
  BY StepCoefficients
<1>3. \A d \in 0 .. 31 : d \in CrcStep(t, c) <=> ~(d - 8 \in t <=> d \in q)
  BY StepCoefficients
<1> HIDE DEF x, y
<1>4. ASSUME NEW d \in 0 .. n - 1 PROVE d \in CrcStep(s, b) <=> d \in CrcStep(t, c)
  BY DEF LowBitsAgree
<1>5. LowBitsAgree(p, q, 8)
  <2> SUFFICES ASSUME NEW d \in 0 .. 7 PROVE d \in p <=> d \in q
    BY DEF LowBitsAgree
  <2>1. d - 8 \notin s /\ d - 8 \notin t
    BY DEF Word
  <2>2. d \in 0 .. 31 /\ d \in 0 .. n - 1
    OBVIOUS
  <2> HIDE DEF p, q
  <2> QED
    BY <1>2, <1>3, <1>4, <2>1, <2>2, Zenon
<1>6. x = y
  BY <1>1, <1>5, EntriesTell
<1>7. LowBitsAgree(s, t, n - 8)
  <2> SUFFICES ASSUME NEW d \in 0 .. n - 8 - 1 PROVE d \in s <=> d \in t
    BY DEF LowBitsAgree
  <2>1. d + 8 \in 0 .. 31 /\ d + 8 \in 0 .. n - 1 /\ (d + 8) - 8 = d
    OBVIOUS
  <2>2. p = q
    BY <1>6
  <2> HIDE DEF p, q
  <2>3. d + 8 \in CrcStep(s, b) <=> ~(d \in s <=> d + 8 \in p)
    BY <1>2, <2>1
  <2>4. d + 8 \in CrcStep(t, c) <=> ~(d \in t <=> d + 8 \in p)
    BY <1>3, <2>1, <2>2
  <2> QED
    BY <1>4, <2>1, <2>3, <2>4
<1> QED
  BY <1>6, <1>7 DEF x, y

\* From one word, different bytes select different entries.
LEMMA IndexTells ==
  ASSUME NEW s \in Word, NEW b \in 0 .. 255, NEW c \in 0 .. 255, Index(s, b) = Index(s, c)
  PROVE  b = c
<1>1. Bits(b) \in SUBSET (0 .. 7) /\ Bits(c) \in SUBSET (0 .. 7)
  BY BitsTell
<1>2. ASSUME NEW d \in 0 .. 7 PROVE d \in Bits(b) <=> d \in Bits(c)
  <2>1. d \in Index(s, b) <=> ~(d + 24 \in s <=> d \in Bits(b))
    BY IndexBits
  <2>2. d \in Index(s, c) <=> ~(d + 24 \in s <=> d \in Bits(c))
    BY IndexBits
  <2> QED
    BY <2>1, <2>2
<1>3. Bits(b) = Bits(c)
  BY <1>1, <1>2
<1> QED
  BY <1>3, BitsTell

\* From one word, different bytes lead to different words.
LEMMA ByteTells ==
  ASSUME NEW s \in Word, NEW b \in 0 .. 255, NEW c \in 0 .. 255, CrcStep(s, b) = CrcStep(s, c)
  PROVE  b = c
<1>1. PICK t \in Word : t = s
  OBVIOUS
<1>2. 32 \in 8 .. 32 /\ LowBitsAgree(CrcStep(s, b), CrcStep(t, c), 32)
  BY <1>1 DEF LowBitsAgree
<1>3. Index(s, b) = Index(t, c) /\ LowBitsAgree(s, t, 32 - 8)
  BY <1>2, StepBackwards
<1> QED
  BY <1>1, <1>3, IndexTells

\* With one byte, different words lead to different words.
LEMMA WordTells ==
  ASSUME NEW s \in Word, NEW t \in Word, NEW b \in 0 .. 255, CrcStep(s, b) = CrcStep(t, b)
  PROVE  s = t
<1>1. 32 \in 8 .. 32 /\ LowBitsAgree(CrcStep(s, b), CrcStep(t, b), 32)
  BY DEF LowBitsAgree
<1>2. Index(s, b) = Index(t, b) /\ LowBitsAgree(s, t, 32 - 8)
  BY <1>1, StepBackwards
<1>3. ASSUME NEW d \in 0 .. 31 PROVE d \in s <=> d \in t
  <2>1. CASE d < 24
    BY <1>2, <2>1 DEF LowBitsAgree
  <2>2. CASE d >= 24
    <3>1. d - 24 \in 0 .. 7 /\ (d - 24) + 24 = d
      BY <2>2
    <3>2. d - 24 \in Index(s, b) <=> ~(d \in s <=> d - 24 \in Bits(b))
      BY <3>1, IndexBits, SMTT(60)
    <3>3. d - 24 \in Index(t, b) <=> ~(d \in t <=> d - 24 \in Bits(b))
      BY <3>1, IndexBits, SMTT(60)
    <3> QED
      BY <1>2, <3>2, <3>3
  <2> QED
    BY <2>1, <2>2
<1> QED
  BY <1>3, WordEqual

-----------------------------------------------------------------------------
(* The loop.                                                               *)

\* The words memcrc's loop goes through from a word on, one for each byte.
IsRun(a, word, bytes) ==
  /\ a \in [0 .. Len(bytes) -> Word]
  /\ a[0] = word
  /\ \A k \in 1 .. Len(bytes) : a[k] = CrcStep(a[k - 1], bytes[k])

\* There are such words, and the last one is what the loop returns.
LEMMA RunExists ==
  ASSUME NEW word \in Word, NEW bytes \in Seq(0 .. 255)
  PROVE  \E a : IsRun(a, word, bytes) /\ a[Len(bytes)] = CrcSteps(word, bytes)
<1>1. PICK a \in [0 .. Len(bytes) -> Word] :
        /\ a[0] = word
        /\ \A k \in 1 .. Len(bytes) : a[k] = CrcStep(a[k - 1], bytes[k])
        /\ a[Len(bytes)] = CrcSteps(word, bytes)
  BY CrcStepsTurns
<1>2. IsRun(a, word, bytes)
  BY <1>1 DEF IsRun
<1> QED
  BY <1>1, <1>2

\* Two runs over files of one length.
TwoRuns(a, z, word, b, c) ==
  /\ b \in Seq(0 .. 255) /\ c \in Seq(0 .. 255) /\ Len(b) = Len(c)
  /\ word \in Word /\ IsRun(a, word, b) /\ z \in [0 .. Len(c) -> Word]
  /\ \A k \in 1 .. Len(c) : z[k] = CrcStep(z[k - 1], c[k])

\* What two runs are made of, turn by turn.
LEMMA TwoRunsTurns ==
  ASSUME NEW a, NEW z, NEW word, NEW b, NEW c, TwoRuns(a, z, word, b, c), NEW m, m = Len(b)
  PROVE  /\ m \in Nat /\ Len(c) = m
         /\ \A i \in 0 .. m : a[i] \in Word /\ z[i] \in Word
         /\ \A i \in 1 .. m : /\ b[i] \in 0 .. 255 /\ c[i] \in 0 .. 255
                              /\ a[i] = CrcStep(a[i - 1], b[i])
                              /\ z[i] = CrcStep(z[i - 1], c[i])
                              /\ i \in 0 .. m /\ i - 1 \in 0 .. m
<1>1. b \in Seq(0 .. 255) /\ c \in Seq(0 .. 255) /\ Len(c) = m /\ m \in Nat
  BY DEF TwoRuns
<1>2. /\ a \in [0 .. m -> Word] /\ z \in [0 .. m -> Word]
      /\ \A i \in 1 .. m : a[i] = CrcStep(a[i - 1], b[i])
      /\ \A i \in 1 .. m : z[i] = CrcStep(z[i - 1], c[i])
  BY DEF TwoRuns, IsRun
<1>3. \A i \in 1 .. m : b[i] \in 0 .. 255
  BY <1>1, ElementOfSeq
<1>4. \A i \in 1 .. m : c[i] \in 0 .. 255
  <2> SUFFICES ASSUME NEW i \in 1 .. m PROVE c[i] \in 0 .. 255
    OBVIOUS
  <2>1. i \in 1 .. Len(c)
    BY <1>1
  <2> QED
    BY <1>1, <2>1, ElementOfSeq
<1>5. \A i \in 1 .. m : i \in 0 .. m /\ i - 1 \in 0 .. m
  BY <1>1
<1> QED
  BY <1>1, <1>2, <1>3, <1>4, <1>5, ZenonT(60)

\* Runs that end in one word were in one word before every byte they share with
\* all that follows.
LEMMA RunsMeet ==
  ASSUME NEW a, NEW z, NEW word, NEW b, NEW c, TwoRuns(a, z, word, b, c),
         NEW m, m = Len(b), NEW from \in 0 .. m,
         \A i \in 1 .. m : i > from => b[i] = c[i],
         a[m] = z[m]
  PROVE  \A i \in from .. m : a[i] = z[i]
<1>1. /\ m \in Nat
      /\ \A i \in 0 .. m : a[i] \in Word /\ z[i] \in Word
      /\ \A i \in 1 .. m : /\ b[i] \in 0 .. 255 /\ c[i] \in 0 .. 255
                           /\ a[i] = CrcStep(a[i - 1], b[i])
                           /\ z[i] = CrcStep(z[i - 1], c[i])
                           /\ i \in 0 .. m /\ i - 1 \in 0 .. m
  BY TwoRunsTurns
<1> DEFINE T == {k \in 0 .. m - from : a[m - k] = z[m - k]}
<1>2. 0 \in T
  <2>1. m - 0 = m /\ 0 \in 0 .. m - from
    BY <1>1
  <2> QED
    BY <2>1
<1>3. ASSUME NEW k \in 1 .. m - from, k - 1 \in T PROVE k \in T
  <2> DEFINE i == m - (k - 1)
  <2>1. i \in 1 .. m /\ i > from /\ i - 1 = m - k /\ k \in 0 .. m - from
    BY <1>1
  <2>2. a[i] = z[i]
    BY <1>3
  <2> HIDE DEF i
  <2>3. b[i] = c[i] /\ i - 1 \in 0 .. m
    BY <1>1, <2>1
  <2>4. CrcStep(a[i - 1], b[i]) = CrcStep(z[i - 1], b[i])
    BY <1>1, <2>1, <2>2, <2>3
  <2>5. a[i - 1] \in Word /\ z[i - 1] \in Word /\ b[i] \in 0 .. 255
    BY <1>1, <2>1, <2>3
  <2>6. a[i - 1] = z[i - 1]
    BY <2>4, <2>5, WordTells, ZenonT(60)
  <2> QED
    BY <2>1, <2>6
<1>4. \A k \in 0 .. m - from : k \in T
  <2>1. m - from \in Nat
    BY <1>1
  <2> HIDE DEF T
  <2> QED
    BY <1>2, <1>3, <2>1, TurnInduction
<1> SUFFICES ASSUME NEW i \in from .. m PROVE a[i] = z[i]
  OBVIOUS
<1>5. m - i \in 0 .. m - from /\ m - (m - i) = i
  BY <1>1
<1>6. m - i \in T
  BY <1>4, <1>5
<1> QED
  BY <1>5, <1>6

\* Runs that start in one word and end in one word, over bytes that differ
\* nowhere but in four neighbouring places, were over the same bytes.
LEMMA BurstTells ==
  ASSUME NEW a, NEW z, NEW word, NEW b, NEW c, TwoRuns(a, z, word, b, c),
         NEW m, m = Len(b), a[0] = z[0], a[m] = z[m], NEW first \in 1 .. m,
         \A i \in 1 .. m : i < first \/ i > first + 3 => b[i] = c[i]
  PROVE  \A i \in 1 .. m : b[i] = c[i]
<1>1. /\ m \in Nat
      /\ \A i \in 0 .. m : a[i] \in Word /\ z[i] \in Word
      /\ \A i \in 1 .. m : /\ b[i] \in 0 .. 255 /\ c[i] \in 0 .. 255
                           /\ a[i] = CrcStep(a[i - 1], b[i])
                           /\ z[i] = CrcStep(z[i - 1], c[i])
                           /\ i \in 0 .. m /\ i - 1 \in 0 .. m
  BY TwoRunsTurns
<1>2. PICK last \in first .. m : last <= first + 3 /\ (last = m \/ last = first + 3)
  BY <1>1
<1>3. \A i \in last .. m : a[i] = z[i]
  <2>1. last \in 0 .. m /\ \A i \in 1 .. m : i > last => b[i] = c[i]
    BY <1>1, <1>2
  <2> QED
    BY <2>1, RunsMeet
<1> DEFINE T == {j \in 0 .. 3 : last - j >= first =>
                                  LowBitsAgree(a[last - j], z[last - j], 32 - 8 * j)}
<1>4. 0 \in T
  <2>1. last - 0 = last /\ last \in last .. m
    BY <1>1, <1>2
  <2>2. a[last - 0] = z[last - 0]
    BY <1>3, <2>1
  <2> QED
    BY <2>2 DEF LowBitsAgree
<1>5. ASSUME NEW i \in first .. last, NEW n \in 8 .. 32, LowBitsAgree(a[i], z[i], n)
      PROVE  /\ Index(a[i - 1], b[i]) = Index(z[i - 1], c[i])
             /\ LowBitsAgree(a[i - 1], z[i - 1], n - 8)
  <2>1. i \in 1 .. m
    BY <1>1, <1>2
  <2>2. i - 1 \in 0 .. m
    BY <1>1, <2>1
  <2>3. LowBitsAgree(CrcStep(a[i - 1], b[i]), CrcStep(z[i - 1], c[i]), n)
    <3>1. a[i] = CrcStep(a[i - 1], b[i]) /\ z[i] = CrcStep(z[i - 1], c[i])
      BY <1>1, <2>1
    <3> QED
      BY <1>5, <3>1
  <2> QED
    BY <1>1, <2>1, <2>2, <2>3, StepBackwards, ZenonT(60)
<1>6. ASSUME NEW j \in 1 .. 3, j - 1 \in T PROVE j \in T
  <2> SUFFICES ASSUME last - j >= first
               PROVE  LowBitsAgree(a[last - j], z[last - j], 32 - 8 * j)
    OBVIOUS
  <2>1. PICK i \in first .. last : i = last - (j - 1)
    BY <1>2
  <2>2. PICK n \in 8 .. 32 : n = 32 - 8 * (j - 1)
    OBVIOUS
  <2>3. i >= first
    BY <2>1
  <2>4. LowBitsAgree(a[i], z[i], n)
    BY <1>6, <2>1, <2>2, <2>3
  <2>5. i - 1 = last - j /\ n - 8 = 32 - 8 * j
    BY <1>2, <2>1, <2>2
  <2>6. LowBitsAgree(a[i - 1], z[i - 1], n - 8)
    BY <1>5, <2>4
  <2> QED
    BY <2>5, <2>6
<1>7. \A j \in 0 .. 3 : j \in T
  <2>1. 3 \in Nat
    OBVIOUS
  <2> HIDE DEF T
  <2> QED
    BY <1>4, <1>6, <2>1, TurnInduction
<1>8. ASSUME NEW i \in first .. last
      PROVE  Index(a[i - 1], b[i]) = Index(z[i - 1], c[i])
  <2>1. PICK j \in 0 .. 3 : i = last - j /\ last - j >= first
    BY <1>2
  <2>2. PICK n \in 8 .. 32 : n = 32 - 8 * j
    OBVIOUS
  <2>3. j \in T
    BY <1>7
  <2>4. LowBitsAgree(a[i], z[i], n)
    BY <2>1, <2>2, <2>3
  <2> QED
    BY <1>5, <2>4
<1> HIDE DEF T
<1> DEFINE U == {k \in 0 .. m : k <= last => a[k] = z[k]}
<1>9. 0 \in U
  BY <1>1
<1>10. ASSUME NEW i \in 1 .. m, i <= last, a[i - 1] = z[i - 1] PROVE b[i] = c[i]
  <2>1. CASE i < first
    BY <2>1
  <2>2. CASE i >= first
    <3>1. i \in first .. last
      BY <1>10, <2>2
    <3>2. Index(a[i - 1], b[i]) = Index(a[i - 1], c[i])
      BY <1>8, <1>10, <3>1
    <3>3. a[i - 1] \in Word /\ b[i] \in 0 .. 255 /\ c[i] \in 0 .. 255
      BY <1>1
    <3> QED
      BY <3>2, <3>3, IndexTells
  <2> QED
    BY <1>2, <2>1, <2>2
<1>11. ASSUME NEW k \in 1 .. m, k - 1 \in U PROVE k \in U
  <2> SUFFICES ASSUME k <= last PROVE a[k] = z[k]
    BY <1>1
  <2>1. a[k - 1] = z[k - 1]
    BY <1>2, <1>11
  <2>2. b[k] = c[k]
    BY <1>10, <2>1
  <2>3. a[k] = CrcStep(a[k - 1], b[k]) /\ z[k] = CrcStep(z[k - 1], c[k])
    BY <1>1
  <2> QED
    BY <2>1, <2>2, <2>3
<1>12. \A k \in 0 .. m : k \in U
  <2> HIDE DEF U
  <2> QED
    BY <1>1, <1>9, <1>11, TurnInduction
<1> SUFFICES ASSUME NEW i \in 1 .. m PROVE b[i] = c[i]
  OBVIOUS
<1>13. CASE i > last
  BY <1>2, <1>13
<1>14. CASE i <= last
  <2>1. i - 1 \in U /\ i - 1 <= last
    BY <1>1, <1>2, <1>12, <1>14
  <2>2. a[i - 1] = z[i - 1]
    BY <2>1
  <2> QED
    BY <1>10, <1>14, <2>2
<1> QED
  BY <1>2, <1>13, <1>14

\* From different words, the loop ends in different words.
LEMMA StepsTellWords ==
  ASSUME NEW s \in Word, NEW t \in Word, NEW bytes \in Seq(0 .. 255),
         CrcSteps(s, bytes) = CrcSteps(t, bytes)
  PROVE  s = t
<1>1. PICK a : IsRun(a, s, bytes) /\ a[Len(bytes)] = CrcSteps(s, bytes)
  BY RunExists
<1>2. PICK z : IsRun(z, t, bytes) /\ z[Len(bytes)] = CrcSteps(t, bytes)
  BY RunExists
<1>3. TwoRuns(a, z, s, bytes, bytes)
  BY <1>1, <1>2 DEF TwoRuns, IsRun
<1> DEFINE m == Len(bytes)
<1>4. m \in Nat /\ 0 \in 0 .. m
  OBVIOUS
<1>5. a[m] = z[m]
  BY <1>1, <1>2
<1> HIDE DEF m
<1>6. \A i \in 0 .. m : a[i] = z[i]
  BY <1>3, <1>4, <1>5, RunsMeet DEF m
<1>7. a[0] = s /\ z[0] = t
  BY <1>1, <1>2 DEF IsRun
<1> QED
  BY <1>4, <1>6, <1>7

\* Complements tell words.
LEMMA ComplementTells ==
  ASSUME NEW s \in Word, NEW t \in Word, (0 .. 31) \ s = (0 .. 31) \ t
  PROVE  s = t
  BY DEF Word

\* What memcrc returns tells the last word of its two loops.
LEMMA MemcrcTells ==
  ASSUME NEW b \in Seq(0 .. 255), Len(b) < 2^32,
         NEW c \in Seq(0 .. 255), Len(c) < 2^32, memcrc(b) = memcrc(c)
  PROVE  /\ CrcSteps({}, b) \in Word /\ CrcSteps({}, c) \in Word
         /\ CrcSteps(CrcSteps({}, b), lengthBytes(Len(b))) =
              CrcSteps(CrcSteps({}, c), lengthBytes(Len(c)))
<1>1. {} \in Word
  BY DEF Word
<1>2. ASSUME NEW word \in Word, NEW bytes \in Seq(0 .. 255)
      PROVE  CrcSteps(word, bytes) \in Word
  <2>1. PICK a : IsRun(a, word, bytes) /\ a[Len(bytes)] = CrcSteps(word, bytes)
    BY RunExists
  <2>2. Len(bytes) \in 0 .. Len(bytes)
    OBVIOUS
  <2> QED
    BY <2>1, <2>2 DEF IsRun
<1>3. Len(b) \in Nat /\ Len(c) \in Nat
  OBVIOUS
<1>4. lengthBytes(Len(b)) \in Seq(0 .. 255) /\ lengthBytes(Len(c)) \in Seq(0 .. 255)
  BY <1>3, LengthOctets
<1>5. CrcSteps({}, b) \in Word /\ CrcSteps({}, c) \in Word
  BY <1>1, <1>2
<1> DEFINE s == CrcSteps(CrcSteps({}, b), lengthBytes(Len(b)))
           t == CrcSteps(CrcSteps({}, c), lengthBytes(Len(c)))
<1>6. s \in Word /\ t \in Word
  BY <1>2, <1>4, <1>5
<1>7. (0 .. 31) \ s = (0 .. 31) \ t
  BY Zenon DEF memcrc
<1> HIDE DEF s, t
<1>8. s = t
  BY <1>6, <1>7, ComplementTells
<1> QED
  BY <1>5, <1>8 DEF s, t

\* The two loops tell two files of one length that differ, and differ nowhere but
\* in four neighbouring bytes.
LEMMA LoopsTellBursts ==
  ASSUME NEW b \in Seq(0 .. 255), NEW c \in Seq(0 .. 255), Len(b) = Len(c), Len(b) < 2^32,
         NEW first \in 1 .. Len(b),
         \A i \in 1 .. Len(b) : i < first \/ i > first + 3 => b[i] = c[i],
         b # c
  PROVE  memcrc(b) # memcrc(c)
<1> SUFFICES ASSUME memcrc(b) = memcrc(c) PROVE FALSE
  OBVIOUS
<1> DEFINE m == Len(b)
<1>1. Len(c) < 2^32
  BY Zenon
<1>2. /\ CrcSteps({}, b) \in Word /\ CrcSteps({}, c) \in Word
      /\ CrcSteps(CrcSteps({}, b), lengthBytes(m)) = CrcSteps(CrcSteps({}, c), lengthBytes(m))
  <2>1. /\ CrcSteps({}, b) \in Word /\ CrcSteps({}, c) \in Word
        /\ CrcSteps(CrcSteps({}, b), lengthBytes(Len(b))) =
             CrcSteps(CrcSteps({}, c), lengthBytes(Len(c)))
    BY <1>1, MemcrcTells
  <2> QED
    BY <2>1, Zenon
<1>3. lengthBytes(m) \in Seq(0 .. 255)
  <2>1. m \in Nat
    OBVIOUS
  <2> QED
    BY <2>1, LengthOctets
<1>4. CrcSteps({}, b) = CrcSteps({}, c)
  <2> HIDE DEF m
  <2> QED
    BY <1>2, <1>3, StepsTellWords
<1>5. {} \in Word
  BY DEF Word
<1>6. PICK a : IsRun(a, {}, b) /\ a[m] = CrcSteps({}, b)
  BY <1>5, RunExists
<1>7. PICK z : IsRun(z, {}, c) /\ z[m] = CrcSteps({}, c)
  <2>1. PICK z : IsRun(z, {}, c) /\ z[Len(c)] = CrcSteps({}, c)
    BY <1>5, RunExists
  <2> QED
    BY <2>1
<1>8. TwoRuns(a, z, {}, b, c)
  BY <1>5, <1>6, <1>7 DEF TwoRuns, IsRun
<1>9. a[0] = z[0] /\ a[m] = z[m]
  BY <1>4, <1>6, <1>7 DEF IsRun
<1>10. \A i \in 1 .. m : b[i] = c[i]
  BY <1>8, <1>9, BurstTells, SMTT(60)
<1> QED
  BY <1>10, SeqEqual

-----------------------------------------------------------------------------
(* Zero bytes in front.                                                    *)

\* A length below 256 is one byte, unless it is 0.
LEMMA ShortLengths ==
  ASSUME NEW n \in 0 .. 255
  PROVE  /\ lengthBytes(n) \in Seq(0 .. 255)
         /\ n = 0 => Len(lengthBytes(n)) = 0
         /\ n # 0 => Len(lengthBytes(n)) = 1 /\ lengthBytes(n)[1] = n
<1>1. n \in Nat /\ n < 2^32 /\ n < 256
  BY SMT
<1>2. OctetCount(n) = IF n = 0 THEN 0 ELSE 1
  BY <1>1, OctetCounts
<1>3. /\ lengthBytes(n) \in Seq(0 .. 255)
      /\ Len(lengthBytes(n)) = OctetCount(n)
      /\ \A k \in 1 .. OctetCount(n) : lengthBytes(n)[k] = NumberOctet(n, k)
  BY <1>1, LengthOctets
<1>4. n # 0 => NumberOctet(n, 1) = n % 256
  BY <1>1, OctetsShifted
<1>5. n % 256 = n
  OBVIOUS
<1> QED
  BY <1>2, <1>3, <1>4, <1>5

\* The loop takes one turn for one byte, and none for none.
LEMMA ShortLoops ==
  ASSUME NEW word \in Word, NEW bytes \in Seq(0 .. 255)
  PROVE  /\ Len(bytes) = 0 => CrcSteps(word, bytes) = word
         /\ Len(bytes) = 1 => CrcSteps(word, bytes) = CrcStep(word, bytes[1])
<1>1. PICK a : IsRun(a, word, bytes) /\ a[Len(bytes)] = CrcSteps(word, bytes)
  BY RunExists
<1>2. a[0] = word /\ \A k \in 1 .. Len(bytes) : a[k] = CrcStep(a[k - 1], bytes[k])
  BY <1>1 DEF IsRun
<1> QED
  BY <1>1, <1>2

\* A zero byte leaves the word 0 as it is.
LEMMA ZeroStep == CrcStep({}, 0) = {}
<1>1. {} \in Word /\ 0 \in 0 .. 255
  BY DEF Word
<1>2. Bits(0) = {}
  <2>1. Bits(0) = {d \in 0 .. 7 : BitAt(0, 8 - d) = 1}
    BY <1>1, BitsOfOctet, Zenon
  <2>2. ASSUME NEW d \in 0 .. 7 PROVE BitAt(0, 8 - d) # 1
    <3>1. 8 - d \in 1 .. 8
      OBVIOUS
    <3> QED
      BY <3>1, ZeroBits
  <2> QED
    BY <2>1, <2>2
<1>3. OctetRemainder({}, 0) = {}
  BY <1>1, <1>2, OctetAlone
<1>4. TimesX32({}) = {}
  BY <1>3 DEF TimesX32
<1>5. CrcStep({}, 0) = SymDiff({}, {})
  BY <1>1, <1>2, <1>3, <1>4, CrcStepDivides
<1> QED
  BY <1>5 DEF SymDiff

\* The loop does not see zeros in front of a file.
LEMMA ZerosInFront ==
  ASSUME NEW b \in Seq(0 .. 255), NEW c \in Seq(0 .. 255), NEW k \in Nat,
         Len(c) = k + Len(b),
         \A i \in 1 .. k : c[i] = 0,
         \A i \in 1 .. Len(b) : c[k + i] = b[i]
  PROVE  CrcSteps({}, c) = CrcSteps({}, b)
<1> DEFINE n == Len(b)
<1>1. n \in Nat /\ Len(c) = k + n /\ {} \in Word
  BY DEF Word
<1>2. PICK a : IsRun(a, {}, b) /\ a[n] = CrcSteps({}, b)
  BY <1>1, RunExists
<1>3. PICK z : IsRun(z, {}, c) /\ z[k + n] = CrcSteps({}, c)
  <2>1. PICK z : IsRun(z, {}, c) /\ z[Len(c)] = CrcSteps({}, c)
    BY <1>1, RunExists
  <2> QED
    BY <1>1, <2>1
<1>4. a[0] = {} /\ \A i \in 1 .. n : a[i] = CrcStep(a[i - 1], b[i])
  BY <1>2 DEF IsRun
<1>5. z[0] = {} /\ \A i \in 1 .. k + n : z[i] = CrcStep(z[i - 1], c[i])
  BY <1>1, <1>3 DEF IsRun
<1>6. \A i \in 1 .. n : c[k + i] = b[i]
  OBVIOUS
<1> HIDE DEF n
<1> DEFINE T == {i \in 0 .. k : z[i] = {}}
<1>7. ASSUME NEW i \in 1 .. k, i - 1 \in T PROVE i \in T
  <2>1. i \in 1 .. k + n /\ i \in 0 .. k
    BY <1>1
  <2>2. z[i] = CrcStep(z[i - 1], c[i]) /\ c[i] = 0 /\ z[i - 1] = {}
    BY <1>5, <1>7, <2>1
  <2>3. z[i] = CrcStep({}, 0)
    BY <2>2
  <2> QED
    BY <2>1, <2>3, ZeroStep
<1>8. \A i \in 0 .. k : i \in T
  <2>1. 0 \in T
    BY <1>5
  <2> HIDE DEF T
  <2> QED
    BY <1>7, <2>1, TurnInduction
<1>9. z[k] = {}
  BY <1>8
<1> HIDE DEF T
<1> DEFINE U == {i \in 0 .. n : z[k + i] = a[i]}
<1>10. 0 \in U
  <2>1. k + 0 = k /\ 0 \in 0 .. n
    BY <1>1
  <2> QED
    BY <1>4, <1>9, <2>1
<1>11. ASSUME NEW i \in 1 .. n, i - 1 \in U PROVE i \in U
  <2>1. k + i \in 1 .. k + n /\ (k + i) - 1 = k + (i - 1) /\ i \in 0 .. n
    BY <1>1
  <2>2. z[k + i] = CrcStep(z[k + (i - 1)], b[i])
    <3>1. z[k + i] = CrcStep(z[(k + i) - 1], c[k + i])
      BY <1>5, <2>1
    <3> QED
      BY <1>6, <2>1, <3>1
  <2>3. z[k + (i - 1)] = a[i - 1]
    BY <1>11
  <2> QED
    BY <1>4, <2>1, <2>2, <2>3
<1>12. \A i \in 0 .. n : i \in U
  <2> HIDE DEF U
  <2> QED
    BY <1>1, <1>10, <1>11, TurnInduction
<1>13. z[k + n] = a[n]
  BY <1>1, <1>12
<1> QED
  BY <1>2, <1>3, <1>13

\* The two loops tell a file from the same with zero bytes in front, as long as
\* its length stays below 256.
LEMMA LoopsTellZeros ==
  ASSUME NEW b \in Seq(0 .. 255), NEW c \in Seq(0 .. 255), NEW k \in Nat \ {0},
         Len(c) = k + Len(b), Len(c) < 256,
         \A i \in 1 .. k : c[i] = 0,
         \A i \in 1 .. Len(b) : c[k + i] = b[i]
  PROVE  memcrc(b) # memcrc(c)
<1> SUFFICES ASSUME memcrc(b) = memcrc(c) PROVE FALSE
  OBVIOUS
<1> DEFINE n == Len(b)
           m == Len(c)
<1>1. n \in 0 .. 255 /\ m \in 0 .. 255 /\ n # m /\ m # 0
  <2>1. n \in Nat /\ m \in Nat /\ m = k + n /\ m < 256 /\ k \in Nat /\ k # 0
    OBVIOUS
  <2> HIDE DEF n, m
  <2> QED
    BY <2>1
<1>2. n < 2^32 /\ m < 2^32
  <2> HIDE DEF n, m
  <2> QED
    BY <1>1, SMT
<1>3. /\ CrcSteps({}, b) \in Word
      /\ CrcSteps(CrcSteps({}, b), lengthBytes(n)) = CrcSteps(CrcSteps({}, c), lengthBytes(m))
  BY <1>2, MemcrcTells
<1>4. CrcSteps({}, c) = CrcSteps({}, b)
  BY ZerosInFront
<1> DEFINE s == CrcSteps({}, b)
<1>5. s \in Word /\ CrcSteps(s, lengthBytes(n)) = CrcSteps(s, lengthBytes(m))
  BY <1>3, <1>4
<1>6. n = 0 => s = {}
  <2>1. {} \in Word
    BY DEF Word
  <2> QED
    BY <2>1, ShortLoops
<1> HIDE DEF n, m, s
<1>7. ASSUME NEW l \in 0 .. 255, l # 0 PROVE CrcSteps(s, lengthBytes(l)) = CrcStep(s, l)
  <2>1. /\ lengthBytes(l) \in Seq(0 .. 255)
        /\ Len(lengthBytes(l)) = 1 /\ lengthBytes(l)[1] = l
    BY <1>7, ShortLengths
  <2> QED
    BY <1>5, <2>1, ShortLoops
<1>8. CrcSteps(s, lengthBytes(n)) = CrcStep(s, n)
  <2>1. CASE n # 0
    BY <1>1, <1>7, <2>1
  <2>2. CASE n = 0
    <3>1. lengthBytes(n) \in Seq(0 .. 255) /\ Len(lengthBytes(n)) = 0
      BY <1>1, <2>2, ShortLengths
    <3>2. CrcSteps(s, lengthBytes(n)) = s
      BY <1>5, <3>1, ShortLoops
    <3> QED
      BY <1>6, <2>2, <3>2, ZeroStep
  <2> QED
    BY <2>1, <2>2
<1>9. CrcStep(s, n) = CrcStep(s, m)
  BY <1>1, <1>5, <1>7, <1>8
<1>10. n = m
  BY <1>1, <1>5, <1>9, ByteTells
<1> QED
  BY <1>1, <1>10

-----------------------------------------------------------------------------
(* What memcrc returns.                                                    *)

\* Two files of one length, which an int can count, that differ, and differ
\* nowhere but in four neighbouring bytes, have different checksums.
THEOREM BurstsAreNoticed ==
  ASSUME NEW b \in Seq(0 .. 255), NEW c \in Seq(0 .. 255), Len(b) = Len(c), Len(b) <= IntMax,
         NEW first \in 1 .. Len(b),
         \A i \in 1 .. Len(b) : i < first \/ i > first + 3 => b[i] = c[i],
         b # c
  PROVE  memcrcOutcomes(b) \cap memcrcOutcomes(c) = {}
<1>1. memcrcOutcomes(b) = {memcrc(b)} /\ Len(b) < 2^32
  BY CountedOutcome, ChecksumAssumption, Zenon
<1>2. memcrcOutcomes(c) = {memcrc(c)}
  <2>1. Len(c) <= IntMax
    BY Zenon
  <2> QED
    BY <2>1, CountedOutcome, ChecksumAssumption, Zenon
<1>3. memcrc(b) # memcrc(c)
  BY <1>1, LoopsTellBursts, Zenon
<1> QED
  BY <1>1, <1>2, <1>3, Zenon

\* The length counts: zero bytes put in front of a file are noticed, as long as
\* its length stays below 256.
THEOREM ZerosAreNoticed ==
  ASSUME NEW b \in Seq(0 .. 255), NEW c \in Seq(0 .. 255), NEW k \in Nat \ {0},
         Len(c) = k + Len(b), Len(c) < 256, Len(c) <= IntMax,
         \A i \in 1 .. k : c[i] = 0,
         \A i \in 1 .. Len(b) : c[k + i] = b[i]
  PROVE  memcrcOutcomes(b) \cap memcrcOutcomes(c) = {}
<1>1. memcrcOutcomes(c) = {memcrc(c)}
  BY CountedOutcome, ChecksumAssumption, Zenon
<1>2. memcrcOutcomes(b) = {memcrc(b)}
  <2>1. Len(b) <= IntMax
    <3> DEFINE n == Len(b)
               m == Len(c)
    <3>1. n \in Nat /\ k \in Nat /\ m = k + n /\ m <= IntMax /\ IntMax \in Nat
      BY ChecksumAssumption DEF ChecksumAssumption
    <3> HIDE DEF n, m
    <3>2. n <= IntMax
      BY <3>1
    <3> QED
      BY <3>2 DEF n
  <2> QED
    BY <2>1, CountedOutcome, ChecksumAssumption, Zenon
<1>3. memcrc(b) # memcrc(c)
  BY LoopsTellZeros, Zenon
<1> QED
  BY <1>1, <1>2, <1>3, Zenon

-----------------------------------------------------------------------------
(* readCrc.                                                                *)

\* A function on the places of a sequence is a sequence.
LEMMA PlacesOfASequence ==
  ASSUME NEW n \in Nat, NEW f \in [1 .. n -> 0 .. 255]
  PROVE  f \in Seq(0 .. 255) /\ Len(f) = n
  OBVIOUS

\* What the damaged copies are.
LEMMA DamagedCases ==
  ASSUME ChecksumAssumption, NEW b \in Seq(0 .. 255), NEW c \in Damaged(b)
  PROVE  \/ /\ c \in Seq(0 .. 255) /\ Len(c) = Len(b)
            /\ \E first \in 1 .. Len(b) :
                 \A i \in 1 .. Len(b) : i < first \/ i > first + 3 => b[i] = c[i]
         \/ \E k \in 1 .. 3 :
              /\ c \in Seq(0 .. 255) /\ Len(c) = k + Len(b)
              /\ \A i \in 1 .. k : c[i] = 0
              /\ \A i \in 1 .. Len(b) : c[k + i] = b[i]
<1> DEFINE n == Len(b)
           Zeros(k) == [i \in 1 .. k |-> 0]
           Burst(at, d) == [i \in 1 .. n |-> IF i \in at THEN d[i] ELSE b[i]]
<1>1. n \in Nat /\ \A i \in 1 .. n : b[i] \in 0 .. 255
  BY ElementOfSeq
<1>2. \/ \E at \in {k .. Min({k + 3, n}) : k \in 1 .. n} : \E d \in [at -> DamageByte] :
           c = Burst(at, d)
      \/ \E k \in 1 .. 3 : c = Zeros(k) \o b
  <2> DEFINE Bursts == UNION {{Burst(at, d) : d \in [at -> DamageByte]}
                              : at \in {k .. Min({k + 3, n}) : k \in 1 .. n}}
             Longer == {Zeros(k) \o b : k \in 1 .. 3}
  <2>1. c \in Bursts \cup Longer
    BY Zenon DEF Damaged
  <2>2. c \in Longer => \E k \in 1 .. 3 : c = Zeros(k) \o b
    BY Zenon
  <2>3. ASSUME c \in Bursts
        PROVE  \E at \in {k .. Min({k + 3, n}) : k \in 1 .. n} : \E d \in [at -> DamageByte] :
                 c = Burst(at, d)
    <3> DEFINE Ats == {k .. Min({k + 3, n}) : k \in 1 .. n}
    <3> HIDE DEF Burst, Ats
    <3>1. PICK B \in {{Burst(at, d) : d \in [at -> DamageByte]} : at \in Ats} : c \in B
      BY <2>3, Zenon DEF Ats
    <3>2. PICK at \in Ats : B = {Burst(at, d) : d \in [at -> DamageByte]}
      BY <3>1, Zenon
    <3>3. PICK d \in [at -> DamageByte] : c = Burst(at, d)
      BY <3>1, <3>2, Zenon
    <3> QED
      BY <3>3, Zenon DEF Ats
  <2> QED
    BY <2>1, <2>2, <2>3, Zenon
<1>3. ASSUME NEW at \in {k .. Min({k + 3, n}) : k \in 1 .. n}, NEW d \in [at -> DamageByte],
             c = Burst(at, d)
      PROVE  /\ c \in Seq(0 .. 255) /\ Len(c) = Len(b)
             /\ \E first \in 1 .. Len(b) :
                  \A i \in 1 .. Len(b) : i < first \/ i > first + 3 => b[i] = c[i]
  <2>1. PICK first \in 1 .. n : at = first .. Min({first + 3, n})
    BY Zenon
  <2> HIDE DEF n
  <2>2. Min({first + 3, n}) = IF first + 3 <= n THEN first + 3 ELSE n
    BY <1>1, MinOfTwo
  <2>3. \A i \in 1 .. n : i < first \/ i > first + 3 => i \notin at
    BY <1>1, <2>1, <2>2
  <2>4. \A i \in at : d[i] \in 0 .. 255
    BY DEF ChecksumAssumption
  <2>5. c \in [1 .. n -> 0 .. 255] /\ \A i \in 1 .. n : i \notin at => b[i] = c[i]
    BY <1>1, <1>3, <2>4
  <2>6. c \in Seq(0 .. 255) /\ Len(c) = n
    BY <1>1, <2>5, PlacesOfASequence
  <2>7. \A i \in 1 .. n : i < first \/ i > first + 3 => b[i] = c[i]
    BY <2>3, <2>5
  <2> QED
    BY <2>6, <2>7 DEF n
<1>4. ASSUME NEW k \in 1 .. 3, c = Zeros(k) \o b
      PROVE  /\ c \in Seq(0 .. 255) /\ Len(c) = k + Len(b)
             /\ \A i \in 1 .. k : c[i] = 0
             /\ \A i \in 1 .. Len(b) : c[k + i] = b[i]
  <2> DEFINE z == Zeros(k)
  <2>1. k \in Nat /\ z \in [1 .. k -> 0 .. 255] /\ \A i \in 1 .. k : z[i] = 0
    OBVIOUS
  <2>2. c = z \o b
    BY <1>4
  <2> HIDE DEF z, n
  <2>3. z \in Seq(0 .. 255) /\ Len(z) = k
    BY <2>1, PlacesOfASequence
  <2>4. /\ z \o b \in Seq(0 .. 255) /\ Len(z \o b) = Len(z) + Len(b)
        /\ \A i \in 1 .. Len(z) + Len(b) :
             (z \o b)[i] = IF i <= Len(z) THEN z[i] ELSE b[i - Len(z)]
    BY <2>3, ConcatProperties, ZenonT(120)
  <2>5. /\ c \in Seq(0 .. 255) /\ Len(c) = k + n
        /\ \A i \in 1 .. k + n : c[i] = IF i <= k THEN z[i] ELSE b[i - k]
    BY <2>2, <2>3, <2>4 DEF n
  <2>6. ASSUME NEW i \in 1 .. k PROVE c[i] = 0
    <3>1. i \in 1 .. k + n /\ i <= k
      BY <1>1
    <3> QED
      BY <2>1, <2>5, <3>1
  <2>7. ASSUME NEW i \in 1 .. n PROVE c[k + i] = b[i]
    <3>1. k + i \in 1 .. k + n /\ ~(k + i <= k) /\ (k + i) - k = i
      BY <1>1
    <3> QED
      BY <2>5, <3>1
  <2> QED
    BY <2>5, <2>6, <2>7 DEF n
<1> QED
  BY <1>2, <1>3, <1>4, ZenonT(60)

\* The checksum readCrc returns is no damaged copy's, whatever the bytes and the
\* damage.  Files of more than 252 bytes are left out because of the zeros: in
\* front of those, they can make the length take one byte more, so that the loop
\* takes one turn more, and nothing keeps its words apart.  Of bursts,
\* BurstsAreNoticed says the same for longer files.
THEOREM DamageIsAlwaysNoticed ==
  ASSUME MaxDamaged <= 252
  PROVE  Spec => []DamageIsNoticed
<1>1. ASSUME ReadInv PROVE DamageIsNoticed
  <2> SUFFICES ASSUME pc = "returned", result # ErrorResult, size <= MaxDamaged,
                      NEW c \in Damaged(buffer), c # buffer
               PROVE  memcrc(c) # result
    BY DEF DamageIsNoticed
  <2>0. /\ file # NoFile /\ result \in memcrcOutcomes(buffer) /\ Len(buffer) = size
        /\ buffer \in Seq(0 .. 255) /\ size \in Nat
    BY <1>1 DEF ReadInv, ChecksumTypeOK, VersionsInv, ResultInv, BytesInv
  <2>6. Len(buffer) <= IntMax
    BY <2>0, ChecksumAssumption DEF ChecksumAssumption
  <2>1. /\ file # NoFile /\ result = memcrc(buffer) /\ Len(buffer) = size
        /\ buffer \in Seq(0 .. 255)
    BY <2>0, <2>6, CountedOutcome, ChecksumAssumption
  <2> DEFINE n == Len(buffer)
  <2>2. n \in 0 .. 252
    <3>1. n \in Nat /\ n = size /\ MaxDamaged \in Nat
      BY <2>1, ChecksumAssumption DEF ChecksumAssumption
    <3> HIDE DEF n
    <3> QED
      BY <3>1
  <2>3. n < 2^32
    <3> HIDE DEF n
    <3> QED
      BY <2>2, SMT
  <2>4. CASE /\ c \in Seq(0 .. 255) /\ Len(c) = Len(buffer)
             /\ \E first \in 1 .. Len(buffer) :
                  \A i \in 1 .. Len(buffer) : i < first \/ i > first + 3 => buffer[i] = c[i]
    <3>1. PICK first \in 1 .. Len(buffer) :
            \A i \in 1 .. Len(buffer) : i < first \/ i > first + 3 => buffer[i] = c[i]
      BY <2>4
    <3>2. Len(buffer) = Len(c) /\ buffer # c
      BY <2>4, Zenon
    <3>3. memcrc(buffer) # memcrc(c)
      BY <2>1, <2>3, <2>4, <3>1, <3>2, LoopsTellBursts
    <3> QED
      BY <2>1, <3>3
  <2>5. CASE \E k \in 1 .. 3 :
               /\ c \in Seq(0 .. 255) /\ Len(c) = k + Len(buffer)
               /\ \A i \in 1 .. k : c[i] = 0
               /\ \A i \in 1 .. Len(buffer) : c[k + i] = buffer[i]
    <3>1. PICK k \in 1 .. 3 :
            /\ c \in Seq(0 .. 255) /\ Len(c) = k + Len(buffer)
            /\ \A i \in 1 .. k : c[i] = 0
            /\ \A i \in 1 .. Len(buffer) : c[k + i] = buffer[i]
      BY <2>5
    <3>2. k \in Nat \ {0} /\ Len(c) < 256
      <4>1. Len(c) = k + n
        BY <3>1
      <4> HIDE DEF n
      <4> QED
        BY <2>2, <4>1
    <3>3. memcrc(buffer) # memcrc(c)
      BY <2>1, <3>1, <3>2, LoopsTellZeros
    <3> QED
      BY <2>1, <3>3
  <2> QED
    BY <2>1, <2>4, <2>5, DamagedCases, ChecksumAssumption, ZenonT(60)
<1> QED
  BY <1>1, ReadInvariance, PTL
=============================================================================
