---------------------------- MODULE MemcrcProofs ----------------------------
(***************************************************************************)
(* Proofs about memcrc: its table and its loops calculate the remainder    *)
(* that CksumReference defines, for a file of any length an int can count. *)
(*                                                                         *)
(* The recursive functions of memcrc and its reference exist, and their    *)
(* values are found, by induction over the natural numbers.                *)
(***************************************************************************)
EXTENDS Checksum, FiniteSetTheorems, SequenceTheorems, WellFoundedInduction, TLAPS

-----------------------------------------------------------------------------
(* Induction and recursion.                                                *)

\* A set that holds 0, and with a number the next one, holds all of them.
LEMMA SetInduction ==
  ASSUME NEW T, 0 \in T, \A n \in Nat : n \in T => n + 1 \in T
  PROVE  Nat \subseteq T
<1> DEFINE Less    == OpToRel(<, Nat)
           Missing == Nat \ T
<1>1. IsWellFoundedOn(Less, Nat)
  BY NatLessThanWellFounded
<1>2. ASSUME Missing # {} PROVE FALSE
  <2> HIDE DEF Missing
  <2>1. Missing \subseteq Nat
    BY DEF Missing
  <2>2. PICK x \in Missing : \A y \in Missing : ~(<<y, x>> \in Less)
    <3> HIDE DEF Less
    <3> QED
      BY <1>1, <1>2, <2>1, WFMin, Zenon
  <2>3. x # 0 /\ x \in Nat
    BY <2>1 DEF Missing
  <2>4. x - 1 \in Missing /\ x - 1 \in Nat /\ x - 1 < x
    BY <2>1, <2>3 DEF Missing
  <2>5. <<x - 1, x>> \in Less
    BY <2>3, <2>4 DEF OpToRel
  <2> QED
    BY <2>2, <2>4, <2>5
<1> QED
  BY <1>2

\* What holds at first, and at each turn if it did at the turn before, holds at
\* the last.
LEMMA TurnInduction ==
  ASSUME NEW n \in Nat, NEW T, 0 \in T, \A k \in 1 .. n : k - 1 \in T => k \in T
  PROVE  \A k \in 0 .. n : k \in T
<1> DEFINE U == {m \in Nat : m <= n => m \in T}
<1>1. 0 \in U
  OBVIOUS
<1>2. \A m \in Nat : m \in U => m + 1 \in U
  <2> SUFFICES ASSUME NEW m \in Nat, m \in U, m + 1 <= n PROVE m + 1 \in T
    OBVIOUS
  <2>1. m \in T /\ m + 1 \in 1 .. n /\ (m + 1) - 1 = m
    OBVIOUS
  <2> QED
    BY <2>1
<1>3. Nat \subseteq U
  <2> HIDE DEF U
  <2> QED
    BY <1>1, <1>2, SetInduction
<1> QED
  BY <1>3

\* What a loop with n turns, of which G is the body, returns when it comes to
\* turn at[1] with the value at[2].
IsLoop(f, n, S, G) ==
  f = [at \in (1 .. n + 1) \X S |->
         IF at[1] > n THEN at[2] ELSE f[<<at[1] + 1, G[at]>>]]

\* There is such a function.
LEMMA LoopExists ==
  ASSUME NEW n \in Nat, NEW S, NEW G \in [(1 .. n) \X S -> S]
  PROVE  \E f : IsLoop(f, n, S, G)
<1> DEFINE D == (1 .. n + 1) \X S
           Right(f, at) == f[at] = IF at[1] > n THEN at[2] ELSE f[<<at[1] + 1, G[at]>>]
           Good(m) == \E f \in [D -> S] : \A at \in D : at[1] + m > n => Right(f, at)
           T == {m \in Nat : Good(m)}
<1>0. \A at \in D : /\ at[1] \in 1 .. n + 1 /\ at[2] \in S /\ at = <<at[1], at[2]>>
                    /\ at[1] <= n => G[at] \in S /\ <<at[1] + 1, G[at]>> \in D
  OBVIOUS
<1>1. Good(0)
  <2> DEFINE f == [at \in D |-> at[2]]
  <2>1. f \in [D -> S] /\ \A at \in D : at[1] + 0 > n => Right(f, at)
    BY <1>0
  <2> QED
    BY <2>1
<1>2. ASSUME NEW m \in Nat, Good(m) PROVE Good(m + 1)
  <2>1. PICK f \in [D -> S] : \A at \in D : at[1] + m > n => Right(f, at)
    BY <1>2
  <2> DEFINE g == [at \in D |-> IF at[1] > n THEN at[2] ELSE f[<<at[1] + 1, G[at]>>]]
  <2>2. g \in [D -> S]
    BY <1>0
  <2>3. ASSUME NEW at \in D, at[1] + (m + 1) > n PROVE Right(g, at)
    <3>1. CASE at[1] > n
      BY <3>1
    <3>2. CASE ~(at[1] > n)
      <4>0. <<at[1] + 1, G[at]>> \in D
        BY <1>0, <3>2
      <4>1. PICK next \in D : next = <<at[1] + 1, G[at]>>
        BY <4>0, Zenon
      <4>2. next[1] + m > n
        BY <1>0, <2>3, <4>1
      <4>3. Right(f, next)
        BY <2>1, <4>2
      <4>4. g[next] = f[next]
        BY <4>3
      <4>5. g[at] = f[next]
        BY <3>2, <4>1
      <4> QED
        BY <3>2, <4>1, <4>4, <4>5
    <3> QED
      BY <3>1, <3>2
  <2> QED
    BY <2>2, <2>3
<1> HIDE DEF Good
<1>3. Nat \subseteq T
  <2>1. 0 \in T
    BY <1>1
  <2>2. \A m \in Nat : m \in T => m + 1 \in T
    BY <1>2
  <2> HIDE DEF T
  <2> QED
    BY <2>1, <2>2, SetInduction
<1>4. Good(n)
  BY <1>3
<1>5. PICK f \in [D -> S] : \A at \in D : at[1] + n > n => Right(f, at)
  BY <1>4 DEF Good
<1>6. \A at \in D : Right(f, at)
  BY <1>0, <1>5
<1>7. IsLoop(f, n, S, G)
  BY <1>6 DEF IsLoop
<1> QED
  BY <1>7, Zenon

\* The values such a loop goes through, from a first one on.
AreTurns(f, n, S, first, G) ==
  /\ f \in [0 .. n -> S]
  /\ f[0] = first
  /\ \A k \in 1 .. n : f[k] = G[<<k, f[k - 1]>>]

\* There is such a function.
LEMMA TurnsExist ==
  ASSUME NEW n \in Nat, NEW S, NEW first \in S, NEW G \in [(1 .. n) \X S -> S]
  PROVE  \E f : AreTurns(f, n, S, first, G)
<1> DEFINE Right(f, k) == f[k] = IF k = 0 THEN first ELSE G[<<k, f[k - 1]>>]
           Good(m) == \E f \in [0 .. n -> S] : \A k \in 0 .. n : k <= m => Right(f, k)
           T == {m \in Nat : Good(m)}
<1>1. Good(0)
  <2> DEFINE f == [k \in 0 .. n |-> first]
  <2>1. f \in [0 .. n -> S] /\ \A k \in 0 .. n : k <= 0 => Right(f, k)
    OBVIOUS
  <2> QED
    BY <2>1
<1>2. ASSUME NEW m \in Nat, Good(m) PROVE Good(m + 1)
  <2>1. PICK f \in [0 .. n -> S] : \A k \in 0 .. n : k <= m => Right(f, k)
    BY <1>2
  <2> DEFINE g == [k \in 0 .. n |-> IF k = 0 THEN first ELSE G[<<k, f[k - 1]>>]]
  <2>2. g \in [0 .. n -> S]
    <3>1. \A k \in 1 .. n : k - 1 \in 0 .. n /\ f[k - 1] \in S /\ <<k, f[k - 1]>> \in (1 .. n) \X S
      OBVIOUS
    <3>2. \A k \in 1 .. n : G[<<k, f[k - 1]>>] \in S
      BY <3>1
    <3> QED
      BY <3>2
  <2>3. ASSUME NEW k \in 0 .. n, k <= m + 1 PROVE Right(g, k)
    <3>1. CASE k = 0
      BY <3>1
    <3>2. CASE k > 0
      <4>1. k - 1 \in 0 .. n /\ k - 1 <= m
        BY <2>3, <3>2
      <4>2. g[k - 1] = f[k - 1]
        BY <2>1, <4>1
      <4> QED
        BY <3>2, <4>2
    <3> QED
      BY <3>1, <3>2
  <2> QED
    BY <2>2, <2>3
<1> HIDE DEF Good
<1>3. Nat \subseteq T
  <2>1. 0 \in T
    BY <1>1
  <2>2. \A m \in Nat : m \in T => m + 1 \in T
    BY <1>2
  <2> HIDE DEF T
  <2> QED
    BY <2>1, <2>2, SetInduction
<1>4. Good(n)
  BY <1>3
<1>5. PICK f \in [0 .. n -> S] : \A k \in 0 .. n : k <= n => Right(f, k)
  BY <1>4 DEF Good
<1>6. f[0] = first
  <2>1. 0 \in 0 .. n /\ 0 <= n
    OBVIOUS
  <2> QED
    BY <1>5, <2>1
<1>7. ASSUME NEW k \in 1 .. n PROVE f[k] = G[<<k, f[k - 1]>>]
  <2>1. k \in 0 .. n /\ k <= n /\ k # 0
    OBVIOUS
  <2> QED
    BY <1>5, <2>1
<1>8. AreTurns(f, n, S, first, G)
  BY <1>6, <1>7 DEF AreTurns
<1> QED
  BY <1>8, Zenon

\* From the first turn on, the loop returns the last value it goes through.
LEMMA LoopReturnsLast ==
  ASSUME NEW n \in Nat, NEW S, NEW first \in S, NEW G,
         NEW f, IsLoop(f, n, S, G), NEW t, AreTurns(t, n, S, first, G)
  PROVE  f[<<1, first>>] = t[n]
<1> DEFINE T == {k \in 0 .. n : f[<<k + 1, t[k]>>] = f[<<1, first>>]}
<1>1. 0 \in T
  BY DEF AreTurns
<1>2. ASSUME NEW k \in 1 .. n, k - 1 \in T PROVE k \in T
  <2>1. (k - 1) + 1 = k /\ k - 1 \in 0 .. n /\ k \in 1 .. n + 1 /\ ~(k > n) /\ k \in 0 .. n
    OBVIOUS
  <2>2. t[k - 1] \in S
    BY <2>1 DEF AreTurns
  <2>3. f[<<k, t[k - 1]>>] = f[<<1, first>>]
    BY <1>2, <2>1
  <2>4. <<k, t[k - 1]>> \in (1 .. n + 1) \X S
    BY <2>1, <2>2
  <2>5. f[<<k, t[k - 1]>>] = f[<<k + 1, G[<<k, t[k - 1]>>]>>]
    BY <2>1, <2>4 DEF IsLoop
  <2>6. t[k] = G[<<k, t[k - 1]>>]
    BY DEF AreTurns
  <2> QED
    BY <2>1, <2>3, <2>5, <2>6
<1>3. \A k \in 0 .. n : k \in T
  <2> HIDE DEF T
  <2> QED
    BY <1>1, <1>2, TurnInduction
<1>4. n \in 0 .. n /\ n + 1 \in 1 .. n + 1 /\ n + 1 > n /\ t[n] \in S
  BY DEF AreTurns
<1>5. f[<<n + 1, t[n]>>] = f[<<1, first>>]
  BY <1>3, <1>4
<1>6. <<n + 1, t[n]>> \in (1 .. n + 1) \X S
  BY <1>4
<1>7. f[<<n + 1, t[n]>>] = t[n]
  BY <1>4, <1>6 DEF IsLoop
<1> QED
  BY <1>5, <1>7

-----------------------------------------------------------------------------
(* Polynomials as sets.                                                    *)

\* Addition of polynomials, which is exclusive or of words.
LEMMA InSymDiff ==
  ASSUME NEW p, NEW q, NEW d
  PROVE  d \in SymDiff(p, q) <=> ~(d \in p <=> d \in q)
  BY DEF SymDiff

\* What NextRemainder does to each coefficient: multiplied by x and a bit
\* added, and the generator taken off if there is a coefficient of x^32.
LEMMA NextCoefficients ==
  ASSUME NEW r \in Word, NEW bit \in {0, 1}
  PROVE  /\ NextRemainder(r, bit) \in Word
         /\ \A d \in 0 .. 31 :
              d \in NextRemainder(r, bit) <=>
                ~((d - 1 \in r \/ (d = 0 /\ bit = 1)) <=> (31 \in r /\ d \in Generator))
<1> DEFINE timesX == {d + 1 : d \in r} \cup {0 : k \in 1 .. bit}
<1>1. \A d : d \in timesX <=> (d - 1 \in r /\ d \in 1 .. 32) \/ (d = 0 /\ bit = 1)
  BY DEF Word
<1>2. 32 \in timesX <=> 31 \in r
  BY <1>1
<1>3. NextRemainder(r, bit) = IF 32 \in timesX THEN SymDiff(timesX, Generator) ELSE timesX
  BY DEF NextRemainder
<1> HIDE DEF timesX
<1>4. Generator \subseteq 0 .. 32 /\ 32 \in Generator
  BY DEF Generator
<1>5. \A d \in 0 .. 31 : d - 1 \in r => d \in 1 .. 32
  BY DEF Word
<1>6. CASE 31 \in r
  <2>1. \A d : d \in NextRemainder(r, bit) <=> ~(d \in timesX <=> d \in Generator)
    BY <1>2, <1>3, <1>6, InSymDiff
  <2>2. \A d : d \in NextRemainder(r, bit) => d \in 0 .. 31
    <3>1. 32 \notin NextRemainder(r, bit)
      BY <1>2, <1>4, <1>6, <2>1
    <3>2. \A d : d \in NextRemainder(r, bit) => d \in 0 .. 32
      <4>1. \A d : d \in timesX => d \in 0 .. 32
        BY <1>1
      <4> QED
        BY <1>4, <2>1, <4>1, Zenon
    <3> QED
      BY <3>1, <3>2
  <2>3. ASSUME NEW d \in 0 .. 31
        PROVE  d \in timesX <=> (d - 1 \in r \/ (d = 0 /\ bit = 1))
    BY <1>1, <1>5
  <2> QED
    BY <1>6, <2>1, <2>2, <2>3 DEF Word
<1>7. CASE 31 \notin r
  <2>1. NextRemainder(r, bit) = timesX
    BY <1>2, <1>3, <1>7
  <2> QED
    BY <1>1, <1>2, <1>5, <1>7, <2>1 DEF Word
<1> QED
  BY <1>6, <1>7

\* Two words are equal if each coefficient is.
LEMMA WordEqual ==
  ASSUME NEW p \in Word, NEW q \in Word, \A d \in 0 .. 31 : d \in p <=> d \in q
  PROVE  p = q
  BY DEF Word

\* The difference of two words is a word.
LEMMA SymDiffType ==
  ASSUME NEW p \in Word, NEW q \in Word
  PROVE  SymDiff(p, q) \in Word
  BY DEF SymDiff, Word

\* Words are a group under addition, in which every word is its own inverse.
LEMMA SymDiffGroup ==
  ASSUME NEW p, NEW q, NEW r
  PROVE  /\ SymDiff(p, {}) = p /\ SymDiff(p, p) = {}
         /\ SymDiff(p, q) = SymDiff(q, p)
         /\ SymDiff(SymDiff(p, q), r) = SymDiff(p, SymDiff(q, r))
  BY DEF SymDiff

\* The next remainder of a sum is the sum of the next remainders.
LEMMA NextIsLinear ==
  ASSUME NEW p \in Word, NEW q \in Word, NEW bit \in {0, 1}
  PROVE  NextRemainder(SymDiff(p, q), bit) =
           SymDiff(NextRemainder(p, bit), NextRemainder(q, 0))
<1> DEFINE sum == SymDiff(p, q)
           P == NextRemainder(p, bit)
           Q == NextRemainder(q, 0)
           R == NextRemainder(sum, bit)
<1>1. sum \in Word
  BY SymDiffType
<1>2. \A d : d \in sum <=> ~(d \in p <=> d \in q)
  BY InSymDiff
<1>3. P \in Word /\ Q \in Word /\ R \in Word /\ SymDiff(P, Q) \in Word
  BY <1>1, NextCoefficients, SymDiffType
<1>4. ASSUME NEW d \in 0 .. 31 PROVE d \in R <=> d \in SymDiff(P, Q)
  <2>1. d \in R <=> ~((d - 1 \in sum \/ (d = 0 /\ bit = 1)) <=> (31 \in sum /\ d \in Generator))
    BY <1>1, NextCoefficients
  <2>2. d \in P <=> ~((d - 1 \in p \/ (d = 0 /\ bit = 1)) <=> (31 \in p /\ d \in Generator))
    BY NextCoefficients
  <2>3. d \in Q <=> ~(d - 1 \in q <=> (31 \in q /\ d \in Generator))
    BY NextCoefficients
  <2>4. d = 0 => d - 1 \notin p /\ d - 1 \notin q /\ d - 1 \notin sum
    BY <1>2 DEF Word
  <2>5. d \in SymDiff(P, Q) <=> ~(d \in P <=> d \in Q)
    BY InSymDiff
  <2> HIDE DEF P, Q, R, sum
  <2> QED
    BY <1>2, <2>1, <2>2, <2>3, <2>4, <2>5
<1>5. R = SymDiff(P, Q)
  <2> HIDE DEF P, Q, R
  <2> QED
    BY <1>3, <1>4, WordEqual
<1> QED
  BY <1>5

\* The next remainder of a word below x^31 is the word shifted, and the bit.
LEMMA NextWithoutCarry ==
  ASSUME NEW r \in Word, 31 \notin r, NEW bit \in {0, 1}
  PROVE  NextRemainder(r, bit) = {d + 1 : d \in r} \cup {0 : k \in 1 .. bit}
<1> DEFINE timesX == {d + 1 : d \in r} \cup {0 : k \in 1 .. bit}
<1>1. 32 \notin timesX
  BY DEF Word
<1>2. NextRemainder(r, bit) = IF 32 \in timesX THEN SymDiff(timesX, Generator) ELSE timesX
  BY DEF NextRemainder
<1> QED
  BY <1>1, <1>2

-----------------------------------------------------------------------------
(* Octets.                                                                 *)

\* The bits of an octet, highest first: what OctetRemainder's turns take.
BitAt(octet, k) == (octet \div 2^(8 - k)) % 2

\* The powers that single out a bit.
LEMMA PowersOfTwo ==
  /\ 2^0 = 1 /\ 2^1 = 2 /\ 2^2 = 4 /\ 2^3 = 8
  /\ 2^4 = 16 /\ 2^5 = 32 /\ 2^6 = 64 /\ 2^7 = 128
  OBVIOUS

\* The eight bits, each by its power.
LEMMA EightBits ==
  ASSUME NEW octet \in Nat
  PROVE  /\ BitAt(octet, 1) = (octet \div 128) % 2
         /\ BitAt(octet, 2) = (octet \div 64) % 2
         /\ BitAt(octet, 3) = (octet \div 32) % 2
         /\ BitAt(octet, 4) = (octet \div 16) % 2
         /\ BitAt(octet, 5) = (octet \div 8) % 2
         /\ BitAt(octet, 6) = (octet \div 4) % 2
         /\ BitAt(octet, 7) = (octet \div 2) % 2
         /\ BitAt(octet, 8) = octet % 2
  BY PowersOfTwo DEF BitAt

\* The octet with given bits.
OctetOf(b1, b2, b3, b4, b5, b6, b7, b8) ==
  128 * b1 + 64 * b2 + 32 * b3 + 16 * b4 + 8 * b5 + 4 * b6 + 2 * b7 + b8

\* An octet is the sum of its bits.
LEMMA OctetIsItsBits ==
  ASSUME NEW octet \in 0 .. 255
  PROVE  octet = OctetOf(BitAt(octet, 1), BitAt(octet, 2), BitAt(octet, 3),
                         BitAt(octet, 4), BitAt(octet, 5), BitAt(octet, 6),
                         BitAt(octet, 7), BitAt(octet, 8))
<1>1. octet = OctetOf((octet \div 128) % 2, (octet \div 64) % 2, (octet \div 32) % 2,
                      (octet \div 16) % 2, (octet \div 8) % 2, (octet \div 4) % 2,
                      (octet \div 2) % 2, octet % 2)
  BY DEF OctetOf
<1>2. octet \in Nat
  OBVIOUS
<1> QED
  BY <1>1, <1>2, EightBits, ZenonT(60)

\* A bit is 0 or 1.
LEMMA BitAtType ==
  ASSUME NEW octet \in Nat, NEW k \in 1 .. 8
  PROVE  BitAt(octet, k) \in {0, 1}
<1>1. k \in {1, 2, 3, 4, 5, 6, 7, 8}
  OBVIOUS
<1> QED
  BY <1>1 DEF BitAt

\* No bit of 0 is 1.
LEMMA ZeroBits ==
  ASSUME NEW k \in 1 .. 8
  PROVE  BitAt(0, k) = 0
<1>1. k \in {1, 2, 3, 4, 5, 6, 7, 8}
  OBVIOUS
<1> QED
  BY <1>1, EightBits

\* The remainder goes through eight turns, one for each bit.
LEMMA OctetTurns ==
  ASSUME NEW r \in Word, NEW octet \in Nat
  PROVE  \E after \in [0 .. 8 -> Word] :
           /\ after[0] = r
           /\ \A k \in 1 .. 8 : after[k] = NextRemainder(after[k - 1], BitAt(octet, k))
           /\ after[8] = OctetRemainder(r, octet)
<1> DEFINE Turn(x, k) == NextRemainder(x, (octet \div 2^(8 - k)) % 2)
           T == [at \in (1 .. 8) \X Word |-> Turn(at[2], at[1])]
           P(f) == f = [k \in 0 .. 8 |-> IF k = 0 THEN r ELSE Turn(f[k - 1], k)]
           h == CHOOSE f : P(f)
<1>1. \A k \in 1 .. 8 : BitAt(octet, k) \in {0, 1}
  BY BitAtType
<1>2. \A x, k : Turn(x, k) = NextRemainder(x, BitAt(octet, k))
  BY DEF BitAt
<1>3. OctetRemainder(r, octet) = h[8]
  BY Zenon DEF OctetRemainder
<1> HIDE DEF Turn
<1>4. T \in [(1 .. 8) \X Word -> Word]
  BY <1>1, <1>2, NextCoefficients
<1>5. PICK f : AreTurns(f, 8, Word, r, T)
  <2>1. 8 \in Nat
    OBVIOUS
  <2> HIDE DEF T
  <2> QED
    BY <1>4, <2>1, TurnsExist, Zenon
<1>6. ASSUME NEW k \in 0 .. 8 PROVE f[k] = IF k = 0 THEN r ELSE Turn(f[k - 1], k)
  <2>1. k # 0 => f[k - 1] \in Word /\ k \in 1 .. 8
    BY <1>5 DEF AreTurns
  <2> QED
    BY <1>5, <2>1 DEF AreTurns
<1>7. P(f)
  BY <1>5, <1>6 DEF AreTurns
<1>8. P(h)
  <2> HIDE DEF P
  <2> QED
    BY <1>7, Zenon
<1> HIDE DEF h
<1>9. h[0] = r /\ \A k \in 1 .. 8 : h[k] = NextRemainder(h[k - 1], BitAt(octet, k))
  BY <1>2, <1>8
<1>10. h \in [0 .. 8 -> Word]
  <2> DEFINE U == {k \in 0 .. 8 : h[k] \in Word}
  <2>1. 0 \in U
    BY <1>9
  <2>2. \A k \in 1 .. 8 : k - 1 \in U => k \in U
    BY <1>1, <1>9, NextCoefficients
  <2>3. \A k \in 0 .. 8 : k \in U
    <3>1. 8 \in Nat
      OBVIOUS
    <3> HIDE DEF U
    <3> QED
      BY <2>1, <2>2, <3>1, TurnInduction
  <2>4. \A k \in 0 .. 8 : h[k] \in Word
    BY <2>3
  <2> QED
    BY <1>8, <2>4
<1> QED
  BY <1>3, <1>9, <1>10

\* The remainder of a word is a word.
LEMMA OctetType ==
  ASSUME NEW r \in Word, NEW octet \in Nat
  PROVE  OctetRemainder(r, octet) \in Word
  BY OctetTurns

\* The remainder of a sum is the sum of the remainders.
LEMMA OctetIsLinear ==
  ASSUME NEW p \in Word, NEW q \in Word, NEW octet \in Nat
  PROVE  OctetRemainder(SymDiff(p, q), octet) =
           SymDiff(OctetRemainder(p, octet), OctetRemainder(q, 0))
<1> DEFINE sum == SymDiff(p, q)
<1>1. sum \in Word
  BY SymDiffType
<1>2. PICK a \in [0 .. 8 -> Word] :
        /\ a[0] = p
        /\ \A k \in 1 .. 8 : a[k] = NextRemainder(a[k - 1], BitAt(octet, k))
        /\ a[8] = OctetRemainder(p, octet)
  BY OctetTurns
<1>3. PICK b \in [0 .. 8 -> Word] :
        /\ b[0] = q
        /\ \A k \in 1 .. 8 : b[k] = NextRemainder(b[k - 1], BitAt(0, k))
        /\ b[8] = OctetRemainder(q, 0)
  BY OctetTurns
<1>4. PICK c \in [0 .. 8 -> Word] :
        /\ c[0] = sum
        /\ \A k \in 1 .. 8 : c[k] = NextRemainder(c[k - 1], BitAt(octet, k))
        /\ c[8] = OctetRemainder(sum, octet)
  <2> HIDE DEF sum
  <2> QED
    BY <1>1, OctetTurns
<1>5. \A k \in 1 .. 8 : BitAt(0, k) = 0
  BY ZeroBits
<1> DEFINE T == {k \in 0 .. 8 : c[k] = SymDiff(a[k], b[k])}
<1>6. 0 \in T
  BY <1>2, <1>3, <1>4
<1>7. ASSUME NEW k \in 1 .. 8, k - 1 \in T PROVE k \in T
  <2>1. k - 1 \in 0 .. 8 /\ c[k - 1] = SymDiff(a[k - 1], b[k - 1])
    BY <1>7
  <2>2. a[k - 1] \in Word /\ b[k - 1] \in Word /\ BitAt(octet, k) \in {0, 1}
    BY <2>1, BitAtType
  <2>3. NextRemainder(SymDiff(a[k - 1], b[k - 1]), BitAt(octet, k)) =
          SymDiff(NextRemainder(a[k - 1], BitAt(octet, k)), NextRemainder(b[k - 1], 0))
    BY <2>2, NextIsLinear
  <2>4. b[k] = NextRemainder(b[k - 1], 0)
    BY <1>3, <1>5
  <2>5. c[k] = NextRemainder(SymDiff(a[k - 1], b[k - 1]), BitAt(octet, k))
    BY <1>4, <2>1
  <2> QED
    BY <1>2, <2>3, <2>4, <2>5
<1>8. \A k \in 0 .. 8 : k \in T
  <2>1. 8 \in Nat
    OBVIOUS
  <2> HIDE DEF T
  <2> QED
    BY <1>6, <1>7, <2>1, TurnInduction
<1>9. c[8] = SymDiff(a[8], b[8])
  BY <1>8
<1> QED
  BY <1>2, <1>3, <1>4, <1>9

\* A word below x^24 is only shifted.
LEMMA OctetShift ==
  ASSUME NEW q \in SUBSET (0 .. 23)
  PROVE  OctetRemainder(q, 0) = {i + 8 : i \in q}
<1>1. PICK a \in [0 .. 8 -> Word] :
        /\ a[0] = q
        /\ \A k \in 1 .. 8 : a[k] = NextRemainder(a[k - 1], BitAt(0, k))
        /\ a[8] = OctetRemainder(q, 0)
  <2>1. q \in Word /\ 0 \in Nat
    BY DEF Word
  <2> QED
    BY <2>1, OctetTurns
<1> DEFINE T == {k \in 0 .. 8 : a[k] = {i + k : i \in q}}
<1>2. 0 \in T
  <2>0. \A i \in q : i + 0 = i
    OBVIOUS
  <2>1. \A d : d \in q <=> d \in {i + 0 : i \in q}
    BY <2>0, Zenon
  <2> QED
    BY <1>1, <2>1
<1>3. ASSUME NEW k \in 1 .. 8, k - 1 \in T PROVE k \in T
  <2>1. k - 1 \in 0 .. 8 /\ a[k - 1] = {i + (k - 1) : i \in q} /\ a[k - 1] \in Word
    BY <1>3
  <2>2. 31 \notin a[k - 1]
    BY <2>1
  <2>3. a[k] = NextRemainder(a[k - 1], 0)
    BY <1>1, ZeroBits
  <2>4. a[k] = {d + 1 : d \in a[k - 1]} \cup {0 : j \in 1 .. 0}
    BY <2>1, <2>2, <2>3, NextWithoutCarry
  <2>5. a[k] = {d + 1 : d \in {i + (k - 1) : i \in q}}
    BY <2>1, <2>4
  <2>6. \A d : d \in {j + 1 : j \in {i + (k - 1) : i \in q}} <=> d \in {i + k : i \in q}
    <3>1. \A i \in q : (i + (k - 1)) + 1 = i + k
      OBVIOUS
    <3> QED
      BY <3>1, Zenon
  <2> QED
    BY <2>5, <2>6
<1>4. \A k \in 0 .. 8 : k \in T
  <2>1. 8 \in Nat
    OBVIOUS
  <2> HIDE DEF T
  <2> QED
    BY <1>2, <1>3, <2>1, TurnInduction
<1>5. a[8] = {i + 8 : i \in q}
  BY <1>4
<1> QED
  BY <1>1, <1>5

\* The ones of an octet are eight at most.
LEMMA BitsOfOctet ==
  ASSUME NEW octet \in 0 .. 255
  PROVE  Bits(octet) = {d \in 0 .. 7 : BitAt(octet, 8 - d) = 1}
<1>1. ASSUME NEW d \in 0 .. 15
      PROVE  (octet \div 2^d) % 2 = 1 <=> d \in 0 .. 7 /\ BitAt(octet, 8 - d) = 1
  <2>1. d \in {0, 1, 2, 3, 4, 5, 6, 7} \/ d \in {8, 9, 10, 11, 12, 13, 14, 15}
    OBVIOUS
  <2>2. CASE d \in {0, 1, 2, 3, 4, 5, 6, 7}
    <3>1. 8 - (8 - d) = d
      OBVIOUS
    <3> QED
      BY <2>2, <3>1 DEF BitAt
  <2>3. CASE d \in {8, 9, 10, 11, 12, 13, 14, 15}
    <3>1. d = 8 => octet \div 2^d = 0
      OBVIOUS
    <3>2. d = 9 => octet \div 2^d = 0
      OBVIOUS
    <3>3. d = 10 => octet \div 2^d = 0
      OBVIOUS
    <3>4. d = 11 => octet \div 2^d = 0
      OBVIOUS
    <3>5. d = 12 => octet \div 2^d = 0
      OBVIOUS
    <3>6. d = 13 => octet \div 2^d = 0
      OBVIOUS
    <3>7. d = 14 => octet \div 2^d = 0
      OBVIOUS
    <3>8. d = 15 => octet \div 2^d = 0
      OBVIOUS
    <3>9. octet \div 2^d = 0 /\ d \notin 0 .. 7
      BY <2>3, <3>1, <3>2, <3>3, <3>4, <3>5, <3>6, <3>7, <3>8
    <3>10. (octet \div 2^d) % 2 # 1
      <4>1. 0 % 2 # 1
        OBVIOUS
      <4> QED
        BY <3>9, <4>1, Zenon
    <3> QED
      BY <3>9, <3>10, Zenon
  <2> QED
    BY <2>1, <2>2, <2>3
<1>2. \A d \in 0 .. 7 : d \in 0 .. 15
  OBVIOUS
<1>3. \A d : d \in Bits(octet) <=> d \in 0 .. 15 /\ (octet \div 2^d) % 2 = 1
  BY Zenon DEF Bits
<1> QED
  BY <1>1, <1>2, <1>3, Zenon

\* An octet alone is its own remainder.
LEMMA OctetAlone ==
  ASSUME NEW octet \in 0 .. 255
  PROVE  OctetRemainder({}, octet) = Bits(octet)
<1>1. PICK a \in [0 .. 8 -> Word] :
        /\ a[0] = {}
        /\ \A k \in 1 .. 8 : a[k] = NextRemainder(a[k - 1], BitAt(octet, k))
        /\ a[8] = OctetRemainder({}, octet)
  <2>1. {} \in Word /\ octet \in Nat
    BY DEF Word
  <2> QED
    BY <2>1, OctetTurns
<1> DEFINE T == {k \in 0 .. 8 : a[k] = {d \in 0 .. k - 1 : BitAt(octet, k - d) = 1}}
<1>2. 0 \in T
  BY <1>1
<1>3. ASSUME NEW k \in 1 .. 8, k - 1 \in T PROVE k \in T
  <2> DEFINE bit == BitAt(octet, k)
  <2>1. k - 1 \in 0 .. 8 /\ a[k - 1] = {d \in 0 .. k - 2 : BitAt(octet, k - 1 - d) = 1}
    BY <1>3
  <2>2. 31 \notin a[k - 1] /\ a[k - 1] \in Word
    BY <2>1
  <2>3. bit \in {0, 1}
    BY BitAtType
  <2>4. a[k] = {d + 1 : d \in a[k - 1]} \cup {0 : j \in 1 .. bit}
    <3> HIDE DEF bit
    <3>1. a[k] = NextRemainder(a[k - 1], bit)
      BY <1>1 DEF bit
    <3> QED
      BY <2>2, <2>3, <3>1, NextWithoutCarry
  <2>5. ASSUME NEW d \in 1 .. k - 1
        PROVE  BitAt(octet, k - d) = BitAt(octet, k - 1 - (d - 1))
    <3>1. k - d = k - 1 - (d - 1)
      OBVIOUS
    <3> QED
      BY <3>1
  <2> HIDE DEF bit
  <2>6. \A d : d \in a[k] <=> (d - 1 \in a[k - 1] /\ d \in 1 .. k - 1) \/ (d = 0 /\ bit = 1)
    BY <2>1, <2>3, <2>4
  <2>7. ASSUME NEW d \in 0 .. k - 1 PROVE d \in a[k] <=> BitAt(octet, k - d) = 1
    <3>1. CASE d = 0
      <4>1. k - d = k
        BY <3>1
      <4> QED
        BY <2>6, <3>1, <4>1 DEF bit
    <3>2. CASE d # 0
      <4>1. d \in 1 .. k - 1 /\ d - 1 \in 0 .. k - 2
        BY <3>2
      <4>2. d - 1 \in a[k - 1] <=> BitAt(octet, k - 1 - (d - 1)) = 1
        BY <2>1, <4>1
      <4> QED
        BY <2>5, <2>6, <3>2, <4>1, <4>2
    <3> QED
      BY <3>1, <3>2
  <2>8. \A d \in a[k] : d \in 0 .. k - 1
    BY <2>6
  <2>9. a[k] = {d \in 0 .. k - 1 : BitAt(octet, k - d) = 1}
    BY <2>7, <2>8
  <2> QED
    BY <2>9
<1>4. \A k \in 0 .. 8 : k \in T
  <2>1. 8 \in Nat
    OBVIOUS
  <2> HIDE DEF T
  <2> QED
    BY <1>2, <1>3, <2>1, TurnInduction
<1>5. a[8] = {d \in 0 .. 7 : BitAt(octet, 8 - d) = 1}
  BY <1>4
<1> QED
  BY <1>1, <1>5, BitsOfOctet

\* The ones of an octet, of which there are at most eight, tell which it is.
LEMMA BitsTell ==
  /\ \A octet \in 0 .. 255 : Bits(octet) \in SUBSET (0 .. 7) /\ Bits(octet) \in Word
  /\ \A m, n \in 0 .. 255 : Bits(m) = Bits(n) => m = n
<1>1. ASSUME NEW octet \in 0 .. 255
      PROVE  Bits(octet) \in SUBSET (0 .. 7) /\ Bits(octet) \in Word
  BY BitsOfOctet DEF Word
<1>2. ASSUME NEW m \in 0 .. 255, NEW n \in 0 .. 255, Bits(m) = Bits(n)
      PROVE  m = n
  <2>1. ASSUME NEW k \in 1 .. 8 PROVE BitAt(m, k) = BitAt(n, k)
    <3>1. 8 - k \in 0 .. 7 /\ 8 - (8 - k) = k
      OBVIOUS
    <3>2. 8 - k \in Bits(m) <=> BitAt(m, k) = 1
      BY <3>1, BitsOfOctet, SMTT(60)
    <3>3. 8 - k \in Bits(n) <=> BitAt(n, k) = 1
      BY <3>1, BitsOfOctet
    <3>4. BitAt(m, k) \in {0, 1} /\ BitAt(n, k) \in {0, 1}
      BY BitAtType
    <3> QED
      BY <1>2, <3>2, <3>3, <3>4
  <2>2. /\ BitAt(m, 1) = BitAt(n, 1) /\ BitAt(m, 2) = BitAt(n, 2)
        /\ BitAt(m, 3) = BitAt(n, 3) /\ BitAt(m, 4) = BitAt(n, 4)
        /\ BitAt(m, 5) = BitAt(n, 5) /\ BitAt(m, 6) = BitAt(n, 6)
        /\ BitAt(m, 7) = BitAt(n, 7) /\ BitAt(m, 8) = BitAt(n, 8)
    BY <2>1
  <2>3. m = OctetOf(BitAt(m, 1), BitAt(m, 2), BitAt(m, 3), BitAt(m, 4),
                    BitAt(m, 5), BitAt(m, 6), BitAt(m, 7), BitAt(m, 8))
    BY OctetIsItsBits
  <2>4. n = OctetOf(BitAt(n, 1), BitAt(n, 2), BitAt(n, 3), BitAt(n, 4),
                    BitAt(n, 5), BitAt(n, 6), BitAt(n, 7), BitAt(n, 8))
    BY OctetIsItsBits
  <2> QED
    BY <2>2, <2>3, <2>4
<1> QED
  BY <1>1, <1>2

\* An octet is added to what the remainder becomes without it.
LEMMA OctetSplit ==
  ASSUME NEW r \in Word, NEW octet \in 0 .. 255
  PROVE  OctetRemainder(r, octet) = SymDiff(OctetRemainder(r, 0), Bits(octet))
<1>1. SymDiff({}, r) = r
  BY DEF SymDiff
<1>2. {} \in Word /\ octet \in Nat
  BY DEF Word
<1>4. OctetRemainder({}, octet) = Bits(octet)
  BY OctetAlone
<1>3. OctetRemainder(SymDiff({}, r), octet) =
        SymDiff(OctetRemainder({}, octet), OctetRemainder(r, 0))
  BY <1>2, OctetIsLinear
<1> QED
  BY <1>1, <1>3, <1>4, SymDiffGroup

-----------------------------------------------------------------------------
(* The table.                                                              *)

\* Multiplying by x^32 keeps words, and sums.
LEMMA TimesX32IsLinear ==
  ASSUME NEW p \in Word, NEW q \in Word
  PROVE  /\ TimesX32(p) \in Word
         /\ TimesX32(SymDiff(p, q)) = SymDiff(TimesX32(p), TimesX32(q))
<1> DEFINE O(r) == OctetRemainder(r, 0)
<1>1. \A r \in Word : O(r) \in Word
  BY OctetType
<1>2. \A r, t \in Word : O(SymDiff(r, t)) = SymDiff(O(r), O(t))
  BY OctetIsLinear
<1>3. \A r : TimesX32(r) = O(O(O(O(r))))
  BY DEF TimesX32
<1> HIDE DEF O
<1>4. O(p) \in Word /\ O(q) \in Word
  BY <1>1
<1>5. O(O(p)) \in Word /\ O(O(q)) \in Word
  BY <1>1, <1>4
<1>6. O(O(O(p))) \in Word /\ O(O(O(q))) \in Word
  BY <1>1, <1>5
<1>7. O(SymDiff(p, q)) = SymDiff(O(p), O(q))
  BY <1>2
<1>8. O(SymDiff(O(p), O(q))) = SymDiff(O(O(p)), O(O(q)))
  BY <1>2, <1>4
<1>9. O(SymDiff(O(O(p)), O(O(q)))) = SymDiff(O(O(O(p))), O(O(O(q))))
  BY <1>2, <1>5
<1>10. O(SymDiff(O(O(O(p))), O(O(O(q))))) = SymDiff(O(O(O(O(p)))), O(O(O(O(q)))))
  BY <1>2, <1>6
<1> QED
  BY <1>1, <1>3, <1>6, <1>7, <1>8, <1>9, <1>10

\* One turn of memcrc's loop, without the table: the word is multiplied by x^8,
\* and the byte, multiplied by x^32, is added.
LEMMA CrcStepDivides ==
  ASSUME NEW s \in Word, NEW byte \in 0 .. 255
  PROVE  CrcStep(s, byte) = SymDiff(OctetRemainder(s, 0), TimesX32(Bits(byte)))
<1> DEFINE low     == {j \in s : j < 24}
           high    == {j \in s : j >= 24}
           shifted == {i + 8 : i \in low}
           top     == {i - 24 : i \in high}
           bits    == Bits(byte)
<1>0. \A j \in s : j \in 0 .. 31
  BY DEF Word
<1>1. low \in SUBSET (0 .. 23) /\ low \in Word /\ high \in Word /\ top \in SUBSET (0 .. 7)
  <2>1. \A j \in low : j \in 0 .. 23 /\ j \in 0 .. 31
    BY <1>0
  <2>2. \A j \in high : j \in 24 .. 31 /\ j \in 0 .. 31 /\ j - 24 \in 0 .. 7
    BY <1>0
  <2>3. \A i \in top : i \in 0 .. 7
    BY <2>2
  <2> HIDE DEF low, high, top
  <2> QED
    BY <2>1, <2>2, <2>3 DEF Word
<1>2. bits \in SUBSET (0 .. 7) /\ bits \in Word /\ top \in Word
  <2>1. top \in Word
    BY <1>1 DEF Word
  <2> QED
    BY <2>1, BitsTell
<1>3. SymDiff(low, high) = s
  <2>1. \A j \in s : j \in low <=> ~(j \in high)
    BY <1>0
  <2>2. \A j : j \in low \/ j \in high => j \in s
    OBVIOUS
  <2>3. \A j : j \in SymDiff(low, high) <=> ~(j \in low <=> j \in high)
    BY InSymDiff
  <2> HIDE DEF low, high
  <2>4. \A j : j \in SymDiff(low, high) <=> j \in s
    BY <2>1, <2>2, <2>3
  <2> QED
    BY <2>4
<1>4. OctetRemainder(low, 0) = shifted
  <2> HIDE DEF low
  <2> QED
    BY <1>1, OctetShift
<1>5. OctetRemainder(high, 0) = TimesX32(top)
  <2> DEFINE t8  == {i + 8 : i \in top}
             t16 == {i + 8 : i \in t8}
             t24 == {i + 8 : i \in t16}
  <2>1. t8 \in SUBSET (0 .. 23) /\ t16 \in SUBSET (0 .. 23)
    BY <1>1
  <2>2. t24 = high
    <3>1. \A j \in high : ((((j - 24) + 8) + 8) + 8) = j
      BY <1>0
    <3>2. ASSUME NEW j \in high PROVE j \in t24
      <4>1. (((j - 24) + 8) + 8) + 8 \in t24
        OBVIOUS
      <4> QED
        BY <3>1, <4>1, Zenon
    <3>3. ASSUME NEW j \in t24 PROVE j \in high
      <4>1. PICK i \in high : j = (((i - 24) + 8) + 8) + 8
        OBVIOUS
      <4> QED
        BY <3>1, <4>1, Zenon
    <3> HIDE DEF t24, high
    <3> QED
      BY <3>2, <3>3
  <2>3. OctetRemainder(top, 0) = t8
    <3>1. top \in SUBSET (0 .. 23)
      BY <1>1
    <3> HIDE DEF top
    <3> QED
      BY <3>1, OctetShift
  <2>4. OctetRemainder(t8, 0) = t16
    <3> HIDE DEF t8
    <3> QED
      BY <2>1, OctetShift
  <2>5. OctetRemainder(t16, 0) = t24
    <3> HIDE DEF t16
    <3> QED
      BY <2>1, OctetShift
  <2> HIDE DEF t8, t16, t24, top, high
  <2> QED
    BY <2>2, <2>3, <2>4, <2>5 DEF TimesX32
<1>6. SymDiff(top, bits) \in SUBSET (0 .. 7)
  BY <1>1, <1>2 DEF SymDiff
<1>7. CrcStep(s, byte) = SymDiff(shifted, crctab[SymDiff(top, bits)])
  BY Zenon DEF CrcStep
<1> HIDE DEF low, high, shifted, top, bits
<1>8. crctab[SymDiff(top, bits)] = TimesX32(SymDiff(top, bits))
  BY <1>6, CrctabAssumption DEF CrctabAssumption
<1>9. TimesX32(SymDiff(top, bits)) = SymDiff(TimesX32(top), TimesX32(bits))
  BY <1>2, TimesX32IsLinear
<1>10. OctetRemainder(s, 0) = SymDiff(shifted, TimesX32(top))
  BY <1>1, <1>3, <1>4, <1>5, OctetIsLinear
<1>11. CrcStep(s, byte) = SymDiff(SymDiff(shifted, TimesX32(top)), TimesX32(bits))
  BY <1>7, <1>8, <1>9, SymDiffGroup
<1> QED
  BY <1>10, <1>11 DEF bits

\* memcrc, which never multiplies by x^32 at the end, is ahead of the division by
\* just that factor.
LEMMA CrcStepIsAhead ==
  ASSUME NEW r \in Word, NEW byte \in 0 .. 255
  PROVE  CrcStep(TimesX32(r), byte) = TimesX32(OctetRemainder(r, byte))
<1>1. Bits(byte) \in Word
  BY BitsTell
<1>2. OctetRemainder(r, 0) \in Word
  BY OctetType
<1>3. TimesX32(r) \in Word
  BY TimesX32IsLinear
<1>4. CrcStep(TimesX32(r), byte) =
        SymDiff(OctetRemainder(TimesX32(r), 0), TimesX32(Bits(byte)))
  BY <1>3, CrcStepDivides
<1>5. TimesX32(OctetRemainder(r, byte)) =
        SymDiff(TimesX32(OctetRemainder(r, 0)), TimesX32(Bits(byte)))
  BY <1>1, <1>2, OctetSplit, TimesX32IsLinear
<1>6. OctetRemainder(TimesX32(r), 0) = TimesX32(OctetRemainder(r, 0))
  BY DEF TimesX32
<1> QED
  BY <1>4, <1>5, <1>6

-----------------------------------------------------------------------------
(* The loops.                                                              *)

\* The words memcrc's loop goes through for a sequence of bytes.
LEMMA CrcStepsTurns ==
  ASSUME NEW word \in Word, NEW bytes \in Seq(0 .. 255)
  PROVE  \E s \in [0 .. Len(bytes) -> Word] :
           /\ s[0] = word
           /\ \A k \in 1 .. Len(bytes) : s[k] = CrcStep(s[k - 1], bytes[k])
           /\ s[Len(bytes)] = CrcSteps(word, bytes)
<1> DEFINE n == Len(bytes)
           G == [at \in (1 .. n) \X Word |-> CrcStep(at[2], bytes[at[1]])]
           P(f) == f = [at \in (1 .. n + 1) \X Word |->
                          IF at[1] > n THEN at[2]
                          ELSE f[<<at[1] + 1, CrcStep(at[2], bytes[at[1]])>>]]
           h == CHOOSE f : P(f)
<1>1. CrcSteps(word, bytes) = h[<<1, word>>]
  BY Zenon DEF CrcSteps
<1>2. n \in Nat /\ \A k \in 1 .. n : bytes[k] \in 0 .. 255
  <2>1. n \in Nat
    OBVIOUS
  <2>2. ASSUME NEW k \in 1 .. n PROVE bytes[k] \in 0 .. 255
    BY ElementOfSeq
  <2> QED
    BY <2>1, <2>2
<1> HIDE DEF n
<1>3. \A k \in 1 .. n : \A s \in Word : CrcStep(s, bytes[k]) \in Word
  <2> SUFFICES ASSUME NEW k \in 1 .. n, NEW s \in Word PROVE CrcStep(s, bytes[k]) \in Word
    OBVIOUS
  <2>1. bytes[k] \in 0 .. 255 /\ Bits(bytes[k]) \in Word
    BY <1>2, BitsTell
  <2>2. OctetRemainder(s, 0) \in Word /\ TimesX32(Bits(bytes[k])) \in Word
    BY <2>1, OctetType, TimesX32IsLinear
  <2> QED
    BY <2>1, <2>2, CrcStepDivides, SymDiffType, ZenonT(60)
<1>4. G \in [(1 .. n) \X Word -> Word]
  BY <1>3
<1>5. ASSUME NEW f
      PROVE  [at \in (1 .. n + 1) \X Word |->
                IF at[1] > n THEN at[2] ELSE f[<<at[1] + 1, G[at]>>]] =
             [at \in (1 .. n + 1) \X Word |->
                IF at[1] > n THEN at[2]
                ELSE f[<<at[1] + 1, CrcStep(at[2], bytes[at[1]])>>]]
  <2>1. ASSUME NEW at \in (1 .. n + 1) \X Word, ~(at[1] > n)
        PROVE  G[at] = CrcStep(at[2], bytes[at[1]])
    <3>1. at[1] \in 1 .. n /\ at[2] \in Word /\ at = <<at[1], at[2]>>
      BY <1>2, <2>1
    <3>2. at \in (1 .. n) \X Word
      BY <3>1
    <3> QED
      BY <3>2
  <2> HIDE DEF G
  <2> QED
    BY <2>1
<1>6. PICK f : IsLoop(f, n, Word, G)
  <2> HIDE DEF G
  <2> QED
    BY <1>2, <1>4, LoopExists, Zenon
<1>7. P(f)
  <2> HIDE DEF G
  <2> QED
    BY <1>5, <1>6, Zenon DEF IsLoop
<1>8. P(h)
  <2> HIDE DEF P
  <2> QED
    BY <1>7, Zenon
<1> HIDE DEF h
<1>9. IsLoop(h, n, Word, G)
  <2> HIDE DEF G
  <2> QED
    BY <1>5, <1>8 DEF IsLoop
<1>10. PICK s : AreTurns(s, n, Word, word, G)
  <2> HIDE DEF G
  <2> QED
    BY <1>2, <1>4, TurnsExist, Zenon
<1>11. s[n] = CrcSteps(word, bytes)
  <2> HIDE DEF G
  <2> QED
    BY <1>1, <1>2, <1>9, <1>10, LoopReturnsLast
<1>12. ASSUME NEW k \in 1 .. n PROVE s[k] = CrcStep(s[k - 1], bytes[k])
  <2>1. <<k, s[k - 1]>> \in (1 .. n) \X Word
    BY <1>2, <1>10 DEF AreTurns
  <2> QED
    BY <1>10, <2>1 DEF AreTurns
<1>13. s \in [0 .. n -> Word] /\ s[0] = word
  BY <1>10 DEF AreTurns
<1> QED
  BY <1>11, <1>12, <1>13 DEF n

\* How many octets a length takes.
LEMMA OctetCounts ==
  ASSUME NEW n \in Nat, n < 2^32
  PROVE  OctetCount(n) = IF n = 0 THEN 0 ELSE IF n < 256 THEN 1
                         ELSE IF n < 256^2 THEN 2 ELSE IF n < 256^3 THEN 3 ELSE 4
<1> DEFINE K == {k \in 0 .. 3 : n \div 256^k > 0}
           c == IF n = 0 THEN 0 ELSE IF n < 256 THEN 1
                ELSE IF n < 256^2 THEN 2 ELSE IF n < 256^3 THEN 3 ELSE 4
<1>1. ASSUME NEW k \in 0 .. 3 PROVE n \div 256^k > 0 <=> k < c
  <2>0. n < 256^4
    OBVIOUS
  <2>1. k = 0 => (n \div 256^k > 0 <=> n > 0)
    OBVIOUS
  <2>2. k = 1 => (n \div 256^k > 0 <=> n >= 256)
    OBVIOUS
  <2>3. k = 2 => (n \div 256^k > 0 <=> n >= 256^2)
    OBVIOUS
  <2>4. k = 3 => (n \div 256^k > 0 <=> n >= 256^3)
    OBVIOUS
  <2>5. k = 0 \/ k = 1 \/ k = 2 \/ k = 3
    OBVIOUS
  <2>6. CASE k = 0
    BY <2>1, <2>6
  <2>7. CASE k = 1
    BY <2>2, <2>7
  <2>8. CASE k = 2
    BY <2>3, <2>8
  <2>9. CASE k = 3
    BY <2>4, <2>9
  <2> QED
    BY <2>5, <2>6, <2>7, <2>8, <2>9
<1>2. c \in 0 .. 4
  OBVIOUS
<1>3. \A k : k \in K <=> k \in 0 .. 3 /\ k < c
  <2> HIDE DEF c
  <2> QED
    BY <1>1
<1>4. K = 0 .. c - 1
  <2> HIDE DEF c, K
  <2>1. ASSUME NEW k PROVE k \in 0 .. 3 /\ k < c <=> k \in 0 .. c - 1
    BY <1>2
  <2>2. \A k : k \in K <=> k \in 0 .. c - 1
    BY <1>3, <2>1, Zenon
  <2> QED
    BY <2>2, Zenon
<1>5. Cardinality(0 .. c - 1) = c
  <2> HIDE DEF c
  <2>1. 0 \in Int /\ c - 1 \in Int
    BY <1>2
  <2>2. Cardinality(0 .. c - 1) = IF 0 > c - 1 THEN 0 ELSE (c - 1) - 0 + 1
    BY <2>1, FS_Interval
  <2> QED
    BY <1>2, <2>2
<1>6. OctetCount(n) = Cardinality(K)
  BY Zenon DEF OctetCount
<1> HIDE DEF K, c
<1>7. OctetCount(n) = c
  BY <1>4, <1>5, <1>6
<1> QED
  BY <1>7 DEF c

\* One turn of the loop of memcrc that takes the length apart.
LengthTurn(f, n) == <<n % 256>> \o f[n \div 256]

\* The loop of memcrc that takes the length apart: what is left after each turn.
LEMMA LengthBytesUnfold ==
  ASSUME NEW length \in Nat
  PROVE  \E left \in [0 .. length -> Seq(0 .. 255)] :
           /\ left[0] = <<>>
           /\ \A n \in 1 .. length : left[n] = LengthTurn(left, n)
           /\ left[length] = lengthBytes(length)
<1> DEFINE S == Seq(0 .. 255)
           LengthValue(f, n) == IF n = 0 THEN <<>> ELSE LengthTurn(f, n)
           Good(m) == \E f \in [0 .. length -> S] :
                        \A n \in 0 .. length : n <= m => f[n] = LengthValue(f, n)
           T == {m \in Nat : Good(m)}
           P(f) == f = [n \in 0 .. length |-> IF n = 0 THEN <<>> ELSE LengthTurn(f, n)]
           h == CHOOSE f : P(f)
<1>1. lengthBytes(length) = h[length]
  BY Zenon DEF lengthBytes, LengthTurn
<1>2. \A n \in 1 .. length : n \div 256 \in 0 .. n - 1 /\ n \div 256 \in 0 .. length
  OBVIOUS
<1>3. ASSUME NEW f \in [0 .. length -> S], NEW n \in 0 .. length
      PROVE  LengthValue(f, n) \in S
  <2>1. CASE n = 0
    BY <2>1
  <2>2. CASE n # 0
    <3>1. f[n \div 256] \in S /\ <<n % 256>> \in S
      BY <1>2, <2>2
    <3> HIDE DEF S
    <3>2. <<n % 256>> \o f[n \div 256] \in S
      BY <3>1 DEF S
    <3> QED
      BY <2>2, <3>2 DEF LengthTurn
  <2> QED
    BY <2>1, <2>2
<1>4. Good(0)
  <2> DEFINE f == [n \in 0 .. length |-> <<>>]
  <2>1. f \in [0 .. length -> S] /\ \A n \in 0 .. length : n <= 0 => f[n] = LengthValue(f, n)
    OBVIOUS
  <2> QED
    BY <2>1
<1>5. ASSUME NEW m \in Nat, Good(m) PROVE Good(m + 1)
  <2>1. PICK f \in [0 .. length -> S] : \A n \in 0 .. length : n <= m => f[n] = LengthValue(f, n)
    BY <1>5
  <2> DEFINE g == [n \in 0 .. length |-> LengthValue(f, n)]
  <2>2. g \in [0 .. length -> S]
    <3> HIDE DEF LengthValue, S
    <3> QED
      BY <1>3
  <2>3. ASSUME NEW n \in 0 .. length, n <= m + 1 PROVE g[n] = LengthValue(g, n)
    <3>1. CASE n = 0
      BY <3>1
    <3>2. CASE n # 0
      <4>1. n \div 256 \in 0 .. length /\ n \div 256 <= m
        BY <1>2, <2>3, <3>2
      <4>2. g[n \div 256] = f[n \div 256]
        <5> HIDE DEF LengthValue
        <5> QED
          BY <2>1, <4>1
      <4>3. g[n] = LengthTurn(f, n)
        BY <3>2
      <4> HIDE DEF g
      <4>4. LengthTurn(f, n) = LengthTurn(g, n)
        BY <4>2 DEF LengthTurn
      <4> QED
        BY <3>2, <4>3, <4>4
    <3> QED
      BY <3>1, <3>2
  <2> HIDE DEF g, LengthValue
  <2> QED
    BY <2>2, <2>3
<1> HIDE DEF Good
<1>6. Nat \subseteq T
  <2>1. 0 \in T
    BY <1>4
  <2>2. \A m \in Nat : m \in T => m + 1 \in T
    BY <1>5
  <2> HIDE DEF T
  <2> QED
    BY <2>1, <2>2, SetInduction
<1>7. Good(length)
  BY <1>6
<1>8. PICK f \in [0 .. length -> S] : \A n \in 0 .. length : n <= length => f[n] = LengthValue(f, n)
  <2> HIDE DEF LengthValue
  <2> QED
    BY <1>7 DEF Good
<1>9. P(f)
  <2>1. ASSUME NEW n \in 0 .. length PROVE f[n] = LengthValue(f, n)
    <3>1. n <= length
      OBVIOUS
    <3> HIDE DEF LengthValue
    <3> QED
      BY <1>8, <3>1
  <2> QED
    BY <2>1
<1>10. P(h)
  <2> HIDE DEF P
  <2> QED
    BY <1>9, Zenon
<1> HIDE DEF h
<1>11. ASSUME NEW g, P(g)
       PROVE  /\ g[0] = <<>>
              /\ \A n \in 1 .. length : g[n] = LengthTurn(g, n)
  <2>1. 0 \in 0 .. length
    OBVIOUS
  <2>2. ASSUME NEW n \in 1 .. length PROVE n \in 0 .. length /\ n # 0
    OBVIOUS
  <2> QED
    BY <1>11, <2>1, <2>2
<1> DEFINE U == {m \in Nat : \A n \in 0 .. length : n <= m => h[n] = f[n]}
<1>12. Nat \subseteq U
  <2>0. h[0] = f[0]
    <3> HIDE DEF P
    <3> QED
      BY <1>9, <1>10, <1>11
  <2>1. 0 \in U
    BY <2>0
  <2>2. ASSUME NEW m \in Nat, m \in U PROVE m + 1 \in U
    <3>1. ASSUME NEW n \in 0 .. length, n <= m + 1 PROVE h[n] = f[n]
      <4>1. CASE n = 0
        BY <2>0, <4>1
      <4>2. CASE n # 0
        <5>1. n \div 256 \in 0 .. length /\ n \div 256 <= m /\ n \in 1 .. length
          BY <1>2, <3>1, <4>2
        <5>2. h[n \div 256] = f[n \div 256]
          BY <2>2, <5>1
        <5> HIDE DEF P
        <5>3. h[n] = LengthTurn(h, n)
          BY <1>10, <1>11, <5>1
        <5>4. f[n] = LengthTurn(f, n)
          BY <1>9, <1>11, <5>1
        <5> QED
          BY <5>2, <5>3, <5>4 DEF LengthTurn
      <4> QED
        BY <4>1, <4>2
    <3> QED
      BY <3>1
  <2> HIDE DEF U
  <2> QED
    BY <2>1, <2>2, SetInduction
<1>13. h[length] = f[length]
  <2>1. length \in U
    BY <1>12
  <2>2. \A n \in 0 .. length : n <= length => h[n] = f[n]
    <3> HIDE DEF P
    <3> QED
      BY <2>1
  <2>3. length \in 0 .. length /\ length <= length
    OBVIOUS
  <2> QED
    BY <2>2, <2>3
<1>14. f[0] = <<>> /\ \A n \in 1 .. length : f[n] = LengthTurn(f, n)
  <2> HIDE DEF P
  <2> QED
    BY <1>9, <1>11
<1> QED
  BY <1>1, <1>13, <1>14

\* The octets of a number, the lowest first.
NumberOctet(n, k) == (n \div 256^(k - 1)) % 256

\* The octets but the lowest are those of the number divided by 256.
LEMMA OctetsShifted ==
  ASSUME NEW n \in Nat, n < 2^32, n # 0
  PROVE  /\ OctetCount(n) = OctetCount(n \div 256) + 1
         /\ OctetCount(n) \in 1 .. 4
         /\ NumberOctet(n, 1) = n % 256
         /\ \A k \in 1 .. 3 : NumberOctet(n, k + 1) = NumberOctet(n \div 256, k)
<1>1. PICK q \in Nat : q = n \div 256
  BY SMT
<1>2. /\ n < 256 <=> q = 0
      /\ n < 256^2 <=> q < 256
      /\ n < 256^3 <=> q < 256^2
      /\ q < 256^3 /\ q < 2^32
  BY <1>1, SMT
<1>3. OctetCount(n) = IF n < 256 THEN 1 ELSE IF n < 256^2 THEN 2 ELSE IF n < 256^3 THEN 3 ELSE 4
  BY OctetCounts, SMT
<1>4. OctetCount(q) = IF q = 0 THEN 0 ELSE IF q < 256 THEN 1 ELSE IF q < 256^2 THEN 2 ELSE 3
  BY <1>2, OctetCounts, SMT
<1>5. NumberOctet(n, 1) = n % 256
  BY SMT DEF NumberOctet
<1>6. ASSUME NEW k \in 1 .. 3 PROVE NumberOctet(n, k + 1) = NumberOctet(q, k)
  <2>1. k = 1 \/ k = 2 \/ k = 3
    OBVIOUS
  <2>2. NumberOctet(n, 2) = NumberOctet(q, 1)
    BY <1>1, SMT DEF NumberOctet
  <2>3. NumberOctet(n, 3) = NumberOctet(q, 2)
    BY <1>1, SMT DEF NumberOctet
  <2>4. NumberOctet(n, 4) = NumberOctet(q, 3)
    BY <1>1, SMT DEF NumberOctet
  <2> QED
    BY <2>1, <2>2, <2>3, <2>4
<1>7. OctetCount(n) = OctetCount(q) + 1 /\ OctetCount(n) \in 1 .. 4
  BY <1>2, <1>3, <1>4, SMT
<1> QED
  BY <1>1, <1>5, <1>6, <1>7

\* The loop takes as many octets from the length as it has, the lowest first.
LEMMA LengthOctets ==
  ASSUME NEW n \in Nat, n < 2^32
  PROVE  /\ lengthBytes(n) \in Seq(0 .. 255)
         /\ Len(lengthBytes(n)) = OctetCount(n)
         /\ \A k \in 1 .. OctetCount(n) : lengthBytes(n)[k] = NumberOctet(n, k)
<1>1. PICK left \in [0 .. n -> Seq(0 .. 255)] :
        /\ left[0] = <<>>
        /\ \A m \in 1 .. n : left[m] = LengthTurn(left, m)
        /\ left[n] = lengthBytes(n)
  BY LengthBytesUnfold
<1> DEFINE Taken(m) == /\ Len(left[m]) = OctetCount(m)
                       /\ \A k \in 1 .. OctetCount(m) : left[m][k] = NumberOctet(m, k)
<1>2. Taken(0)
  <2>1. OctetCount(0) = 0
    <3>1. PICK z \in Nat : z = 0 /\ z < 2^32
      BY SMT
    <3> QED
      BY <3>1, OctetCounts
  <2> QED
    BY <1>1, <2>1
<1>3. ASSUME NEW m \in 0 .. n, m # 0, NEW q \in 0 .. n, q = m \div 256, Taken(q)
      PROVE  Taken(m)
  <2>1. left[q] \in Seq(0 .. 255) /\ Len(left[q]) = OctetCount(q)
    BY <1>3
  <2>2. m \in Nat /\ m < 2^32 /\ m \in 1 .. n
    BY <1>3, SMT
  <2>3. /\ OctetCount(m) = OctetCount(q) + 1
        /\ OctetCount(m) \in 1 .. 4
        /\ NumberOctet(m, 1) = m % 256
        /\ \A k \in 1 .. 3 : NumberOctet(m, k + 1) = NumberOctet(q, k)
    <3>1. /\ OctetCount(m) = OctetCount(m \div 256) + 1
          /\ OctetCount(m) \in 1 .. 4
          /\ NumberOctet(m, 1) = m % 256
          /\ \A k \in 1 .. 3 : NumberOctet(m, k + 1) = NumberOctet(m \div 256, k)
      BY <1>3, <2>2, OctetsShifted, ZenonT(60)
    <3> QED
      BY <1>3, <3>1
  <2>4. left[m] = <<m % 256>> \o left[q]
    BY <1>1, <1>3, <2>2, ZenonT(60) DEF LengthTurn
  <2>5. Len(left[m]) = OctetCount(m)
    BY <2>1, <2>3, <2>4
  <2>6. ASSUME NEW k \in 1 .. OctetCount(m) PROVE left[m][k] = NumberOctet(m, k)
    <3>1. CASE k = 1
      BY <2>1, <2>3, <2>4, <3>1
    <3>2. CASE k # 1
      <4>0. OctetCount(q) \in 0 .. 3
        BY <2>1, <2>3, SMTT(60)
      <4>1. k - 1 \in 1 .. 3 /\ k - 1 \in 1 .. OctetCount(q) /\ (k - 1) + 1 = k
        BY <2>3, <3>2, <4>0
      <4>2. left[m][k] = left[q][k - 1]
        <5> DEFINE x == <<m % 256>>
        <5>1. x \in Seq(0 .. 255) /\ Len(x) = 1
          OBVIOUS
        <5>2. k \in 1 .. 1 + Len(left[q]) /\ ~(k <= 1)
          BY <2>1, <2>3, <3>2
        <5> HIDE DEF x
        <5>3. (x \o left[q])[k] = left[q][k - Len(x)]
          <6>1. k \in 1 .. Len(x) + Len(left[q]) /\ ~(k <= Len(x))
            BY <5>1, <5>2
          <6> QED
            BY <2>1, <5>1, <6>1, ConcatProperties, ZenonT(60)
        <5> QED
          BY <2>4, <5>1, <5>3 DEF x
      <4>3. left[q][k - 1] = NumberOctet(q, k - 1)
        BY <1>3, <4>1
      <4>4. NumberOctet(m, (k - 1) + 1) = NumberOctet(q, k - 1)
        BY <2>3, <4>1
      <4> QED
        BY <4>1, <4>2, <4>3, <4>4
    <3> QED
      BY <3>1, <3>2
  <2> QED
    BY <2>5, <2>6
<1>4. PICK q1 \in 0 .. n : q1 = n \div 256 /\ q1 < 256^3
  BY SMT
<1>5. PICK q2 \in 0 .. n : q2 = q1 \div 256 /\ q2 < 256^2
  BY <1>4, SMT
<1>6. PICK q3 \in 0 .. n : q3 = q2 \div 256 /\ q3 < 256
  BY <1>5, SMT
<1> HIDE DEF Taken
<1>7. Taken(q3)
  <2>1. q3 \div 256 = 0 /\ 0 \in 0 .. n
    BY <1>6
  <2> QED
    BY <1>2, <1>3, <2>1
<1>8. Taken(q2)
  BY <1>2, <1>3, <1>6, <1>7
<1>9. Taken(q1)
  BY <1>2, <1>3, <1>5, <1>8
<1>10. Taken(n)
  <2>1. n \in 0 .. n
    OBVIOUS
  <2> QED
    BY <1>2, <1>3, <1>4, <1>9, <2>1
<1> QED
  BY <1>1, <1>10 DEF Taken

\* The octets the reference divides: those of the file, of its length, and zeros.
LEMMA OctetCases ==
  ASSUME NEW bytes \in Seq(0 .. 255), Len(bytes) < 2^32
  PROVE  LET n == Len(bytes)
             c == OctetCount(n)
         IN  /\ n \in Nat /\ c \in 0 .. 4
             /\ \A k \in 1 .. n : Octet(bytes, k) = bytes[k]
             /\ \A k \in 1 .. c : Octet(bytes, n + k) = lengthBytes(n)[k]
             /\ \A k \in 1 .. 4 : Octet(bytes, n + c + k) = 0
             /\ \A k \in 1 .. n + c + 4 : Octet(bytes, k) \in 0 .. 255
<1> DEFINE n == Len(bytes)
           c == OctetCount(n)
<1>1. n \in Nat /\ n < 2^32
  OBVIOUS
<1>2. \A k : Octet(bytes, k) = IF k <= n THEN bytes[k]
                               ELSE IF k <= n + c THEN NumberOctet(n, k - n) ELSE 0
  BY Zenon DEF Octet, NumberOctet
<1>3. \A k \in 1 .. n : bytes[k] \in 0 .. 255
  <2> SUFFICES ASSUME NEW k \in 1 .. Len(bytes) PROVE bytes[k] \in 0 .. 255
    OBVIOUS
  <2> QED
    BY ElementOfSeq
<1> HIDE DEF n
<1>4. c \in 0 .. 4
  BY <1>1, OctetCounts, SMT
<1>5. /\ lengthBytes(n) \in Seq(0 .. 255) /\ Len(lengthBytes(n)) = c
      /\ \A k \in 1 .. c : lengthBytes(n)[k] = NumberOctet(n, k)
  BY <1>1, LengthOctets
<1> HIDE DEF c
<1>6. \A k \in 1 .. c : lengthBytes(n)[k] \in 0 .. 255
  <2> SUFFICES ASSUME NEW k \in 1 .. Len(lengthBytes(n)) PROVE lengthBytes(n)[k] \in 0 .. 255
    BY <1>5
  <2> QED
    BY <1>5, ElementOfSeq
<1>7. \A k \in 1 .. n : Octet(bytes, k) = bytes[k]
  BY <1>1, <1>2
<1>8. ASSUME NEW k \in 1 .. c PROVE Octet(bytes, n + k) = lengthBytes(n)[k]
  <2>1. ~(n + k <= n) /\ n + k <= n + c /\ (n + k) - n = k
    BY <1>1, <1>4
  <2>2. Octet(bytes, n + k) = NumberOctet(n, (n + k) - n)
    BY <1>2, <2>1, Zenon
  <2> QED
    BY <1>5, <2>1, <2>2
<1>9. ASSUME NEW k \in 1 .. 4 PROVE Octet(bytes, n + c + k) = 0
  <2>1. ~(n + c + k <= n) /\ ~(n + c + k <= n + c)
    BY <1>1, <1>4
  <2> QED
    BY <1>2, <2>1, Zenon
<1>10. ASSUME NEW k \in 1 .. n + c + 4 PROVE Octet(bytes, k) \in 0 .. 255
  <2>1. CASE k <= n
    <3>1. k \in 1 .. n
      BY <1>1, <1>4, <2>1
    <3>2. Octet(bytes, k) = bytes[k]
      BY <1>7, <3>1, Zenon
    <3>3. bytes[k] \in 0 .. 255
      BY <1>3, <3>1, Zenon
    <3> QED
      BY <3>2, <3>3
  <2>2. CASE k > n /\ k <= n + c
    <3>1. k - n \in 1 .. c /\ n + (k - n) = k
      BY <1>1, <1>4, <2>2
    <3>2. Octet(bytes, n + (k - n)) = lengthBytes(n)[k - n]
      BY <1>8, <3>1
    <3> QED
      BY <1>6, <3>1, <3>2, ZenonT(60)
  <2>3. CASE k > n + c
    <3>1. k - (n + c) \in 1 .. 4 /\ n + c + (k - (n + c)) = k
      BY <1>1, <1>4, <2>3
    <3>2. Octet(bytes, n + c + (k - (n + c))) = 0
      BY <1>9, <3>1
    <3> QED
      BY <3>1, <3>2
  <2> QED
    BY <1>1, <1>4, <2>1, <2>2, <2>3
<1> QED
  BY <1>1, <1>4, <1>7, <1>8, <1>9, <1>10 DEF n, c

\* How many octets the reference divides.
OctetsOf(bytes) == Len(bytes) + OctetCount(Len(bytes)) + 4

\* The remainders the division goes through, octet by octet.
LEMMA CksumTurns ==
  ASSUME NEW bytes \in Seq(0 .. 255), Len(bytes) < 2^32
  PROVE  \E s \in [0 .. OctetsOf(bytes) -> Word] :
           /\ s[0] = {}
           /\ \A k \in 1 .. OctetsOf(bytes) : s[k] = OctetRemainder(s[k - 1], Octet(bytes, k))
           /\ Cksum(bytes) = (0 .. 31) \ s[OctetsOf(bytes)]
<1> DEFINE n == OctetsOf(bytes)
           G == [at \in (1 .. n) \X Word |-> OctetRemainder(at[2], Octet(bytes, at[1]))]
           P(f) == f = [at \in (1 .. n + 1) \X Word |->
                          IF at[1] > n THEN at[2]
                          ELSE f[<<at[1] + 1, OctetRemainder(at[2], Octet(bytes, at[1]))>>]]
           h == CHOOSE f : P(f)
<1>1. Cksum(bytes) = (0 .. 31) \ h[<<1, {}>>]
  BY Zenon DEF Cksum, OctetsOf, Word
<1>2. /\ n \in Nat /\ \A k \in 1 .. n : Octet(bytes, k) \in 0 .. 255
      /\ {} \in Word
  <2>1. Len(bytes) \in Nat /\ OctetCount(Len(bytes)) \in 0 .. 4
    BY OctetCases
  <2>2. n \in Nat
    <3> HIDE DEF n
    <3> QED
      BY <2>1 DEF n, OctetsOf
  <2>3. \A k \in 1 .. n : Octet(bytes, k) \in 0 .. 255
    BY OctetCases DEF OctetsOf
  <2>4. {} \in Word
    BY DEF Word
  <2> QED
    BY <2>2, <2>3, <2>4
<1> HIDE DEF n
<1>3. ASSUME NEW k \in 1 .. n, NEW s \in Word
      PROVE  OctetRemainder(s, Octet(bytes, k)) \in Word
  <2>1. Octet(bytes, k) \in Nat
    <3>1. Octet(bytes, k) \in 0 .. 255
      BY <1>2
    <3>2. \A octet \in 0 .. 255 : octet \in Nat
      OBVIOUS
    <3> QED
      BY <3>1, <3>2, Zenon
  <2> QED
    BY <2>1, OctetType
<1>4. G \in [(1 .. n) \X Word -> Word]
  BY <1>3
<1>5. ASSUME NEW f
      PROVE  [at \in (1 .. n + 1) \X Word |->
                IF at[1] > n THEN at[2] ELSE f[<<at[1] + 1, G[at]>>]] =
             [at \in (1 .. n + 1) \X Word |->
                IF at[1] > n THEN at[2]
                ELSE f[<<at[1] + 1, OctetRemainder(at[2], Octet(bytes, at[1]))>>]]
  <2>1. ASSUME NEW at \in (1 .. n + 1) \X Word, ~(at[1] > n)
        PROVE  G[at] = OctetRemainder(at[2], Octet(bytes, at[1]))
    <3>1. at[1] \in 1 .. n /\ at[2] \in Word /\ at = <<at[1], at[2]>>
      BY <1>2, <2>1
    <3>2. at \in (1 .. n) \X Word
      BY <3>1
    <3> QED
      BY <3>2
  <2> HIDE DEF G
  <2> QED
    BY <2>1
<1>6. PICK f : IsLoop(f, n, Word, G)
  <2> HIDE DEF G
  <2> QED
    BY <1>2, <1>4, LoopExists, Zenon
<1>7. P(f)
  <2> HIDE DEF G
  <2> QED
    BY <1>5, <1>6, Zenon DEF IsLoop
<1>8. P(h)
  <2> HIDE DEF P
  <2> QED
    BY <1>7, Zenon
<1> HIDE DEF h
<1>9. IsLoop(h, n, Word, G)
  <2> HIDE DEF G
  <2>1. [at \in (1 .. n + 1) \X Word |->
           IF at[1] > n THEN at[2] ELSE h[<<at[1] + 1, G[at]>>]] =
        [at \in (1 .. n + 1) \X Word |->
           IF at[1] > n THEN at[2]
           ELSE h[<<at[1] + 1, OctetRemainder(at[2], Octet(bytes, at[1]))>>]]
    BY <1>5, Zenon
  <2>2. h = [at \in (1 .. n + 1) \X Word |->
               IF at[1] > n THEN at[2]
               ELSE h[<<at[1] + 1, OctetRemainder(at[2], Octet(bytes, at[1]))>>]]
    BY <1>8, Zenon
  <2>3. h = [at \in (1 .. n + 1) \X Word |->
           IF at[1] > n THEN at[2] ELSE h[<<at[1] + 1, G[at]>>]]
    BY <2>1, <2>2
  <2> QED
    BY <2>3, Zenon DEF IsLoop
<1>10. PICK s : AreTurns(s, n, Word, {}, G)
  <2> HIDE DEF G
  <2> QED
    BY <1>2, <1>4, TurnsExist, Zenon
<1>11. s[n] = h[<<1, {}>>]
  <2> HIDE DEF G
  <2>1. n \in Nat
    BY <1>2
  <2>2. PICK zero \in Word : zero = {}
    BY <1>2
  <2>3. AreTurns(s, n, Word, zero, G)
    BY <1>10, <2>2
  <2>4. s[n] = h[<<1, zero>>]
    BY <1>9, <2>1, <2>3, LoopReturnsLast
  <2> QED
    BY <2>2, <2>4
<1>12. ASSUME NEW k \in 1 .. n PROVE s[k] = OctetRemainder(s[k - 1], Octet(bytes, k))
  <2>1. <<k, s[k - 1]>> \in (1 .. n) \X Word
    BY <1>2, <1>10 DEF AreTurns
  <2> QED
    BY <1>10, <2>1 DEF AreTurns
<1>13. s \in [0 .. n -> Word] /\ s[0] = {}
  BY <1>10 DEF AreTurns
<1> QED
  BY <1>1, <1>11, <1>12, <1>13 DEF n

-----------------------------------------------------------------------------
(* memcrc is the checksum.                                                 *)

\* The words a that memcrc's loop goes through, and the remainders r of a division
\* that takes the same octets from `from` on; the loop starts ahead of the division
\* by the factor x^32, and ends so.
RunsBeside(a, bytes, r, from, last) ==
  /\ bytes \in Seq(0 .. 255) /\ from \in Nat /\ last \in Nat
  /\ a \in [0 .. Len(bytes) -> Word]
  /\ \A k \in 1 .. Len(bytes) : a[k] = CrcStep(a[k - 1], bytes[k])
  /\ r \in [0 .. last -> Word]
  /\ from + Len(bytes) <= last
  /\ \A k \in 1 .. Len(bytes) : r[from + k] = OctetRemainder(r[from + k - 1], bytes[k])
  /\ a[0] = TimesX32(r[from])

EndsAhead(a, bytes, r, from) == a[Len(bytes)] = TimesX32(r[from + Len(bytes)])

\* If the loop is ahead of the division at first, it stays so.
LEMMA TurnsStayAhead ==
  ASSUME NEW a, NEW bytes, NEW r, NEW from, NEW last, RunsBeside(a, bytes, r, from, last)
  PROVE  EndsAhead(a, bytes, r, from)
<1> DEFINE n == Len(bytes)
<1>0. /\ bytes \in Seq(0 .. 255) /\ from \in Nat /\ last \in Nat
      /\ n \in Nat /\ from + n <= last /\ a[0] = TimesX32(r[from])
      /\ a \in [0 .. n -> Word] /\ r \in [0 .. last -> Word]
      /\ \A k \in 1 .. n : a[k] = CrcStep(a[k - 1], bytes[k])
      /\ \A k \in 1 .. n : r[from + k] = OctetRemainder(r[from + k - 1], bytes[k])
  BY DEF RunsBeside
<1> HIDE DEF n
<1> DEFINE T == {k \in 0 .. n : a[k] = TimesX32(r[from + k])}
<1>1. 0 \in T
  <2>1. from + 0 = from /\ 0 \in 0 .. n
    BY <1>0
  <2> QED
    BY <1>0, <2>1
<1>2. ASSUME NEW k \in 1 .. n, k - 1 \in T PROVE k \in T
  <2>1. k - 1 \in 0 .. n /\ a[k - 1] = TimesX32(r[from + (k - 1)])
    BY <1>2
  <2>2. from + (k - 1) = from + k - 1 /\ from + k - 1 \in 0 .. last
    BY <1>0
  <2>3. r[from + k - 1] \in Word
    BY <1>0, <2>2
  <2>4. bytes[k] \in 0 .. 255
    <3>1. k \in 1 .. Len(bytes)
      BY DEF n
    <3> QED
      BY <1>0, <3>1, ElementOfSeq
  <2>5. CrcStep(TimesX32(r[from + k - 1]), bytes[k]) =
          TimesX32(OctetRemainder(r[from + k - 1], bytes[k]))
    BY <2>3, <2>4, CrcStepIsAhead
  <2>6. a[k] = CrcStep(a[k - 1], bytes[k]) /\ r[from + k] = OctetRemainder(r[from + k - 1], bytes[k])
    BY <1>0
  <2>7. k \in 0 .. n
    BY <1>0
  <2> QED
    BY <2>1, <2>2, <2>5, <2>6, <2>7
<1>3. \A k \in 0 .. n : k \in T
  <2> HIDE DEF T
  <2> QED
    BY <1>0, <1>1, <1>2, TurnInduction
<1>4. n \in T
  BY <1>0, <1>3
<1> QED
  BY <1>4 DEF n, EndsAhead

\* The table, the shifts of 32 bits and the two loops, the second of which takes
\* the length apart, divide as the definition of the checksum does, bit by bit,
\* for every length that four octets hold, if the first loop comes to the end.
LEMMA LoopsAreCksum ==
  ASSUME NEW b \in Seq(0 .. 255), Len(b) < 2^32
  PROVE  memcrc(b) = Cksum(b)
<1> DEFINE n     == Len(b)
           c     == OctetCount(n)
           taken == lengthBytes(n)
           last  == OctetsOf(b)
<1>1. /\ n \in Nat /\ c \in 0 .. 4
      /\ \A k \in 1 .. n : Octet(b, k) = b[k]
      /\ \A k \in 1 .. c : Octet(b, n + k) = taken[k]
      /\ \A k \in 1 .. 4 : Octet(b, n + c + k) = 0
  BY OctetCases
<1>2. taken \in Seq(0 .. 255) /\ Len(taken) = c
  BY <1>1, LengthOctets
<1>3. last = n + c + 4
  BY DEF OctetsOf
<1>4. PICK r \in [0 .. last -> Word] :
        /\ r[0] = {}
        /\ \A k \in 1 .. last : r[k] = OctetRemainder(r[k - 1], Octet(b, k))
        /\ Cksum(b) = (0 .. 31) \ r[last]
  BY CksumTurns
<1>5. {} \in Word
  BY DEF Word
<1>6. PICK a \in [0 .. n -> Word] :
        /\ a[0] = {}
        /\ \A k \in 1 .. n : a[k] = CrcStep(a[k - 1], b[k])
        /\ a[n] = CrcSteps({}, b)
  BY <1>5, CrcStepsTurns
<1>7. a[n] \in Word
  BY <1>1, <1>6
<1>8. memcrc(b) = (0 .. 31) \ CrcSteps(a[n], taken)
  BY <1>6, Zenon DEF memcrc
<1> HIDE DEF n, c, taken, last
<1>9. PICK l \in [0 .. c -> Word] :
        /\ l[0] = a[n]
        /\ \A k \in 1 .. c : l[k] = CrcStep(l[k - 1], taken[k])
        /\ l[c] = CrcSteps(a[n], taken)
  BY <1>2, <1>7, CrcStepsTurns, ZenonT(60)
<1>10. TimesX32({}) = {}
  <2>1. SymDiff({}, {}) = {} /\ SymDiff(TimesX32({}), TimesX32({})) = {}
    BY SymDiffGroup
  <2>2. TimesX32(SymDiff({}, {})) = SymDiff(TimesX32({}), TimesX32({}))
    BY <1>5, TimesX32IsLinear
  <2> QED
    BY <2>1, <2>2
<1>11. a[n] = TimesX32(r[n])
  <2>1. ASSUME NEW k \in 1 .. n PROVE r[0 + k] = OctetRemainder(r[0 + k - 1], b[k])
    <3>1. 0 + k = k /\ 0 + k - 1 = k - 1 /\ k \in 1 .. last
      BY <1>1, <1>3
    <3>2. r[k] = OctetRemainder(r[k - 1], Octet(b, k)) /\ Octet(b, k) = b[k]
      BY <1>1, <1>4, <3>1
    <3> QED
      BY <3>1, <3>2
  <2>2. 0 \in Nat /\ 0 + n <= last /\ last \in Nat /\ n = Len(b) /\ 0 + n = n
    BY <1>1, <1>3 DEF n
  <2>3. a[0] = TimesX32(r[0])
    BY <1>4, <1>6, <1>10
  <2>4. RunsBeside(a, b, r, 0, last)
    BY <1>4, <1>6, <2>1, <2>2, <2>3 DEF RunsBeside, n
  <2>5. EndsAhead(a, b, r, 0)
    BY <2>4, TurnsStayAhead, Zenon
  <2> QED
    BY <2>2, <2>5 DEF EndsAhead
<1>12. l[c] = TimesX32(r[n + c])
  <2>1. ASSUME NEW k \in 1 .. c PROVE r[n + k] = OctetRemainder(r[n + k - 1], taken[k])
    <3>1. n + k \in 1 .. last
      BY <1>1, <1>3
    <3>2. r[n + k] = OctetRemainder(r[n + k - 1], Octet(b, n + k)) /\ Octet(b, n + k) = taken[k]
      BY <1>1, <1>4, <3>1
    <3> QED
      BY <3>2
  <2>2. n \in Nat /\ n + c <= last /\ last \in Nat /\ c = Len(taken) /\ c \in Nat
    BY <1>1, <1>2, <1>3
  <2>3. l[0] = TimesX32(r[n])
    BY <1>9, <1>11
  <2>4. RunsBeside(l, taken, r, n, last)
    BY <1>2, <1>4, <1>9, <2>1, <2>2, <2>3 DEF RunsBeside
  <2>5. EndsAhead(l, taken, r, n)
    BY <2>4, TurnsStayAhead, Zenon
  <2> QED
    BY <2>2, <2>5 DEF EndsAhead
<1>13. r[last] = TimesX32(r[n + c])
  <2> DEFINE m == n + c
  <2>1. m \in Nat /\ last = m + 4
    BY <1>1, <1>3
  <2>2. ASSUME NEW k \in 1 .. 4 PROVE r[m + k] = OctetRemainder(r[m + k - 1], 0)
    <3>1. m + k \in 1 .. last
      BY <2>1
    <3>2. Octet(b, m + k) = 0
      BY <1>1, Zenon
    <3> HIDE DEF m
    <3>3. PICK j \in 1 .. last : j = m + k
      BY <3>1
    <3>4. r[j] = OctetRemainder(r[j - 1], Octet(b, j))
      BY <1>4
    <3> QED
      BY <2>1, <3>2, <3>3, <3>4
  <2> HIDE DEF m
  <2>3. /\ m + 1 - 1 = m /\ m + 2 - 1 = m + 1
        /\ m + 3 - 1 = m + 2 /\ m + 4 - 1 = m + 3
    BY <2>1
  <2>4. /\ r[m + 1] = OctetRemainder(r[m], 0) /\ r[m + 2] = OctetRemainder(r[m + 1], 0)
        /\ r[m + 3] = OctetRemainder(r[m + 2], 0) /\ r[m + 4] = OctetRemainder(r[m + 3], 0)
    BY <2>2, <2>3
  <2>5. r[m + 4] = TimesX32(r[m])
    BY <2>4 DEF TimesX32
  <2> QED
    BY <2>1, <2>5 DEF m
<1> QED
  BY <1>4, <1>8, <1>9, <1>12, <1>13

\* As long as its int counts the bytes, memcrc has one outcome.
LEMMA CountedOutcome ==
  ASSUME ChecksumAssumption, NEW b \in Seq(0 .. 255), Len(b) <= IntMax
  PROVE  memcrcOutcomes(b) = {memcrc(b)} /\ Len(b) < 2^32
<1> DEFINE n == Len(b)
<1>1. n \in Nat /\ n <= IntMax /\ IntMax \in Nat /\ IntMax \div 2 < 2^30
  BY DEF ChecksumAssumption
<1>2. n < 2^32
  <2> HIDE DEF n
  <2> QED
    BY <1>1
<1> QED
  BY <1>2 DEF memcrcOutcomes

\* For every file whose bytes an int can count, memcrc calculates its cksum.
THEOREM MemcrcIsCksum ==
  ASSUME NEW b \in Seq(0 .. 255), Len(b) <= IntMax
  PROVE  memcrcOutcomes(b) = {Cksum(b)}
<1>1. memcrcOutcomes(b) = {memcrc(b)} /\ Len(b) < 2^32
  BY CountedOutcome, ChecksumAssumption
<1>2. memcrc(b) = Cksum(b)
  BY <1>1, LoopsAreCksum, Zenon
<1> QED
  BY <1>1, <1>2
=============================================================================
