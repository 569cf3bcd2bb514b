------------------------ MODULE ResponseStreamProofs ------------------------
(***************************************************************************)
(* Theorems about ResponseStream, for any number of calls, any payload     *)
(* sizes and any way the bytes are cut into segments.                      *)
(***************************************************************************)
EXTENDS ResponseStream, TLAPS

USE StreamAssumption DEF StreamAssumption, HEADER

\* Payloads have a size that the stack holds.
LEMMA PayloadType == \A p \in PayloadSize : p \in Nat /\ p <= StackLimit
  OBVIOUS

\* A returned response has the type of one.
LEMMA UninitializedType == Uninitialized \in [of : Nat, whole : BOOLEAN]
  BY DEF Uninitialized

\* The initial state satisfies the invariant.
LEMMA InitStreamInv == Init => StreamInv
<1> SUFFICES ASSUME Init PROVE StreamInv
  OBVIOUS
<1>1. ends \in Seq(Nat) /\ Answered = 0 /\ End(0) = 0
  BY DEF Init, Answered, End
<1>2. open \in BOOLEAN /\ shortRead \in BOOLEAN /\ zeroWaits \in BOOLEAN
  BY DEF Init
<1>3. result \in [of : Nat, whole : BOOLEAN]
  BY DEF Init, Uninitialized
<1>4. StreamTypeOK
  BY <1>1, <1>2, <1>3 DEF Init, StreamTypeOK
<1>5. LayoutInv
  BY <1>1 DEF LayoutInv
<1>6. InStepInv
  BY <1>1 DEF Init, InStepInv
<1> QED BY <1>4, <1>5, <1>6 DEF StreamInv

\* The positions of the responses are numbers.
LEMMA PositionType ==
  ASSUME StreamTypeOK
  PROVE  Answered \in Nat /\ \A k \in 0 .. Answered : End(k) \in Nat
  BY DEF StreamTypeOK, End, Answered

\* A step that leaves the responses alone leaves their layout alone.
LEMMA LayoutKept ==
  ASSUME LayoutInv, UNCHANGED ends
  PROVE  LayoutInv'
  BY DEF LayoutInv, End, Start, Answered

\* A call begins at the end of what the last one read.
LEMMA CallKeepsInv ==
  ASSUME StreamInv, Call
  PROVE  StreamInv'
<1> USE DEF Call, StreamInv
<1>1. StreamTypeOK'
  BY DEF StreamTypeOK, End, Answered
<1>2. LayoutInv'
  BY LayoutKept
<1>3. InStepInv'
  BY DEF InStepInv, StreamTypeOK, End, Start, Answered
<1> QED BY <1>1, <1>2, <1>3

\* What recv returns lies in what has arrived.
LEMMA SafeReceiveTakes ==
  ASSUME StreamTypeOK, UNCHANGED <<ends, arrived>>,
         NEW length \in Nat, NEW n \in 0 .. length, SafeReceive(length, n)
  PROVE  /\ taken' = taken + n
         /\ taken' \in 0 .. arrived
         /\ n < length => shortRead'
         /\ n = length => shortRead' = shortRead
         /\ shortRead' \in BOOLEAN
         /\ n = length => taken + length <= arrived
<1>1. arrived \in Nat /\ taken \in 0 .. arrived
  BY PositionType DEF StreamTypeOK
<1>2. taken' = taken + n /\ n = Least(length, arrived - taken)
  BY DEF SafeReceive, Available
<1>3. taken' \in 0 .. arrived /\ (n = length => taken + length <= arrived)
  BY <1>1, <1>2 DEF Least
<1>4. shortRead' = (shortRead \/ n < length) /\ shortRead \in BOOLEAN
  BY DEF SafeReceive, StreamTypeOK
<1>5. n = length => ~(n < length)
  OBVIOUS
<1>6. /\ n < length => shortRead'
      /\ n = length => shortRead' = shortRead
      /\ shortRead' \in BOOLEAN
  BY <1>4, <1>5, Zenon
<1> QED BY <1>2, <1>3, <1>6

\* A header read where a response begins is the header of that response.
LEMMA HeaderInStep ==
  ASSUME StreamTypeOK, LayoutInv, NEW c \in 1 .. Answered, taken = Start(c),
         NEW h \in HeaderHere
  PROVE  h = [of |-> c, size |-> End(c) - Start(c) - HEADER]
<1>1. \A k \in 1 .. Answered : Start(k) = taken => k = c
  <2> SUFFICES ASSUME NEW k \in 1 .. Answered, Start(k) = taken, k # c PROVE FALSE
    OBVIOUS
  <2>1. /\ k - 1 \in 0 .. Answered /\ c - 1 \in 0 .. Answered
        /\ k - 1 \in Int /\ c - 1 \in Int /\ k \in Int /\ c \in Int
        /\ End(k - 1) = End(c - 1) /\ End(c - 1) \in Nat
    <3>1. Answered \in Nat /\ \A i \in 1 .. Answered : ends[i] \in Nat
      BY DEF StreamTypeOK, Answered
    <3>2. /\ k - 1 \in 0 .. Answered /\ c - 1 \in 0 .. Answered
          /\ k - 1 \in Int /\ c - 1 \in Int /\ k \in Int /\ c \in Int
      BY <3>1
    <3>3. End(k - 1) = End(c - 1)
      BY DEF Start
    <3>4. End(c - 1) \in Nat
      BY <3>1, <3>2 DEF End
    <3> QED BY <3>2, <3>3, <3>4
  <2>2. \A i, j \in 0 .. Answered : i < j => End(i) + HEADER <= End(j)
    BY DEF LayoutInv
  <2> HIDE DEF End
  <2>3. HEADER \in Nat \ {0}
    BY DEF HEADER
  <2>4. CASE k < c
    <3>1. k - 1 < c - 1
      BY <2>1, <2>4
    <3>2. End(k - 1) + HEADER <= End(c - 1)
      BY <2>1, <2>2, <3>1
    <3> QED BY <2>1, <2>3, <3>2
  <2>5. CASE c < k
    <3>1. c - 1 < k - 1
      BY <2>1, <2>5
    <3>2. End(c - 1) + HEADER <= End(k - 1)
      BY <2>1, <2>2, <3>1
    <3> QED BY <2>1, <2>3, <3>2
  <2> QED BY <2>1, <2>4, <2>5
<1> QED BY <1>1 DEF HeaderHere

\* Any header has the type of one.
LEMMA HeaderType ==
  ASSUME StreamTypeOK, LayoutInv, NEW h \in HeaderHere
  PROVE  h \in [of : Nat, size : Nat]
<1>1. \A k \in 1 .. Answered : End(k) - Start(k) - HEADER \in PayloadSize
  BY DEF LayoutInv
<1>2. \A k \in 1 .. Answered :
        [of |-> k, size |-> End(k) - Start(k) - HEADER] \in [of : Nat, size : Nat]
  <2> TAKE k \in 1 .. Answered
  <2>1. End(k) - Start(k) - HEADER \in PayloadSize
    BY <1>1
  <2>2. End(k) - Start(k) - HEADER \in Nat
    BY <2>1, PayloadType
  <2>3. k \in Nat
    BY DEF Answered, StreamTypeOK
  <2> QED BY <2>2, <2>3
<1>3. \A s \in GarbageSize : [of |-> 0, size |-> s] \in [of : Nat, size : Nat]
  OBVIOUS
<1> QED BY <1>2, <1>3 DEF HeaderHere

LEMMA RecvHeaderKeepsInv ==
  ASSUME StreamInv, RecvHeader
  PROVE  StreamInv'
<1> USE DEF StreamInv
<1>1. PICK n \in 0 .. HEADER :
        /\ SafeReceive(HEADER, n)
        /\ IF n < HEADER
           THEN pc' = "idle" /\ result' = Uninitialized /\ UNCHANGED header
           ELSE /\ header' \in HeaderHere
                /\ pc' = IF header'.size <= StackLimit THEN "payload" ELSE "killed"
                /\ UNCHANGED result
  BY DEF RecvHeader
<1>2. UNCHANGED <<call, ends, arrived, open, zeroWaits>> /\ pc = "header"
  BY DEF RecvHeader
<1>3. /\ taken' = taken + n /\ taken' \in 0 .. arrived
      /\ n < HEADER => shortRead'
      /\ n = HEADER => shortRead' = shortRead /\ taken + HEADER <= arrived
      /\ shortRead' \in BOOLEAN
  BY <1>1, <1>2, SafeReceiveTakes
<1>4. LayoutInv'
  BY <1>2, LayoutKept
<1>5. CASE n < HEADER
  <2>1. StreamTypeOK'
    <3>1. pc' = "idle" /\ header' = header /\ result' = Uninitialized
      BY <1>1, <1>5
    <3>2. result' \in [of : Nat, whole : BOOLEAN]
      BY <3>1, UninitializedType, Zenon
    <3> QED BY <1>2, <1>3, <3>1, <3>2, Zenon DEF StreamTypeOK, End, Answered
  <2>2. InStepInv'
    BY <1>1, <1>2, <1>3, <1>5 DEF InStepInv, Answered
  <2> QED BY <1>4, <2>1, <2>2
<1>6. CASE n = HEADER
  <2>1. header' \in [of : Nat, size : Nat]
    BY <1>1, <1>6, HeaderType
  <2>2. StreamTypeOK'
    <3>1. pc' \in {"payload", "killed"} /\ result' = result
      BY <1>1, <1>6
    <3> QED BY <1>2, <1>3, <2>1, <3>1, Zenon DEF StreamTypeOK, End, Answered
  <2>3. ASSUME ~shortRead'
        PROVE  /\ Answered = call /\ call > 0 /\ taken = Start(call)
               /\ header' = [of |-> call, size |-> End(call) - Start(call) - HEADER]
               /\ pc' = "payload"
    <3>1. call > 0 /\ Answered >= call - 1 /\ Answered <= call /\ taken = Start(call)
      BY <1>2, <1>3, <1>6, <2>3 DEF InStepInv
    <3>2. Answered = call
      BY <1>3, <1>6, <3>1, SMTT(30) DEF StreamTypeOK, Start, Answered
    <3>3. call \in 1 .. Answered
      BY <3>1, <3>2 DEF StreamTypeOK
    <3>4. header' = [of |-> call, size |-> End(call) - Start(call) - HEADER]
      BY <1>1, <1>6, <3>1, <3>3, HeaderInStep
    <3>5. header'.size <= StackLimit
      BY <3>3, <3>4, PayloadType DEF LayoutInv
    <3> QED BY <1>1, <1>6, <3>1, <3>2, <3>4, <3>5
  <2>4. InStepInv'
    BY <1>1, <1>2, <1>3, <1>6, <2>3 DEF InStepInv, End, Start, Answered
  <2> QED BY <1>4, <2>2, <2>4
<1> QED BY <1>5, <1>6

LEMMA RecvPayloadKeepsInv ==
  ASSUME StreamInv, RecvPayload
  PROVE  StreamInv'
<1> USE DEF StreamInv
<1>1. PICK n \in 0 .. header.size :
        /\ SafeReceive(header.size, n)
        /\ result' = [of |-> header.of, whole |-> n = header.size]
  BY DEF RecvPayload
<1>2. /\ UNCHANGED <<call, ends, arrived, open, header, zeroWaits>>
      /\ pc = "payload" /\ pc' = "idle"
  BY DEF RecvPayload
<1>3. header.size \in Nat /\ header.of \in Nat
  BY DEF StreamTypeOK
<1>4. /\ taken' = taken + n /\ taken' \in 0 .. arrived
      /\ n < header.size => shortRead'
      /\ n = header.size => shortRead' = shortRead
      /\ shortRead' \in BOOLEAN
  BY <1>1, <1>2, <1>3, SafeReceiveTakes
<1>5. LayoutInv'
  BY <1>2, LayoutKept
<1>6. StreamTypeOK'
  BY <1>1, <1>2, <1>3, <1>4 DEF StreamTypeOK, End, Answered
<1>7. InStepInv'
  <2>1. CASE shortRead'
    BY <1>2, <2>1 DEF InStepInv, Answered
  <2>2. CASE ~shortRead'
    <3>1. n = header.size /\ ~shortRead
      BY <1>1, <1>3, <1>4, <2>2
    <3>2. /\ call > 0 /\ Answered = call
          /\ header = [of |-> call, size |-> End(call) - Start(call) - HEADER]
          /\ taken = Start(call) + HEADER
      BY <1>2, <3>1 DEF InStepInv
    <3>3. Start(call) \in Nat /\ End(call) \in Nat
      BY <3>2 DEF Start, End, StreamTypeOK, Answered
    <3>4. header.of = call /\ header.size = End(call) - Start(call) - HEADER
      BY <3>2
    <3>5. taken' = End(call)
      BY <1>4, <3>1, <3>2, <3>3, <3>4
    <3>6. result' = Own
      <4>1. (n = header.size) = TRUE
        BY <3>1
      <4> QED BY <1>1, <3>4, <4>1, Zenon DEF Own
    <3> QED BY <1>2, <3>2, <3>5, <3>6 DEF InStepInv, End, Start, Answered, Own
  <2> QED BY <2>1, <2>2
<1> QED BY <1>5, <1>6, <1>7

\* A new response lies behind the others.
LEMMA ServerAnswersKeepsInv ==
  ASSUME StreamInv, ServerAnswers
  PROVE  StreamInv'
<1> USE DEF StreamInv
<1>1. PICK s \in PayloadSize : ends' = Append(ends, End(Answered) + HEADER + s)
  BY DEF ServerAnswers
<1>2. /\ UNCHANGED <<pc, call, arrived, taken, open, header, result, zeroWaits, shortRead>>
      /\ Answered < call
  BY DEF ServerAnswers
<1>3. ends \in Seq(Nat) /\ Answered \in Nat /\ End(Answered) \in Nat /\ s \in Nat
  BY DEF StreamTypeOK, End, Answered
<1>4. /\ ends' \in Seq(Nat) /\ Len(ends') = Len(ends) + 1
      /\ \A k \in 1 .. Len(ends) : ends'[k] = ends[k] /\ ends[k] \in Nat
      /\ ends'[Len(ends) + 1] = End(Answered) + HEADER + s
  BY <1>1, <1>3
<1>5. Len(ends) \in Nat /\ \A k \in 1 .. Len(ends) : End(k)' = End(k) /\ Start(k)' = Start(k)
  <2>1. Len(ends) \in Nat
    BY <1>3 DEF Answered
  <2>2. ASSUME NEW k \in 1 .. Len(ends)
        PROVE  End(k)' = End(k) /\ Start(k)' = Start(k)
    <3>1. k # 0 /\ ends'[k] = ends[k]
      BY <1>4, <2>1
    <3>2. k - 1 = 0 \/ k - 1 \in 1 .. Len(ends)
      BY <2>1
    <3>3. k - 1 = 0 \/ ends'[k - 1] = ends[k - 1]
      BY <1>4, <3>2
    <3> QED BY <3>1, <3>3 DEF Start, End
  <2> QED BY <2>1, <2>2
<1>6. StreamTypeOK'
  <2>1. End(Answered)' = End(Answered) + HEADER + s
    BY <1>4, <1>5 DEF End, Answered
  <2>2. arrived \in 0 .. End(Answered) /\ taken \in 0 .. arrived
    BY DEF StreamTypeOK
  <2>3. arrived' \in 0 .. End(Answered)' /\ taken' \in 0 .. arrived'
    BY <1>2, <1>3, <2>1, <2>2
  <2> QED BY <1>2, <1>4, <2>3, Zenon DEF StreamTypeOK
<1>7. LayoutInv'
  <2>1. ASSUME NEW k \in 1 .. Len(ends) + 1
        PROVE  (End(k) - Start(k) - HEADER)' \in PayloadSize
    <3>1. CASE k \in 1 .. Len(ends)
      BY <1>5, <3>1 DEF LayoutInv, Answered, End, Start
    <3>2. CASE k = Len(ends) + 1
      <4>1. End(k)' = End(Answered) + HEADER + s /\ Start(k)' = End(Answered)
        BY <1>3, <1>4, <1>5, <3>2, SMTT(30) DEF Start, End, Answered
      <4> QED BY <1>3, <4>1
    <3> QED BY <1>5, <3>1, <3>2
  <2>2. ASSUME NEW j \in 0 .. Len(ends) + 1, NEW k \in 0 .. Len(ends) + 1, j < k
        PROVE  (End(j) + HEADER <= End(k))'
    <3>0. \A i \in 0 .. Len(ends) : End(i)' = End(i) /\ End(i) \in Nat
      <4> TAKE i \in 0 .. Len(ends)
      <4>1. i = 0 \/ i \in 1 .. Len(ends)
        BY <1>5
      <4>2. i = 0 \/ (ends'[i] = ends[i] /\ ends[i] \in Nat)
        BY <1>4, <4>1
      <4> QED BY <4>2 DEF End
    <3>1. /\ j \in 0 .. Len(ends) /\ End(j)' = End(j) /\ End(j) \in Nat
          /\ j < Len(ends) => End(j) + HEADER <= End(Len(ends))
      <4>1. j \in 0 .. Len(ends) /\ Len(ends) \in 0 .. Len(ends)
        BY <1>5, <2>2
      <4>2. End(j)' = End(j) /\ End(j) \in Nat
        BY <3>0, <4>1
      <4>3. j < Len(ends) => End(j) + HEADER <= End(Len(ends))
        BY <4>1 DEF LayoutInv, Answered
      <4> QED BY <4>1, <4>2, <4>3
    <3>2. CASE k \in 0 .. Len(ends)
      BY <1>4, <1>5, <2>2, <3>1, <3>2 DEF LayoutInv, End, Answered
    <3>3. CASE k = Len(ends) + 1
      <4>1. End(j) <= End(Len(ends))
        BY <1>3, <1>5, <3>1 DEF Answered
      <4>2. End(k)' = End(Len(ends)) + HEADER + s /\ End(Len(ends)) \in Nat
        BY <1>3, <1>4, <1>5, <3>3 DEF End, Answered
      <4> QED BY <1>3, <3>1, <4>1, <4>2
    <3> QED BY <1>5, <3>2, <3>3
  <2> QED BY <1>4, <2>1, <2>2 DEF LayoutInv, Answered
<1>8. InStepInv'
  <2>1. Answered' = Answered + 1 /\ call' = call /\ call \in Nat /\ Answered + 1 <= call
    BY <1>2, <1>3, <1>4 DEF Answered, StreamTypeOK
  <2>2. ASSUME ~shortRead
        PROVE  /\ pc = "header" /\ call > 0
               /\ Answered' = call /\ taken = Start(call) /\ Start(call)' = Start(call)
    <3>1. pc = "header" /\ call > 0 /\ Answered >= call - 1 /\ taken = Start(call)
      BY <1>2, <1>3, <2>1, <2>2 DEF InStepInv, StreamTypeOK
    <3>2. Answered = call - 1
      BY <1>3, <2>1, <3>1
    <3>3. call - 1 = 0 \/ ends'[call - 1] = ends[call - 1]
      BY <1>3, <1>4, <1>5, <2>1, <3>2 DEF Answered
    <3>4. Start(call)' = Start(call)
      BY <2>1, <3>3 DEF Start, End
    <3> QED BY <2>1, <3>1, <3>2, <3>4
  <2>3. CASE shortRead
    BY <1>2, <2>1, <2>3 DEF InStepInv
  <2>4. CASE ~shortRead
    BY <1>2, <2>1, <2>2, <2>4 DEF InStepInv
  <2> QED BY <2>3, <2>4
<1> QED BY <1>6, <1>7, <1>8

\* Bytes arriving, and the end of the connection, change no position.
LEMMA NetworkKeepsInv ==
  ASSUME StreamInv, Deliver \/ ConnectionEnds
  PROVE  StreamInv'
<1> USE DEF StreamInv
<1>1. UNCHANGED <<pc, call, ends, taken, header, result, zeroWaits, shortRead>>
  BY DEF Deliver, ConnectionEnds
<1>2. End(Answered)' = End(Answered) /\ End(Answered) \in Nat
  BY <1>1, PositionType DEF End, Answered
<1>3. arrived' \in 0 .. End(Answered) /\ taken \in 0 .. arrived'
  BY <1>2 DEF Deliver, ConnectionEnds, StreamTypeOK
<1>4. open' \in BOOLEAN
  BY DEF Deliver, ConnectionEnds
<1>5. StreamTypeOK'
  BY <1>1, <1>2, <1>3, <1>4, Zenon DEF StreamTypeOK
<1>6. LayoutInv'
  BY <1>1, LayoutKept
<1>7. InStepInv'
  BY <1>1 DEF InStepInv, End, Start, Answered, Own
<1> QED BY <1>5, <1>6, <1>7

LEMMA StutterKeepsStreamInv ==
  ASSUME StreamInv, UNCHANGED vars
  PROVE  StreamInv'
  BY DEF StreamInv, StreamTypeOK, LayoutInv, InStepInv, End, Start, Answered, Own, vars

\* The inductive invariant holds in every state, for any number of calls, any
\* payload sizes and any segments (getResponse and safeReceive).
THEOREM StreamInvariance == Spec => []StreamInv
<1>1. Init => StreamInv
  BY InitStreamInv
<1>2. StreamInv /\ [Next]_vars => StreamInv'
  BY CallKeepsInv, RecvHeaderKeepsInv, RecvPayloadKeepsInv, ServerAnswersKeepsInv,
     NetworkKeepsInv, StutterKeepsStreamInv DEF Next, Client
<1> QED BY <1>1, <1>2, PTL DEF Spec

\* Every variable keeps its type; in particular no more is taken than arrived
\* and no more arrives than was written.
THEOREM StreamTypeCorrectness == Spec => []StreamTypeOK
  BY StreamInvariance, PTL DEF StreamInv

\* Until a recv returns less than it was asked for, each getResponse returns
\* the response to its own request.
THEOREM StaysInStep == Spec => []InStepUntilShortRead
<1>1. StreamInv => InStepUntilShortRead
  BY DEF StreamInv, InStepInv, InStepUntilShortRead, End, Answered
<1> QED BY <1>1, StreamInvariance, PTL


-----------------------------------------------------------------------------
(* Whole segments.  If each response arrives in one segment, and only then,*)
(* one recv for the header and one for the payload are enough.             *)

\* While the connection is open nothing was read short: what has arrived is
\* either all read or all that was written, and once a header was read, its
\* payload is there.
SegmentInv ==
  open => /\ ~shortRead
          /\ arrived \in {taken, End(Answered)}
          /\ pc = "payload" => arrived = End(Answered)

\* With the connection open, getResponse's first recv finds the whole response.
LEMMA WholeResponseHere ==
  ASSUME StreamInv, SegmentInv, open, pc = "header", Available > 0
  PROVE  /\ arrived = End(Answered)
         /\ Answered \in Nat /\ taken \in Nat /\ arrived \in Nat
         /\ arrived - taken >= HEADER
<1>1. /\ arrived = End(Answered) /\ arrived > taken
      /\ arrived \in Nat /\ taken \in Nat /\ Answered \in Nat /\ call \in Nat
  BY PositionType DEF StreamInv, StreamTypeOK, SegmentInv, Available
<1>2. call > 0 /\ Answered >= call - 1 /\ Answered <= call /\ taken = Start(call)
  BY DEF StreamInv, InStepInv, SegmentInv
<1>3. Answered = call
  <2>1. Answered # call - 1
    BY <1>1, <1>2 DEF Start
  <2> QED BY <1>1, <1>2, <2>1
<1>4. End(call) - Start(call) - HEADER \in Nat
  BY <1>1, <1>2, <1>3, PayloadType DEF StreamInv, LayoutInv
<1> QED BY <1>1, <1>2, <1>3, <1>4

LEMMA RecvHeaderKeepsSegments ==
  ASSUME StreamInv, SegmentInv, RecvHeader
  PROVE  SegmentInv'
<1> SUFFICES ASSUME open' PROVE SegmentInv'
  BY DEF SegmentInv
<1>1. PICK n \in 0 .. HEADER : SafeReceive(HEADER, n)
  BY DEF RecvHeader
<1>2. UNCHANGED <<ends, arrived, open>> /\ pc = "header" /\ open
  BY DEF RecvHeader
<1>3. ~shortRead
  BY <1>2 DEF SegmentInv
<1>4. Available > 0 /\ n = Least(HEADER, Available)
  BY <1>1, <1>2 DEF SafeReceive, CanReceive
<1>5. arrived = End(Answered) /\ arrived - taken >= HEADER /\ taken \in Nat /\ arrived \in Nat
  BY <1>2, <1>4, WholeResponseHere
<1>6. n = HEADER
  BY <1>4, <1>5 DEF Least, Available
<1>7. shortRead' = shortRead
  BY <1>1, <1>2, <1>6, SafeReceiveTakes DEF StreamInv
<1>8. arrived' = End(Answered)'
  BY <1>2, <1>5 DEF End, Answered
<1> QED BY <1>3, <1>7, <1>8 DEF SegmentInv

LEMMA RecvPayloadKeepsSegments ==
  ASSUME StreamInv, SegmentInv, RecvPayload
  PROVE  SegmentInv'
<1> SUFFICES ASSUME open' PROVE SegmentInv'
  BY DEF SegmentInv
<1>1. PICK n \in 0 .. header.size : SafeReceive(header.size, n)
  BY DEF RecvPayload
<1>2. UNCHANGED <<ends, arrived, open, call>> /\ pc = "payload" /\ pc' = "idle" /\ open
  BY DEF RecvPayload
<1>3. ~shortRead /\ arrived = End(Answered)
  BY <1>2 DEF SegmentInv
<1>4. /\ call > 0 /\ Answered = call
      /\ header = [of |-> call, size |-> End(call) - Start(call) - HEADER]
      /\ taken = Start(call) + HEADER
  BY <1>2, <1>3 DEF StreamInv, InStepInv
<1>5. Start(call) \in Nat /\ End(call) \in Nat /\ header.size \in Nat
  BY <1>4 DEF Start, End, StreamInv, StreamTypeOK, Answered
<1>6. arrived - taken = header.size
  BY <1>3, <1>4, <1>5
<1>7. n = header.size
  BY <1>1, <1>5, <1>6 DEF SafeReceive, Least, Available
<1>8. shortRead' = shortRead
  BY <1>1, <1>2, <1>5, <1>7, SafeReceiveTakes DEF StreamInv
<1>9. arrived' = End(Answered)'
  BY <1>2, <1>3 DEF End, Answered
<1> QED BY <1>2, <1>3, <1>8, <1>9 DEF SegmentInv

\* The other actions take no bytes off the socket.
LEMMA OthersKeepSegments ==
  ASSUME StreamInv, SegmentInv, ~MaySplit,
         Call \/ ServerAnswers \/ Deliver \/ ConnectionEnds \/ UNCHANGED vars
  PROVE  SegmentInv'
<1> SUFFICES ASSUME open' PROVE SegmentInv'
  BY DEF SegmentInv
<1>1. open /\ UNCHANGED <<taken, shortRead>>
  BY DEF Call, ServerAnswers, Deliver, ConnectionEnds, vars
<1>2. ~shortRead /\ arrived \in {taken, End(Answered)} /\ (pc = "payload" => arrived = End(Answered))
  BY <1>1 DEF SegmentInv
<1>3. CASE Call \/ UNCHANGED vars
  <2>1. UNCHANGED <<ends, arrived, taken>> /\ (pc' = "payload" => pc = "payload")
    BY <1>3 DEF Call, vars
  <2> QED BY <1>1, <1>2, <2>1 DEF SegmentInv, End, Answered
<1>4. CASE ServerAnswers
  <2>1. UNCHANGED <<pc, arrived>> /\ Answered < call
    BY <1>4 DEF ServerAnswers
  <2>2. pc = "header" /\ taken = End(Answered)
    <3>1. Answered \in Nat /\ call \in Nat
      BY PositionType DEF StreamInv, StreamTypeOK
    <3>2. pc = "header" /\ Answered >= call - 1 /\ taken = Start(call)
      BY <1>2, <2>1, <3>1 DEF StreamInv, InStepInv, StreamTypeOK
    <3>3. Answered = call - 1
      BY <2>1, <3>1, <3>2
    <3> QED BY <3>2, <3>3 DEF Start
  <2> QED BY <1>1, <1>2, <2>1, <2>2 DEF SegmentInv
<1>5. CASE Deliver
  <2>1. arrived' = End(Answered) /\ ends' = ends
    BY <1>5 DEF Deliver
  <2> QED BY <1>1, <1>2, <2>1 DEF SegmentInv, End, Answered
<1>6. CASE ConnectionEnds
  BY <1>6 DEF ConnectionEnds
<1> QED BY <1>3, <1>4, <1>5, <1>6

\* What getResponse's comment says (src/ProtocolHandler.cpp) is true of a network
\* that hands over each response in one segment: while the connection is open,
\* no recv returns less than it was asked for, and every call returns the
\* response to its own request.  The run that splits responses finds a split
\* for which it is not true.
THEOREM WholeSegmentsAreOwn ==
  ASSUME ~MaySplit
  PROVE  Spec => [](ResponseIsOwn /\ (open => ~shortRead))
<1>1. Init => StreamInv /\ SegmentInv
  BY InitStreamInv DEF Init, SegmentInv
<1>2. StreamInv /\ SegmentInv /\ [Next]_vars => (StreamInv /\ SegmentInv)'
  BY CallKeepsInv, RecvHeaderKeepsInv, RecvPayloadKeepsInv, ServerAnswersKeepsInv,
     NetworkKeepsInv, StutterKeepsStreamInv, RecvHeaderKeepsSegments,
     RecvPayloadKeepsSegments, OthersKeepSegments DEF Next, Client
<1>3. StreamInv /\ SegmentInv => ResponseIsOwn /\ (open => ~shortRead)
  BY DEF StreamInv, InStepInv, SegmentInv, ResponseIsOwn
<1> QED BY <1>1, <1>2, <1>3, PTL DEF Spec
=============================================================================
