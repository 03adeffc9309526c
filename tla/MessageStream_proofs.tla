-------------------------- MODULE MessageStream_proofs --------------------------
(***************************************************************************)
(* Proofs about MessageStream, for any number of messages of any sizes,    *)
(* any field and buffer size, whatever a field that is no BodySize reads   *)
(* as, and any number of objects.  OwnWritesFit is supposed: the program's *)
(* own answers and the addresses of an accept fit the buffer.              *)
(***************************************************************************)
EXTENDS MessageStream, SequenceTheorems, TLAPS

-----------------------------------------------------------------------------
(* The inductive invariant *)

\* The types of the buffers and of what moves through them.
BufferTypes ==
    /\ sent \in 0 .. MaxMessages
    /\ stream \in Seq(Units)
    /\ use \in [Overlappeds -> {"free", "accept", "recv", "send", "handled", "lost"}]
    /\ header \in [Overlappeds -> [HeaderUnits -> Units]]
    /\ body \in [Overlappeds -> [BodyUnits -> Units]]
    /\ len \in [Overlappeds -> 0 .. BufferSizeMax]
    /\ netPc \in {"wait", "receive", "rearm", "recycle", "ended"}
    /\ current \in Overlappeds \union {NoOverlapped}
    /\ taken \in Seq(Units)

\* What Clear does not reach is zero: it zeroes len units, and nobody wrote past them.
ZeroPastLen == \A o \in Overlappeds : \A i \in BodyUnits : i > len[o] => body[o][i] = Zero

\* An object that Winsock receives or accepts with has its full length.
FullLength == \A o \in Overlappeds : use[o] \in {"accept", "recv"} => len[o] = BufferSizeMax

\* The object whose completion is handled is in nobody else's hands, and after
\* a receive its buffers hold what the receive took, and zeros.
HandledInv ==
    /\ netPc # "wait" => current \in Overlappeds /\ use[current] = "handled"
    /\ netPc = "receive" =>
           /\ Len(taken) <= HeaderSize + BufferSizeMax
           /\ header[current] = [i \in HeaderUnits |-> Brought(taken, i)]
           /\ body[current] = [i \in BodyUnits |-> Brought(taken, HeaderSize + i)]

BufferInv == BufferTypes /\ ZeroPastLen /\ FullLength /\ HandledInv /\ ReceivesIntoCleanBuffers

-----------------------------------------------------------------------------
(* Units and sizes *)

LEMMA Sizes ==
    /\ BufferSizeMax \in Nat /\ MaxMessages \in Nat
    /\ FieldSize \in Nat /\ FieldSize >= 1
    /\ HeaderSize \in Nat /\ HeaderSize = FieldSize + FieldSize + FieldSize
    /\ \A m \in 1 .. MaxMessages : BodySize[m] \in Nat
BY SizesAreNatural DEF HeaderSize

LEMMA ConstantUnits == Zero \in Units /\ Other \in Units /\ Foreign \in Units
BY DEF Units

LEMMA MessageIsUnits ==
    ASSUME NEW m \in 1 .. MaxMessages
    PROVE  Message(m) \in Seq(Units) /\ Len(Message(m)) = HeaderSize + BodySize[m]
<1>1. HeaderSize + BodySize[m] \in Nat
  BY Sizes
<1>2. ASSUME NEW i \in 1 .. HeaderSize + BodySize[m] PROVE <<m, i>> \in Units
  BY DEF Units
<1>3. Message(m) \in [1 .. HeaderSize + BodySize[m] -> Units]
  BY <1>2 DEF Message
<1> QED
  BY <1>1, <1>3, LenProperties

\* A write of no more than BufferSizeMax units stays in the buffer.
LEMMA ReachedIsBody ==
    ASSUME NEW n \in Int, n <= BufferSizeMax
    PROVE  Reached(n) = BodyUnits
BY Sizes DEF Reached, BodyUnits

\* The unit of a BodySize field that follows its first i - 1.
LEMMA FieldUnit ==
    ASSUME NEW m \in 1 .. MaxMessages, NEW i \in FieldUnits
    PROVE  Field(Message(m), FieldSize)[i] = <<m, FieldSize + i>>
<1>1. FieldSize + i \in 1 .. HeaderSize + BodySize[m]
  BY Sizes DEF FieldUnits
<1> QED
  BY <1>1 DEF Field, Message

\* The BodySize field of a message is read as the size of its body.
LEMMA SizeOfMessage ==
    ASSUME NEW m \in 1 .. MaxMessages
    PROVE  SizesReadFrom(Field(Message(m), FieldSize)) = {BodySize[m]}
<1> DEFINE field == Field(Message(m), FieldSize)
<1>1. 1 \in FieldUnits
  BY Sizes DEF FieldUnits
<1>2. field[1] = <<m, FieldSize + 1>>
  BY <1>1, FieldUnit
<1>3. field # [i \in FieldUnits |-> Zero]
  BY <1>1, <1>2, Sizes DEF Zero
<1>4. MessagesWith(field) = {m}
  <2>1. ASSUME NEW q \in 1 .. MaxMessages, field = Field(Message(q), FieldSize) PROVE q = m
    <3>1. Field(Message(q), FieldSize)[1] = <<q, FieldSize + 1>>
      BY <1>1, FieldUnit
    <3> QED
      BY <1>2, <2>1, <3>1
  <2> QED
    BY <2>1 DEF MessagesWith
<1> HIDE DEF field
<1>5. SizesReadFrom(field) = {BodySize[q] : q \in {m}}
  BY <1>3, <1>4 DEF SizesReadFrom
<1> QED
  BY <1>5 DEF field

LEMMA SizesAreInts ==
    ASSUME NEW field
    PROVE  SizesReadFrom(field) \subseteq Int
<1>1. MessagesWith(field) \subseteq 1 .. MaxMessages
  BY DEF MessagesWith
<1>2. {BodySize[m] : m \in MessagesWith(field)} \subseteq Int
  BY <1>1, Sizes
<1> DEFINE none == field = [i \in FieldUnits |-> Zero]
           some == {BodySize[m] : m \in MessagesWith(field)}
           whole == MessagesWith(field) # {}
<1>3. SizesReadFrom(field) = IF none THEN {0} ELSE IF whole THEN some ELSE Numbers
  BY DEF SizesReadFrom
<1>4. Numbers \subseteq Int
  BY SizesAreNatural
<1> HIDE DEF none, some, whole
<1>5. some \subseteq Int
  BY <1>2 DEF some
<1> QED
  BY <1>3, <1>4, <1>5

LEMMA BroughtIsUnit ==
    ASSUME NEW units \in Seq(Units), NEW i \in Nat, i >= 1
    PROVE  Brought(units, i) \in Units
<1>1. Len(units) \in Nat /\ \A k \in 1 .. Len(units) : units[k] \in Units
  BY LenProperties
<1> QED
  BY <1>1, ConstantUnits DEF Brought

-----------------------------------------------------------------------------
(* The invariant is inductive *)

LEMMA InitInv == Init => BufferInv
<1> SUFFICES ASSUME Init PROVE BufferInv
  OBVIOUS
<1>1. BufferTypes
  BY AcceptedIsAnObject, Sizes, ConstantUnits DEF Init, BufferTypes
<1>2. ZeroPastLen
  BY Sizes DEF Init, ZeroPastLen, BodyUnits
<1>3. FullLength /\ HandledInv /\ ReceivesIntoCleanBuffers
  BY DEF Init, FullLength, HandledInv, ReceivesIntoCleanBuffers
<1> QED
  BY <1>1, <1>2, <1>3 DEF BufferInv

\* Clear and SendSetting zero the buffer before they fill it.
LEMMA ZeroedIsZero ==
    ASSUME BufferInv, NEW o \in Overlappeds
    PROVE  ZeroedBody(o) = [i \in BodyUnits |-> Zero]
<1>1. len[o] \in Int /\ len[o] <= BufferSizeMax
  BY Sizes DEF BufferInv, BufferTypes
<1>2. Reached(len[o]) = BodyUnits
  BY <1>1, ReachedIsBody
<1> QED
  BY <1>1, <1>2 DEF ZeroedBody, BufferInv, ZeroPastLen, BodyUnits

\* After Clear an object is as a receive needs it, and the others are as they were.
LEMMA ClearCleans ==
    ASSUME BufferInv, NEW o \in Overlappeds, Clear(o)
    PROVE  /\ header' \in [Overlappeds -> [HeaderUnits -> Units]]
           /\ body' \in [Overlappeds -> [BodyUnits -> Units]]
           /\ len' \in [Overlappeds -> 0 .. BufferSizeMax]
           /\ header'[o] = [i \in HeaderUnits |-> Zero]
           /\ body'[o] = [i \in BodyUnits |-> Zero]
           /\ len'[o] = BufferSizeMax
           /\ \A q \in Overlappeds \ {o} :
                  header'[q] = header[q] /\ body'[q] = body[q] /\ len'[q] = len[q]
<1>1. ZeroedBody(o) = [i \in BodyUnits |-> Zero]
  BY ZeroedIsZero
<1> QED
  BY <1>1, Sizes, ConstantUnits DEF Clear, BufferInv, BufferTypes

LEMMA BufferStep == BufferInv /\ [Next]_vars => BufferInv'
<1> SUFFICES ASSUME BufferInv, [Next]_vars PROVE BufferInv'
  OBVIOUS
<1> USE DEF BufferInv
<1>1. CASE Send
  <2>1. sent + 1 \in 1 .. MaxMessages
    BY <1>1, Sizes DEF Send, BufferTypes
  <2>2. PICK m \in 1 .. MaxMessages : m = sent + 1
    BY <2>1
  <2>3. stream \o Message(m) \in Seq(Units)
    BY MessageIsUnits, ConcatProperties DEF BufferTypes
  <2>4. stream' \in Seq(Units) /\ sent' \in 0 .. MaxMessages
    BY <1>1, <2>1, <2>2, <2>3, Sizes DEF Send
  <2> QED
    BY <1>1, <2>4 DEF Send, buffers, netVars, BufferTypes, ZeroPastLen, FullLength, HandledInv,
                      ReceivesIntoCleanBuffers
<1>2. CASE ProcessIocp
  <2>1. <<>> \in Seq(Units)
    BY EmptySeq
  <2>2. UNCHANGED <<sent, stream, use, header, body, len, current>> /\ netPc = "receive" /\ netPc' = "rearm"
        /\ taken' = <<>>
    BY <1>2 DEF ProcessIocp, buffers, peerVars
  <2>3. BufferTypes'
    BY <2>1, <2>2 DEF BufferTypes
  <2> QED
    BY <2>2, <2>3 DEF ZeroPastLen, FullLength, HandledInv, ReceivesIntoCleanBuffers
<1>3. CASE Recycle
  <2>1. current \in Overlappeds /\ use[current] = "handled"
    BY <1>3 DEF Recycle, HandledInv
  <2>2. Clear(current)
    BY <1>3 DEF Recycle
  <2>3. BufferTypes'
    BY <1>3, <2>1, <2>2, ClearCleans DEF Recycle, peerVars, BufferTypes
  <2>4. ZeroPastLen' /\ FullLength' /\ ReceivesIntoCleanBuffers'
    BY <1>3, <2>1, <2>2, ClearCleans DEF Recycle, BufferTypes, ZeroPastLen, FullLength, ReceivesIntoCleanBuffers
  <2>5. HandledInv'
    BY <1>3 DEF Recycle, HandledInv
  <2> QED
    BY <2>3, <2>4, <2>5
<1>4. ASSUME NEW o \in Overlappeds, SendCompletes(o) PROVE BufferInv'
  BY <1>4 DEF SendCompletes, Handle, peerVars, buffers, BufferTypes, ZeroPastLen, FullLength, HandledInv,
              ReceivesIntoCleanBuffers
<1>5. ASSUME NEW o \in Overlappeds, CallReceiveReady(o) PROVE BufferInv'
  <2>1. Clear(o) /\ use[o] = "free" /\ netPc = "rearm" /\ netPc' = "recycle"
    BY <1>5 DEF CallReceiveReady
  <2>2. BufferTypes'
    BY <1>5, <2>1, ClearCleans DEF CallReceiveReady, peerVars, BufferTypes
  <2>3. ZeroPastLen' /\ FullLength' /\ ReceivesIntoCleanBuffers'
    <3>1. use'[o] \in {"recv", "lost"} /\ \A q \in Overlappeds \ {o} : use'[q] = use[q]
      BY <1>5 DEF CallReceiveReady, BufferTypes
    <3>2. \A q \in Overlappeds \ {o} : header'[q] = header[q] /\ body'[q] = body[q] /\ len'[q] = len[q]
      BY <2>1, ClearCleans
    <3>3. /\ header'[o] = [i \in HeaderUnits |-> Zero] /\ body'[o] = [i \in BodyUnits |-> Zero]
          /\ len'[o] = BufferSizeMax
      BY <2>1, ClearCleans
    <3>4. ZeroPastLen'
      BY <3>2, <3>3 DEF ZeroPastLen
    <3>5. FullLength' /\ ReceivesIntoCleanBuffers'
      BY <3>1, <3>2, <3>3 DEF FullLength, ReceivesIntoCleanBuffers
    <3> QED
      BY <3>4, <3>5
  <2>4. HandledInv'
    BY <1>5, <2>1 DEF CallReceiveReady, BufferTypes, HandledInv
  <2> QED
    BY <2>2, <2>3, <2>4
<1>6. ASSUME NEW o \in Overlappeds, NEW n \in AnswerSizes, SendRequest(o, n) PROVE BufferInv'
  <2>0. n \in Int /\ n \in 0 .. BufferSizeMax /\ Reached(n) = BodyUnits
    BY OwnWritesFit, Sizes, ReachedIsBody
  <2>1. ClearAndSendSetting(o, n) /\ use[o] = "free" /\ UNCHANGED <<sent, stream, netPc, current, taken>>
    BY <1>6 DEF SendRequest, peerVars, netVars
  <2>2. /\ header' \in [Overlappeds -> [HeaderUnits -> Units]]
        /\ len' \in [Overlappeds -> 0 .. BufferSizeMax] /\ len'[o] = n
        /\ \A q \in Overlappeds \ {o} :
               header'[q] = header[q] /\ body'[q] = body[q] /\ len'[q] = len[q]
    BY <2>0, <2>1, ConstantUnits DEF ClearAndSendSetting, BufferTypes
  <2>3. ZeroedBody(o) = [i \in BodyUnits |-> Zero]
    BY ZeroedIsZero
  <2>4. /\ body' \in [Overlappeds -> [BodyUnits -> Units]]
        /\ \A i \in BodyUnits : i > n => body'[o][i] = Zero
    <3>1. body' = [body EXCEPT ![o] = [i \in BodyUnits |-> IF i <= n THEN Other ELSE ZeroedBody(o)[i]]]
      BY <2>0, <2>1 DEF ClearAndSendSetting
    <3>2. body' = [body EXCEPT ![o] = [i \in BodyUnits |-> IF i <= n THEN Other ELSE Zero]]
      BY <2>3, <3>1
    <3> QED
      BY <2>0, <3>2, ConstantUnits, Sizes DEF BufferTypes, BodyUnits
  <2>5. /\ use' \in [Overlappeds -> {"free", "accept", "recv", "send", "handled", "lost"}]
        /\ use'[o] \in {"send", "lost"}
        /\ \A q \in Overlappeds \ {o} : use'[q] = use[q]
    BY <1>6 DEF SendRequest, BufferTypes
  <2>6. BufferTypes'
    BY <2>1, <2>2, <2>4, <2>5 DEF BufferTypes
  <2>7. ZeroPastLen' /\ FullLength' /\ ReceivesIntoCleanBuffers'
    <3>1. ZeroPastLen'
      BY <2>2, <2>4 DEF ZeroPastLen
    <3>2. FullLength' /\ ReceivesIntoCleanBuffers'
      BY <2>2, <2>5 DEF FullLength, ReceivesIntoCleanBuffers
    <3> QED
      BY <3>1, <3>2
  <2>8. HandledInv'
    BY <2>1, <2>2, <2>5 DEF HandledInv
  <2> QED
    BY <2>6, <2>7, <2>8
<1>7. ASSUME NEW o \in Overlappeds, AcceptCompletes(o) PROVE BufferInv'
  <2>1. /\ use[o] = "accept" /\ netPc = "wait" /\ netPc' = "rearm" /\ current' = o
        /\ use' = [use EXCEPT ![o] = "handled"]
        /\ UNCHANGED <<sent, stream, header, len, taken>>
    BY <1>7 DEF AcceptCompletes, Handle, peerVars
  <2>2. body' \in [Overlappeds -> [BodyUnits -> Units]] /\ \A q \in Overlappeds \ {o} : body'[q] = body[q]
    <3>1. Reached(AddressSize) = BodyUnits
      BY OwnWritesFit, Sizes, ReachedIsBody
    <3> QED
      BY <1>7, <3>1, ConstantUnits DEF AcceptCompletes, BufferTypes
  <2>3. BufferTypes'
    BY <2>1, <2>2 DEF BufferTypes
  <2>4. ZeroPastLen'
    <3>1. len[o] = BufferSizeMax /\ \A i \in BodyUnits : ~(i > BufferSizeMax)
      BY <2>1, Sizes DEF FullLength, BodyUnits
    <3> QED
      BY <2>1, <2>2, <3>1 DEF ZeroPastLen
  <2>5. FullLength' /\ ReceivesIntoCleanBuffers' /\ HandledInv'
    BY <2>1, <2>2 DEF FullLength, ReceivesIntoCleanBuffers, HandledInv, BufferTypes
  <2> QED
    BY <2>3, <2>4, <2>5
<1>8. ASSUME NEW o \in Overlappeds, NEW n \in 1 .. HeaderSize + BufferSizeMax, ReceiveCompletes(o, n)
      PROVE  BufferInv'
  <2>1. /\ use[o] = "recv" /\ netPc = "wait" /\ netPc' = "receive" /\ current' = o
        /\ use' = [use EXCEPT ![o] = "handled"]
        /\ n <= Len(stream) /\ n <= HeaderSize + len[o] /\ UNCHANGED <<sent, len>>
    BY <1>8 DEF ReceiveCompletes, Handle
  <2>2. n \in Int /\ n >= 1 /\ Len(stream) \in Nat /\ \A i \in 1 .. Len(stream) : stream[i] \in Units
    BY Sizes, LenProperties DEF BufferTypes
  <2>3. taken' \in Seq(Units) /\ Len(taken') = n /\ \A i \in 1 .. n : taken'[i] = stream[i]
    <3>1. stream \in Seq(Units) /\ \A i \in 1 .. n : stream[i] \in Units
      BY <2>1, <2>2 DEF BufferTypes
    <3>2. taken' = SubSeq(stream, 1, n)
      BY <1>8 DEF ReceiveCompletes
    <3>3. /\ SubSeq(stream, 1, n) \in Seq(Units)
          /\ Len(SubSeq(stream, 1, n)) = IF 1 <= n THEN n - 1 + 1 ELSE 0
          /\ \A i \in 1 .. n - 1 + 1 : SubSeq(stream, 1, n)[i] = stream[1 + i - 1]
      BY <2>2, <3>1, SubSeqProperties
    <3>4. n - 1 + 1 = n /\ \A i \in 1 .. n : 1 + i - 1 = i
      BY <2>2
    <3> QED
      BY <2>2, <3>2, <3>3, <3>4
  <2>4. stream' \in Seq(Units)
    BY <1>8, <2>1, <2>2, SubSeqProperties DEF ReceiveCompletes
  <2>5. /\ header[o] = [i \in HeaderUnits |-> Zero] /\ body[o] = [i \in BodyUnits |-> Zero]
        /\ len[o] = BufferSizeMax
    BY <2>1 DEF ReceivesIntoCleanBuffers
  <2>6. header'[o] = [i \in HeaderUnits |-> Brought(taken', i)]
    <3>1. header'[o] = [i \in HeaderUnits |-> IF i <= n THEN stream[i] ELSE Zero]
      BY <1>8, <2>5 DEF ReceiveCompletes, BufferTypes
    <3> QED
      BY <2>2, <2>3, <3>1, Sizes DEF HeaderUnits, Brought
  <2>7. body'[o] = [i \in BodyUnits |-> Brought(taken', HeaderSize + i)]
    <3>1. Reached(n - HeaderSize) = BodyUnits
      BY <2>1, <2>2, <2>5, Sizes, ReachedIsBody
    <3>2. body'[o] = [i \in BodyUnits |-> IF HeaderSize + i <= n THEN stream[HeaderSize + i] ELSE Zero]
      BY <1>8, <2>5, <3>1 DEF ReceiveCompletes, BufferTypes
    <3> QED
      BY <2>2, <2>3, <3>2, Sizes DEF BodyUnits, Brought
  <2>8. \A q \in Overlappeds \ {o} : header'[q] = header[q] /\ body'[q] = body[q]
    BY <1>8 DEF ReceiveCompletes, BufferTypes
  <2>9. header'[o] \in [HeaderUnits -> Units]
    BY <2>3, <2>6, BroughtIsUnit, Sizes DEF HeaderUnits
  <2>10. body'[o] \in [BodyUnits -> Units]
    BY <2>3, <2>7, BroughtIsUnit, Sizes DEF BodyUnits
  <2>11. header' \in [Overlappeds -> [HeaderUnits -> Units]] /\ body' \in [Overlappeds -> [BodyUnits -> Units]]
    BY <1>8, <2>8, <2>9, <2>10 DEF ReceiveCompletes, BufferTypes
  <2>12. BufferTypes'
    BY <2>1, <2>3, <2>4, <2>11 DEF BufferTypes
  <2>13. ZeroPastLen'
    BY <2>1, <2>5, <2>8, Sizes DEF ZeroPastLen, BodyUnits
  <2>14. FullLength' /\ ReceivesIntoCleanBuffers'
    BY <2>1, <2>8 DEF FullLength, ReceivesIntoCleanBuffers, BufferTypes
  <2>15. HandledInv'
    BY <2>1, <2>3, <2>5, <2>6, <2>7 DEF HandledInv, BufferTypes
  <2> QED
    BY <2>12, <2>13, <2>14, <2>15
<1>9. CASE ProcessIocpEnds
  BY <1>9 DEF ProcessIocpEnds, buffers, peerVars, BufferTypes, ZeroPastLen, FullLength, HandledInv,
              ReceivesIntoCleanBuffers
<1>10. CASE UNCHANGED vars
  BY <1>10 DEF vars, peerVars, buffers, netVars, BufferTypes, ZeroPastLen, FullLength, HandledInv,
              ReceivesIntoCleanBuffers
<1> QED
  BY <1>1, <1>2, <1>3, <1>4, <1>5, <1>6, <1>7, <1>8, <1>9, <1>10 DEF Next

LEMMA BufferInvariance == Spec => []BufferInv
BY InitInv, BufferStep, PTL DEF Spec

(* A receive is posted with zeroed buffers of their full length, for every   *)
(* size of the buffer and every use its object has had.                      *)
THEOREM ReceivesAreClean == Spec => []ReceivesIntoCleanBuffers
BY BufferInvariance, PTL DEF BufferInv

-----------------------------------------------------------------------------
(* The packets *)

PacketTypes == made \in [of : Seq(Units), packet : Packets] \union {NoPacket}

PacketInv == PacketTypes /\ PacketFromItsReceive /\ OverrunOnlyIfMisread /\ WholeMessageIntact

\* The packet that ProcessIocp makes with a given size.
MadeWith(size) ==
    [of     |-> taken,
     packet |-> [SenderType   |-> Field(header[current], 0),
                 ContentsType |-> Field(header[current], 2 * FieldSize),
                 Buffer       |-> Copied(current, size)]]

\* The sizes that ProcessIocp may read.
SizesRead == SizesReadFrom(Field(header[current], FieldSize))

\* A field of the header shows what the receive brought there.
LEMMA FieldIsBrought ==
    ASSUME BufferInv, netPc = "receive", NEW start \in {0, FieldSize, 2 * FieldSize}
    PROVE  /\ Field(header[current], start) = [i \in FieldUnits |-> Brought(taken, start + i)]
           /\ Field(header[current], start) \in [FieldUnits -> Units]
<1>1. header[current] = [i \in HeaderUnits |-> Brought(taken, i)] /\ taken \in Seq(Units)
  BY DEF BufferInv, BufferTypes, HandledInv
<1>2. ASSUME NEW i \in FieldUnits
      PROVE  /\ start + i \in HeaderUnits
             /\ start + i \in Nat /\ start + i >= 1
  BY Sizes DEF FieldUnits, HeaderUnits
<1>3. \A i \in FieldUnits : Brought(taken, start + i) \in Units
  BY <1>1, <1>2, BroughtIsUnit
<1>4. \A i \in FieldUnits : header[current][start + i] = Brought(taken, start + i)
  BY <1>1, <1>2
<1> QED
  BY <1>3, <1>4 DEF Field

\* The copy has the length that was asked for, and shows the buffer while inside it.
LEMMA CopiedUnits ==
    ASSUME BufferInv, netPc = "receive", NEW size \in Nat
    PROVE  /\ Copied(current, size) \in Seq(Units)
           /\ Len(Copied(current, size)) = size
           /\ \A i \in 1 .. size :
                  Copied(current, size)[i] =
                      IF i <= BufferSizeMax THEN Brought(taken, HeaderSize + i) ELSE Foreign
<1>1. body[current] = [i \in BodyUnits |-> Brought(taken, HeaderSize + i)] /\ taken \in Seq(Units)
  BY DEF BufferInv, BufferTypes, HandledInv
<1>2. ASSUME NEW i \in 1 .. size
      PROVE  (IF i \in BodyUnits THEN body[current][i] ELSE Foreign)
                 = IF i <= BufferSizeMax THEN Brought(taken, HeaderSize + i) ELSE Foreign
  BY <1>1, Sizes DEF BodyUnits
<1>3. ASSUME NEW i \in 1 .. size
      PROVE  (IF i <= BufferSizeMax THEN Brought(taken, HeaderSize + i) ELSE Foreign) \in Units
  <2>1. HeaderSize + i \in Nat /\ HeaderSize + i >= 1
    BY Sizes
  <2> QED
    BY <1>1, <2>1, BroughtIsUnit, ConstantUnits
<1>4. Copied(current, size) =
          [i \in 1 .. size |-> IF i <= BufferSizeMax THEN Brought(taken, HeaderSize + i) ELSE Foreign]
  BY <1>2 DEF Copied
<1>5. Copied(current, size) \in [1 .. size -> Units]
  BY <1>3, <1>4
<1> QED
  BY <1>4, <1>5, LenProperties

\* From a sound receive only sizes inside the buffer are read.
LEMMA SoundSizesFit ==
    ASSUME BufferInv, netPc = "receive", SizeIsSound(taken), NEW size \in SizesRead
    PROVE  size \in 0 .. BufferSizeMax
<1> DEFINE field == Field(header[current], FieldSize)
<1>1. field = [i \in FieldUnits |-> Brought(taken, FieldSize + i)]
  BY FieldIsBrought
<1>2. Len(taken) \in Nat
  BY LenProperties DEF BufferInv, BufferTypes
<1>3. CASE Len(taken) <= FieldSize
  <2>1. \A i \in FieldUnits : Brought(taken, FieldSize + i) = Zero
    BY <1>2, <1>3, Sizes DEF Brought, FieldUnits
  <2>2. field = [i \in FieldUnits |-> Zero]
    BY <1>1, <2>1
  <2> QED
    BY <2>2, Sizes DEF SizesRead, SizesReadFrom
<1>4. CASE 2 * FieldSize <= Len(taken)
           /\ \E m \in MessagesWith(Field(taken, FieldSize)) : BodySize[m] <= BufferSizeMax
  <2>1. PICK m \in 1 .. MaxMessages :
            Field(taken, FieldSize) = Field(Message(m), FieldSize) /\ BodySize[m] <= BufferSizeMax
    BY <1>4 DEF MessagesWith
  <2>2. \A i \in FieldUnits : Brought(taken, FieldSize + i) = taken[FieldSize + i]
    BY <1>2, <1>4, Sizes DEF Brought, FieldUnits
  <2>3. field = Field(taken, FieldSize)
    BY <1>1, <2>2 DEF Field
  <2>4. SizesRead = {BodySize[m]}
    BY <2>1, <2>3, SizeOfMessage DEF SizesRead
  <2> QED
    BY <2>1, <2>4, Sizes
<1> QED
  BY <1>3, <1>4 DEF SizeIsSound

\* A packet made of a receive that begins with all of message m holds message m.
LEMMA PacketOfWholeMessage ==
    ASSUME BufferInv, netPc = "receive", NEW m \in 1 .. MaxMessages, BeginsWith(taken, m),
           NEW size \in SizesRead, size >= 0
    PROVE  MadeWith(size).packet = PacketOf(m)
<1>1. Len(taken) \in Nat /\ HeaderSize + BodySize[m] <= Len(taken)
      /\ \A i \in 1 .. HeaderSize + BodySize[m] : taken[i] = <<m, i>>
  BY MessageIsUnits, LenProperties DEF BeginsWith, BufferInv, BufferTypes
<1>2. BodySize[m] \in Nat /\ BodySize[m] <= BufferSizeMax
  BY <1>1, Sizes DEF BufferInv, HandledInv
<1>3. ASSUME NEW i \in 1 .. HeaderSize + BodySize[m] PROVE Brought(taken, i) = <<m, i>>
  <2>1. i <= Len(taken)
    BY <1>1, <1>2, Sizes
  <2> QED
    BY <1>1, <2>1 DEF Brought
<1>4. ASSUME NEW start \in {0, FieldSize, 2 * FieldSize}
      PROVE  Field(header[current], start) = Field(Message(m), start)
  <2>1. \A i \in FieldUnits : start + i \in 1 .. HeaderSize + BodySize[m]
    BY <1>2, Sizes DEF FieldUnits
  <2>2. \A i \in FieldUnits : Brought(taken, start + i) = Message(m)[start + i]
    BY <1>3, <2>1 DEF Message
  <2> QED
    BY <2>2, FieldIsBrought DEF Field
<1>5. size = BodySize[m]
  BY <1>4, SizeOfMessage DEF SizesRead
<1>6. ASSUME NEW i \in 1 .. BodySize[m]
      PROVE  (IF i <= BufferSizeMax THEN Brought(taken, HeaderSize + i) ELSE Foreign) = <<m, HeaderSize + i>>
  BY <1>2, <1>3, Sizes
<1>7. Copied(current, size) \in Seq(Units) /\ Len(Copied(current, size)) = size
      /\ \A i \in 1 .. size : Copied(current, size)[i] = <<m, HeaderSize + i>>
  BY <1>2, <1>5, <1>6, CopiedUnits
<1>8. Copied(current, size) \in [1 .. BodySize[m] -> Units]
  BY <1>5, <1>7, LenProperties
<1>9. Copied(current, size) = [i \in 1 .. BodySize[m] |-> <<m, HeaderSize + i>>]
  BY <1>5, <1>7, <1>8
<1> QED
  BY <1>4, <1>9 DEF MadeWith, PacketOf

LEMMA PacketStep == BufferInv /\ PacketInv /\ [Next]_vars => PacketInv'
<1> SUFFICES ASSUME BufferInv, PacketInv, [Next]_vars PROVE PacketInv'
  OBVIOUS
<1>1. CASE UNCHANGED made /\ (netPc' = "ended" => netPc = "ended" /\ taken' = taken)
  BY <1>1 DEF PacketInv, PacketTypes, PacketFromItsReceive, OverrunOnlyIfMisread, WholeMessageIntact
<1>2. CASE ProcessIocp
  <2>1. netPc = "receive" /\ netPc' = "rearm"
    BY <1>2 DEF ProcessIocp
  <2>2. PICK size \in SizesRead : size >= 0 /\ made' = MadeWith(size)
    BY <1>2 DEF ProcessIocp, SizesRead, MadeWith
  <2>3. size \in Nat
    BY <2>2, SizesAreInts DEF SizesRead
  <2>4. made'.of = taken /\ made'.packet.SenderType = Field(header[current], 0)
        /\ made'.packet.ContentsType = Field(header[current], 2 * FieldSize)
        /\ made'.packet.Buffer = Copied(current, size)
    BY <2>2 DEF MadeWith
  <2>5. PacketTypes'
    <3>1. Copied(current, size) \in Seq(Units) /\ taken \in Seq(Units)
      BY <2>1, <2>3, CopiedUnits DEF BufferInv, BufferTypes
    <3>2. /\ Field(header[current], 0) \in [FieldUnits -> Units]
          /\ Field(header[current], 2 * FieldSize) \in [FieldUnits -> Units]
      BY <2>1, FieldIsBrought
    <3> QED
      BY <2>2, <3>1, <3>2 DEF MadeWith, PacketTypes, Packets
  <2>6. PacketFromItsReceive'
    <3>1. /\ Field(header[current], 0) = [i \in FieldUnits |-> Brought(taken, 0 + i)]
          /\ Field(header[current], 2 * FieldSize) = [i \in FieldUnits |-> Brought(taken, 2 * FieldSize + i)]
      BY <2>1, FieldIsBrought
    <3>2. [i \in FieldUnits |-> Brought(taken, 0 + i)] = [i \in FieldUnits |-> Brought(taken, i)]
      BY Sizes DEF FieldUnits
    <3>3. \A i \in 1 .. Len(Copied(current, size)) : i <= BufferSizeMax =>
              Copied(current, size)[i] = Brought(taken, HeaderSize + i)
      BY <2>1, <2>3, CopiedUnits
    <3> QED
      BY <2>4, <3>1, <3>2, <3>3 DEF PacketFromItsReceive
  <2>7. OverrunOnlyIfMisread'
    <3>1. SizeIsSound(taken) => Len(Copied(current, size)) <= BufferSizeMax
      BY <2>1, <2>3, SoundSizesFit, CopiedUnits, Sizes
    <3> QED
      BY <2>1, <2>4, <3>1 DEF OverrunOnlyIfMisread
  <2>8. WholeMessageIntact'
    BY <2>1, <2>2, <2>4, PacketOfWholeMessage DEF WholeMessageIntact
  <2> QED
    BY <2>5, <2>6, <2>7, <2>8 DEF PacketInv
<1>3. CASE ProcessIocpEnds
  <2>1. netPc = "receive" /\ taken' = taken /\ made' = made
    BY <1>3 DEF ProcessIocpEnds
  <2>2. PICK size \in SizesRead : size < 0 \/ size > BufferSizeMax
    BY <1>3 DEF ProcessIocpEnds, SizesRead
  <2>3. ~SizeIsSound(taken)
    BY <2>1, <2>2, SoundSizesFit, Sizes
  <2> QED
    BY <2>1, <2>3 DEF PacketInv, PacketTypes, PacketFromItsReceive, OverrunOnlyIfMisread, WholeMessageIntact
<1>4. ~ProcessIocp /\ ~ProcessIocpEnds =>
          UNCHANGED made /\ (netPc' = "ended" => netPc = "ended" /\ taken' = taken)
  BY DEF Next, vars, netVars, Handle, Send, Recycle, SendCompletes, CallReceiveReady, SendRequest,
         AcceptCompletes, ReceiveCompletes
<1> QED
  BY <1>1, <1>2, <1>3, <1>4

LEMMA Invariance == Spec => [](BufferInv /\ PacketInv)
<1>1. Init => PacketInv
  BY DEF Init, PacketInv, PacketTypes, PacketFromItsReceive, OverrunOnlyIfMisread, WholeMessageIntact
<1>2. QED
  BY <1>1, InitInv, BufferStep, PacketStep, PTL DEF Spec

(* The type invariant, for every value of the constants: no receive, no      *)
(* answer and no accept writes past a buffer, however the stream is cut.     *)
THEOREM TypeCorrect == Spec => []TypeOK
<1>1. BufferInv /\ PacketInv => TypeOK
  BY DEF BufferInv, BufferTypes, PacketInv, PacketTypes, TypeOK
<1>2. QED
  BY <1>1, Invariance, PTL

(* Whatever number ProcessIocp reads as the BodySize, the packet shows, as   *)
(* far as the buffer goes, its own receive and zeros.                        *)
THEOREM PacketsShowTheirReceive == Spec => []PacketFromItsReceive
BY Invariance, PTL DEF PacketInv

(* ProcessIocp leaves the buffer, or ends the process, only for a BodySize   *)
(* field that was cut, misplaced or larger than the buffer.                  *)
THEOREM OverrunsAreMisread == Spec => []OverrunOnlyIfMisread
BY Invariance, PTL DEF PacketInv

(* A receive that starts with a whole message becomes that message's packet, *)
(* whatever the sizes of the messages.                                       *)
THEOREM WholeMessagesAreIntact == Spec => []WholeMessageIntact
BY Invariance, PTL DEF PacketInv
=============================================================================
