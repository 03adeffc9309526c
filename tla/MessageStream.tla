----------------------------- MODULE MessageStream -----------------------------
(***************************************************************************)
(* How the bytes of a connection become packets: the two buffers of a      *)
(* CustomOverlapped, what the operations leave in them, and ProcessIocp,   *)
(* which makes one packet of every receive.                                *)
(*                                                                         *)
(* The peer sends messages, a header and a body each.  TCP keeps the order *)
(* of the bytes and nothing else: a receive takes any number of those that *)
(* have arrived, and may cut a field of a header.  The bytes are counted   *)
(* in units, FieldSize of them to a field.  One connection is modelled,    *)
(* open, with one receive at a time (OneReceivePerSocket of                *)
(* NetworkManager); its objects come from the pool that the answers on     *)
(* other connections use.                                                  *)
(*                                                                         *)
(* ProcessIocp copies as many bytes as the BodySize field says, whatever   *)
(* it received there and however long the buffer is.                       *)
(***************************************************************************)
EXTENDS Integers, Sequences

CONSTANTS
    MaxMessages,    \* bound: how many messages the peer sends
    BodySize,       \* the body size of each message
    FieldSize,      \* the units of a header field: sizeof(uint32_t)
    BufferSizeMax,  \* BUFFER_SIZE_MAX
    AddressSize,    \* what AcceptEx writes: the two addresses
    AnswerSizes,    \* the sizes of the answers that the jobs build
    Numbers,        \* what the bytes of anything may read as: any int
    Overlappeds,    \* the CustomOverlapped objects
    NoOverlapped,   \* a null CustomOverlapped*
    Accepted,       \* the object whose AcceptEx accepts the connection
    NoPacket        \* before the first packet

ASSUME SizesAreNatural ==
    /\ MaxMessages \in Nat /\ BufferSizeMax \in Nat /\ FieldSize \in Nat \ {0}
    /\ BodySize \in [1 .. MaxMessages -> Nat]
    /\ Numbers \subseteq Int
\* 2 * (sizeof(sockaddr_in) + 16) is 64, and an answer is a table of a key and
\* three small fields; neither is compared with the 1024 bytes of the buffer.
ASSUME OwnWritesFit ==
    /\ AddressSize \in 0 .. BufferSizeMax
    /\ AnswerSizes \subseteq 0 .. BufferSizeMax
ASSUME AcceptedIsAnObject == Accepted \in Overlappeds /\ NoOverlapped \notin Overlappeds

VARIABLES
    sent,       \* how many messages the peer has sent
    stream,     \* the units that have not been received
    use,        \* what each object is in use for
    header,     \* Wsabuf[0].buf of each object
    body,       \* Wsabuf[1].buf of each object
    len,        \* Wsabuf[1].len of each object
    netPc,      \* where the network thread is; "ended" with the whole process
    current,    \* the object whose completion it handles
    taken,      \* the units its receive took
    made        \* the packet made last, with the units it was made of

peerVars == <<sent, stream>>
buffers  == <<header, body, len>>
netVars  == <<netPc, current, taken>>
vars     == <<peerVars, use, buffers, netVars, made>>

HeaderSize == 3 * FieldSize     \* SenderType, BodySize, ContentsType
HeaderUnits == 1 .. HeaderSize
FieldUnits == 1 .. FieldSize
BodyUnits == 1 .. BufferSizeMax

\* The unit i of message m is <<m, i>>; the others are part of no message.
Zero == <<0, 0>>
Other == <<0, 1>>    \* addresses of AcceptEx, answers, what new char[] contains
Foreign == <<0, 2>>  \* memory that follows the buffer

Message(m) == [i \in 1 .. HeaderSize + BodySize[m] |-> <<m, i>>]

\* The field of a header that follows its first start units.
Field(units, start) == [i \in FieldUnits |-> units[start + i]]

\* The packet that holds message m.
PacketOf(m) == [SenderType   |-> Field(Message(m), 0),
                ContentsType |-> Field(Message(m), 2 * FieldSize),
                Buffer       |-> [i \in 1 .. BodySize[m] |-> <<m, HeaderSize + i>>]]

Init ==
    /\ sent = 0
    /\ stream = <<>>
    /\ use = [o \in Overlappeds |-> IF o = Accepted THEN "accept" ELSE "free"]
    /\ header = [o \in Overlappeds |-> [i \in HeaderUnits |-> Other]]
    /\ body = [o \in Overlappeds |-> [i \in BodyUnits |-> Other]]
    /\ len = [o \in Overlappeds |-> BufferSizeMax]
    /\ netPc = "wait"
    /\ current = NoOverlapped
    /\ taken = <<>>
    /\ made = NoPacket

-----------------------------------------------------------------------------
(* The peer *)

Send ==
    /\ sent < MaxMessages
    /\ sent' = sent + 1
    /\ stream' = stream \o Message(sent + 1)
    /\ UNCHANGED <<use, buffers, netVars, made>>

-----------------------------------------------------------------------------
(* CustomOverlapped *)

\* Mutant of ZeroedBody: the buffer keeps what it holds.
BodyAsItWas(o) == body[o]

\* The units of the buffer, and those past its end that a write of n units reaches.
Reached(n) == BodyUnits \union 1 .. n

\* Mutant of ZeroedBody: one unit more than len, past the end of the buffer.
ZeroedPastEnd(o) ==
    [i \in Reached(len[o] + 1) |-> IF i <= len[o] + 1 THEN Zero ELSE body[o][i]]

\* memset(Wsabuf[1].buf, 0, Wsabuf[1].len): the units past len stay.
ZeroedBody(o) == [i \in Reached(len[o]) |-> IF i <= len[o] THEN Zero ELSE body[o][i]]

\* Mutant of Clear: the length of the body buffer is not restored.
ClearWithoutLength(o) ==
    /\ header' = [header EXCEPT ![o] = [i \in HeaderUnits |-> Zero]]
    /\ body' = [body EXCEPT ![o] = ZeroedBody(o)]
    /\ UNCHANGED len

Clear(o) ==
    /\ header' = [header EXCEPT ![o] = [i \in HeaderUnits |-> Zero]]
    /\ body' = [body EXCEPT ![o] = ZeroedBody(o)]
    /\ len' = [len EXCEPT ![o] = BufferSizeMax]

\* Clear, then SendSetting, whose memset and memcpy write n units; the rest of the
\* buffer stays zero.
ClearAndSendSetting(o, n) ==
    /\ header' = [header EXCEPT ![o] = [i \in HeaderUnits |-> Other]]
    /\ body' = [body EXCEPT ![o] = [i \in Reached(n) |-> IF i <= n THEN Other ELSE ZeroedBody(o)[i]]]
    /\ len' = [len EXCEPT ![o] = n]

-----------------------------------------------------------------------------
(* SendRequest of a job thread, on another connection *)

\* WSASend takes the object, or fails at once and nobody has it any more.
SendRequest(o, n) ==
    /\ netPc # "ended"
    /\ use[o] = "free"
    /\ ClearAndSendSetting(o, n)
    /\ use' = [use EXCEPT ![o] = "send"] \/ use' = [use EXCEPT ![o] = "lost"]
    /\ UNCHANGED <<peerVars, netVars, made>>

-----------------------------------------------------------------------------
(* The network thread *)

Handle(o, p) ==
    /\ netPc = "wait"
    /\ netPc' = p
    /\ current' = o
    /\ use' = [use EXCEPT ![o] = "handled"]

\* AcceptEx was given Wsabuf[1].buf for the addresses of the two ends.
AcceptCompletes(o) ==
    /\ use[o] = "accept"
    /\ Handle(o, "rearm")
    /\ body' = [body EXCEPT ![o] =
           [i \in Reached(AddressSize) |-> IF i <= AddressSize THEN Other ELSE @[i]]]
    /\ UNCHANGED <<peerVars, header, len, taken, made>>

\* The object of an answer that was sent: nothing to do but to recycle it.
SendCompletes(o) ==
    /\ use[o] = "send"
    /\ Handle(o, "recycle")
    /\ UNCHANGED <<peerVars, buffers, taken, made>>

\* Winsock fills the header buffer first, then len units of the other.
ReceiveCompletes(o, n) ==
    /\ use[o] = "recv"
    /\ n <= Len(stream) /\ n <= HeaderSize + len[o]
    /\ Handle(o, "receive")
    /\ taken' = SubSeq(stream, 1, n)
    /\ stream' = SubSeq(stream, n + 1, Len(stream))
    /\ header' = [header EXCEPT ![o] = [i \in HeaderUnits |-> IF i <= n THEN stream[i] ELSE @[i]]]
    /\ body' = [body EXCEPT ![o] =
           [i \in Reached(n - HeaderSize) |->
               IF HeaderSize + i <= n THEN stream[HeaderSize + i] ELSE @[i]]]
    /\ UNCHANGED <<sent, len, made>>

\* The messages whose BodySize field this is: one or none.
MessagesWith(field) == {m \in 1 .. MaxMessages : field = Field(Message(m), FieldSize)}

\* Mutant of SizesReadFrom: the size counts the header too.
SizesWithHeader(field) ==
    IF field = [i \in FieldUnits |-> Zero] THEN {0}
    ELSE IF MessagesWith(field) # {} THEN {HeaderSize + BodySize[m] : m \in MessagesWith(field)}
    ELSE Numbers

\* ntohl of the BodySize field, as an int: a field that was cut, or anything else
\* that was received in its place, may be any number.
SizesReadFrom(field) ==
    IF field = [i \in FieldUnits |-> Zero] THEN {0}
    ELSE IF MessagesWith(field) # {} THEN {BodySize[m] : m \in MessagesWith(field)}
    ELSE Numbers

\* std::string(Wsabuf[1].buf, size), which may read past the end of the buffer.
Copied(o, size) == [i \in 1 .. size |-> IF i \in BodyUnits THEN body[o][i] ELSE Foreign]

ProcessIocp ==
    /\ netPc = "receive"
    /\ \E size \in SizesReadFrom(Field(header[current], FieldSize)) :
           /\ size >= 0
           /\ made' = [of     |-> taken,
                       packet |-> [SenderType   |-> Field(header[current], 0),
                                   ContentsType |-> Field(header[current], 2 * FieldSize),
                                   Buffer       |-> Copied(current, size)]]
    /\ netPc' = "rearm"
    /\ taken' = <<>>
    /\ UNCHANGED <<peerVars, use, buffers, current>>

\* A negative size is a length_error that nobody catches; what follows the buffer
\* may be memory that cannot be read.
ProcessIocpEnds ==
    /\ netPc = "receive"
    /\ \E size \in SizesReadFrom(Field(header[current], FieldSize)) :
           size < 0 \/ size > BufferSizeMax
    /\ netPc' = "ended"
    /\ UNCHANGED <<peerVars, use, buffers, current, taken, made>>

\* Mutant of CallReceiveReady: the object is used as it comes from the pool.
CallReceiveReadyUncleared(o) ==
    /\ netPc = "rearm"
    /\ use[o] = "free"
    /\ use' = [use EXCEPT ![o] = "recv"]
    /\ netPc' = "recycle"
    /\ UNCHANGED <<peerVars, buffers, current, taken, made>>

\* WSARecv takes the object, or fails at once: then the connection has no receive.
CallReceiveReady(o) ==
    /\ netPc = "rearm"
    /\ use[o] = "free"
    /\ Clear(o)
    /\ use' = [use EXCEPT ![o] = "recv"] \/ use' = [use EXCEPT ![o] = "lost"]
    /\ netPc' = "recycle"
    /\ UNCHANGED <<peerVars, current, taken, made>>

\* The Clear and the push at the end of the loop.
Recycle ==
    /\ netPc = "recycle"
    /\ Clear(current)
    /\ use' = [use EXCEPT ![current] = "free"]
    /\ current' = NoOverlapped
    /\ netPc' = "wait"
    /\ UNCHANGED <<peerVars, taken, made>>

-----------------------------------------------------------------------------

Next ==
    \/ Send
    \/ ProcessIocp
    \/ ProcessIocpEnds
    \/ Recycle
    \/ \E o \in Overlappeds :
           \/ AcceptCompletes(o)
           \/ SendCompletes(o)
           \/ CallReceiveReady(o)
           \/ \E n \in AnswerSizes : SendRequest(o, n)
           \/ \E n \in 1 .. HeaderSize + BufferSizeMax : ReceiveCompletes(o, n)

Spec == Init /\ [][Next]_vars

-----------------------------------------------------------------------------
(* Properties *)

Units ==
    {Zero, Other, Foreign}
        \union UNION {{<<m, i>> : i \in 1 .. HeaderSize + BodySize[m]} : m \in 1 .. MaxMessages}

Packets == [SenderType : [FieldUnits -> Units], ContentsType : [FieldUnits -> Units], Buffer : Seq(Units)]

\* No write leaves a buffer: body[o] keeps the domain BodyUnits.
TypeOK ==
    /\ sent \in 0 .. MaxMessages
    /\ stream \in Seq(Units)
    /\ use \in [Overlappeds -> {"free", "accept", "recv", "send", "handled", "lost"}]
    /\ header \in [Overlappeds -> [HeaderUnits -> Units]]
    /\ body \in [Overlappeds -> [BodyUnits -> Units]]
    /\ len \in [Overlappeds -> 0 .. BufferSizeMax]
    /\ netPc \in {"wait", "receive", "rearm", "recycle", "ended"}
    /\ current \in Overlappeds \union {NoOverlapped}
    /\ taken \in Seq(Units)
    /\ made \in [of : Seq(Units), packet : Packets] \union {NoPacket}

(* A receive is posted with zeroed buffers of their full length, whatever   *)
(* the object was used for before, the constructor included: Clear zeroes   *)
(* only as much as the length of the last send, and that is enough.         *)
ReceivesIntoCleanBuffers ==
    \A o \in Overlappeds : use[o] = "recv" =>
        /\ header[o] = [i \in HeaderUnits |-> Zero]
        /\ body[o] = [i \in BodyUnits |-> Zero]
        /\ len[o] = BufferSizeMax

\* The unit i of a receive, and zero where it brought nothing.
Brought(units, i) == IF i <= Len(units) THEN units[i] ELSE Zero

(* Within the buffer a packet shows what its own receive brought, at its    *)
(* place, and zeros: nothing of an accept, an answer or an earlier receive, *)
(* also when the BodySize that is read promises more than has arrived.      *)
PacketFromItsReceive ==
    made # NoPacket =>
        /\ made.packet.SenderType = [i \in FieldUnits |-> Brought(made.of, i)]
        /\ made.packet.ContentsType = [i \in FieldUnits |-> Brought(made.of, 2 * FieldSize + i)]
        /\ \A i \in 1 .. Len(made.packet.Buffer) : i <= BufferSizeMax =>
               made.packet.Buffer[i] = Brought(made.of, HeaderSize + i)

\* Units that end before the BodySize field, or have that of a message that fits
\* the buffer in its place.
SizeIsSound(units) ==
    \/ Len(units) <= FieldSize
    \/ /\ 2 * FieldSize <= Len(units)
       /\ \E m \in MessagesWith(Field(units, FieldSize)) : BodySize[m] <= BufferSizeMax

(* ProcessIocp reads past the buffer, or ends the process, only when the    *)
(* receive cut the BodySize field, began in the middle of a message, or     *)
(* brought a message larger than the buffer: no number that an earlier      *)
(* operation left in the header is ever taken for a size.                   *)
OverrunOnlyIfMisread ==
    /\ made # NoPacket /\ SizeIsSound(made.of) => Len(made.packet.Buffer) <= BufferSizeMax
    /\ netPc = "ended" => ~SizeIsSound(taken)

\* Units that begin with all of message m.
BeginsWith(units, m) ==
    /\ Len(Message(m)) <= Len(units)
    /\ \A i \in 1 .. Len(Message(m)) : units[i] = <<m, i>>

(* A receive that starts at a message and brings all of it makes a packet   *)
(* of exactly that message, whatever it brings after it.                    *)
WholeMessageIntact ==
    made # NoPacket =>
        \A m \in 1 .. MaxMessages : BeginsWith(made.of, m) => made.packet = PacketOf(m)
=============================================================================
