------------------------------ MODULE ByteBuffer ------------------------------
(***************************************************************************)
(* ByteBuffer as a queue of values (ByteBuffer.h): integers, strings and   *)
(* packed GUIDs are appended and read back in order, while the buffer is   *)
(* compacted and grows.  A byte is a digit below Radix and a GUID has      *)
(* GuidBytes of them instead of 8.                                         *)
(***************************************************************************)
EXTENDS Naturals, Sequences, FiniteSets

CONSTANTS
    Radix,          \* how many bytes there are
    GuidBytes,      \* the bytes of a GUID
    Words,          \* the two-byte integers that are appended
    Chars,          \* the characters of strings, none of them 0
    MaxValues       \* values appended (bound)

ASSUME BufferAssumption ==
    /\ Radix \in Nat /\ GuidBytes \in Nat
    /\ Words \subseteq [1..2 -> 0..Radix - 1] /\ Chars \subseteq 1..Radix - 1 /\ MaxValues \in Nat

\* The bits that are set in a byte, the lowest one is 1.
Bits(byte) == {i \in 1..GuidBytes : (byte \div 2^(i - 1)) % 2 = 1}

\* A byte has a bit for each byte of a GUID.
ASSUME BitsAssumption ==
    \A set \in SUBSET (1..GuidBytes) : \E byte \in 0..Radix - 1 : Bits(byte) = set

VARIABLES
    _bufferData, _readPos, _writePos,
    queue,      \* the values that have been appended and not read
    appended,   \* how many have been appended
    result      \* the last value read beside the one that was due

bufferVars == <<_bufferData, _readPos, _writePos, queue, appended, result>>

Digits == 0..Radix - 1
Guids == [1..GuidBytes -> Digits]
Strings == {<<>>} \cup {<<c>> : c \in Chars} \cup (Chars \X Chars)
Values == [kind : {"u16"}, of : Words] \cup [kind : {"string"}, of : Strings]
          \cup [kind : {"guid"}, of : Guids]

BufferInit ==
    /\ _bufferData = <<>> /\ _readPos = 0 /\ _writePos = 0
    /\ queue = <<>> /\ appended = 0 /\ result = [read |-> <<>>, due |-> <<>>]

GetActualSize == _writePos - _readPos

-----------------------------------------------------------------------------
\* Writing

NonZero(guid) == {i \in 1..GuidBytes : guid[i] # 0}

\* Fault: the mark counts the bytes that are written, not their places.
GuidMarkDense(guid) == CHOOSE m \in Digits : Bits(m) = 1..Cardinality(NonZero(guid))

\* The first byte of a packed GUID has a bit for each byte that is not 0.
GuidMark(guid) == CHOOSE m \in Digits : Bits(m) = NonZero(guid)

\* How many bytes are packed before the i-th.
Before(places, i) == Cardinality({j \in places : j < i})

\* The mark, then the bytes that are not 0 in their order.
AppendGuid(guid) ==
    LET places == NonZero(guid) IN
    [k \in 1..Cardinality(places) + 1 |->
       IF k = 1 THEN GuidMark(guid) ELSE guid[CHOOSE i \in places : Before(places, i) = k - 2]]

WriteString(value) == value \o <<0>>

Bytes(v) == CASE v.kind = "u16" -> v.of
              [] v.kind = "string" -> WriteString(v.of)
              [] v.kind = "guid" -> AppendGuid(v.of)

\* resize, when the data do not fit.
Grown(data, newSize) ==
    IF Len(data) >= newSize THEN data ELSE data \o [i \in 1..newSize - Len(data) |-> 0]

\* memcpy to the write position.
Copied(data, pos, bytes) ==
    [i \in DOMAIN data |-> IF i - pos \in DOMAIN bytes THEN bytes[i - pos] ELSE data[i]]

AppendValue(v) ==
    /\ appended < MaxValues
    /\ LET bytes == Bytes(v)
           newSize == _writePos + Len(bytes)
       IN  /\ _bufferData' = Copied(Grown(_bufferData, newSize), _writePos, bytes)
           /\ _writePos' = newSize
    /\ queue' = Append(queue, v) /\ appended' = appended + 1
    /\ UNCHANGED <<_readPos, result>>

-----------------------------------------------------------------------------
\* Reading

At(pos) == _bufferData[pos + 1]

\* Where a string ends: at the first 0, or with the vector.
StringEnd ==
    LET Zeros == {p \in _readPos..Len(_bufferData) - 1 : At(p) = 0} IN
    IF Zeros = {} THEN Len(_bufferData) ELSE CHOOSE p \in Zeros : \A q \in Zeros : p <= q

ReadString == [of |-> SubSeq(_bufferData, _readPos + 1, StringEnd),
               pos |-> IF StringEnd < Len(_bufferData) THEN StringEnd + 1 ELSE StringEnd]

\* Each bit of the mark says whether a byte follows.
ReadPackedGUID ==
    LET marked == Bits(At(_readPos)) IN
    [of |-> [i \in 1..GuidBytes |->
               IF i \in marked THEN At(_readPos + 1 + Before(marked, i)) ELSE 0],
     pos |-> _readPos + 1 + Cardinality(marked)]

ReadU16 == [of |-> <<At(_readPos), At(_readPos + 1)>>, pos |-> _readPos + 2]

\* The program reads values of the types it expects.
ReadValue ==
    /\ queue # <<>>
    /\ LET due == Head(queue)
           r == CASE due.kind = "u16" -> ReadU16
                  [] due.kind = "string" -> ReadString
                  [] due.kind = "guid" -> ReadPackedGUID
       IN  /\ result' = [read |-> r.of, due |-> due.of]
           /\ _readPos' = r.pos
    /\ queue' = Tail(queue)
    /\ UNCHANGED <<_bufferData, _writePos, appended>>

-----------------------------------------------------------------------------
\* memmove of what is unread to the front; what was behind it stays.
CleanBuffer ==
    /\ _readPos > 0
    /\ _bufferData' = Copied(_bufferData, 0, SubSeq(_bufferData, _readPos + 1, _writePos))
    /\ _writePos' = GetActualSize /\ _readPos' = 0
    /\ UNCHANGED <<queue, appended, result>>

\* A full vector grows by a half.
RecalculateSize ==
    /\ _bufferData # <<>> /\ Len(_bufferData) = _writePos
    /\ _bufferData' = Grown(_bufferData, (Len(_bufferData) * 3) \div 2)
    /\ UNCHANGED <<_readPos, _writePos, queue, appended, result>>

\* Clean, which drops what is unread.
Clean ==
    /\ _bufferData # <<>>
    /\ _bufferData' = <<>> /\ _readPos' = 0 /\ _writePos' = 0
    /\ queue' = <<>>
    /\ UNCHANGED <<appended, result>>

BufferNext == \/ \E v \in Values : AppendValue(v)
              \/ ReadValue \/ CleanBuffer \/ RecalculateSize \/ Clean

BufferSpec == BufferInit /\ [][BufferNext]_bufferVars
-----------------------------------------------------------------------------
\* Properties

\* The types of the variables; the positions are in the vector.
BufferTypeOK ==
    /\ _bufferData \in Seq(Digits)
    /\ _readPos \in Nat /\ _writePos \in Nat
    /\ _readPos <= _writePos /\ _writePos <= Len(_bufferData)
    /\ queue \in Seq(Values) /\ appended \in 0..MaxValues

\* The bytes are in the vector behind the position.
HoldsAt(data, pos, bytes) == \A k \in DOMAIN bytes : data[pos + k] = bytes[k]

\* From one position to the other lie the bytes of the values, one behind the other.
Laid(data, from, to, values) ==
    \E start \in [1..Len(values) + 1 -> from..to] :
        /\ start[1] = from /\ start[Len(values) + 1] = to
        /\ \A i, j \in DOMAIN start : i <= j => start[i] <= start[j]
        /\ \A i \in DOMAIN values : /\ start[i + 1] = start[i] + Len(Bytes(values[i]))
                                    /\ HoldsAt(data, start[i], Bytes(values[i]))

\* What is unread are the bytes of the values that wait.
UnreadIsQueue == Laid(_bufferData, _readPos, _writePos, queue)

\* Every value is read back as it was appended, in order, wherever the buffer was
\* compacted, grown or dropped in between and whatever stale bytes that has left
\* behind the write position (ByteBuffer.h:43-98, 100-105, 142-183, 219-236).
ReadsBack == result.read = result.due

\* The inductive invariant (ByteBuffer.h:43-98, 100-105, 142-183, 219-236).
BufferInv == BufferTypeOK /\ UnreadIsQueue /\ ReadsBack
===============================================================================
