--------------------------- MODULE ByteBufferProofs ---------------------------
(***************************************************************************)
(* Proofs about ByteBuffer, for any size of bytes and GUIDs, any words and *)
(* characters and any number of values.                                    *)
(***************************************************************************)
EXTENDS ByteBuffer, FiniteSetTheorems, SequenceTheorems, TLAPS

(***************************************************************************)
(* Packed GUIDs.                                                           *)
(***************************************************************************)

\* Some byte has just the bits of the places that are not 0, and the mark is one
\* (ByteBuffer.h:142-157).
LEMMA MarkHasBits ==
    ASSUME NEW guid \in Guids
    PROVE  GuidMark(guid) \in Digits /\ Bits(GuidMark(guid)) = NonZero(guid)
<1>1. NonZero(guid) \in SUBSET (1..GuidBytes)
      BY DEF NonZero
<1>2. \E m \in Digits : Bits(m) = NonZero(guid)
      BY <1>1, BitsAssumption DEF Digits
<1> QED BY <1>2 DEF GuidMark

\* Two places have different numbers of places before them, and fewer than there
\* are places: a byte is packed for each (ByteBuffer.h:148-158).
LEMMA PlacesApart ==
    ASSUME NEW places \in SUBSET (1..GuidBytes)
    PROVE  /\ IsFiniteSet(places) /\ Cardinality(places) \in Nat
           /\ \A i \in places : Before(places, i) \in 0..Cardinality(places) - 1
           /\ \A i, j \in places : Before(places, i) = Before(places, j) => i = j
           /\ \A i \in places : (CHOOSE j \in places : Before(places, j) = Before(places, i)) = i
<1>0. GuidBytes \in Nat
      BY BufferAssumption
<1>1. IsFiniteSet(places) /\ Cardinality(places) \in Nat
  <2>1. IsFiniteSet(1..GuidBytes)
        BY <1>0, FS_Interval
  <2>2. IsFiniteSet(places)
        BY <2>1, FS_Subset
  <2> QED BY <2>2, FS_CardinalityType
<1>2. ASSUME NEW i \in places, NEW T \in SUBSET places, i \notin T
      PROVE  Cardinality(T) \in Nat /\ Cardinality(T) < Cardinality(places)
  <2>1. IsFiniteSet(T) /\ Cardinality(T) \in Nat /\ Cardinality(T) <= Cardinality(places)
        BY <1>1, FS_Subset, FS_CardinalityType
  <2>2. Cardinality(T) # Cardinality(places)
    <3>1. i \in places /\ ~(i \in T)
          BY <1>2
    <3>2. places # T
          BY <3>1
    <3>3. Cardinality(places) = Cardinality(T) => places = T
          BY <1>1, FS_Subset
    <3> QED BY <3>2, <3>3
  <2> QED BY <1>1, <2>1, <2>2
<1>3. \A i \in places : Before(places, i) \in 0..Cardinality(places) - 1
  <2> TAKE i \in places
  <2>1. {j \in places : j < i} \in SUBSET places /\ i \notin {j \in places : j < i}
        BY <1>0
  <2>2. Before(places, i) \in Nat /\ Before(places, i) < Cardinality(places)
        BY <1>2, <2>1 DEF Before
  <2> QED BY <1>1, <2>2
<1>4. ASSUME NEW i \in places, NEW j \in places, i < j
      PROVE  Before(places, i) < Before(places, j)
  <2> DEFINE I == {k \in places : k < i}
             J == {k \in places : k < j}
  <2>1. i \in J /\ i \notin I /\ I \subseteq J /\ J \subseteq places
    <3>1. \A k \in places : k \in Nat
          BY <1>0
    <3>2. \A k \in places : k < i => k < j
          BY <3>1, <1>4
    <3>3. ~(i < i)
          BY <3>1
    <3> QED BY <3>2, <3>3, <1>4
  <2>2. IsFiniteSet(J) /\ IsFiniteSet(I) /\ Cardinality(I) \in Nat /\ Cardinality(J) \in Nat
        BY <1>1, <2>1, FS_Subset, FS_CardinalityType
  <2>3. Cardinality(I) <= Cardinality(J) /\ Cardinality(I) # Cardinality(J)
        BY <2>1, <2>2, FS_Subset
  <2> QED BY <2>2, <2>3 DEF Before
<1>5. \A i, j \in places : Before(places, i) = Before(places, j) => i = j
  <2>1. \A i, j \in places : i < j \/ j < i \/ i = j
        BY <1>0
  <2> QED BY <1>1, <1>3, <1>4, <2>1
<1> QED BY <1>1, <1>3, <1>5

\* A packed GUID: the mark, and at the place behind the bytes before it each byte
\* that is not 0 (ByteBuffer.h:142-161).
LEMMA PackedGuid ==
    ASSUME NEW guid \in Guids
    PROVE  /\ AppendGuid(guid) \in Seq(Digits)
           /\ Len(AppendGuid(guid)) = Cardinality(NonZero(guid)) + 1
           /\ AppendGuid(guid)[1] = GuidMark(guid)
           /\ \A i \in NonZero(guid) :
                 /\ Before(NonZero(guid), i) + 2 \in 1..Len(AppendGuid(guid))
                 /\ AppendGuid(guid)[Before(NonZero(guid), i) + 2] = guid[i]
<1> DEFINE places == NonZero(guid)
           N == Cardinality(places)
           At_(n) == guid[CHOOSE i \in places : Before(places, i) = n]
<1>1. places \in SUBSET (1..GuidBytes)
      BY DEF NonZero
<1>2. /\ N \in Nat /\ IsFiniteSet(places)
      /\ \A i \in places : Before(places, i) \in 0..N - 1
      /\ \A i \in places : (CHOOSE j \in places : Before(places, j) = Before(places, i)) = i
      BY <1>1, PlacesApart
<1>3. AppendGuid(guid) = [k \in 1..N + 1 |-> IF k = 1 THEN GuidMark(guid) ELSE At_(k - 2)]
      BY DEF AppendGuid
<1>4. ASSUME NEW i \in places
      PROVE  At_((Before(places, i) + 2) - 2) = guid[i]
  <2>1. (Before(places, i) + 2) - 2 = Before(places, i)
        BY <1>2
  <2>2. At_(Before(places, i)) = guid[i]
        BY <1>2
  <2> HIDE DEF At_
  <2> QED BY <2>1, <2>2
<1>5. \A k \in 2..N + 1 : \E i \in places : Before(places, i) = k - 2
  <2> DEFINE F == [i \in places |-> Before(places, i)]
  <2>1. F \in Injection(places, 0..N - 1)
    <3>1. F \in [places -> 0..N - 1]
          BY <1>2
    <3>2. \A i, j \in places : F[i] = F[j] => i = j
          BY <1>1, PlacesApart
    <3> HIDE DEF F, places
    <3> QED BY <3>1, <3>2 DEF Injection, IsInjective
  <2>2. IsFiniteSet(0..N - 1) /\ Cardinality(0..N - 1) = N
        BY <1>2, FS_Interval
  <2>3. F \in Surjection(places, 0..N - 1)
        BY <2>1, <2>2, FS_Injection
  <2>4. \A n \in 0..N - 1 : \E i \in places : F[i] = n
        BY <2>3 DEF Surjection
  <2>5. \A k \in 2..N + 1 : k - 2 \in 0..N - 1
        BY <1>2
  <2> QED BY <2>4, <2>5
<1>6. \A k \in 2..N + 1 : At_(k - 2) \in Digits
  <2>1. \A i \in places : guid[i] \in Digits
        BY <1>1 DEF Guids
  <2> QED BY <1>5, <2>1
<1>7. GuidMark(guid) \in Digits
      BY MarkHasBits
<1> HIDE DEF places, N, At_
<1>8. /\ AppendGuid(guid) \in [1..N + 1 -> Digits]
  <2>1. \A k \in 1..N + 1 : k # 1 => k \in 2..N + 1
        BY <1>2
  <2> QED BY <1>3, <1>6, <1>7, <2>1
<1>9. AppendGuid(guid) \in Seq(Digits) /\ Len(AppendGuid(guid)) = N + 1
  <2>1. N + 1 \in Nat
        BY <1>2
  <2> QED BY <1>8, <2>1, SeqDef, LenProperties
<1>10. 1 \in 1..N + 1 /\ \A i \in places : /\ Before(places, i) + 2 \in 1..N + 1
                                            /\ Before(places, i) + 2 # 1
       BY <1>2
<1>11. \A i \in places : AppendGuid(guid)[Before(places, i) + 2] = guid[i]
       BY <1>3, <1>4, <1>10
<1>12. AppendGuid(guid)[1] = GuidMark(guid)
       BY <1>3, <1>10
<1> QED BY <1>9, <1>10, <1>11, <1>12 DEF N, places

(***************************************************************************)
(* Bytes.                                                                  *)
(***************************************************************************)

\* A word is its two bytes (ByteBuffer.h:61-66, 114-118).
LEMMA WordBytes ==
    ASSUME NEW w \in Words
    PROVE  w \in Seq(Digits) /\ Len(w) = 2 /\ w = <<w[1], w[2]>>
<1>1. w \in [1..2 -> Digits] /\ 2 \in Nat
      BY BufferAssumption DEF Digits
<1>2. w \in Seq(Digits)
      BY <1>1, SeqDef
<1>3. Len(w) = 2
      BY <1>1, <1>2, LenProperties
<1>4. /\ w[1] \in Digits /\ w[2] \in Digits
      /\ <<w[1], w[2]>> \in Seq(Digits) /\ Len(<<w[1], w[2]>>) = 2
      BY <1>1
<1>5. \A k \in 1..2 : w[k] = <<w[1], w[2]>>[k]
  <2>1. \A k \in 1..2 : k = 1 \/ k = 2
        OBVIOUS
  <2> QED BY <2>1
<1> QED BY <1>2, <1>3, <1>4, <1>5, SeqEqual

\* A string is written with a 0 behind it, and has none of its own
\* (ByteBuffer.h:100-105).
LEMMA StringBytes ==
    ASSUME NEW s \in Strings
    PROVE  /\ s \in Seq(Digits) /\ Len(s) \in Nat
           /\ WriteString(s) \in Seq(Digits) /\ Len(WriteString(s)) = Len(s) + 1
           /\ \A k \in 1..Len(s) : /\ k \in 1..Len(WriteString(s))
                                   /\ WriteString(s)[k] = s[k] /\ s[k] # 0
           /\ Len(s) + 1 \in 1..Len(WriteString(s))
           /\ WriteString(s)[Len(s) + 1] = 0
<1>1. Chars \subseteq 1..Radix - 1 /\ Radix \in Nat
      BY BufferAssumption
<1>2. s \in Seq(1..Radix - 1)
  <2>1. CASE s = <<>>
        BY <2>1
  <2>2. CASE s \in {<<c>> : c \in Chars}
    <3>1. PICK c \in Chars : s = <<c>>
          BY <2>2
    <3> QED BY <1>1, <3>1
  <2>3. CASE s \in Chars \X Chars
    <3>1. PICK c \in Chars, d \in Chars : s = <<c, d>>
          BY <2>3
    <3> QED BY <1>1, <3>1
  <2> QED BY <2>1, <2>2, <2>3 DEF Strings
<1>3. \A d \in 1..Radix - 1 : d \in Digits /\ d # 0
      BY <1>1 DEF Digits
<1>4. /\ Len(s) \in Nat /\ DOMAIN s = 1..Len(s)
      /\ \A k \in 1..Len(s) : s[k] \in 1..Radix - 1
      BY <1>2, LenProperties
<1>5. s \in Seq(Digits)
      BY <1>2, <1>3, SeqMonotonic
<1>6. 0 \in Digits /\ <<0>> \in Seq(Digits) /\ Len(<<0>>) = 1 /\ <<0>>[1] = 0
  <2>1. \E byte \in 0..Radix - 1 : TRUE
        BY BitsAssumption
  <2> QED BY <1>1, <2>1 DEF Digits
<1>7. /\ WriteString(s) \in Seq(Digits) /\ Len(WriteString(s)) = Len(s) + 1
      /\ \A k \in 1..Len(s) + 1 :
            WriteString(s)[k] = IF k <= Len(s) THEN s[k] ELSE <<0>>[k - Len(s)]
      BY <1>5, <1>6, ConcatProperties DEF WriteString
<1>8. Len(s) + 1 \in 1..Len(s) + 1 /\ ~(Len(s) + 1 <= Len(s)) /\ (Len(s) + 1) - Len(s) = 1
      BY <1>4
<1>9. WriteString(s)[Len(s) + 1] = 0
      BY <1>6, <1>7, <1>8
<1>10. \A k \in 1..Len(s) : k \in 1..Len(s) + 1 /\ k <= Len(s)
       BY <1>4
<1> QED BY <1>3, <1>4, <1>5, <1>7, <1>8, <1>9, <1>10

\* Every value has bytes, one at least.
LEMMA BytesOfValue ==
    ASSUME NEW v \in Values
    PROVE  /\ Bytes(v) \in Seq(Digits) /\ Len(Bytes(v)) \in Nat \ {0}
           /\ DOMAIN Bytes(v) = 1..Len(Bytes(v))
<1>1. Bytes(v) \in Seq(Digits) /\ Len(Bytes(v)) \in Nat \ {0}
  <2>1. CASE v.kind = "u16"
    <3>1. v.of \in Words /\ Bytes(v) = v.of
          BY <2>1 DEF Values, Bytes
    <3> QED BY <3>1, WordBytes
  <2>2. CASE v.kind = "string"
    <3>1. v.of \in Strings /\ Bytes(v) = WriteString(v.of)
          BY <2>2 DEF Values, Bytes
    <3>2. /\ WriteString(v.of) \in Seq(Digits) /\ Len(v.of) \in Nat
          /\ Len(WriteString(v.of)) = Len(v.of) + 1
          BY <3>1, StringBytes
    <3> QED BY <3>1, <3>2
  <2>3. CASE v.kind = "guid"
    <3>1. v.of \in Guids /\ Bytes(v) = AppendGuid(v.of)
          BY <2>3 DEF Values, Bytes
    <3>2. NonZero(v.of) \in SUBSET (1..GuidBytes)
          BY DEF NonZero
    <3>3. Cardinality(NonZero(v.of)) \in Nat
          BY <3>2, PlacesApart
    <3> QED BY <3>1, <3>3, PackedGuid
  <2> QED BY <2>1, <2>2, <2>3 DEF Values
<1> QED BY <1>1, LenProperties

(***************************************************************************)
(* Reading a value whose bytes are behind the read position.               *)
(***************************************************************************)

\* Read of an integer takes its two bytes (ByteBuffer.h:61-66).
LEMMA ReadsWord ==
    ASSUME _readPos \in Nat, NEW w \in Words, HoldsAt(_bufferData, _readPos, w)
    PROVE  ReadU16 = [of |-> w, pos |-> _readPos + Len(w)]
<1>1. Len(w) = 2 /\ w = <<w[1], w[2]>> /\ w \in Seq(Digits)
      BY WordBytes
<1>2. DOMAIN w = 1..2
      BY <1>1, LenProperties
<1>3. _bufferData[_readPos + 1] = w[1] /\ _bufferData[_readPos + 2] = w[2]
      BY <1>2 DEF HoldsAt
<1>4. (_readPos + 1) + 1 = _readPos + 2
      OBVIOUS
<1>5. At(_readPos) = w[1] /\ At(_readPos + 1) = w[2]
      BY <1>3, <1>4 DEF At
<1> QED BY <1>1, <1>5 DEF ReadU16

\* Read of a string stops at the 0 that was written behind it, not at one that
\* comes after it or that an earlier value has left (ByteBuffer.h:77-87).
LEMMA ReadsString ==
    ASSUME BufferTypeOK, NEW s \in Strings, HoldsAt(_bufferData, _readPos, WriteString(s)),
           _readPos + Len(WriteString(s)) <= _writePos
    PROVE  ReadString = [of |-> s, pos |-> _readPos + Len(WriteString(s))]
<1> DEFINE Zeros == {p \in _readPos..Len(_bufferData) - 1 : At(p) = 0}
           end == _readPos + Len(s)
<1>1. /\ s \in Seq(Digits) /\ Len(s) \in Nat
      /\ WriteString(s) \in Seq(Digits) /\ Len(WriteString(s)) = Len(s) + 1
      /\ \A k \in 1..Len(s) : /\ k \in 1..Len(WriteString(s))
                              /\ WriteString(s)[k] = s[k] /\ s[k] # 0
      /\ Len(s) + 1 \in 1..Len(WriteString(s))
      /\ WriteString(s)[Len(s) + 1] = 0
      BY StringBytes
<1>2. /\ _bufferData \in Seq(Digits) /\ Len(_bufferData) \in Nat
      /\ _readPos \in Nat /\ _writePos \in Nat /\ _writePos <= Len(_bufferData)
      BY LenProperties DEF BufferTypeOK
<1>3. \A k \in 1..Len(WriteString(s)) : _bufferData[_readPos + k] = WriteString(s)[k]
      BY <1>1, LenProperties DEF HoldsAt
<1>4. end \in _readPos..Len(_bufferData) - 1 /\ end < Len(_bufferData)
      BY <1>1, <1>2
<1>5. At(end) = 0
  <2>1. end + 1 = _readPos + (Len(s) + 1)
        BY <1>1, <1>2
  <2> QED BY <1>1, <1>3, <2>1 DEF At
<1>6. \A p \in _readPos..end - 1 : At(p) # 0
  <2> TAKE p \in _readPos..end - 1
  <2>1. PICK k \in 1..Len(s) : p + 1 = _readPos + k
    <3>1. (p + 1) - _readPos \in 1..Len(s) /\ p + 1 = _readPos + ((p + 1) - _readPos)
          BY <1>1, <1>2
    <3> QED BY <3>1
  <2> QED BY <1>1, <1>3, <2>1 DEF At
<1>7. end \in Zeros /\ \A q \in Zeros : end <= q
  <2>1. \A q \in Zeros : q \in Int /\ _readPos <= q /\ At(q) = 0
        BY <1>2
  <2>2. \A q \in Int : _readPos <= q /\ ~(end <= q) => q \in _readPos..end - 1
        BY <1>1, <1>2
  <2> QED BY <1>4, <1>5, <1>6, <2>1, <2>2
<1>8. StringEnd = end
  <2>1. \A p \in Zeros : (\A q \in Zeros : p <= q) => p = end
    <3>1. \A p \in Zeros : p \in Int
          BY <1>2
    <3>2. end \in Int
          BY <1>1, <1>2
    <3> HIDE DEF Zeros, end
    <3> QED BY <1>7, <3>1, <3>2
  <2>2. Zeros # {}
        BY <1>7
  <2>3. StringEnd = CHOOSE p \in Zeros : \A q \in Zeros : p <= q
        BY <2>2 DEF StringEnd
  <2> HIDE DEF Zeros, end
  <2> QED BY <1>7, <2>1, <2>3
<1>9. SubSeq(_bufferData, _readPos + 1, end) = s
  <2> DEFINE r == SubSeq(_bufferData, _readPos + 1, end)
  <2>1. /\ _readPos + 1 \in Int /\ end \in Int
        /\ end - (_readPos + 1) + 1 = Len(s)
        /\ (IF _readPos + 1 <= end THEN end - (_readPos + 1) + 1 ELSE 0) = Len(s)
        BY <1>1, <1>2
  <2>2. \A i \in _readPos + 1..end : _bufferData[i] \in Digits
    <3>1. \A i \in _readPos + 1..end : i \in 1..Len(_bufferData)
          BY <1>2, <1>4
    <3> QED BY <1>2, <3>1, LenProperties
  <2>3. /\ r \in Seq(Digits)
        /\ Len(r) = IF _readPos + 1 <= end THEN end - (_readPos + 1) + 1 ELSE 0
        /\ \A i \in 1..end - (_readPos + 1) + 1 : r[i] = _bufferData[(_readPos + 1) + i - 1]
        BY <2>1, <2>2, SubSeqProperties
  <2>4. \A i \in 1..Len(s) : r[i] = s[i]
    <3> TAKE i \in 1..Len(s)
    <3>1. (_readPos + 1) + i - 1 = _readPos + i
          BY <1>1, <1>2
    <3>2. r[i] = _bufferData[_readPos + i]
          BY <2>1, <2>3, <3>1
    <3> QED BY <1>1, <1>3, <3>2
  <2>5. Len(r) = Len(s)
        BY <2>1, <2>3
  <2> HIDE DEF r
  <2>6. r = s
        BY <1>1, <2>3, <2>4, <2>5, SeqEqual
  <2> QED BY <2>6 DEF r
<1>10. end + 1 = _readPos + Len(WriteString(s))
       BY <1>1, <1>2
<1> QED BY <1>4, <1>8, <1>9, <1>10 DEF ReadString

\* ReadPackedGUID takes as many bytes as the mark has bits, and puts each where its
\* bit is (ByteBuffer.h:43-59).
LEMMA ReadsGuid ==
    ASSUME _readPos \in Nat, NEW guid \in Guids, HoldsAt(_bufferData, _readPos, AppendGuid(guid))
    PROVE  ReadPackedGUID = [of |-> guid, pos |-> _readPos + Len(AppendGuid(guid))]
<1> DEFINE places == NonZero(guid)
<1>1. /\ AppendGuid(guid) \in Seq(Digits)
      /\ Len(AppendGuid(guid)) = Cardinality(places) + 1
      /\ AppendGuid(guid)[1] = GuidMark(guid)
      /\ \A i \in places : /\ Before(places, i) + 2 \in 1..Len(AppendGuid(guid))
                           /\ AppendGuid(guid)[Before(places, i) + 2] = guid[i]
      BY PackedGuid
<1>2. /\ places \in SUBSET (1..GuidBytes)
      /\ \A i \in 1..GuidBytes : i \notin places => guid[i] = 0
      BY DEF NonZero
<1>3. Cardinality(places) \in Nat /\ \A i \in places : Before(places, i) \in Nat
      BY <1>2, PlacesApart
<1>4. \A k \in 1..Len(AppendGuid(guid)) : _bufferData[_readPos + k] = AppendGuid(guid)[k]
      BY <1>1, LenProperties DEF HoldsAt
<1> HIDE DEF places
<1>5. Bits(At(_readPos)) = places
  <2>1. 1 \in 1..Len(AppendGuid(guid))
        BY <1>1, <1>3
  <2>2. At(_readPos) = GuidMark(guid)
        BY <1>1, <1>4, <2>1 DEF At
  <2> QED BY <2>2, MarkHasBits DEF places
<1>6. \A i \in places : At(_readPos + 1 + Before(places, i)) = guid[i]
  <2> TAKE i \in places
  <2>1. (_readPos + 1 + Before(places, i)) + 1 = _readPos + (Before(places, i) + 2)
        BY <1>3
  <2> QED BY <1>1, <1>4, <2>1 DEF At
<1>7. [i \in 1..GuidBytes |->
         IF i \in places THEN At(_readPos + 1 + Before(places, i)) ELSE 0] = guid
  <2>1. guid = [i \in 1..GuidBytes |-> guid[i]]
        BY DEF Guids
  <2>2. \A i \in 1..GuidBytes :
           (IF i \in places THEN At(_readPos + 1 + Before(places, i)) ELSE 0) = guid[i]
        BY <1>2, <1>6
  <2> QED BY <2>1, <2>2
<1>8. _readPos + 1 + Cardinality(places) = _readPos + Len(AppendGuid(guid))
      BY <1>1, <1>3
<1> QED BY <1>5, <1>7, <1>8 DEF ReadPackedGUID

\* Each value is read as it is and up to its end.
LEMMA ReadsValue ==
    ASSUME BufferTypeOK, NEW v \in Values, HoldsAt(_bufferData, _readPos, Bytes(v)),
           _readPos + Len(Bytes(v)) <= _writePos
    PROVE  (CASE v.kind = "u16" -> ReadU16
              [] v.kind = "string" -> ReadString
              [] v.kind = "guid" -> ReadPackedGUID)
           = [of |-> v.of, pos |-> _readPos + Len(Bytes(v))]
<1>0. _readPos \in Nat
      BY DEF BufferTypeOK
<1>1. CASE v.kind = "u16"
  <2>1. v.of \in Words /\ Bytes(v) = v.of
        BY <1>1 DEF Values, Bytes
  <2>2. ReadU16 = [of |-> v.of, pos |-> _readPos + Len(Bytes(v))]
        BY <1>0, <2>1, ReadsWord
  <2> QED BY <1>1, <2>2
<1>2. CASE v.kind = "string"
  <2>1. v.of \in Strings /\ Bytes(v) = WriteString(v.of)
        BY <1>2 DEF Values, Bytes
  <2>2. ReadString = [of |-> v.of, pos |-> _readPos + Len(Bytes(v))]
        BY <2>1, ReadsString
  <2> QED BY <1>2, <2>2
<1>3. CASE v.kind = "guid"
  <2>1. v.of \in Guids /\ Bytes(v) = AppendGuid(v.of)
        BY <1>3 DEF Values, Bytes
  <2>2. ReadPackedGUID = [of |-> v.of, pos |-> _readPos + Len(Bytes(v))]
        BY <1>0, <2>1, ReadsGuid
  <2> QED BY <1>3, <2>2
<1> QED BY <1>1, <1>2, <1>3 DEF Values

(***************************************************************************)
(* The vector.                                                             *)
(***************************************************************************)

\* resize keeps what the vector has (ByteBuffer.h:177-178, 230-236).
LEMMA GrownKeeps ==
    ASSUME NEW data \in Seq(Digits), NEW n \in Nat
    PROVE  /\ Grown(data, n) \in Seq(Digits)
           /\ Len(Grown(data, n)) >= n /\ Len(Grown(data, n)) >= Len(data)
           /\ \A i \in 1..Len(data) : Grown(data, n)[i] = data[i]
<1>1. Len(data) \in Nat
      BY LenProperties
<1>2. CASE Len(data) >= n
      BY <1>1, <1>2 DEF Grown
<1>3. CASE ~(Len(data) >= n)
  <2> DEFINE zeros == [i \in 1..n - Len(data) |-> 0]
  <2>1. n - Len(data) \in Nat
        BY <1>1, <1>3
  <2>2. \E byte \in 0..Radix - 1 : TRUE
        BY BitsAssumption
  <2>3. 0 \in Digits
        BY <2>2, BufferAssumption DEF Digits
  <2>4. zeros \in [1..n - Len(data) -> Digits]
        BY <2>3
  <2>5. zeros \in Seq(Digits) /\ Len(zeros) = n - Len(data)
        BY <2>1, <2>4, SeqDef, LenProperties
  <2> HIDE DEF zeros
  <2>6. /\ data \o zeros \in Seq(Digits)
        /\ Len(data \o zeros) = Len(data) + Len(zeros)
        /\ \A i \in 1..Len(data) + Len(zeros) :
              (data \o zeros)[i] = IF i <= Len(data) THEN data[i] ELSE zeros[i - Len(data)]
        BY <2>5, ConcatProperties
  <2>7. Grown(data, n) = data \o zeros
        BY <1>3 DEF Grown, zeros
  <2>8. \A i \in 1..Len(data) : i \in 1..Len(data) + Len(zeros) /\ i <= Len(data)
        BY <1>1, <1>3, <2>5
  <2> QED BY <1>1, <1>3, <2>5, <2>6, <2>7, <2>8
<1> QED BY <1>2, <1>3

\* memcpy writes the bytes behind the position and nothing before it
\* (ByteBuffer.h:180, 219-228).
LEMMA CopiedThere ==
    ASSUME NEW data \in Seq(Digits), NEW bytes \in Seq(Digits), NEW pos \in Nat,
           pos + Len(bytes) <= Len(data)
    PROVE  /\ Copied(data, pos, bytes) \in Seq(Digits)
           /\ Len(Copied(data, pos, bytes)) = Len(data)
           /\ HoldsAt(Copied(data, pos, bytes), pos, bytes)
           /\ \A i \in 1..pos : Copied(data, pos, bytes)[i] = data[i]
<1>1. /\ Len(data) \in Nat /\ DOMAIN data = 1..Len(data) /\ data \in [1..Len(data) -> Digits]
      /\ Len(bytes) \in Nat /\ DOMAIN bytes = 1..Len(bytes) /\ bytes \in [1..Len(bytes) -> Digits]
      BY LenProperties
<1>2. Copied(data, pos, bytes) = [i \in 1..Len(data) |->
                                    IF i - pos \in 1..Len(bytes) THEN bytes[i - pos] ELSE data[i]]
      BY <1>1 DEF Copied
<1>3. Copied(data, pos, bytes) \in [1..Len(data) -> Digits]
      BY <1>1, <1>2
<1>4. Copied(data, pos, bytes) \in Seq(Digits) /\ Len(Copied(data, pos, bytes)) = Len(data)
      BY <1>1, <1>3, SeqDef, LenProperties
<1>5. \A k \in 1..Len(bytes) : pos + k \in 1..Len(data) /\ (pos + k) - pos = k
      BY <1>1
<1>6. \A i \in 1..pos : i \in 1..Len(data) /\ i - pos \notin 1..Len(bytes)
      BY <1>1
<1> QED BY <1>1, <1>2, <1>4, <1>5, <1>6 DEF HoldsAt

(***************************************************************************)
(* Values that lie one behind the other.                                   *)
(***************************************************************************)

\* Nothing lies between equal positions.
LEMMA LaidNothing == ASSUME NEW data, NEW pos \in Nat PROVE Laid(data, pos, pos, <<>>)
<1> DEFINE start == [i \in 1..1 |-> pos]
<1>1. Len(<<>>) + 1 = 1 /\ DOMAIN <<>> = {}
      OBVIOUS
<1>2. /\ start \in [1..1 -> pos..pos] /\ start[1] = pos
      /\ \A i, j \in DOMAIN start : i <= j => start[i] <= start[j]
      OBVIOUS
<1> HIDE DEF start
<1> QED BY <1>1, <1>2 DEF Laid

\* A value is laid behind the others; nothing before it changes.
LEMMA LaidBehind ==
    ASSUME NEW data, NEW from \in Nat, NEW to \in Nat, NEW values \in Seq(Values),
           Laid(data, from, to, values), NEW v \in Values,
           NEW new, \A i \in 1..to : new[i] = data[i], HoldsAt(new, to, Bytes(v))
    PROVE  Laid(new, from, to + Len(Bytes(v)), Append(values, v))
<1> DEFINE n == Len(values)
           end == to + Len(Bytes(v))
<1>1. PICK start \in [1..n + 1 -> from..to] :
        /\ start[1] = from /\ start[n + 1] = to
        /\ \A i, j \in DOMAIN start : i <= j => start[i] <= start[j]
        /\ \A i \in DOMAIN values : /\ start[i + 1] = start[i] + Len(Bytes(values[i]))
                                    /\ HoldsAt(data, start[i], Bytes(values[i]))
      BY Zenon DEF Laid
<1>2. /\ n \in Nat /\ DOMAIN values = 1..n
      /\ \A i \in 1..n : values[i] \in Values
      BY LenProperties
<1>3. Len(Bytes(v)) \in Nat /\ end \in Nat /\ to <= end
  <2>1. Len(Bytes(v)) \in Nat
        BY BytesOfValue
  <2> QED BY <2>1
<1>4. /\ Append(values, v) \in Seq(Values) /\ Len(Append(values, v)) = n + 1
      /\ \A i \in 1..n : Append(values, v)[i] = values[i]
      /\ Append(values, v)[n + 1] = v
      /\ DOMAIN Append(values, v) = 1..n + 1
      BY <1>2, AppendProperties, LenProperties
<1> DEFINE more == [i \in 1..n + 1 + 1 |-> IF i <= n + 1 THEN start[i] ELSE end]
<1>5. \A i \in 1..n + 1 : i \in 1..n + 1 + 1 /\ i <= n + 1 /\ more[i] = start[i]
      BY <1>2
<1>6. n + 1 + 1 \in 1..n + 1 + 1 /\ ~(n + 1 + 1 <= n + 1) /\ more[n + 1 + 1] = end
      BY <1>2
<1>7. more \in [1..n + 1 + 1 -> from..end]
  <2>1. \A i \in 1..n + 1 : start[i] \in from..to
        OBVIOUS
  <2>2. \A i \in 1..n + 1 : start[i] \in from..end
        BY <1>3, <2>1
  <2>3. end \in from..end
    <3>1. start[1] \in from..to
          BY <1>2
    <3> QED BY <1>3, <3>1
  <2>4. \A i \in 1..n + 1 + 1 : i <= n + 1 => i \in 1..n + 1
        BY <1>2
  <2> QED BY <2>2, <2>3, <2>4
<1>8. more[1] = from
  <2>1. 1 \in 1..n + 1
        BY <1>2
  <2> QED BY <1>1, <1>5, <2>1
<1>9. \A i, j \in 1..n + 1 + 1 : i <= j => more[i] <= more[j]
  <2> SUFFICES ASSUME NEW i \in 1..n + 1 + 1, NEW j \in 1..n + 1 + 1, i <= j
               PROVE  more[i] <= more[j]
      OBVIOUS
  <2>1. CASE j <= n + 1
    <3>1. i \in 1..n + 1 /\ j \in 1..n + 1
          BY <1>2, <2>1
    <3> QED BY <1>1, <1>5, <3>1
  <2>2. CASE ~(j <= n + 1)
    <3>1. more[j] = end
          BY <2>2
    <3>2. more[i] \in from..end
          BY <1>7
    <3> QED BY <1>3, <3>1, <3>2
  <2> QED BY <2>1, <2>2
<1> HIDE DEF more, n, end
<1>10. ASSUME NEW i \in 1..n + 1
       PROVE  /\ more[i + 1] = more[i] + Len(Bytes(Append(values, v)[i]))
              /\ HoldsAt(new, more[i], Bytes(Append(values, v)[i]))
  <2>1. CASE i \in 1..n
    <3>1. i \in 1..n + 1 /\ i + 1 \in 1..n + 1
          BY <1>2, <2>1
    <3>2. more[i] = start[i] /\ more[i + 1] = start[i + 1]
          BY <1>5, <3>1
    <3>3. /\ start[i + 1] = start[i] + Len(Bytes(values[i]))
          /\ HoldsAt(data, start[i], Bytes(values[i]))
          BY <1>1, <1>2, <2>1
    <3>4. start[i] \in Nat /\ start[i + 1] \in from..to
          BY <3>1
    <3>5. /\ DOMAIN Bytes(values[i]) = 1..Len(Bytes(values[i]))
          /\ Len(Bytes(values[i])) \in Nat
          BY <1>2, <2>1, BytesOfValue
    <3>6. \A k \in DOMAIN Bytes(values[i]) : start[i] + k \in 1..to
          BY <3>3, <3>4, <3>5
    <3>7. HoldsAt(new, start[i], Bytes(values[i]))
          BY <3>3, <3>6 DEF HoldsAt
    <3> QED BY <1>4, <2>1, <3>2, <3>3, <3>7
  <2>2. CASE i = n + 1
    <3>1. more[i] = to
          BY <1>1, <1>5, <2>2
    <3>2. more[i + 1] = end
          BY <1>6, <2>2
    <3> QED BY <1>4, <2>2, <3>1, <3>2 DEF end
  <2> QED BY <1>2, <2>1, <2>2
<1>11. DOMAIN more = 1..n + 1 + 1
       BY <1>7
<1>12. Laid(new, from, end, Append(values, v))
       BY <1>4, <1>6, <1>7, <1>8, <1>9, <1>10, <1>11 DEF Laid
<1> QED BY <1>12 DEF end

\* The first value can be taken away from the front.
LEMMA LaidFirst ==
    ASSUME NEW data, NEW from \in Nat, NEW to \in Nat, NEW values \in Seq(Values),
           Laid(data, from, to, values), values # <<>>
    PROVE  /\ Head(values) \in Values
           /\ HoldsAt(data, from, Bytes(Head(values)))
           /\ from + Len(Bytes(Head(values))) <= to
           /\ Laid(data, from + Len(Bytes(Head(values))), to, Tail(values))
<1> DEFINE n == Len(values)
           next == from + Len(Bytes(Head(values)))
<1>1. PICK start \in [1..n + 1 -> from..to] :
        /\ start[1] = from /\ start[n + 1] = to
        /\ \A i, j \in DOMAIN start : i <= j => start[i] <= start[j]
        /\ \A i \in DOMAIN values : /\ start[i + 1] = start[i] + Len(Bytes(values[i]))
                                    /\ HoldsAt(data, start[i], Bytes(values[i]))
      BY Zenon DEF Laid
<1>2. /\ n \in Nat \ {0} /\ DOMAIN values = 1..n
      /\ \A i \in 1..n : values[i] \in Values
      BY LenProperties, EmptySeq
<1>3. /\ Tail(values) \in Seq(Values) /\ Len(Tail(values)) = n - 1
      /\ \A i \in 1..n - 1 : Tail(values)[i] = values[i + 1]
      /\ DOMAIN Tail(values) = 1..n - 1
      /\ Head(values) = values[1] /\ Head(values) \in Values
      BY HeadTailProperties, LenProperties
<1>4. 1 \in 1..n /\ 1 \in 1..n + 1 /\ 1 + 1 \in 1..n + 1 /\ n + 1 \in 1..n + 1 /\ 1 + 1 <= n + 1
      BY <1>2
<1>5. /\ HoldsAt(data, from, Bytes(Head(values)))
      /\ start[1 + 1] = next
      BY <1>1, <1>2, <1>3, <1>4
<1>6. next \in from..to
      BY <1>4, <1>5
<1> DEFINE rest == [i \in 1..(n - 1) + 1 |-> start[i + 1]]
<1>7. \A i \in 1..(n - 1) + 1 : i + 1 \in 1..n + 1 /\ rest[i] = start[i + 1] /\ 1 + 1 <= i + 1
      BY <1>2
<1>8. rest \in [1..(n - 1) + 1 -> next..to]
  <2>1. \A i \in 1..(n - 1) + 1 : start[i + 1] \in from..to /\ next <= start[i + 1]
        BY <1>1, <1>4, <1>5, <1>7
  <2>2. \A i \in 1..(n - 1) + 1 : start[i + 1] \in next..to
        BY <1>6, <2>1
  <2> QED BY <2>2
<1>9. rest[1] = next
  <2>1. 1 \in 1..(n - 1) + 1
        BY <1>2
  <2> QED BY <1>5, <1>7, <2>1
<1>10. rest[(n - 1) + 1] = to
  <2>1. (n - 1) + 1 \in 1..(n - 1) + 1 /\ ((n - 1) + 1) + 1 = n + 1
        BY <1>2
  <2>2. rest[(n - 1) + 1] = start[((n - 1) + 1) + 1]
        BY <1>7, <2>1
  <2> QED BY <1>1, <2>1, <2>2
<1>11. \A i, j \in 1..(n - 1) + 1 : i <= j => rest[i] <= rest[j]
  <2> SUFFICES ASSUME NEW i \in 1..(n - 1) + 1, NEW j \in 1..(n - 1) + 1, i <= j
               PROVE  rest[i] <= rest[j]
      OBVIOUS
  <2>1. i + 1 <= j + 1
        BY <1>2
  <2> QED BY <1>1, <1>7, <2>1
<1>12. \A i \in 1..n - 1 : /\ rest[i + 1] = rest[i] + Len(Bytes(Tail(values)[i]))
                           /\ HoldsAt(data, rest[i], Bytes(Tail(values)[i]))
  <2> TAKE i \in 1..n - 1
  <2>1. i \in 1..(n - 1) + 1 /\ i + 1 \in 1..(n - 1) + 1 /\ i + 1 \in 1..n
        BY <1>2
  <2>2. rest[i] = start[i + 1] /\ rest[i + 1] = start[(i + 1) + 1]
        BY <1>7, <2>1
  <2>3. /\ start[(i + 1) + 1] = start[i + 1] + Len(Bytes(values[i + 1]))
        /\ HoldsAt(data, start[i + 1], Bytes(values[i + 1]))
        BY <1>1, <1>2, <2>1
  <2> QED BY <1>3, <2>2, <2>3
<1> HIDE DEF rest, n, next
<1>13. DOMAIN rest = 1..(n - 1) + 1
       BY <1>8
<1>14. Laid(data, next, to, Tail(values))
       BY <1>3, <1>8, <1>9, <1>10, <1>11, <1>12, <1>13 DEF Laid
<1> QED BY <1>3, <1>5, <1>6, <1>14 DEF next

\* What lies between two positions lies as well where it is moved to the front.
LEMMA LaidMoved ==
    ASSUME NEW data, NEW from \in Nat, NEW to \in Nat, NEW values \in Seq(Values),
           Laid(data, from, to, values), from <= to,
           NEW shift \in 0..from,
           NEW new, \A k \in from - shift + 1..to - shift : new[k] = data[shift + k]
    PROVE  Laid(new, from - shift, to - shift, values)
<1> DEFINE n == Len(values)
<1>1. PICK start \in [1..n + 1 -> from..to] :
        /\ start[1] = from /\ start[n + 1] = to
        /\ \A i, j \in DOMAIN start : i <= j => start[i] <= start[j]
        /\ \A i \in DOMAIN values : /\ start[i + 1] = start[i] + Len(Bytes(values[i]))
                                    /\ HoldsAt(data, start[i], Bytes(values[i]))
      BY Zenon DEF Laid
<1>2. /\ n \in Nat /\ DOMAIN values = 1..n
      /\ \A i \in 1..n : values[i] \in Values
      BY LenProperties
<1> DEFINE moved == [i \in 1..n + 1 |-> start[i] - shift]
<1>3. \A i \in 1..n + 1 : start[i] \in from..to /\ start[i] \in Nat /\ moved[i] = start[i] - shift
      OBVIOUS
<1>4. moved \in [1..n + 1 -> from - shift..to - shift]
  <2>1. \A s \in from..to : s - shift \in from - shift..to - shift
        OBVIOUS
  <2> QED BY <1>3, <2>1
<1>5. /\ moved[1] = from - shift /\ moved[n + 1] = to - shift
      /\ \A i, j \in 1..n + 1 : i <= j => moved[i] <= moved[j]
      BY <1>1, <1>2, <1>3
<1>6. ASSUME NEW i \in 1..n
      PROVE  /\ moved[i + 1] = moved[i] + Len(Bytes(values[i]))
             /\ HoldsAt(new, moved[i], Bytes(values[i]))
  <2>1. i \in 1..n + 1 /\ i + 1 \in 1..n + 1
        BY <1>2
  <2>2. /\ DOMAIN Bytes(values[i]) = 1..Len(Bytes(values[i]))
        /\ Len(Bytes(values[i])) \in Nat
        BY <1>2, BytesOfValue
  <2>3. /\ start[i + 1] = start[i] + Len(Bytes(values[i]))
        /\ HoldsAt(data, start[i], Bytes(values[i]))
        BY <1>1, <1>2
  <2>4. start[i] \in from..to /\ start[i + 1] \in from..to /\ moved[i] = start[i] - shift
        /\ moved[i + 1] = start[i + 1] - shift
        BY <1>3, <2>1
  <2>5. \A k \in 1..Len(Bytes(values[i])) :
           /\ moved[i] + k \in from - shift + 1..to - shift
           /\ shift + (moved[i] + k) = start[i] + k
    <3> HIDE DEF moved
    <3>1. PICK s \in from..to : s = start[i]
          BY <2>4
    <3>2. PICK l \in Nat : l = Len(Bytes(values[i]))
          BY <2>2
    <3>3. s + l \in from..to /\ moved[i] = s - shift
          BY <2>3, <2>4, <3>1, <3>2
    <3>4. \A k \in 1..l : /\ (s - shift) + k \in from - shift + 1..to - shift
                          /\ shift + ((s - shift) + k) = s + k
          BY <3>3
    <3> QED BY <3>1, <3>2, <3>3, <3>4
  <2>6. HoldsAt(new, moved[i], Bytes(values[i]))
        BY <2>2, <2>3, <2>5 DEF HoldsAt
  <2> QED BY <2>2, <2>3, <2>4, <2>6
<1> HIDE DEF moved, n
<1>7. DOMAIN moved = 1..n + 1
      BY <1>4
<1> QED BY <1>2, <1>4, <1>5, <1>6, <1>7 DEF Laid, n

(***************************************************************************)
(* The steps.                                                              *)
(***************************************************************************)

\* A buffer is empty at first (ByteBuffer.h:33-36).
LEMMA InitBuffer == BufferInit => BufferInv
<1> SUFFICES ASSUME BufferInit PROVE BufferInv
    OBVIOUS
<1>1. BufferTypeOK
  <2>1. 0 \in 0..MaxValues
        BY BufferAssumption
  <2> QED BY <2>1 DEF BufferInit, BufferTypeOK
<1>2. UnreadIsQueue
      BY LaidNothing DEF BufferInit, UnreadIsQueue
<1>3. ReadsBack
      BY DEF BufferInit, ReadsBack
<1> QED BY <1>1, <1>2, <1>3 DEF BufferInv

\* Append writes behind what is unread and lets the vector grow for it
\* (ByteBuffer.h:163-183).
LEMMA AppendValueKeeps ==
    ASSUME BufferInv, NEW v \in Values, AppendValue(v) PROVE BufferInv'
<1> DEFINE bytes == Bytes(v)
           size == _writePos + Len(bytes)
           grown == Grown(_bufferData, size)
<1>1. /\ _bufferData \in Seq(Digits) /\ Len(_bufferData) \in Nat
      /\ _readPos \in Nat /\ _writePos \in Nat
      /\ _readPos <= _writePos /\ _writePos <= Len(_bufferData)
      /\ queue \in Seq(Values) /\ appended \in 0..MaxValues
      BY LenProperties DEF BufferInv, BufferTypeOK
<1>2. bytes \in Seq(Digits) /\ Len(bytes) \in Nat \ {0}
      BY BytesOfValue
<1>3. /\ _bufferData' = Copied(grown, _writePos, bytes)
      /\ _writePos' = size /\ queue' = Append(queue, v)
      /\ appended < MaxValues /\ appended' = appended + 1
      /\ _readPos' = _readPos /\ result' = result
      BY DEF AppendValue
<1> HIDE DEF bytes
<1>4. size \in Nat /\ _writePos <= size
      BY <1>1, <1>2
<1>5. /\ grown \in Seq(Digits) /\ Len(grown) >= size /\ Len(grown) \in Nat
      /\ \A i \in 1..Len(_bufferData) : grown[i] = _bufferData[i]
      BY <1>1, <1>4, GrownKeeps, LenProperties
<1> HIDE DEF grown
<1>6. /\ _bufferData' \in Seq(Digits) /\ Len(_bufferData') = Len(grown)
      /\ HoldsAt(_bufferData', _writePos, bytes)
      /\ \A i \in 1.._writePos : _bufferData'[i] = grown[i]
      BY <1>1, <1>2, <1>3, <1>5, CopiedThere
<1>7. \A i \in 1.._writePos : _bufferData'[i] = _bufferData[i]
  <2>1. \A i \in 1.._writePos : i \in 1..Len(_bufferData)
        BY <1>1
  <2> QED BY <1>5, <1>6, <2>1
<1>8. BufferTypeOK'
  <2>1. appended' \in 0..MaxValues
        BY <1>1, <1>3, BufferAssumption
  <2>2. queue' \in Seq(Values)
        BY <1>1, <1>3, AppendProperties
  <2> QED BY <1>1, <1>3, <1>4, <1>5, <1>6, <2>1, <2>2 DEF BufferTypeOK
<1>9. UnreadIsQueue'
  <2>1. Laid(_bufferData, _readPos, _writePos, queue)
        BY DEF BufferInv, UnreadIsQueue
  <2>2. \A new : (\A i \in 1.._writePos : new[i] = _bufferData[i])
                 /\ HoldsAt(new, _writePos, Bytes(v))
                 => Laid(new, _readPos, _writePos + Len(Bytes(v)), Append(queue, v))
        BY <1>1, <2>1, LaidBehind
  <2>3. Laid(_bufferData', _readPos, size, Append(queue, v))
        BY <1>6, <1>7, <2>2 DEF bytes
  <2> QED BY <1>3, <2>3 DEF UnreadIsQueue
<1>10. ReadsBack'
       BY <1>3 DEF BufferInv, ReadsBack
<1> QED BY <1>8, <1>9, <1>10 DEF BufferInv

\* A value that is read is the first that waits, and is read as it was appended
\* (ByteBuffer.h:43-98).
LEMMA ReadValueKeeps ==
    ASSUME BufferInv, ReadValue PROVE BufferInv'
<1> DEFINE due == Head(queue)
           end == _readPos + Len(Bytes(due))
<1>1. /\ _bufferData \in Seq(Digits) /\ Len(_bufferData) \in Nat
      /\ _readPos \in Nat /\ _writePos \in Nat
      /\ _readPos <= _writePos /\ _writePos <= Len(_bufferData)
      /\ queue \in Seq(Values) /\ appended \in 0..MaxValues
      BY LenProperties DEF BufferInv, BufferTypeOK
<1>2. queue # <<>> /\ queue' = Tail(queue)
      /\ UNCHANGED <<_bufferData, _writePos, appended>>
      BY DEF ReadValue
<1>3. /\ due \in Values /\ HoldsAt(_bufferData, _readPos, Bytes(due)) /\ end <= _writePos
      /\ Laid(_bufferData, end, _writePos, Tail(queue))
      BY <1>1, <1>2, LaidFirst DEF BufferInv, UnreadIsQueue
<1>4. (CASE due.kind = "u16" -> ReadU16
         [] due.kind = "string" -> ReadString
         [] due.kind = "guid" -> ReadPackedGUID) = [of |-> due.of, pos |-> end]
      BY <1>3, ReadsValue DEF BufferInv
<1>5. result' = [read |-> due.of, due |-> due.of] /\ _readPos' = end
  <2> DEFINE r == CASE due.kind = "u16" -> ReadU16
                    [] due.kind = "string" -> ReadString
                    [] due.kind = "guid" -> ReadPackedGUID
  <2>1. result' = [read |-> r.of, due |-> due.of] /\ _readPos' = r.pos
        BY DEF ReadValue
  <2>2. r = [of |-> due.of, pos |-> end]
        BY <1>4
  <2> HIDE DEF r, due, end
  <2> QED BY <2>1, <2>2
<1>6. end \in Nat
  <2>1. Len(Bytes(due)) \in Nat
        BY <1>3, BytesOfValue
  <2> QED BY <1>1, <2>1
<1> HIDE DEF due, end
<1>7. BufferTypeOK'
  <2>1. queue' \in Seq(Values)
        BY <1>1, <1>2, HeadTailProperties
  <2> QED BY <1>1, <1>2, <1>3, <1>5, <1>6, <2>1 DEF BufferTypeOK
<1>8. UnreadIsQueue'
      BY <1>2, <1>3, <1>5 DEF UnreadIsQueue
<1>9. ReadsBack'
      BY <1>5 DEF ReadsBack
<1> QED BY <1>7, <1>8, <1>9 DEF BufferInv

\* Compaction moves what is unread, and what stays behind it is not read before it
\* is written again (ByteBuffer.h:219-228).
LEMMA CleanBufferKeeps ==
    ASSUME BufferInv, CleanBuffer PROVE BufferInv'
<1> DEFINE size == _writePos - _readPos
           unread == SubSeq(_bufferData, _readPos + 1, _writePos)
<1>1. /\ _bufferData \in Seq(Digits) /\ Len(_bufferData) \in Nat
      /\ _readPos \in Nat /\ _writePos \in Nat
      /\ _readPos <= _writePos /\ _writePos <= Len(_bufferData)
      /\ queue \in Seq(Values) /\ appended \in 0..MaxValues
      BY LenProperties DEF BufferInv, BufferTypeOK
<1>2. /\ _bufferData' = Copied(_bufferData, 0, unread)
      /\ _writePos' = size /\ _readPos' = 0
      /\ UNCHANGED <<queue, appended, result>>
      BY DEF CleanBuffer, GetActualSize
<1>3. /\ unread \in Seq(Digits) /\ Len(unread) = size
      /\ \A k \in 1..size : unread[k] = _bufferData[_readPos + k]
  <2>1. \A i \in _readPos + 1.._writePos : i \in 1..Len(_bufferData)
        BY <1>1
  <2>2. \A i \in _readPos + 1.._writePos : _bufferData[i] \in Digits
        BY <1>1, <2>1, LenProperties
  <2>3. /\ _readPos + 1 \in Int /\ _writePos \in Int
        /\ _writePos - (_readPos + 1) + 1 = size
        /\ (IF _readPos + 1 <= _writePos THEN _writePos - (_readPos + 1) + 1 ELSE 0) = size
        BY <1>1
  <2>4. /\ unread \in Seq(Digits)
        /\ Len(unread) = IF _readPos + 1 <= _writePos THEN _writePos - (_readPos + 1) + 1 ELSE 0
        /\ \A i \in 1.._writePos - (_readPos + 1) + 1 :
              unread[i] = _bufferData[(_readPos + 1) + i - 1]
        BY <2>2, <2>3, SubSeqProperties
  <2>5. \A k \in 1..size : (_readPos + 1) + k - 1 = _readPos + k
        BY <1>1
  <2> HIDE DEF unread, size
  <2> QED BY <2>3, <2>4, <2>5
<1> HIDE DEF unread
<1>4. size \in Nat /\ 0 + Len(unread) <= Len(_bufferData) /\ size <= Len(_bufferData)
      BY <1>1, <1>3
<1>5. /\ _bufferData' \in Seq(Digits) /\ Len(_bufferData') = Len(_bufferData)
      /\ HoldsAt(_bufferData', 0, unread)
      BY <1>1, <1>2, <1>3, <1>4, CopiedThere
<1>6. \A k \in 1..size : _bufferData'[k] = _bufferData[_readPos + k]
  <2>1. DOMAIN unread = 1..size
        BY <1>3, LenProperties
  <2>2. \A k \in 1..size : 0 + k = k
        BY <1>4
  <2> QED BY <1>3, <1>5, <2>1, <2>2 DEF HoldsAt
<1>7. BufferTypeOK'
      BY <1>1, <1>2, <1>4, <1>5 DEF BufferTypeOK
<1>8. UnreadIsQueue'
  <2>1. Laid(_bufferData, _readPos, _writePos, queue)
        BY DEF BufferInv, UnreadIsQueue
  <2>2. _readPos \in 0.._readPos /\ _readPos - _readPos = 0
        BY <1>1
  <2>3. \A new : (\A k \in _readPos - _readPos + 1.._writePos - _readPos :
                     new[k] = _bufferData[_readPos + k])
                 => Laid(new, _readPos - _readPos, _writePos - _readPos, queue)
        BY <1>1, <2>1, <2>2, LaidMoved
  <2>4. \A new : (\A k \in 1..size : new[k] = _bufferData[_readPos + k])
                 => Laid(new, 0, size, queue)
        BY <2>2, <2>3
  <2>5. Laid(_bufferData', 0, size, queue)
        BY <1>6, <2>4
  <2> QED BY <1>2, <2>5 DEF UnreadIsQueue
<1>9. ReadsBack'
      BY <1>2 DEF BufferInv, ReadsBack
<1> QED BY <1>7, <1>8, <1>9 DEF BufferInv

\* A vector that grows keeps what is unread where it is (ByteBuffer.h:230-236).
LEMMA RecalculateSizeKeeps ==
    ASSUME BufferInv, RecalculateSize PROVE BufferInv'
<1>1. /\ _bufferData \in Seq(Digits) /\ Len(_bufferData) \in Nat
      /\ _readPos \in Nat /\ _writePos \in Nat
      /\ _readPos <= _writePos /\ _writePos <= Len(_bufferData)
      /\ queue \in Seq(Values) /\ appended \in 0..MaxValues
      BY LenProperties DEF BufferInv, BufferTypeOK
<1>2. /\ _bufferData' = Grown(_bufferData, (Len(_bufferData) * 3) \div 2)
      /\ UNCHANGED <<_readPos, _writePos, queue, appended, result>>
      BY DEF RecalculateSize
<1>3. (Len(_bufferData) * 3) \div 2 \in Nat
  <2>1. \A n \in Nat : (n * 3) \div 2 \in Nat
        BY Z3
  <2> QED BY <1>1, <2>1
<1>4. /\ _bufferData' \in Seq(Digits) /\ Len(_bufferData') \in Nat
      /\ Len(_bufferData') >= Len(_bufferData)
      /\ \A i \in 1..Len(_bufferData) : _bufferData'[i] = _bufferData[i]
  <2>1. \A n \in Nat : /\ Grown(_bufferData, n) \in Seq(Digits)
                       /\ Len(Grown(_bufferData, n)) >= Len(_bufferData)
                       /\ \A i \in 1..Len(_bufferData) :
                             Grown(_bufferData, n)[i] = _bufferData[i]
        BY <1>1, GrownKeeps
  <2> QED BY <1>2, <1>3, <2>1, LenProperties
<1>5. BufferTypeOK'
      BY <1>1, <1>2, <1>4 DEF BufferTypeOK
<1>6. UnreadIsQueue'
  <2>1. Laid(_bufferData, _readPos, _writePos, queue)
        BY DEF BufferInv, UnreadIsQueue
  <2>2. 0 \in 0.._readPos /\ _readPos - 0 = _readPos /\ _writePos - 0 = _writePos
        BY <1>1
  <2>3. \A new : (\A k \in _readPos - 0 + 1.._writePos - 0 : new[k] = _bufferData[0 + k])
                 => Laid(new, _readPos - 0, _writePos - 0, queue)
        BY <1>1, <2>1, <2>2, LaidMoved
  <2>4. \A k \in _readPos - 0 + 1.._writePos - 0 : 0 + k = k /\ k \in 1..Len(_bufferData)
        BY <1>1
  <2>5. Laid(_bufferData', _readPos - 0, _writePos - 0, queue)
        BY <1>4, <2>3, <2>4
  <2> QED BY <1>2, <2>2, <2>5 DEF UnreadIsQueue
<1>7. ReadsBack'
      BY <1>2 DEF BufferInv, ReadsBack
<1> QED BY <1>5, <1>6, <1>7 DEF BufferInv

\* Clean drops the vector and what is unread of it (ByteBuffer.h:190-195).
LEMMA CleanKeeps ==
    ASSUME BufferInv, Clean PROVE BufferInv'
<1>1. /\ _bufferData' = <<>> /\ _readPos' = 0 /\ _writePos' = 0 /\ queue' = <<>>
      /\ appended' = appended /\ result' = result
      BY DEF Clean
<1>2. BufferTypeOK'
      BY <1>1 DEF BufferInv, BufferTypeOK
<1>3. UnreadIsQueue'
      BY <1>1, LaidNothing DEF UnreadIsQueue
<1>4. ReadsBack'
      BY <1>1 DEF BufferInv, ReadsBack
<1> QED BY <1>2, <1>3, <1>4 DEF BufferInv

\* BufferInv is inductive.
LEMMA StepKeepsBuffer == BufferInv /\ [BufferNext]_bufferVars => BufferInv'
<1> SUFFICES ASSUME BufferInv, [BufferNext]_bufferVars PROVE BufferInv'
    OBVIOUS
<1>1. ASSUME NEW v \in Values, AppendValue(v) PROVE BufferInv'
      BY <1>1, AppendValueKeeps
<1>2. CASE ReadValue
      BY <1>2, ReadValueKeeps
<1>3. CASE CleanBuffer
      BY <1>3, CleanBufferKeeps
<1>4. CASE RecalculateSize
      BY <1>4, RecalculateSizeKeeps
<1>5. CASE Clean
      BY <1>5, CleanKeeps
<1>6. CASE UNCHANGED bufferVars
      BY <1>6 DEF bufferVars, BufferInv, BufferTypeOK, UnreadIsQueue, ReadsBack
<1> QED BY <1>1, <1>2, <1>3, <1>4, <1>5, <1>6 DEF BufferNext

(***************************************************************************)
(* Theorems.                                                               *)
(***************************************************************************)

\* What is unread are always the bytes of the values that wait, wherever the buffer
\* was compacted, grown or dropped (ByteBuffer.h:43-236).
THEOREM BufferInvariance == BufferSpec => []BufferInv
<1> QED BY InitBuffer, StepKeepsBuffer, PTL DEF BufferSpec

\* Every value is read back as it was appended, in order, whatever words, strings and
\* packed GUIDs are mixed and whatever stale bytes lie behind them (ByteBuffer.h:43-183).
THEOREM ReadsBackHolds == BufferSpec => []ReadsBack
<1>1. BufferInv => ReadsBack
      BY DEF BufferInv
<1> QED BY <1>1, BufferInvariance, PTL
==============================================================================
