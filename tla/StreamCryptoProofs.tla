--------------------------- MODULE StreamCryptoProofs ---------------------------
(***************************************************************************)
(* MisreadOnlyAcrossSetup for streams of any length.  The invariant says   *)
(* of each direction how its two ciphers have moved with the bytes since   *)
(* their ends' setups, and how every byte under way was encrypted.         *)
(***************************************************************************)
EXTENDS StreamCrypto, SequenceTheorems, TLAPS

Ciphers == [key : Keys \cup {"none"}, pos : Nat]

CryptoTypeOK ==
    /\ _valid \in [Ends -> BOOLEAN] /\ misread \in [Ends -> BOOLEAN]
    /\ _sEncrypt \in [Ends -> Ciphers] /\ _cDecrypt \in [Ends -> Ciphers]
    /\ wire \in [Ends -> Seq(Ciphers)]
    /\ sent \in [Ends -> Nat] /\ received \in [Ends -> Nat]
    /\ sentPlain \in [Ends -> Nat] /\ receivedPlain \in [Ends -> Nat]

\* The key of the bytes that s sends.
KeyOf(s) == IF s = "client" THEN "C2" ELSE "CC"

\* A cipher n bytes after its setup.
Moved(s, n) == [key |-> KeyOf(s), pos |-> DropSize + n]

\* How the sender s encrypts its byte b.
Mark(s, b) == IF b <= sentPlain[s] THEN Plain ELSE Moved(s, b - sentPlain[s])

Counted(s) ==
    /\ receivedPlain[s] <= received[s] /\ received[s] <= sent[s] /\ sentPlain[s] <= sent[s]
    /\ ~_valid[s] => sentPlain[s] = sent[s]
    /\ ~_valid[Other(s)] => receivedPlain[s] = received[s]

InStream(s) ==
    /\ _valid[s] => _sEncrypt[s] = Moved(s, sent[s] - sentPlain[s])
    /\ _valid[Other(s)] => _cDecrypt[Other(s)] = Moved(s, received[s] - receivedPlain[s])

UnderWay(s) ==
    /\ Len(wire[s]) = sent[s] - received[s]
    /\ \A i \in 1..Len(wire[s]) : wire[s][i] = Mark(s, received[s] + i)

MisreadOnly(s) ==
    misread[s] <=> /\ sentPlain[s] # receivedPlain[s]
                   /\ received[s] > sentPlain[s] \/ received[s] > receivedPlain[s]

CryptoInv ==
    /\ CryptoTypeOK
    /\ \A s \in Ends : Counted(s) /\ InStream(s) /\ UnderWay(s) /\ MisreadOnly(s)

-----------------------------------------------------------------------------
\* Each end has the other one as its peer, and what it sends it encrypts under
\* one of the two keys.
LEMMA EndsOK ==
    ASSUME NEW s \in Ends
    PROVE  /\ Other(s) \in Ends /\ Other(s) # s /\ Other(Other(s)) = s
           /\ KeyOf(s) \in Keys
           /\ \A e \in Ends : e = s \/ e = Other(s)
  BY DEF Ends, Other, KeyOf, Keys

\* A cipher moves on by the bytes it has gone through (ArcFour.cpp).
LEMMA MovesOn ==
    ASSUME NEW s \in Ends, NEW k \in Nat, NEW n \in Nat
    PROVE  /\ UpdateEncryption(Moved(s, k), n) = Moved(s, k + n)
           /\ UpdateEncryption(Setup(KeyOf(s)), DropSize) = Moved(s, 0)
           /\ Moved(s, k) \in Ciphers
  BY EndsOK DEF UpdateEncryption, Moved, Setup, DropSize, Ciphers

\* Two marks of an encrypted stream agree only at the same position, and none
\* is that of a plain byte.
LEMMA MovedDiffers ==
    ASSUME NEW s \in Ends, NEW k \in Nat, NEW n \in Nat
    PROVE  Moved(s, k) # Plain /\ (Moved(s, k) = Moved(s, n) <=> k = n)
<1>1. Moved(s, k).key # Plain.key
      BY DEF Moved, Plain, KeyOf
<1>2. Moved(s, k).pos = 1024 + k /\ Moved(s, n).pos = 1024 + n
      BY DEF Moved, DropSize
<1> QED BY <1>1, <1>2

\* At the start nothing has been sent and no end is set up.
LEMMA CryptoInitInv == CryptoInit => CryptoInv
<1> SUFFICES ASSUME CryptoInit
             PROVE  CryptoInv
    OBVIOUS
<1>1. Plain \in Ciphers /\ <<>> \in Seq(Ciphers)
      BY DEF Plain, Ciphers
<1>2. CryptoTypeOK
      BY <1>1 DEF CryptoInit, CryptoTypeOK
<1>3. ASSUME NEW s \in Ends
      PROVE  Counted(s) /\ InStream(s) /\ UnderWay(s) /\ MisreadOnly(s)
      BY <1>3, EndsOK DEF CryptoInit, Counted, InStream, UnderWay, MisreadOnly
<1> QED BY <1>2, <1>3 DEF CryptoInv

\* A setup starts both ciphers of its end behind the first 1024 bytes of their
\* streams, and moves no byte (StreamCrypto.cpp:26-73).
LEMMA SetupInv ==
    ASSUME CryptoInv, NEW e \in Ends, SetupEnd(e, KeyOf(e), KeyOf(Other(e)))
    PROVE  CryptoInv'
<1>1. /\ ~_valid[e] /\ _valid' = [_valid EXCEPT ![e] = TRUE]
      /\ _sEncrypt' = [_sEncrypt EXCEPT ![e] = Moved(e, 0)]
      /\ _cDecrypt' = [_cDecrypt EXCEPT ![e] = Moved(Other(e), 0)]
      /\ UNCHANGED <<wire, sent, received, sentPlain, receivedPlain, misread>>
      BY EndsOK, MovesOn DEF SetupEnd
<1>2. CryptoTypeOK'
      BY <1>1, EndsOK, MovesOn DEF CryptoInv, CryptoTypeOK
<1>3. ASSUME NEW s \in Ends
      PROVE  (Counted(s) /\ InStream(s) /\ UnderWay(s) /\ MisreadOnly(s))'
  <2>1. /\ Other(s) \in Ends /\ Other(s) # s /\ Other(Other(s)) = s /\ (e = s \/ e = Other(s))
        BY EndsOK
  <2>2. Counted(s) /\ InStream(s) /\ UnderWay(s) /\ MisreadOnly(s)
        BY DEF CryptoInv
  <2>3. sent[s] \in Nat /\ received[s] \in Nat /\ sentPlain[s] \in Nat /\ receivedPlain[s] \in Nat
        BY DEF CryptoInv, CryptoTypeOK
  <2>4. Counted(s)'
        BY <1>1, <2>1, <2>2 DEF Counted, CryptoInv, CryptoTypeOK
  <2>5. ASSUME e = s
        PROVE  InStream(s)'
    <3>1. /\ _sEncrypt'[s] = Moved(s, 0) /\ sent[s] - sentPlain[s] = 0
          /\ _valid'[Other(s)] = _valid[Other(s)] /\ _cDecrypt'[Other(s)] = _cDecrypt[Other(s)]
          BY <1>1, <2>1, <2>2, <2>3, <2>5 DEF Counted, CryptoInv, CryptoTypeOK
    <3> QED BY <1>1, <2>2, <3>1 DEF InStream
  <2>6. ASSUME e = Other(s)
        PROVE  InStream(s)'
    <3>1. /\ ~_valid[Other(s)] /\ Other(e) = s
          /\ _valid' = [_valid EXCEPT ![Other(s)] = TRUE]
          /\ _sEncrypt' = [_sEncrypt EXCEPT ![Other(s)] = Moved(e, 0)]
          /\ _cDecrypt' = [_cDecrypt EXCEPT ![Other(s)] = Moved(s, 0)]
          BY <1>1, <2>1, <2>6
    <3>2. _cDecrypt'[Other(s)] = Moved(s, 0) /\ received[s] - receivedPlain[s] = 0
          BY <2>1, <2>2, <2>3, <3>1 DEF Counted, CryptoInv, CryptoTypeOK
    <3>3. _valid'[s] = _valid[s] /\ _sEncrypt'[s] = _sEncrypt[s]
          BY <2>1, <3>1 DEF CryptoInv, CryptoTypeOK
    <3> QED BY <1>1, <2>2, <3>2, <3>3 DEF InStream
  <2>7. InStream(s)'
        BY <2>1, <2>5, <2>6
  <2>8. UnderWay(s)' /\ MisreadOnly(s)'
        BY <1>1, <2>2 DEF UnderWay, MisreadOnly, Mark
  <2> QED BY <2>4, <2>7, <2>8
<1> QED BY <1>2, <1>3 DEF CryptoInv

\* What a call leaves alone, a direction keeps (both ends have their own ciphers).
LEMMA DirectionKept ==
    ASSUME NEW s \in Ends, Counted(s), InStream(s), UnderWay(s), MisreadOnly(s),
           _valid' = _valid,
           _sEncrypt'[s] = _sEncrypt[s], _cDecrypt'[Other(s)] = _cDecrypt[Other(s)],
           wire'[s] = wire[s], sent'[s] = sent[s], received'[s] = received[s],
           sentPlain'[s] = sentPlain[s], receivedPlain'[s] = receivedPlain[s],
           misread'[s] = misread[s]
    PROVE  (Counted(s) /\ InStream(s) /\ UnderWay(s) /\ MisreadOnly(s))'
<1>1. Counted(s)' /\ InStream(s)' /\ MisreadOnly(s)'
      BY DEF Counted, InStream, MisreadOnly
<1>2. UnderWay(s)'
      BY DEF UnderWay, Mark
<1> QED BY <1>1, <1>2

\* Encrypting bytes moves the sender's cipher by them, and they join the bytes
\* under way as the cipher, or nothing, has made them (StreamCrypto.cpp:83-89).
LEMMA EncryptInv ==
    ASSUME CryptoInv, NEW e \in Ends, NEW n \in Nat, n > 0, Encrypt(e, n)
    PROVE  CryptoInv'
<1>1. CryptoTypeOK /\ Counted(e) /\ InStream(e) /\ UnderWay(e) /\ MisreadOnly(e)
      BY DEF CryptoInv
<1>2. PICK w \in Seq(Ciphers), S \in Nat, R \in Nat, P \in Nat, RP \in Nat :
         /\ w = wire[e] /\ S = sent[e] /\ R = received[e]
         /\ P = sentPlain[e] /\ RP = receivedPlain[e]
      BY <1>1 DEF CryptoTypeOK
<1>3. /\ Len(w) = S - R /\ Len(w) \in Nat /\ P <= S /\ R <= S /\ RP <= R
      /\ ~_valid[e] => P = S
      BY <1>1, <1>2 DEF Counted, UnderWay
<1>4. PICK k \in Nat : k = S - P
      BY <1>3
<1>5. _valid[e] => _sEncrypt[e] = Moved(e, k)
      BY <1>1, <1>2, <1>4 DEF InStream
<1>6. PICK ext : ext = [i \in 1..n |-> IF _valid[e] THEN UpdateEncryption(_sEncrypt[e], i)
                                                  ELSE Plain]
      OBVIOUS
<1>7. /\ wire' = [wire EXCEPT ![e] = w \o ext]
      /\ _sEncrypt' = IF _valid[e] THEN [_sEncrypt EXCEPT ![e] = UpdateEncryption(@, n)]
                                   ELSE _sEncrypt
      /\ sent' = [sent EXCEPT ![e] = S + n]
      /\ sentPlain' = IF _valid[e] THEN sentPlain ELSE [sentPlain EXCEPT ![e] = P + n]
      /\ UNCHANGED <<_valid, _cDecrypt, received, receivedPlain, misread>>
      BY <1>2, <1>6 DEF Encrypt
<1>8. \A i \in 1..n : ext[i] = IF _valid[e] THEN Moved(e, k + i) ELSE Plain
  <2>1. ASSUME NEW i \in 1..n
        PROVE  UpdateEncryption(Moved(e, k), i) = Moved(e, k + i)
        BY MovesOn
  <2> QED BY <1>5, <1>6, <2>1
<1>9. ext \in Seq(Ciphers) /\ Len(ext) = n
  <2>1. ASSUME NEW i \in 1..n
        PROVE  ext[i] \in Ciphers
    <3>1. k + i \in Nat
          OBVIOUS
    <3>2. Moved(e, k + i) \in Ciphers
          BY <3>1, MovesOn
    <3>3. Plain \in Ciphers
          BY DEF Plain, Ciphers
    <3> QED BY <1>8, <3>2, <3>3
  <2>2. ext \in [1..n -> Ciphers]
        BY <1>6, <2>1
  <2> QED BY <2>2
<1>10. /\ w \o ext \in Seq(Ciphers) /\ Len(w \o ext) = Len(w) + n
       /\ \A i \in 1..Len(w) : (w \o ext)[i] = w[i]
       /\ \A i \in Len(w) + 1..Len(w) + n : (w \o ext)[i] = ext[i - Len(w)]
  <2>1. /\ w \o ext \in Seq(Ciphers) /\ Len(w \o ext) = Len(w) + Len(ext)
        /\ \A i \in 1..Len(w) + Len(ext) :
              (w \o ext)[i] = IF i <= Len(w) THEN w[i] ELSE ext[i - Len(w)]
        BY <1>9, ConcatProperties
  <2>2. \A i \in 1..Len(w) : i \in 1..Len(w) + n /\ i <= Len(w)
        BY <1>3
  <2>3. \A i \in Len(w) + 1..Len(w) + n : i \in 1..Len(w) + n /\ ~(i <= Len(w))
        BY <1>3
  <2> QED BY <1>9, <2>1, <2>2, <2>3
<1>11. CryptoTypeOK'
  <2>1. _valid[e] => UpdateEncryption(_sEncrypt[e], n) \in Ciphers
    <3>1. UpdateEncryption(Moved(e, k), n) = Moved(e, k + n) /\ k + n \in Nat
          BY MovesOn
    <3>2. Moved(e, k + n) \in Ciphers
          BY <3>1, MovesOn
    <3> QED BY <1>5, <3>1, <3>2
  <2>2. _sEncrypt' \in [Ends -> Ciphers]
        BY <1>1, <1>7, <2>1 DEF CryptoTypeOK
  <2>3. wire' \in [Ends -> Seq(Ciphers)]
        BY <1>1, <1>7, <1>10 DEF CryptoTypeOK
  <2>4. S + n \in Nat /\ P + n \in Nat
        OBVIOUS
  <2>5. sent' \in [Ends -> Nat] /\ sentPlain' \in [Ends -> Nat]
        BY <1>1, <1>7, <2>4 DEF CryptoTypeOK
  <2> QED BY <1>1, <1>7, <2>2, <2>3, <2>5 DEF CryptoTypeOK
<1>12. ASSUME NEW s \in Ends, s # e
       PROVE  (Counted(s) /\ InStream(s) /\ UnderWay(s) /\ MisreadOnly(s))'
  <2>1. Counted(s) /\ InStream(s) /\ UnderWay(s) /\ MisreadOnly(s)
        BY DEF CryptoInv
  <2>2. /\ _valid' = _valid
        /\ _sEncrypt'[s] = _sEncrypt[s] /\ _cDecrypt'[Other(s)] = _cDecrypt[Other(s)]
        /\ wire'[s] = wire[s] /\ sent'[s] = sent[s] /\ received'[s] = received[s]
        /\ sentPlain'[s] = sentPlain[s] /\ receivedPlain'[s] = receivedPlain[s]
        /\ misread'[s] = misread[s]
        BY <1>1, <1>7, <1>12 DEF CryptoTypeOK
  <2> QED BY <2>1, <2>2, DirectionKept
<1>13. /\ wire'[e] = w \o ext /\ sent'[e] = S + n /\ received'[e] = R /\ receivedPlain'[e] = RP
       /\ _valid[e] => _sEncrypt'[e] = UpdateEncryption(_sEncrypt[e], n) /\ sentPlain'[e] = P
       /\ ~_valid[e] => sentPlain'[e] = P + n
       BY <1>1, <1>2, <1>7 DEF CryptoTypeOK
<1>14. Counted(e)'
  <2>1. ~_valid[Other(e)] => RP = R
        BY <1>1, <1>2 DEF Counted
  <2> QED BY <1>3, <1>7, <1>13, <2>1 DEF Counted
<1>15. InStream(e)'
  <2>1. UpdateEncryption(Moved(e, k), n) = Moved(e, k + n)
        BY MovesOn
  <2>2. S + n - P = k + n
        BY <1>4
  <2>3. _valid'[e] => _sEncrypt'[e] = Moved(e, sent'[e] - sentPlain'[e])
        BY <1>5, <1>7, <1>13, <2>1, <2>2
  <2> QED BY <1>1, <1>7, <2>3 DEF InStream
<1>16. UnderWay(e)'
  <2>1. Len(w \o ext) = sent'[e] - received'[e]
        BY <1>3, <1>10, <1>13
  <2>2. ASSUME NEW i \in 1..Len(w)
        PROVE  (w \o ext)[i] = Mark(e, R + i)'
    <3>1. w[i] = Mark(e, R + i)
          BY <1>1, <1>2 DEF UnderWay
    <3>2. R + i <= S
          BY <1>3
    <3>3. _valid[e] => Mark(e, R + i)' = Mark(e, R + i)
          BY <1>2, <1>13 DEF Mark
    <3>4. ~_valid[e] => R + i <= P /\ R + i <= P + n
          BY <1>3, <3>2
    <3>5. ~_valid[e] => Mark(e, R + i)' = Plain /\ Mark(e, R + i) = Plain
          BY <1>2, <1>13, <3>4 DEF Mark
    <3> QED BY <1>10, <3>1, <3>3, <3>5
  <2>3. ASSUME NEW i \in Len(w) + 1..Len(w) + n
        PROVE  (w \o ext)[i] = Mark(e, R + i)'
    <3>1. PICK j \in 1..n : j = i - Len(w)
          BY <1>3
    <3>2. (w \o ext)[i] = IF _valid[e] THEN Moved(e, k + j) ELSE Plain
          BY <1>8, <1>10, <3>1
    <3>3. R + i = S + j /\ ~(S + j <= P) /\ (S + j) - P = k + j
          BY <1>3, <1>4, <3>1
    <3>4. CASE _valid[e]
          BY <1>13, <3>2, <3>3, <3>4 DEF Mark
    <3>5. CASE ~_valid[e]
      <4>1. S + j <= P + n
            BY <1>3, <3>5
      <4> QED BY <1>13, <3>2, <3>3, <3>5, <4>1 DEF Mark
    <3> QED BY <3>4, <3>5
  <2>4. \A i \in 1..Len(w) + n : i \in 1..Len(w) \/ i \in Len(w) + 1..Len(w) + n
        BY <1>3
  <2> QED BY <1>10, <1>13, <2>1, <2>2, <2>3, <2>4 DEF UnderWay
<1>17. MisreadOnly(e)'
  <2>1. misread'[e] <=> P # RP /\ (R > P \/ R > RP)
        BY <1>1, <1>2, <1>7 DEF MisreadOnly
  <2>2. CASE _valid[e]
        BY <1>13, <2>1, <2>2 DEF MisreadOnly
  <2>3. CASE ~_valid[e]
    <3>1. P = S
          BY <1>3, <2>3
    <3>2. (P # RP /\ (R > P \/ R > RP)) <=> (P + n # RP /\ (R > P + n \/ R > RP))
          BY <1>3, <3>1
    <3> QED BY <1>13, <2>1, <2>3, <3>2 DEF MisreadOnly
  <2> QED BY <2>2, <2>3
<1>18. \A s \in Ends : (Counted(s) /\ InStream(s) /\ UnderWay(s) /\ MisreadOnly(s))'
       BY <1>12, <1>14, <1>15, <1>16, <1>17
<1> QED BY <1>11, <1>18 DEF CryptoInv

\* Decrypting bytes moves the receiver's cipher by them.  They come out wrong when
\* it gives another stream than the sender's did, from the first byte behind the
\* earlier setup on (StreamCrypto.cpp:75-81).
LEMMA DecryptInv ==
    ASSUME CryptoInv, NEW s \in Ends, NEW n \in Nat, n > 0, Decrypt(s, n)
    PROVE  CryptoInv'
<1>1. CryptoTypeOK /\ Counted(s) /\ InStream(s) /\ UnderWay(s) /\ MisreadOnly(s)
      BY DEF CryptoInv
<1>2. PICK e \in Ends : e = Other(s) /\ e # s /\ Other(e) = s
      BY EndsOK
<1>3. PICK w \in Seq(Ciphers), S \in Nat, R \in Nat, P \in Nat, RP \in Nat :
         /\ w = wire[s] /\ S = sent[s] /\ R = received[s]
         /\ P = sentPlain[s] /\ RP = receivedPlain[s]
      BY <1>1 DEF CryptoTypeOK
<1>4. /\ Len(w) = S - R /\ Len(w) \in Nat /\ P <= S /\ R <= S /\ RP <= R /\ n <= Len(w)
      /\ (~_valid[s] => P = S) /\ (~_valid[e] => RP = R)
      BY <1>1, <1>2, <1>3 DEF Counted, UnderWay, Decrypt
<1>5. PICK k \in Nat : k = R - RP
      BY <1>4
<1>6. _valid[e] => _cDecrypt[e] = Moved(s, k)
      BY <1>1, <1>2, <1>3, <1>5 DEF InStream
<1>7. PICK read : read = [i \in 1..n |-> IF _valid[e] THEN UpdateEncryption(_cDecrypt[e], i)
                                                    ELSE Plain]
      OBVIOUS
<1>8. PICK first : first = SubSeq(w, 1, n)
      OBVIOUS
<1>9. PICK rest : rest = SubSeq(w, n + 1, Len(w))
      OBVIOUS
<1>10. /\ wire' = [wire EXCEPT ![s] = rest]
       /\ misread' = [misread EXCEPT ![s] = @ \/ read # first]
       /\ _cDecrypt' = IF _valid[e] THEN [_cDecrypt EXCEPT ![e] = UpdateEncryption(@, n)]
                                    ELSE _cDecrypt
       /\ received' = [received EXCEPT ![s] = R + n]
       /\ receivedPlain' = IF _valid[e] THEN receivedPlain
                                        ELSE [receivedPlain EXCEPT ![s] = RP + n]
       /\ UNCHANGED <<_valid, _sEncrypt, sent, sentPlain>>
       BY <1>2, <1>3, <1>7, <1>8, <1>9 DEF Decrypt
<1>11. \A i \in 1..n : read[i] = IF _valid[e] THEN Moved(s, k + i) ELSE Plain
  <2>1. ASSUME NEW i \in 1..n
        PROVE  UpdateEncryption(Moved(s, k), i) = Moved(s, k + i)
        BY MovesOn
  <2> QED BY <1>6, <1>7, <2>1
<1>12. \A i \in 1..Len(w) : w[i] = Mark(s, R + i)
       BY <1>1, <1>3 DEF UnderWay
<1>13. /\ first = [i \in 1..n |-> first[i]]
       /\ \A i \in 1..n : first[i] = Mark(s, R + i)
  <2>1. Len(first) = n /\ (\A i \in 1..n : first[i] = w[i]) /\ first \in Seq(Ciphers)
        BY <1>4, <1>8
  <2>2. \A i \in 1..n : i \in 1..Len(w)
        BY <1>4
  <2> QED BY <1>12, <2>1, <2>2
<1>14. /\ rest \in Seq(Ciphers) /\ Len(rest) = Len(w) - n
       /\ \A i \in 1..Len(w) - n : rest[i] = Mark(s, R + n + i)
  <2>1. /\ rest \in Seq(Ciphers) /\ Len(rest) = Len(w) - n
        /\ \A i \in 1..Len(w) - n : rest[i] = w[n + i]
    <3>1. /\ w \in Seq(Ciphers) /\ n + 1 \in 1..Len(w) + 1 /\ Len(w) \in Nat
          /\ Len(w) - n \in Nat
          BY <1>4
    <3>2. rest \in Seq(Ciphers) /\ Len(rest) = Len(w) - n
          BY <1>9, <3>1
    <3>3. ASSUME NEW i \in 1..Len(w) - n
          PROVE  rest[i] = w[n + i]
      <4>1. (n + 1) + i - 1 = n + i /\ i \in 1..(Len(w) - (n + 1) + 1)
            BY <3>1
      <4> QED BY <1>9, <3>1, <4>1
    <3> QED BY <3>2, <3>3
  <2>2. ASSUME NEW i \in 1..Len(w) - n
        PROVE  n + i \in 1..Len(w) /\ R + (n + i) = R + n + i
        BY <1>4
  <2> QED BY <1>12, <2>1, <2>2
<1>15. CryptoTypeOK'
  <2>1. _valid[e] => UpdateEncryption(_cDecrypt[e], n) \in Ciphers
    <3>1. UpdateEncryption(Moved(s, k), n) = Moved(s, k + n) /\ k + n \in Nat
          BY MovesOn
    <3>2. Moved(s, k + n) \in Ciphers
          BY <3>1, MovesOn
    <3> QED BY <1>6, <3>1, <3>2
  <2>2. _cDecrypt' \in [Ends -> Ciphers]
        BY <1>1, <1>10, <2>1 DEF CryptoTypeOK
  <2>3. wire' \in [Ends -> Seq(Ciphers)]
        BY <1>1, <1>10, <1>14 DEF CryptoTypeOK
  <2>4. R + n \in Nat /\ RP + n \in Nat
        OBVIOUS
  <2>5. received' \in [Ends -> Nat] /\ receivedPlain' \in [Ends -> Nat]
        BY <1>1, <1>10, <2>4 DEF CryptoTypeOK
  <2>6. (misread[s] \/ read # first) \in BOOLEAN
        BY <1>1 DEF CryptoTypeOK
  <2>7. misread' \in [Ends -> BOOLEAN]
        BY <1>1, <1>10, <2>6 DEF CryptoTypeOK
  <2> QED BY <1>1, <1>10, <2>2, <2>3, <2>5, <2>7 DEF CryptoTypeOK
<1>16. ASSUME NEW d \in Ends, d # s
       PROVE  (Counted(d) /\ InStream(d) /\ UnderWay(d) /\ MisreadOnly(d))'
  <2>1. Counted(d) /\ InStream(d) /\ UnderWay(d) /\ MisreadOnly(d)
        BY DEF CryptoInv
  <2>2. d = e /\ Other(d) = s
        BY <1>2, <1>16, EndsOK
  <2>3. /\ _valid' = _valid
        /\ _sEncrypt'[d] = _sEncrypt[d] /\ _cDecrypt'[Other(d)] = _cDecrypt[Other(d)]
        /\ wire'[d] = wire[d] /\ sent'[d] = sent[d] /\ received'[d] = received[d]
        /\ sentPlain'[d] = sentPlain[d] /\ receivedPlain'[d] = receivedPlain[d]
        /\ misread'[d] = misread[d]
        BY <1>1, <1>2, <1>10, <1>16, <2>2 DEF CryptoTypeOK
  <2> QED BY <2>1, <2>3, DirectionKept
<1>17. /\ wire'[s] = rest /\ sent'[s] = S /\ received'[s] = R + n /\ sentPlain'[s] = P
       /\ _valid[e] => /\ _cDecrypt'[e] = UpdateEncryption(_cDecrypt[e], n)
                       /\ receivedPlain'[s] = RP
       /\ ~_valid[e] => receivedPlain'[s] = RP + n
       BY <1>1, <1>2, <1>3, <1>10 DEF CryptoTypeOK
<1>18. Counted(s)'
       BY <1>2, <1>4, <1>10, <1>17 DEF Counted
<1>19. InStream(s)'
  <2>1. UpdateEncryption(Moved(s, k), n) = Moved(s, k + n)
        BY MovesOn
  <2>2. R + n - RP = k + n
        BY <1>5
  <2>3. _valid'[e] => _cDecrypt'[e] = Moved(s, received'[s] - receivedPlain'[s])
        BY <1>6, <1>10, <1>17, <2>1, <2>2
  <2> QED BY <1>1, <1>2, <1>3, <1>10, <1>17, <2>3 DEF InStream
<1>20. UnderWay(s)'
  <2>1. \A i \in Nat : Mark(s, i)' = Mark(s, i)
        BY <1>3, <1>17 DEF Mark
  <2>2. Len(w) - n = S - (R + n)
        BY <1>4
  <2>3. \A i \in 1..Len(w) - n : rest[i] = Mark(s, R + n + i)'
        BY <1>14, <2>1
  <2> QED BY <1>14, <1>17, <2>2, <2>3 DEF UnderWay
<1>21. MisreadOnly(s)'
  <2>1. misread[s] <=> P # RP /\ (R > P \/ R > RP)
        BY <1>1, <1>3 DEF MisreadOnly
  <2>2. misread'[s] <=> misread[s] \/ \E i \in 1..n : read[i] # Mark(s, R + i)
    <3>1. read = first <=> \A i \in 1..n : read[i] = first[i]
          BY <1>7, <1>13
    <3>2. misread'[s] = (misread[s] \/ read # first)
          BY <1>1, <1>10 DEF CryptoTypeOK
    <3> QED BY <1>13, <3>1, <3>2
  <2>3. ASSUME _valid[e], P = RP, NEW i \in 1..n
        PROVE  read[i] = Mark(s, R + i)
    <3>1. ~(R + i <= P) /\ R + i - P = k + i
          BY <1>4, <1>5, <2>3
    <3>2. Mark(s, R + i) = Moved(s, R + i - P)
          BY <1>3, <3>1 DEF Mark
    <3>3. read[i] = Moved(s, k + i)
          BY <1>11, <2>3
    <3> QED BY <3>1, <3>2, <3>3
  <2>4. ASSUME _valid[e], P # RP, NEW i \in 1..n
        PROVE  read[i] # Mark(s, R + i)
    <3>1. CASE R + i <= P
      <4>1. k + i \in Nat
            OBVIOUS
      <4>2. Moved(s, k + i) # Plain
            BY <4>1, MovedDiffers
      <4> QED BY <1>3, <1>11, <2>4, <3>1, <4>2 DEF Mark
    <3>2. CASE ~(R + i <= P)
      <4>1. k + i \in Nat /\ R + i - P \in Nat /\ R + i - P # k + i
            BY <1>4, <1>5, <2>4, <3>2
      <4>2. Moved(s, k + i) # Moved(s, R + i - P)
            BY <4>1, MovedDiffers
      <4> QED BY <1>3, <1>11, <2>4, <3>2, <4>2 DEF Mark
    <3> QED BY <3>1, <3>2
  <2>5. ASSUME ~_valid[e], NEW i \in 1..n
        PROVE  read[i] = Mark(s, R + i) <=> R + i <= P
    <3>1. CASE R + i <= P
          BY <1>3, <1>11, <2>5, <3>1 DEF Mark
    <3>2. CASE ~(R + i <= P)
      <4>1. R + i - P \in Nat
            BY <3>2
      <4>2. Moved(s, R + i - P) # Plain
            BY <4>1, MovedDiffers
      <4>3. Mark(s, R + i) = Moved(s, R + i - P)
            BY <1>3, <3>2 DEF Mark
      <4>4. read[i] = Plain
            BY <1>11, <2>5
      <4> QED BY <3>2, <4>2, <4>3, <4>4
    <3> QED BY <3>1, <3>2
  <2>6. CASE _valid[e]
    <3>1. misread'[s] <=> P # RP
          BY <1>4, <2>1, <2>2, <2>3, <2>4, <2>6
    <3>2. R + n > RP
          BY <1>4
    <3> QED BY <1>17, <2>6, <3>1, <3>2 DEF MisreadOnly
  <2>7. CASE ~_valid[e]
    <3>1. RP = R
          BY <1>4, <2>7
    <3>2. misread'[s] <=> R > P \/ \E i \in 1..n : ~(R + i <= P)
          BY <2>1, <2>2, <2>5, <2>7, <3>1
    <3>3. (\E i \in 1..n : ~(R + i <= P)) <=> R + n > P
          OBVIOUS
    <3>4. (R > P \/ R + n > P) <=> (P # R + n /\ (R + n > P \/ R + n > R + n))
          OBVIOUS
    <3> QED BY <1>17, <2>7, <3>1, <3>2, <3>3, <3>4 DEF MisreadOnly
  <2> QED BY <2>6, <2>7
<1>22. \A d \in Ends : (Counted(d) /\ InStream(d) /\ UnderWay(d) /\ MisreadOnly(d))'
       BY <1>16, <1>18, <1>19, <1>20, <1>21
<1> QED BY <1>15, <1>22 DEF CryptoInv

\* Every call of either end keeps the invariant.
LEMMA CryptoNextInv == CryptoInv /\ [CryptoNext]_cryptoVars => CryptoInv'
<1> SUFFICES ASSUME CryptoInv, [CryptoNext]_cryptoVars
             PROVE  CryptoInv'
    OBVIOUS
<1>1. CASE SetupClient
  <2>1. "client" \in Ends /\ KeyOf("client") = "C2" /\ KeyOf(Other("client")) = "CC"
        BY DEF Ends, KeyOf, Other
  <2> QED BY <1>1, <2>1, SetupInv DEF SetupClient
<1>2. CASE SetupServer
  <2>1. "server" \in Ends /\ KeyOf("server") = "CC" /\ KeyOf(Other("server")) = "C2"
        BY DEF Ends, KeyOf, Other
  <2> QED BY <1>2, <2>1, SetupInv DEF SetupServer
<1>3. ASSUME NEW e \in Ends, NEW n \in 1..2, Encrypt(e, n) \/ Decrypt(e, n)
      PROVE  CryptoInv'
  <2>1. n \in Nat /\ n > 0
        OBVIOUS
  <2> QED BY <1>3, <2>1, EncryptInv, DecryptInv
<1>4. CASE UNCHANGED cryptoVars
  <2>1. CryptoTypeOK'
        BY <1>4 DEF cryptoVars, CryptoInv, CryptoTypeOK
  <2>2. ASSUME NEW s \in Ends
        PROVE  (Counted(s) /\ InStream(s) /\ UnderWay(s) /\ MisreadOnly(s))'
        BY <1>4, DirectionKept DEF cryptoVars, CryptoInv
  <2> QED BY <2>1, <2>2 DEF CryptoInv
<1> QED BY <1>1, <1>2, <1>3, <1>4 DEF CryptoNext

-----------------------------------------------------------------------------
\* Each byte under way was encrypted at its place in the sender's stream, and each
\* cipher stands where the bytes since its end's setup have moved it, for streams
\* of any length in any pieces (StreamCrypto.cpp:26-89).
THEOREM CryptoInvariance == CryptoSpec => []CryptoInv
  BY CryptoInitInv, CryptoNextInv, PTL DEF CryptoSpec

\* So bytes come out wrong exactly behind the earlier of two setups at different
\* bytes (StreamCrypto.cpp:26-89).
THEOREM MisreadOnlyHolds == CryptoSpec => []MisreadOnlyAcrossSetup
<1>1. CryptoInv => MisreadOnlyAcrossSetup
      BY DEF CryptoInv, MisreadOnly, MisreadOnlyAcrossSetup
<1> QED BY <1>1, CryptoInvariance, PTL
================================================================================
