----------------------------- MODULE StreamCrypto -----------------------------
(***************************************************************************)
(* A client's and a server's StreamCrypto on the two ends of a connection  *)
(* (StreamCrypto.cpp, ArcFour.cpp).  RC4 combines each byte with the next  *)
(* one of a key stream: what is modelled is with which key and which byte  *)
(* of its stream a byte was encrypted, and with which it is decrypted.     *)
(***************************************************************************)
EXTENDS Naturals, Sequences

CONSTANT MaxBytes \* bytes sent in a direction (bound)

ASSUME MaxBytesAssumption == MaxBytes \in Nat

VARIABLES
    _valid,                 \* per end, whether it has been set up
    _sEncrypt, _cDecrypt,   \* per end, its two ciphers
    wire,                   \* per sender, the bytes under way, as they were encrypted
    sent, received,         \* per sender, how many bytes there have been
    sentPlain,              \* per sender, how many before the sender's setup
    receivedPlain,          \* per sender, how many before the receiver's setup
    misread                 \* per sender, whether a byte came out wrong

cryptoVars == <<_valid, _sEncrypt, _cDecrypt, wire, sent, received,
                sentPlain, receivedPlain, misread>>

Ends == {"client", "server"}
Other(e) == IF e = "client" THEN "server" ELSE "client"

\* The HMAC of the session key under one of the two constants, by its first byte.
Keys == {"C2", "CC"}
Plain == [key |-> "none", pos |-> 0]
DropSize == 1024

CryptoInit ==
    /\ _valid = [e \in Ends |-> FALSE]
    /\ _sEncrypt = [e \in Ends |-> Plain] /\ _cDecrypt = [e \in Ends |-> Plain]
    /\ wire = [e \in Ends |-> <<>>] /\ misread = [e \in Ends |-> FALSE]
    /\ sent = [e \in Ends |-> 0] /\ received = [e \in Ends |-> 0]
    /\ sentPlain = [e \in Ends |-> 0] /\ receivedPlain = [e \in Ends |-> 0]

\* ArcFour::Setup starts the stream, UpdateEncryption of n bytes moves it on.
Setup(key) == [key |-> key, pos |-> 0]
UpdateEncryption(cipher, n) == [cipher EXCEPT !.pos = @ + n]

\* Fault: only the encrypting cipher drops its first bytes.
SetupUndropped(e, encryptionKey, decryptionKey) ==
    /\ ~_valid[e]
    /\ _sEncrypt' = [_sEncrypt EXCEPT ![e] = UpdateEncryption(Setup(encryptionKey), DropSize)]
    /\ _cDecrypt' = [_cDecrypt EXCEPT ![e] = Setup(decryptionKey)]
    /\ _valid' = [_valid EXCEPT ![e] = TRUE]
    /\ UNCHANGED <<wire, sent, received, sentPlain, receivedPlain, misread>>

\* Both setups: two keys, and the first 1024 bytes of each stream dropped.
SetupEnd(e, encryptionKey, decryptionKey) ==
    /\ ~_valid[e]
    /\ _sEncrypt' = [_sEncrypt EXCEPT ![e] = UpdateEncryption(Setup(encryptionKey), DropSize)]
    /\ _cDecrypt' = [_cDecrypt EXCEPT ![e] = UpdateEncryption(Setup(decryptionKey), DropSize)]
    /\ _valid' = [_valid EXCEPT ![e] = TRUE]
    /\ UNCHANGED <<wire, sent, received, sentPlain, receivedPlain, misread>>

SetupClient == SetupEnd("client", "C2", "CC")
SetupServer == SetupEnd("server", "CC", "C2")

\* Encrypt of n bytes, which are then sent; before the setup they stay as they are.
Encrypt(e, n) ==
    /\ sent[e] + n <= MaxBytes
    /\ wire' = [wire EXCEPT ![e] = @ \o
                  [i \in 1..n |-> IF _valid[e] THEN UpdateEncryption(_sEncrypt[e], i) ELSE Plain]]
    /\ _sEncrypt' = IF _valid[e] THEN [_sEncrypt EXCEPT ![e] = UpdateEncryption(@, n)] ELSE _sEncrypt
    /\ sent' = [sent EXCEPT ![e] = @ + n]
    /\ sentPlain' = IF _valid[e] THEN sentPlain ELSE [sentPlain EXCEPT ![e] = @ + n]
    /\ UNCHANGED <<_valid, _cDecrypt, received, receivedPlain, misread>>

\* Decrypt of the next n bytes from the sender s, in whatever pieces they come.
Decrypt(s, n) ==
    LET e == Other(s)
        read == [i \in 1..n |-> IF _valid[e] THEN UpdateEncryption(_cDecrypt[e], i) ELSE Plain]
    IN  /\ n <= Len(wire[s])
        /\ wire' = [wire EXCEPT ![s] = SubSeq(@, n + 1, Len(@))]
        /\ misread' = [misread EXCEPT ![s] = @ \/ read # SubSeq(wire[s], 1, n)]
        /\ _cDecrypt' = IF _valid[e] THEN [_cDecrypt EXCEPT ![e] = UpdateEncryption(@, n)] ELSE _cDecrypt
        /\ received' = [received EXCEPT ![s] = @ + n]
        /\ receivedPlain' = IF _valid[e] THEN receivedPlain ELSE [receivedPlain EXCEPT ![s] = @ + n]
        /\ UNCHANGED <<_valid, _sEncrypt, sent, sentPlain>>

CryptoNext == \/ SetupClient \/ SetupServer
              \/ \E e \in Ends, n \in 1..2 : Encrypt(e, n) \/ Decrypt(e, n)

CryptoSpec == CryptoInit /\ [][CryptoNext]_cryptoVars
-----------------------------------------------------------------------------
\* Properties

\* A byte comes out wrong if and only if the two ends were set up at different
\* bytes of its direction and it is one of those behind the earlier setup: one
\* byte between the setups spoils all that follow, and nothing else does, however
\* the bytes are cut into calls and however the directions interleave
\* (StreamCrypto.cpp:26-89).
MisreadOnlyAcrossSetup ==
    \A s \in Ends :
        misread[s] <=> /\ sentPlain[s] # receivedPlain[s]
                       /\ received[s] > sentPlain[s] \/ received[s] > receivedPlain[s]
===============================================================================
