--------------------------------- MODULE Srp6 ---------------------------------
(***************************************************************************)
(* The client's side of SRP6 (NovusConnection.cpp, BigNumber.cpp) against  *)
(* a server that keeps to the protocol.  Numbers travel as little-endian   *)
(* bytes, here digits of the base Base, and are hashed without leading     *)
(* zeros.  SHA-1 is the constant Hash where the digest is calculated with, *)
(* and where digests are only compared, the hashed values stand for them.  *)
(***************************************************************************)
EXTENDS Naturals, Sequences, SequencesExt

CONSTANTS
    Base,
    Width,              \* bytes of a number on the wire, 32 in the code
    Modulus, Generator, \* N and g
    Hash(_),            \* bytes to bytes
    PasswordKeys,       \* hashes of username and password, as numbers
    Salts, PrivateKeys, ServerKeys

ASSUME SrpAssumption == /\ Base \in Nat \ {0, 1} /\ Width % 2 = 0
                        /\ Generator < Modulus /\ Modulus < Base^Width

VARIABLES
    account,        \* the server's: salt, passwordKey
    _passwordKey,   \* the client's
    srpStatus,      \* of the client; "refused" by the server
    serverKey,      \* the server's secret b
    challenge,      \* the server's B and salt on the wire
    clientS,        \* the client's S, of which _key is made
    proof,          \* the client's A and M1 on the wire
    _proofM2,       \* the M2 the client expects
    serverS, serverM2

srpVars == <<account, _passwordKey, srpStatus, serverKey, challenge, clientS,
             proof, _proofM2, serverS, serverM2>>

SrpInit ==
    /\ account \in [salt : Salts, passwordKey : PasswordKeys]
    /\ _passwordKey \in PasswordKeys
    /\ srpStatus = "challenge" /\ serverKey = 0
    /\ challenge = [b |-> <<>>, salt |-> <<>>]
    /\ clientS = 0 /\ proof = [A |-> <<>>, M1 |-> <<>>] /\ _proofM2 = <<>>
    /\ serverS = 0 /\ serverM2 = <<>>

-----------------------------------------------------------------------------
\* BigNumber

\* The bytes are those of the number from the lowest on.
Bin2BN(bytes) == FoldRight(LAMBDA d, n : n * Base + d, bytes, 0)

GetBytes(n) == CHOOSE k \in 0..n : n < Base^k /\ \A j \in 0..k - 1 : n >= Base^j

\* The bytes from the lowest, filled up with zeros to the size.
BN2BinArray(size, n) ==
    [i \in 1..(IF size >= GetBytes(n) THEN size ELSE GetBytes(n)) |-> (n \div Base^(i - 1)) % Base]

\* UpdateHashForBn hashes as many bytes as the number has.
HashedBytes(n) == BN2BinArray(0, n)

ModExponential(b, e, n) ==
    LET power[k \in 0..e] == IF k = 0 THEN 1 % n
                             ELSE LET half == power[k \div 2] IN
                                  (half * half * (IF k % 2 = 0 THEN 1 ELSE b)) % n
    IN  power[e]

\* BN_mod_exp of a difference that may be negative.
Difference(b, c, n) == (b + n * c - c) % n

-----------------------------------------------------------------------------
\* What both sides calculate in the same way

X(salt, passwordKey) == Bin2BN(Hash(HashedBytes(salt) \o HashedBytes(passwordKey)))
U(A, B) == Bin2BN(Hash(HashedBytes(A) \o HashedBytes(B)))

\* Fault: the second half of the key repeats the first.
HalvesRepeat(t) == <<[i \in 1..Width \div 2 |-> t[2 * i - 1]], [i \in 1..Width \div 2 |-> t[2 * i - 1]]>>

\* The bytes of S at even and at odd places.
Halves(t) == <<[i \in 1..Width \div 2 |-> t[2 * i - 1]], [i \in 1..Width \div 2 |-> t[2 * i]]>>

\* _key: the hashes of the halves, interleaved.
SessionKey(S) ==
    LET h == Halves(BN2BinArray(Width, S)) IN Bin2BN(FlattenSeq(Interleave(Hash(h[1]), Hash(h[2]))))

\* What is hashed into M1 and M2; N, g and the username, which both sides have alike,
\* are left out.
M1(salt, A, B, key) == HashedBytes(salt) \o HashedBytes(A) \o HashedBytes(B) \o HashedBytes(key)
M2(A, m1, key) == <<HashedBytes(A), m1, HashedBytes(key)>>

-----------------------------------------------------------------------------
\* The server

Verifier == ModExponential(Generator, X(account.salt, account.passwordKey), Modulus)
ServerB(b) == (3 * Verifier + ModExponential(Generator, b, Modulus)) % Modulus

SendsChallenge ==
    /\ srpStatus = "challenge" /\ serverKey = 0
    /\ serverKey' \in ServerKeys
    /\ challenge' = [b |-> BN2BinArray(Width, ServerB(serverKey')),
                     salt |-> BN2BinArray(Width, account.salt)]
    /\ UNCHANGED <<account, _passwordKey, srpStatus, clientS, proof, _proofM2, serverS, serverM2>>

\* The server accepts a proof whose M1 it finds itself, and proves itself.
ChecksProof ==
    /\ srpStatus = "proof" /\ serverM2 = <<>>
    /\ LET A == Bin2BN(proof.A)
           B == ServerB(serverKey)
           S == ModExponential((A * ModExponential(Verifier, U(A, B), Modulus)) % Modulus,
                               serverKey, Modulus)
           m1 == M1(account.salt, A, B, SessionKey(S))
       IN  /\ serverS' = S
           /\ IF proof.M1 = m1
              THEN serverM2' = M2(A, m1, SessionKey(S)) /\ UNCHANGED srpStatus
              ELSE srpStatus' = "refused" /\ UNCHANGED serverM2
    /\ UNCHANGED <<account, _passwordKey, serverKey, challenge, clientS, proof, _proofM2>>

-----------------------------------------------------------------------------
\* The client

\* Fault: the multiplier k is forgotten.
ClientBaseOfSrp3(B, x) == Difference(B, ModExponential(Generator, x, Modulus), Modulus)

\* B - k * g^x
ClientBase(B, x) == Difference(B, 3 * ModExponential(Generator, x, Modulus), Modulus)

HandleCommandChallenge(a) ==
    /\ srpStatus = "challenge" /\ serverKey # 0
    /\ LET B == Bin2BN(challenge.b)
           salt == Bin2BN(challenge.salt)
           x == X(salt, _passwordKey)
           A == ModExponential(Generator, a, Modulus)
           S == ModExponential(ClientBase(B, x), a + U(A, B) * x, Modulus)
           m1 == M1(salt, A, B, SessionKey(S))
       IN  IF B % Modulus = 0
           THEN srpStatus' = "closed" /\ UNCHANGED <<clientS, proof, _proofM2>>
           ELSE /\ srpStatus' = "proof"
                /\ clientS' = S
                /\ proof' = [A |-> BN2BinArray(Width, A), M1 |-> m1]
                /\ _proofM2' = M2(A, m1, SessionKey(S))
    /\ UNCHANGED <<account, _passwordKey, serverKey, challenge, serverS, serverM2>>

HandleCommandProof ==
    /\ srpStatus = "proof" /\ serverM2 # <<>>
    /\ srpStatus' = IF _proofM2 = serverM2 THEN "authed" ELSE "closed"
    /\ UNCHANGED <<account, _passwordKey, serverKey, challenge, clientS, proof, _proofM2,
                   serverS, serverM2>>

SrpNext == \/ SendsChallenge \/ ChecksProof \/ HandleCommandProof
           \/ \E a \in PrivateKeys : HandleCommandChallenge(a)

SrpSpec == SrpInit /\ [][SrpNext]_srpVars
-----------------------------------------------------------------------------
\* Properties

\* The right password always logs in, whatever the secrets of the two sides and
\* wherever a number has leading zeros or a difference is negative; the one
\* exception is a B that is a multiple of N (NovusConnection.cpp:157-290).
RightPasswordLogsIn ==
    /\ account.passwordKey = _passwordKey /\ serverKey # 0 /\ ServerB(serverKey) # 0
    => /\ srpStatus \notin {"refused", "closed"}
       /\ serverM2 # <<>> => clientS = serverS

\* An authenticated client shares the whole of S with the server: no part of it is
\* lost on the way into the session key (NovusConnection.cpp:191-217).
AuthedSharesSecret == srpStatus = "authed" => clientS = serverS
===============================================================================
