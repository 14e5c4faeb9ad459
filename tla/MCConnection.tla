---------------------------- MODULE MCConnection ----------------------------
(***************************************************************************)
(* Connection for TLC: a network that may cut the server's messages where  *)
(* HandleRead's tests tell lengths apart: one byte short of a header, at   *)
(* the header, one byte short of M2, and in the middle of a challenge.     *)
(***************************************************************************)
EXTENDS Connection

Offsets == {ChallengeHeaderSize - 1, ChallengeHeaderSize, ProofM2End - 1,
            ChallengeSize \div 2}
=============================================================================
