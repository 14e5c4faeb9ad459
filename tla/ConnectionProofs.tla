-------------------------- MODULE ConnectionProofs --------------------------
(***************************************************************************)
(* What Connection does for every size of the proof reply, every choice of *)
(* offsets the network cuts at, and any number of messages out of turn:    *)
(* the inductive invariant IInv and what follows from it.                  *)
(***************************************************************************)
EXTENDS Connection, TLAPS

\* Every message of the server's has at least one byte.
LEMMA SizeOfType ==
    ASSUME NEW k \in Replies
    PROVE  SizeOf(k) \in Nat \ {0}
  <1>1. CASE k = "challengeOk"
    BY <1>1 DEF SizeOf, ChallengeSize
  <1>2. CASE k = "challengeFail"
    BY <1>2 DEF SizeOf, ChallengeHeaderSize
  <1>3. CASE k \in {"proofOk", "proofForged"}
    <2>1. SizeOf(k) = ProofReplySize
      BY <1>3 DEF SizeOf
    <2> QED
      BY <2>1, ProofReplySizeAssumption
  <1>4. CASE k = "proofFail"
    BY <1>4 DEF SizeOf, ProofHeaderSize
  <1>5. CASE k = "other"
    BY <1>5 DEF SizeOf, OtherSize
  <1> QED
    BY <1>1, <1>2, <1>3, <1>4, <1>5 DEF Replies

\* The initial states satisfy the invariant.
THEOREM InitInv == Init => IInv
  <1> SUFFICES ASSUME Init PROVE IInv
    OBVIOUS
  <1>1. TypeOK
    <2>1. write \in [Packets -> {"none", "queued", "whole", "damaged", "error"}]
      BY DEF Init
    <2>2. hookUsers \in Seq({"empty", "torn", "user"})
      BY DEF Init
    <2>3. wire \in Seq([kind : Replies, left : Nat])
      BY DEF Init
    <2>4. onIo \in BOOLEAN /\ closed \in BOOLEAN /\ matched \in BOOLEAN
      <3>1. onIo \in BOOLEAN
        BY SMT DEF Init
      <3>2. closed = FALSE /\ matched = FALSE
        BY SMT DEF Init
      <3> QED
        BY <3>1, <3>2, Zenon
    <2>5. /\ head \in Heads /\ kernelHead \in KernelHeads
          /\ sent \subseteq Replies /\ answered \subseteq Packets /\ written \subseteq Packets
      BY DEF Init, Heads, KernelHeads
    <2>6. /\ readPos \in Nat /\ writePos \in Nat /\ bufSize \in Nat
          /\ reads \in Nat /\ kernel \in Nat /\ strays \in Nat
      BY DEF Init, BufferSize
    <2> QED
      BY <2>1, <2>2, <2>3, <2>4, <2>5, <2>6 DEF Init, TypeOK
  <1>2. BufferInv
    BY DEF Init, BufferInv, OneRead, BufferSize
  <1>3. LogInv
    BY DEF Init, LogInv, MutualAuth
  <1>4. WireInv
    BY DEF Init, WireInv
  <1>5. OfflineInv
    BY DEF Init, OfflineInv
  <1> QED
    BY <1>1, <1>2, <1>3, <1>4, <1>5 DEF IInv

-----------------------------------------------------------------------------
\* A step of Start() keeps the invariant.
LEMMA StartKeepsInv ==
    ASSUME IInv, Start
    PROVE  IInv'
  <1>1. CASE Connect
    <2>1. TypeOK'
      BY <1>1 DEF IInv, TypeOK, Connect, bufVars, logVars, netVars, peerVars
    <2>2. BufferInv'
      BY <1>1 DEF IInv, BufferInv, OneRead, Connect, bufVars, logVars,
           netVars, peerVars
    <2>3. LogInv'
      BY <1>1 DEF IInv, LogInv, MutualAuth, Connect, bufVars, logVars,
           netVars, peerVars
    <2>4. WireInv'
      BY <1>1 DEF IInv, WireInv, Connect, bufVars, logVars, netVars, peerVars
    <2>5. OfflineInv'
      BY <1>1 DEF IInv, OfflineInv, BufferInv, OneRead, Connect, bufVars,
           logVars, netVars, peerVars
    <2> QED
      BY <2>1, <2>2, <2>3, <2>4, <2>5 DEF IInv
  <1>2. CASE ConnectFails
    <2>1. TypeOK'
      BY <1>2 DEF IInv, TypeOK, ConnectFails, bufVars, logVars, netVars,
           peerVars
    <2>2. BufferInv'
      BY <1>2 DEF IInv, BufferInv, OneRead, ConnectFails, bufVars, logVars,
           netVars, peerVars
    <2>3. LogInv'
      BY <1>2 DEF IInv, LogInv, MutualAuth, ConnectFails, bufVars, logVars,
           netVars, peerVars
    <2>4. WireInv'
      BY <1>2 DEF IInv, WireInv, ConnectFails, bufVars, logVars, netVars,
           peerVars
    <2>5. OfflineInv'
      BY <1>2 DEF IInv, OfflineInv, BufferInv, OneRead, ConnectFails,
           bufVars, logVars, netVars, peerVars
    <2> QED
      BY <2>1, <2>2, <2>3, <2>4, <2>5 DEF IInv
  <1>3. CASE ArmFirstRead
    <2>1. TypeOK'
      BY <1>3 DEF IInv, TypeOK, ArmFirstRead, bufVars, logVars, netVars,
           peerVars, AsyncRead, IsOpen, BufferInv, OneRead, BufferSize, Heads
    <2>2. BufferInv'
      BY <1>3 DEF IInv, BufferInv, OneRead, ArmFirstRead, bufVars, logVars,
           netVars, peerVars, AsyncRead, IsOpen, BufferSize,
           ChallengeHeaderSize
    <2>3. LogInv'
      BY <1>3 DEF IInv, LogInv, MutualAuth, ArmFirstRead, bufVars, logVars,
           netVars, peerVars, AsyncRead, IsOpen
    <2>4. WireInv'
      BY <1>3 DEF IInv, WireInv, ArmFirstRead, bufVars, logVars, netVars,
           peerVars, AsyncRead, IsOpen, Inside
    <2>5. OfflineInv'
      BY <1>3 DEF IInv, OfflineInv, BufferInv, OneRead, ArmFirstRead,
           bufVars, logVars, netVars, peerVars, AsyncRead, IsOpen
    <2> QED
      BY <2>1, <2>2, <2>3, <2>4, <2>5 DEF IInv
  <1>4. CASE SendChallenge
    <2>1. TypeOK'
      BY <1>4 DEF IInv, TypeOK, SendChallenge, bufVars, logVars, netVars,
           peerVars, Send, IsOpen, Packets
    <2>2. BufferInv'
      BY <1>4 DEF IInv, BufferInv, OneRead, SendChallenge, bufVars, logVars,
           netVars, peerVars, Send, IsOpen
    <2>3. LogInv'
      BY <1>4 DEF IInv, LogInv, MutualAuth, SendChallenge, bufVars, logVars,
           netVars, peerVars, Send, IsOpen
    <2>4. WireInv'
      BY <1>4 DEF IInv, WireInv, SendChallenge, bufVars, logVars, netVars,
           peerVars, Send, IsOpen
    <2>5. OfflineInv'
      BY <1>4 DEF IInv, OfflineInv, BufferInv, OneRead, SendChallenge,
           bufVars, logVars, netVars, peerVars, Send, IsOpen
    <2> QED
      BY <2>1, <2>2, <2>3, <2>4, <2>5 DEF IInv
  <1>5. CASE StoreUsername
    <2>1. TypeOK'
      BY <1>5 DEF IInv, TypeOK, StoreUsername, bufVars, logVars, netVars,
           peerVars
    <2>2. BufferInv'
      BY <1>5 DEF IInv, BufferInv, OneRead, StoreUsername, bufVars, logVars,
           netVars, peerVars
    <2>3. LogInv'
      BY <1>5 DEF IInv, LogInv, MutualAuth, StoreUsername, bufVars, logVars,
           netVars, peerVars
    <2>4. WireInv'
      BY <1>5 DEF IInv, WireInv, StoreUsername, bufVars, logVars, netVars,
           peerVars
    <2>5. OfflineInv'
      BY <1>5 DEF IInv, OfflineInv, BufferInv, OneRead, StoreUsername,
           bufVars, logVars, netVars, peerVars
    <2> QED
      BY <2>1, <2>2, <2>3, <2>4, <2>5 DEF IInv
  <1>6. CASE StorePasswordKey
    <2>1. TypeOK'
      BY <1>6 DEF IInv, TypeOK, StorePasswordKey, bufVars, logVars, netVars,
           peerVars
    <2>2. BufferInv'
      BY <1>6 DEF IInv, BufferInv, OneRead, StorePasswordKey, bufVars,
           logVars, netVars, peerVars
    <2>3. LogInv'
      BY <1>6 DEF IInv, LogInv, MutualAuth, StorePasswordKey, bufVars,
           logVars, netVars, peerVars
    <2>4. WireInv'
      BY <1>6 DEF IInv, WireInv, StorePasswordKey, bufVars, logVars, netVars,
           peerVars
    <2>5. OfflineInv'
      BY <1>6 DEF IInv, OfflineInv, BufferInv, OneRead, StorePasswordKey,
           bufVars, logVars, netVars, peerVars
    <2> QED
      BY <2>1, <2>2, <2>3, <2>4, <2>5 DEF IInv
  <1> QED
    BY <1>1, <1>2, <1>3, <1>4, <1>5, <1>6 DEF Start

\* A completion that the io thread runs keeps the invariant.
LEMMA CompletionKeepsInv ==
    ASSUME IInv, ReadCompletes \/ ReadFails \/ \E p \in Packets : WriteCompletes(p)
    PROVE  IInv'
  <1>1. CASE ReadCompletes
    <2>1. TypeOK'
      BY <1>1 DEF IInv, TypeOK, ReadCompletes, startVars, bufVars, logVars,
           netVars, peerVars, IoFree, SpaceLeft, Heads, KernelHeads, Inside,
           BufferInv, OneRead
    <2>2. BufferInv'
      BY <1>1 DEF IInv, BufferInv, OneRead, ReadCompletes, startVars,
           bufVars, logVars, netVars, peerVars, IoFree, SpaceLeft, TypeOK,
           BufferSize, ChallengeHeaderSize
    <2>3. LogInv'
      BY <1>1 DEF IInv, LogInv, MutualAuth, ReadCompletes, startVars,
           bufVars, logVars, netVars, peerVars, IoFree, SpaceLeft, BufferInv,
           OneRead, TypeOK
    <2>4. WireInv'
      BY <1>1 DEF IInv, WireInv, ReadCompletes, startVars, bufVars, logVars,
           netVars, peerVars, IoFree, SpaceLeft, Inside, TypeOK, KernelHeads
    <2>5. OfflineInv'
      BY <1>1 DEF IInv, OfflineInv, BufferInv, OneRead, ReadCompletes,
           startVars, bufVars, logVars, netVars, peerVars, IoFree, SpaceLeft
    <2> QED
      BY <2>1, <2>2, <2>3, <2>4, <2>5 DEF IInv
  <1>2. CASE ReadFails
    <2>1. TypeOK'
      BY <1>2 DEF IInv, TypeOK, ReadFails, startVars, bufVars, logVars,
           netVars, peerVars, IoFree, SpaceLeft
    <2>2. BufferInv'
      BY <1>2 DEF IInv, BufferInv, OneRead, ReadFails, startVars, bufVars,
           logVars, netVars, peerVars, IoFree, SpaceLeft, TypeOK
    <2>3. LogInv'
      BY <1>2 DEF IInv, LogInv, MutualAuth, ReadFails, startVars, bufVars,
           logVars, netVars, peerVars, IoFree, SpaceLeft, TypeOK
    <2>4. WireInv'
      BY <1>2 DEF IInv, WireInv, ReadFails, startVars, bufVars, logVars,
           netVars, peerVars, IoFree, SpaceLeft
    <2>5. OfflineInv'
      BY <1>2 DEF IInv, OfflineInv, BufferInv, OneRead, ReadFails, startVars,
           bufVars, logVars, netVars, peerVars, IoFree, SpaceLeft
    <2> QED
      BY <2>1, <2>2, <2>3, <2>4, <2>5 DEF IInv
  <1>3. ASSUME NEW p \in Packets, WriteCompletes(p)
        PROVE  IInv'
    <2>1. TypeOK'
      BY <1>3 DEF IInv, TypeOK, WriteCompletes, startVars, bufVars, logVars,
           netVars, peerVars
    <2>2. BufferInv'
      BY <1>3 DEF IInv, BufferInv, OneRead, WriteCompletes, startVars,
           bufVars, logVars, netVars, peerVars
    <2>3. LogInv'
      BY <1>3 DEF IInv, LogInv, MutualAuth, WriteCompletes, startVars,
           bufVars, logVars, netVars, peerVars
    <2>4. WireInv'
      BY <1>3 DEF IInv, WireInv, WriteCompletes, startVars, bufVars, logVars,
           netVars, peerVars
    <2>5. OfflineInv'
      BY <1>3 DEF IInv, OfflineInv, BufferInv, OneRead, WriteCompletes,
           startVars, bufVars, logVars, netVars, peerVars
    <2> QED
      BY <2>1, <2>2, <2>3, <2>4, <2>5 DEF IInv
  <1> QED
    BY <1>1, <1>2, <1>3

\* A way through the body of HandleRead's loop keeps the invariant.
LEMMA HandleReadKeepsInv ==
    ASSUME IInv, HandleRead
    PROVE  IInv'
  <1>1. CASE LoopExits
    <2>1. TypeOK'
      BY <1>1, U32WrapAssumption DEF IInv, TypeOK, LoopExits,
           HandlerUnchanged, startVars, bufVars, logVars, netVars, peerVars,
           Rearm, AsyncRead, IsOpen, ActualSize, BufferInv, OneRead,
           ChallengeHeaderSize, ChallengeSize, ProofHeaderSize, ProofSize,
           BufferSize, Heads, Inside
    <2>2. BufferInv'
      BY <1>1, U32WrapAssumption DEF IInv, BufferInv, OneRead, LoopExits,
           HandlerUnchanged, startVars, bufVars, logVars, netVars, peerVars,
           Rearm, AsyncRead, IsOpen, ActualSize, TypeOK, ChallengeHeaderSize,
           ChallengeSize, ProofHeaderSize, ProofSize, BufferSize
    <2>3. LogInv'
      BY <1>1 DEF IInv, LogInv, MutualAuth, LoopExits, HandlerUnchanged,
           startVars, bufVars, logVars, netVars, peerVars, Rearm, AsyncRead,
           IsOpen, ActualSize, BufferInv, OneRead
    <2>4. WireInv'
      BY <1>1 DEF IInv, WireInv, LoopExits, HandlerUnchanged, startVars,
           bufVars, logVars, netVars, peerVars, Rearm, AsyncRead, IsOpen,
           ActualSize, Inside
    <2>5. OfflineInv'
      BY <1>1 DEF IInv, OfflineInv, BufferInv, OneRead, LoopExits,
           HandlerUnchanged, startVars, bufVars, logVars, netVars, peerVars,
           Rearm, AsyncRead, IsOpen, ActualSize
    <2> QED
      BY <2>1, <2>2, <2>3, <2>4, <2>5 DEF IInv
  <1>2. CASE UnknownCommand
    <2>1. TypeOK'
      BY <1>2 DEF IInv, TypeOK, UnknownCommand, HandlerUnchanged, startVars,
           bufVars, logVars, netVars, peerVars, Parsing, AsyncRead, IsOpen,
           Heads, BufferInv, OneRead
    <2>2. BufferInv'
      BY <1>2 DEF IInv, BufferInv, OneRead, UnknownCommand, HandlerUnchanged,
           startVars, bufVars, logVars, netVars, peerVars, Parsing,
           AsyncRead, IsOpen, TypeOK, BufferSize, ChallengeHeaderSize
    <2>3. LogInv'
      BY <1>2 DEF IInv, LogInv, MutualAuth, UnknownCommand, HandlerUnchanged,
           startVars, bufVars, logVars, netVars, peerVars, Parsing,
           AsyncRead, IsOpen, BufferInv, OneRead
    <2>4. WireInv'
      BY <1>2 DEF IInv, WireInv, UnknownCommand, HandlerUnchanged, startVars,
           bufVars, logVars, netVars, peerVars, Parsing, AsyncRead, IsOpen
    <2>5. OfflineInv'
      BY <1>2 DEF IInv, OfflineInv, BufferInv, OneRead, UnknownCommand,
           HandlerUnchanged, startVars, bufVars, logVars, netVars, peerVars,
           Parsing, AsyncRead, IsOpen
    <2> QED
      BY <2>1, <2>2, <2>3, <2>4, <2>5 DEF IInv
  <1>3. CASE OutOfStep
    <2>1. TypeOK'
      BY <1>3 DEF IInv, TypeOK, OutOfStep, HandlerUnchanged, startVars,
           bufVars, logVars, netVars, peerVars, Parsing, CloseWith
    <2>2. BufferInv'
      BY <1>3 DEF IInv, BufferInv, OneRead, OutOfStep, HandlerUnchanged,
           startVars, bufVars, logVars, netVars, peerVars, Parsing,
           CloseWith, TypeOK
    <2>3. LogInv'
      BY <1>3 DEF IInv, LogInv, MutualAuth, OutOfStep, HandlerUnchanged,
           startVars, bufVars, logVars, netVars, peerVars, Parsing,
           CloseWith, BufferInv, OneRead, TypeOK
    <2>4. WireInv'
      BY <1>3 DEF IInv, WireInv, OutOfStep, HandlerUnchanged, startVars,
           bufVars, logVars, netVars, peerVars, Parsing, CloseWith
    <2>5. OfflineInv'
      BY <1>3 DEF IInv, OfflineInv, BufferInv, OneRead, OutOfStep,
           HandlerUnchanged, startVars, bufVars, logVars, netVars, peerVars,
           Parsing, CloseWith
    <2> QED
      BY <2>1, <2>2, <2>3, <2>4, <2>5 DEF IInv
  <1>4. CASE TooShort
    <2>1. TypeOK'
      BY <1>4, U32WrapAssumption DEF IInv, TypeOK, TooShort,
           HandlerUnchanged, startVars, bufVars, logVars, netVars, peerVars,
           Rearm, AsyncRead, IsOpen, Parsing, InStep, Refused, ActualSize,
           BufferInv, OneRead, ChallengeHeaderSize, ChallengeSize,
           ProofHeaderSize, ProofSize, BufferSize, Heads, Inside
    <2>2. BufferInv'
      BY <1>4, U32WrapAssumption DEF IInv, BufferInv, OneRead, TooShort,
           HandlerUnchanged, startVars, bufVars, logVars, netVars, peerVars,
           Rearm, AsyncRead, IsOpen, Parsing, InStep, Refused, ActualSize,
           TypeOK, ChallengeHeaderSize, ChallengeSize, ProofHeaderSize,
           ProofSize, BufferSize
    <2>3. LogInv'
      BY <1>4 DEF IInv, LogInv, MutualAuth, TooShort, HandlerUnchanged,
           startVars, bufVars, logVars, netVars, peerVars, Rearm, AsyncRead,
           IsOpen, Parsing, InStep, Refused, ActualSize, BufferInv, OneRead
    <2>4. WireInv'
      BY <1>4 DEF IInv, WireInv, TooShort, HandlerUnchanged, startVars,
           bufVars, logVars, netVars, peerVars, Rearm, AsyncRead, IsOpen,
           Parsing, InStep, Refused, ActualSize, Inside
    <2>5. OfflineInv'
      BY <1>4 DEF IInv, OfflineInv, BufferInv, OneRead, TooShort,
           HandlerUnchanged, startVars, bufVars, logVars, netVars, peerVars,
           Rearm, AsyncRead, IsOpen, Parsing, InStep, Refused, ActualSize
    <2> QED
      BY <2>1, <2>2, <2>3, <2>4, <2>5 DEF IInv
  <1>5. CASE ChallengeFailed
    <2>1. TypeOK'
      BY <1>5 DEF IInv, TypeOK, ChallengeFailed, HandlerUnchanged, startVars,
           bufVars, logVars, netVars, peerVars, CallHook, UsernamesSeen,
           CloseWith, InStep, Parsing, ChallengeHeaderSize
    <2>2. BufferInv'
      BY <1>5 DEF IInv, BufferInv, OneRead, ChallengeFailed,
           HandlerUnchanged, startVars, bufVars, logVars, netVars, peerVars,
           CallHook, UsernamesSeen, CloseWith, InStep, Parsing, TypeOK
    <2>3. LogInv'
      <3>1. /\ status = "CHALLENGE" /\ verdict = "none" /\ hookUsers = <<>>
            /\ ipc = "parse" /\ spc \notin {"new", "failed", "connected"}
        BY <1>5 DEF ChallengeFailed, InStep, Parsing, IInv, BufferInv, LogInv
      <3>2. PICK u \in UsernamesSeen : hookUsers' = <<u>>
        BY <1>5, <3>1 DEF ChallengeFailed, CallHook
      <3>3. onIo => u = "user"
        BY <3>1 DEF IInv, TypeOK, LogInv, UsernamesSeen
      <3>4. spc' = spc /\ onIo' = onIo /\ proof' = proof /\ matched' = matched
        BY <1>5 DEF ChallengeFailed, HandlerUnchanged, startVars
      <3> QED
        BY <1>5, <3>1, <3>2, <3>3, <3>4
           DEF ChallengeFailed, CloseWith, IInv, BufferInv, OneRead, LogInv, MutualAuth
    <2>4. WireInv'
      BY <1>5 DEF IInv, WireInv, ChallengeFailed, HandlerUnchanged,
           startVars, bufVars, logVars, netVars, peerVars, CallHook,
           UsernamesSeen, CloseWith, InStep, Parsing
    <2>5. OfflineInv'
      BY <1>5 DEF IInv, OfflineInv, BufferInv, OneRead, ChallengeFailed,
           HandlerUnchanged, startVars, bufVars, logVars, netVars, peerVars,
           CallHook, UsernamesSeen, CloseWith, InStep, Parsing
    <2> QED
      BY <2>1, <2>2, <2>3, <2>4, <2>5 DEF IInv
  <1>6. CASE ChallengeBegins
    <2>1. TypeOK'
      BY <1>6 DEF IInv, TypeOK, ChallengeBegins, HandlerUnchanged, startVars,
           bufVars, logVars, netVars, peerVars, CallHook, UsernamesSeen,
           Parsing, InStep, Refused, ActualSize
    <2>2. BufferInv'
      BY <1>6 DEF IInv, BufferInv, OneRead, ChallengeBegins,
           HandlerUnchanged, startVars, bufVars, logVars, netVars, peerVars,
           CallHook, UsernamesSeen, Parsing, InStep, Refused, ActualSize,
           TypeOK, ChallengeSize, ProofSize
    <2>3. LogInv'
      <3>1. /\ status = "CHALLENGE" /\ verdict = "none" /\ hookUsers = <<>>
            /\ ipc = "parse" /\ spc \notin {"new", "failed", "connected"}
        BY <1>6 DEF ChallengeBegins, InStep, Parsing, IInv, BufferInv, LogInv
      <3>2. PICK u \in UsernamesSeen : hookUsers' = <<u>>
        BY <1>6, <3>1 DEF ChallengeBegins, CallHook
      <3>3. onIo => u = "user"
        BY <3>1 DEF IInv, TypeOK, LogInv, UsernamesSeen
      <3>4. spc' = spc /\ onIo' = onIo /\ proof' = proof /\ matched' = matched
        BY <1>6 DEF ChallengeBegins, HandlerUnchanged, startVars
      <3> QED
        BY <1>6, <3>1, <3>2, <3>3, <3>4
           DEF ChallengeBegins, CloseWith, IInv, BufferInv, OneRead, LogInv, MutualAuth
    <2>4. WireInv'
      BY <1>6 DEF IInv, WireInv, ChallengeBegins, HandlerUnchanged,
           startVars, bufVars, logVars, netVars, peerVars, CallHook,
           UsernamesSeen, Parsing, InStep, Refused, ActualSize
    <2>5. OfflineInv'
      BY <1>6 DEF IInv, OfflineInv, BufferInv, OneRead, ChallengeBegins,
           HandlerUnchanged, startVars, bufVars, logVars, netVars, peerVars,
           CallHook, UsernamesSeen, Parsing, InStep, Refused, ActualSize
    <2> QED
      BY <2>1, <2>2, <2>3, <2>4, <2>5 DEF IInv
  <1>7. CASE MultipleOfN
    <2>1. TypeOK'
      BY <1>7 DEF IInv, TypeOK, MultipleOfN, HandlerUnchanged, startVars,
           bufVars, logVars, netVars, peerVars, CloseWith
    <2>2. BufferInv'
      BY <1>7 DEF IInv, BufferInv, OneRead, MultipleOfN, HandlerUnchanged,
           startVars, bufVars, logVars, netVars, peerVars, CloseWith, TypeOK
    <2>3. LogInv'
      BY <1>7 DEF IInv, LogInv, MutualAuth, MultipleOfN, HandlerUnchanged,
           startVars, bufVars, logVars, netVars, peerVars, CloseWith, TypeOK,
           BufferInv, OneRead
    <2>4. WireInv'
      BY <1>7 DEF IInv, WireInv, MultipleOfN, HandlerUnchanged, startVars,
           bufVars, logVars, netVars, peerVars, CloseWith
    <2>5. OfflineInv'
      BY <1>7 DEF IInv, OfflineInv, BufferInv, OneRead, MultipleOfN,
           HandlerUnchanged, startVars, bufVars, logVars, netVars, peerVars,
           CloseWith
    <2> QED
      BY <2>1, <2>2, <2>3, <2>4, <2>5 DEF IInv
  <1>8. CASE ChallengeProved
    <2>1. TypeOK'
      BY <1>8 DEF IInv, TypeOK, ChallengeProved, HandlerUnchanged, startVars,
           bufVars, logVars, netVars, peerVars, Send, IsOpen, ChallengeSize,
           Packets
    <2>2. BufferInv'
      BY <1>8 DEF IInv, BufferInv, OneRead, ChallengeProved,
           HandlerUnchanged, startVars, bufVars, logVars, netVars, peerVars,
           Send, IsOpen, TypeOK, ChallengeSize
    <2>3. LogInv'
      BY <1>8 DEF IInv, LogInv, MutualAuth, ChallengeProved,
           HandlerUnchanged, startVars, bufVars, logVars, netVars, peerVars,
           Send, IsOpen, TypeOK, BufferInv, OneRead, HasPasswordKey
    <2>4. WireInv'
      BY <1>8 DEF IInv, WireInv, ChallengeProved, HandlerUnchanged,
           startVars, bufVars, logVars, netVars, peerVars, Send, IsOpen
    <2>5. OfflineInv'
      BY <1>8 DEF IInv, OfflineInv, BufferInv, OneRead, ChallengeProved,
           HandlerUnchanged, startVars, bufVars, logVars, netVars, peerVars,
           Send, IsOpen
    <2> QED
      BY <2>1, <2>2, <2>3, <2>4, <2>5 DEF IInv
  <1>9. CASE ProofFailed
    <2>1. TypeOK'
      BY <1>9 DEF IInv, TypeOK, ProofFailed, HandlerUnchanged, startVars,
           bufVars, logVars, netVars, peerVars, CloseWith, InStep, Parsing,
           ProofHeaderSize
    <2>2. BufferInv'
      BY <1>9 DEF IInv, BufferInv, OneRead, ProofFailed, HandlerUnchanged,
           startVars, bufVars, logVars, netVars, peerVars, CloseWith, InStep,
           Parsing, TypeOK
    <2>3. LogInv'
      BY <1>9 DEF IInv, LogInv, MutualAuth, ProofFailed, HandlerUnchanged,
           startVars, bufVars, logVars, netVars, peerVars, CloseWith, InStep,
           Parsing, TypeOK, BufferInv, OneRead
    <2>4. WireInv'
      BY <1>9 DEF IInv, WireInv, ProofFailed, HandlerUnchanged, startVars,
           bufVars, logVars, netVars, peerVars, CloseWith, InStep, Parsing
    <2>5. OfflineInv'
      BY <1>9 DEF IInv, OfflineInv, BufferInv, OneRead, ProofFailed,
           HandlerUnchanged, startVars, bufVars, logVars, netVars, peerVars,
           CloseWith, InStep, Parsing
    <2> QED
      BY <2>1, <2>2, <2>3, <2>4, <2>5 DEF IInv
  <1>10. CASE ProofAccepted
    <2>1. TypeOK'
      BY <1>10 DEF IInv, TypeOK, ProofAccepted, HandlerUnchanged, startVars,
           bufVars, logVars, netVars, peerVars, M2Matches, Parsing, InStep,
           Refused, ActualSize, ProofSize
    <2>2. BufferInv'
      BY <1>10 DEF IInv, BufferInv, OneRead, ProofAccepted, HandlerUnchanged,
           startVars, bufVars, logVars, netVars, peerVars, M2Matches,
           Parsing, InStep, Refused, ActualSize, TypeOK, Command, ProofSize,
           ChallengeSize
    <2>3. LogInv'
      BY <1>10 DEF IInv, LogInv, MutualAuth, ProofAccepted, HandlerUnchanged,
           startVars, bufVars, logVars, netVars, peerVars, M2Matches,
           Parsing, InStep, Refused, ActualSize, TypeOK, BufferInv, WireInv,
           Inside
    <2>4. WireInv'
      BY <1>10 DEF IInv, WireInv, ProofAccepted, HandlerUnchanged, startVars,
           bufVars, logVars, netVars, peerVars, M2Matches, Parsing, InStep,
           Refused, ActualSize
    <2>5. OfflineInv'
      BY <1>10 DEF IInv, OfflineInv, BufferInv, OneRead, ProofAccepted,
           HandlerUnchanged, startVars, bufVars, logVars, netVars, peerVars,
           M2Matches, Parsing, InStep, Refused, ActualSize
    <2> QED
      BY <2>1, <2>2, <2>3, <2>4, <2>5 DEF IInv
  <1>11. CASE ProofRejected
    <2>1. TypeOK'
      BY <1>11 DEF IInv, TypeOK, ProofRejected, HandlerUnchanged, startVars,
           bufVars, logVars, netVars, peerVars, CloseWith, InStep, Parsing
    <2>2. BufferInv'
      BY <1>11 DEF IInv, BufferInv, OneRead, ProofRejected, HandlerUnchanged,
           startVars, bufVars, logVars, netVars, peerVars, CloseWith, InStep,
           Parsing, TypeOK
    <2>3. LogInv'
      BY <1>11 DEF IInv, LogInv, MutualAuth, ProofRejected, HandlerUnchanged,
           startVars, bufVars, logVars, netVars, peerVars, CloseWith, InStep,
           Parsing, TypeOK, BufferInv, OneRead
    <2>4. WireInv'
      BY <1>11 DEF IInv, WireInv, ProofRejected, HandlerUnchanged, startVars,
           bufVars, logVars, netVars, peerVars, CloseWith, InStep, Parsing
    <2>5. OfflineInv'
      BY <1>11 DEF IInv, OfflineInv, BufferInv, OneRead, ProofRejected,
           HandlerUnchanged, startVars, bufVars, logVars, netVars, peerVars,
           CloseWith, InStep, Parsing
    <2> QED
      BY <2>1, <2>2, <2>3, <2>4, <2>5 DEF IInv
  <1> QED
    BY <1>1, <1>2, <1>3, <1>4, <1>5, <1>6, <1>7, <1>8, <1>9, <1>10, <1>11 DEF
         HandleRead

\* A step of the network or of the server keeps the invariant.
LEMMA EnvironmentKeepsInv ==
    ASSUME IInv, Arrive \/ Server \/ \E p \in Packets : Transmit(p)
    PROVE  IInv'
  <1>1. CASE Arrive
    <2>1. TypeOK'
      <3> DEFINE m    == Head(wire)
                 gone == SizeOf(m.kind) - m.left
      <3>1. wire # <<>> /\ wire \in Seq([kind : Replies, left : Nat])
        BY <1>1 DEF Arrive, IInv, TypeOK
      <3>2. m \in [kind : Replies, left : Nat] /\ m = wire[1] /\ 1 \in 1..Len(wire)
        <4>1. 1 \in 1..Len(wire)
          BY <3>1
        <4>2. wire[1] \in [kind : Replies, left : Nat]
          <5> DEFINE R == [kind : Replies, left : Nat]
          <5>1. wire \in Seq(R)
            BY <3>1
          <5> HIDE DEF R
          <5>2. wire[1] \in R
            BY <4>1, <5>1
          <5> QED
            BY <5>2 DEF R
        <4>3. m = wire[1]
          BY <3>1
        <4> QED
          BY <4>1, <4>2, <4>3
      <3>3. gone \in Int
        BY <3>2, SizeOfType
      <3>4. PICK n \in {m.left} \cup {cut - gone : cut \in Cuts \cap (gone + 1)..(gone + m.left)} :
               /\ kernel' = kernel + n
               /\ kernelHead' = IF kernel > 0 THEN kernelHead
                                ELSE IF gone = 0 THEN m.kind ELSE "inside"
               /\ wire' = IF n = m.left THEN Tail(wire)
                          ELSE [wire EXCEPT ![1].left = m.left - n]
        BY <1>1 DEF Arrive
      <3>5. n \in Nat /\ n <= m.left
        <4>1. CASE n = m.left
          BY <4>1, <3>2
        <4>2. CASE n # m.left
          <5>1. PICK cut \in Cuts \cap (gone + 1)..(gone + m.left) : n = cut - gone
            BY <3>4, <4>2
          <5> QED
            BY <5>1, <3>2, <3>3
        <4> QED
          BY <4>1, <4>2
      <3>6. wire' \in Seq([kind : Replies, left : Nat])
        <4>1. CASE n = m.left
          BY <4>1, <3>1, <3>4
        <4>2. CASE n # m.left
          <5>1. [wire[1] EXCEPT !.left = m.left - n] \in [kind : Replies, left : Nat]
            BY <3>2, <3>5
          <5> QED
            BY <4>2, <5>1, <3>1, <3>2, <3>4
        <4> QED
          BY <4>1, <4>2
      <3>7. kernel' \in Nat /\ kernelHead' \in KernelHeads
        <4>1. kernel' \in Nat
          BY <3>4, <3>5 DEF IInv, TypeOK
        <4>2. kernelHead \in KernelHeads /\ m.kind \in KernelHeads /\ "inside" \in KernelHeads
          BY <3>2 DEF IInv, TypeOK, KernelHeads
        <4> QED
          BY <3>4, <4>1, <4>2
      <3> QED
        BY <1>1, <3>6, <3>7
           DEF Arrive, ClientUnchanged, startVars, bufVars, logVars, peerVars,
               IInv, TypeOK
    <2>2. BufferInv'
      BY <1>1 DEF IInv, BufferInv, OneRead, Arrive, ClientUnchanged,
           startVars, bufVars, logVars, netVars, peerVars
    <2>3. LogInv'
      BY <1>1 DEF IInv, LogInv, MutualAuth, Arrive, ClientUnchanged,
           startVars, bufVars, logVars, netVars, peerVars
    <2>4. WireInv'
      <3>1. wire # <<>> /\ wire \in Seq([kind : Replies, left : Nat])
        BY <1>1 DEF Arrive, IInv, TypeOK
      <3>2. Head(wire) = wire[1] /\ 1 \in DOMAIN wire
        BY <3>1
      <3>3. sent' = sent /\ head' = head
        BY <1>1 DEF Arrive, ClientUnchanged, peerVars, bufVars
      <3>4. kernelHead' \in {kernelHead, wire[1].kind, "inside"}
        BY <1>1, <3>2 DEF Arrive
      <3>5. \A i \in DOMAIN wire' : \E j \in DOMAIN wire : wire'[i].kind = wire[j].kind
        <4>1. CASE wire' = Tail(wire)
          BY <4>1, <3>1
        <4>2. CASE \E k : wire' = [wire EXCEPT ![1].left = k]
          BY <4>2, <3>1, <3>2
        <4> QED
          BY <1>1, <4>1, <4>2 DEF Arrive
      <3> QED
        BY <3>2, <3>3, <3>4, <3>5 DEF IInv, WireInv
    <2>5. OfflineInv'
      BY <1>1 DEF IInv, OfflineInv, BufferInv, OneRead, Arrive,
           ClientUnchanged, startVars, bufVars, logVars, netVars, peerVars
    <2> QED
      BY <2>1, <2>2, <2>3, <2>4, <2>5 DEF IInv
  <1>2. CASE ReplyChallenge
    <2>1. TypeOK'
      BY <1>2, SizeOfType DEF IInv, TypeOK, ReplyChallenge, ClientUnchanged,
           startVars, bufVars, logVars, netVars, peerVars, ServerSends,
           Replies, Packets
    <2>2. BufferInv'
      BY <1>2 DEF IInv, BufferInv, OneRead, ReplyChallenge, ClientUnchanged,
           startVars, bufVars, logVars, netVars, peerVars, ServerSends
    <2>3. LogInv'
      BY <1>2 DEF IInv, LogInv, MutualAuth, ReplyChallenge, ClientUnchanged,
           startVars, bufVars, logVars, netVars, peerVars, ServerSends
    <2>4. WireInv'
      BY <1>2 DEF IInv, WireInv, ReplyChallenge, ClientUnchanged, startVars,
           bufVars, logVars, netVars, peerVars, ServerSends, TypeOK
    <2>5. OfflineInv'
      BY <1>2 DEF IInv, OfflineInv, BufferInv, OneRead, ReplyChallenge,
           ClientUnchanged, startVars, bufVars, logVars, netVars, peerVars,
           ServerSends
    <2> QED
      BY <2>1, <2>2, <2>3, <2>4, <2>5 DEF IInv
  <1>3. CASE ReplyProof
    <2>1. TypeOK'
      BY <1>3, SizeOfType DEF IInv, TypeOK, ReplyProof, ClientUnchanged,
           startVars, bufVars, logVars, netVars, peerVars, ServerSends,
           Replies, Packets
    <2>2. BufferInv'
      BY <1>3 DEF IInv, BufferInv, OneRead, ReplyProof, ClientUnchanged,
           startVars, bufVars, logVars, netVars, peerVars, ServerSends
    <2>3. LogInv'
      BY <1>3 DEF IInv, LogInv, MutualAuth, ReplyProof, ClientUnchanged,
           startVars, bufVars, logVars, netVars, peerVars, ServerSends
    <2>4. WireInv'
      BY <1>3 DEF IInv, WireInv, ReplyProof, ClientUnchanged, startVars,
           bufVars, logVars, netVars, peerVars, ServerSends, TypeOK
    <2>5. OfflineInv'
      BY <1>3 DEF IInv, OfflineInv, BufferInv, OneRead, ReplyProof,
           ClientUnchanged, startVars, bufVars, logVars, netVars, peerVars,
           ServerSends
    <2> QED
      BY <2>1, <2>2, <2>3, <2>4, <2>5 DEF IInv
  <1>4. CASE SendStray
    <2>1. TypeOK'
      BY <1>4, SizeOfType DEF IInv, TypeOK, SendStray, ClientUnchanged,
           startVars, bufVars, logVars, netVars, peerVars, ServerSends,
           Replies, Packets
    <2>2. BufferInv'
      BY <1>4 DEF IInv, BufferInv, OneRead, SendStray, ClientUnchanged,
           startVars, bufVars, logVars, netVars, peerVars, ServerSends
    <2>3. LogInv'
      BY <1>4 DEF IInv, LogInv, MutualAuth, SendStray, ClientUnchanged,
           startVars, bufVars, logVars, netVars, peerVars, ServerSends
    <2>4. WireInv'
      BY <1>4 DEF IInv, WireInv, SendStray, ClientUnchanged, startVars,
           bufVars, logVars, netVars, peerVars, ServerSends, TypeOK
    <2>5. OfflineInv'
      BY <1>4 DEF IInv, OfflineInv, BufferInv, OneRead, SendStray,
           ClientUnchanged, startVars, bufVars, logVars, netVars, peerVars,
           ServerSends
    <2> QED
      BY <2>1, <2>2, <2>3, <2>4, <2>5 DEF IInv
  <1>5. CASE Finish
    <2>1. TypeOK'
      BY <1>5 DEF IInv, TypeOK, Finish, ClientUnchanged, startVars, bufVars,
           logVars, netVars, peerVars
    <2>2. BufferInv'
      BY <1>5 DEF IInv, BufferInv, OneRead, Finish, ClientUnchanged,
           startVars, bufVars, logVars, netVars, peerVars
    <2>3. LogInv'
      BY <1>5 DEF IInv, LogInv, MutualAuth, Finish, ClientUnchanged,
           startVars, bufVars, logVars, netVars, peerVars
    <2>4. WireInv'
      BY <1>5 DEF IInv, WireInv, Finish, ClientUnchanged, startVars, bufVars,
           logVars, netVars, peerVars
    <2>5. OfflineInv'
      BY <1>5 DEF IInv, OfflineInv, BufferInv, OneRead, Finish,
           ClientUnchanged, startVars, bufVars, logVars, netVars, peerVars
    <2> QED
      BY <2>1, <2>2, <2>3, <2>4, <2>5 DEF IInv
  <1>6. CASE Reset
    <2>1. TypeOK'
      BY <1>6 DEF IInv, TypeOK, Reset, ClientUnchanged, startVars, bufVars,
           logVars, netVars, peerVars, KernelHeads
    <2>2. BufferInv'
      BY <1>6 DEF IInv, BufferInv, OneRead, Reset, ClientUnchanged,
           startVars, bufVars, logVars, netVars, peerVars
    <2>3. LogInv'
      BY <1>6 DEF IInv, LogInv, MutualAuth, Reset, ClientUnchanged,
           startVars, bufVars, logVars, netVars, peerVars
    <2>4. WireInv'
      BY <1>6 DEF IInv, WireInv, Reset, ClientUnchanged, startVars, bufVars,
           logVars, netVars, peerVars
    <2>5. OfflineInv'
      BY <1>6 DEF IInv, OfflineInv, BufferInv, OneRead, Reset,
           ClientUnchanged, startVars, bufVars, logVars, netVars, peerVars
    <2> QED
      BY <2>1, <2>2, <2>3, <2>4, <2>5 DEF IInv
  <1>7. ASSUME NEW p \in Packets, Transmit(p)
        PROVE  IInv'
    <2>1. TypeOK'
      BY <1>7 DEF IInv, TypeOK, Transmit, ClientUnchanged, startVars,
           bufVars, logVars, netVars, peerVars
    <2>2. BufferInv'
      BY <1>7 DEF IInv, BufferInv, OneRead, Transmit, ClientUnchanged,
           startVars, bufVars, logVars, netVars, peerVars
    <2>3. LogInv'
      BY <1>7 DEF IInv, LogInv, MutualAuth, Transmit, ClientUnchanged,
           startVars, bufVars, logVars, netVars, peerVars
    <2>4. WireInv'
      BY <1>7 DEF IInv, WireInv, Transmit, ClientUnchanged, startVars,
           bufVars, logVars, netVars, peerVars
    <2>5. OfflineInv'
      BY <1>7 DEF IInv, OfflineInv, BufferInv, OneRead, Transmit,
           ClientUnchanged, startVars, bufVars, logVars, netVars, peerVars
    <2> QED
      BY <2>1, <2>2, <2>3, <2>4, <2>5 DEF IInv
  <1> QED
    BY <1>1, <1>2, <1>3, <1>4, <1>5, <1>6, <1>7 DEF Server

\* Every step keeps the invariant.
THEOREM StepKeepsInv == IInv /\ [Next]_vars => IInv'
  <1> SUFFICES ASSUME IInv, [Next]_vars PROVE IInv'
    OBVIOUS
  <1>1. CASE Start
    BY <1>1, StartKeepsInv
  <1>2. CASE ReadCompletes \/ ReadFails \/ \E p \in Packets : WriteCompletes(p)
    BY <1>2, CompletionKeepsInv
  <1>3. CASE HandleRead
    BY <1>3, HandleReadKeepsInv
  <1>4. CASE Arrive \/ Server \/ \E p \in Packets : Transmit(p)
    BY <1>4, EnvironmentKeepsInv
  <1>5. CASE UNCHANGED vars
    BY <1>5 DEF vars, IInv, TypeOK, BufferInv, OneRead, LogInv, MutualAuth,
                WireInv, OfflineInv
  <1> QED
    BY <1>1, <1>2, <1>3, <1>4, <1>5 DEF Next

\* The invariant holds in every state of every behaviour.
THEOREM Invariance == Spec => []IInv
  BY InitInv, StepKeepsInv, PTL DEF Spec

-----------------------------------------------------------------------------
\* Type correctness: in particular the positions of the buffer never become
\* negative, whatever HandleRead skips (NovusConnection.cpp:150).
THEOREM TypeCorrect == Spec => []TypeOK
  <1>1. IInv => TypeOK
    BY DEF IInv
  <1> QED
    BY <1>1, Invariance, PTL

\* The buffer has one owner (BaseSocket.h:62-85).
THEOREM OneReadHolds == Spec => []OneRead
  <1>1. IInv => OneRead
    BY DEF IInv, BufferInv
  <1> QED
    BY <1>1, Invariance, PTL

\* A read that is outstanding has the room BaseSocket.h:67-70 gives it.
THEOREM ReadHasRoomHolds == Spec => []ReadHasRoom
  <1>1. IInv => ReadHasRoom
    BY DEF IInv, TypeOK, BufferInv, ReadHasRoom
  <1> QED
    BY <1>1, Invariance, PTL

\* Only a login that both ends have proved is authenticated
\* (NovusConnection.cpp:275-289), for any cuts and any stray messages.
THEOREM MutualAuthHolds == Spec => []MutualAuth
  <1>1. IInv => MutualAuth
    BY DEF IInv, LogInv
  <1> QED
    BY <1>1, Invariance, PTL

\* Scripts hear of at most one challenge per connection
\* (NovusConnection.cpp:115 and :162).
THEOREM HookOnceHolds == Spec => []HookOnce
  <1>1. IInv => HookOnce
    BY DEF IInv, LogInv, HookOnce
  <1> QED
    BY <1>1, Invariance, PTL

\* A login made from a packet callback has its credentials in place before
\* they are used (NovusConnection.cpp:56-66).
THEOREM CredentialsOnIoHolds == Spec => []CredentialsOnIo
  <1>1. IInv => CredentialsOnIo
    BY DEF IInv, TypeOK, LogInv, CredentialsOnIo, HasPasswordKey
  <1> QED
    BY <1>1, Invariance, PTL

\* A closed connection arms no read and sends no packet
\* (BaseSocket.h:65-66, and async_write_some on a closed socket).
THEOREM ClosingIsFinalHolds == Spec => ClosingIsFinal
  <1> DEFINE Final == closed => /\ closed' /\ reads' <= reads
                                /\ \A p \in Packets :
                                      write'[p] = "queued" => write[p] = "queued"
  <1>1. ASSUME IInv, Next, closed
        PROVE  closed' /\ reads' <= reads
    <2>1. reads \in Nat /\ closed \in BOOLEAN
      BY <1>1 DEF IInv, TypeOK
    <2>2. CASE Start
      <3>1. closed' = closed
        BY <2>2 DEF Start, Connect, ConnectFails, ArmFirstRead, SendChallenge,
                    StoreUsername, StorePasswordKey
      <3>2. reads' = reads
        BY <1>1, <2>2
           DEF Start, Connect, ConnectFails, ArmFirstRead, SendChallenge,
               StoreUsername, StorePasswordKey, AsyncRead, IsOpen
      <3> QED
        BY <1>1, <2>1, <3>1, <3>2
    <2>3. CASE ReadCompletes
      <3>1. closed' = closed /\ reads' = reads - 1
        BY <2>3 DEF ReadCompletes
      <3> QED
        BY <1>1, <2>1, <3>1
    <2>4. CASE ReadFails
      <3>1. closed' = TRUE /\ reads' = reads - 1
        BY <2>4 DEF ReadFails
      <3> QED
        BY <2>1, <3>1
    <2>5. ASSUME NEW p \in Packets, WriteCompletes(p)
          PROVE  closed' /\ reads' <= reads
      <3>1. closed' = (closed \/ write[p] = "error") /\ reads' = reads
        BY <2>5 DEF WriteCompletes
      <3>2. closed'
        BY <1>1, <3>1, Zenon
      <3> QED
        BY <2>1, <3>1, <3>2
    <2>6. CASE LoopExits \/ UnknownCommand \/ TooShort
      <3>1. closed' = closed
        BY <2>6 DEF LoopExits, UnknownCommand, TooShort
      <3>2. reads' = reads
        BY <1>1, <2>6
           DEF LoopExits, UnknownCommand, TooShort, Rearm, AsyncRead, IsOpen
      <3> QED
        BY <1>1, <2>1, <3>1, <3>2
    <2>7. CASE OutOfStep \/ ChallengeFailed \/ MultipleOfN \/ ProofFailed
               \/ ProofRejected
      <3>1. closed' = TRUE /\ reads' = reads
        BY <2>7 DEF OutOfStep, ChallengeFailed, MultipleOfN, ProofFailed,
                    ProofRejected, CloseWith
      <3> QED
        BY <2>1, <3>1
    <2>8. CASE ChallengeBegins \/ ChallengeProved \/ ProofAccepted
               \/ Arrive \/ Server \/ \E p \in Packets : Transmit(p)
      <3>1. closed' = closed /\ reads' = reads
        BY <2>8 DEF ChallengeBegins, ChallengeProved, ProofAccepted, Arrive,
                    Server, ReplyChallenge, ReplyProof, SendStray, ServerSends,
                    Finish, Reset, Transmit, ClientUnchanged
      <3> QED
        BY <1>1, <2>1, <3>1
    <2> QED
      BY <1>1, <2>2, <2>3, <2>4, <2>5, <2>6, <2>7, <2>8 DEF Next, HandleRead
  <1>2. ASSUME IInv, Next, closed, NEW p \in Packets, write'[p] = "queued"
        PROVE  write[p] = "queued"
    <2>1. write \in [Packets -> {"none", "queued", "whole", "damaged", "error"}]
      BY <1>2 DEF IInv, TypeOK
    <2>2. ~IsOpen
      BY <1>2 DEF IsOpen
    <2>3. CASE \E q \in Packets : Send(q)
      BY <1>2, <2>1, <2>2, <2>3 DEF Send
    <2>4. CASE \E q \in Packets : Transmit(q)
      <3>1. PICK q \in Packets, fate \in {"whole", "damaged", "error"} :
               write' = [write EXCEPT ![q] = fate]
        BY <2>4 DEF Transmit
      <3> QED
        BY <1>2, <2>1, <3>1
    <2>5. CASE UNCHANGED write
      BY <1>2, <2>5
    <2>6. (\E q \in Packets : Send(q) \/ Transmit(q)) \/ UNCHANGED write
      <3>1. CASE Start
        BY <3>1 DEF Start, Connect, ConnectFails, ArmFirstRead, SendChallenge,
                    StoreUsername, StorePasswordKey, Packets
      <3>2. CASE ReadCompletes \/ ReadFails \/ \E q \in Packets : WriteCompletes(q)
        BY <3>2 DEF ReadCompletes, ReadFails, WriteCompletes
      <3>3. CASE HandleRead
        BY <3>3 DEF HandleRead, LoopExits, UnknownCommand, OutOfStep, TooShort,
                    ChallengeFailed, ChallengeBegins, MultipleOfN,
                    ChallengeProved, ProofFailed, ProofAccepted, ProofRejected,
                    Packets
      <3>4. CASE Arrive \/ Server
        BY <3>4 DEF Arrive, Server, ReplyChallenge, ReplyProof, SendStray,
                    ServerSends, Finish, Reset
      <3> QED
        BY <1>2, <3>1, <3>2, <3>3, <3>4 DEF Next
    <2> QED
      BY <2>3, <2>4, <2>5, <2>6
  <1>3. IInv /\ [Next]_vars => [Final]_vars
    BY <1>1, <1>2
  <1> QED
    BY <1>3, Invariance, PTL DEF Spec, ClosingIsFinal

-----------------------------------------------------------------------------
\* Connection implements LoginProtocol.

\* The initial states are the protocol's.
LEMMA LoginInit == Init => Login!Init
  BY DEF Init, Login!Init, LoginPhase

\* A step that leaves closed, status and matched alone, and the spc of a
\* connection that is made, is no step of the protocol.
LEMMA LoginStutters ==
    ASSUME UNCHANGED <<closed, status, matched>>,
           spc \in {"new", "failed"} <=> spc' \in {"new", "failed"}
    PROVE  UNCHANGED Login!vars
  BY DEF Login!vars, LoginPhase, PhaseOf

\* A step after which the connection is closed ends the protocol, or is none.
LEMMA LoginEnds ==
    ASSUME TypeOK, spc \notin {"new", "failed"}, closed', UNCHANGED <<spc, matched>>
    PROVE  [Login!Next]_(Login!vars)
  <1>1. CASE closed
    BY <1>1 DEF Login!vars, LoginPhase
  <1>2. CASE ~closed
    <2>1. LoginPhase \in {"challenge", "proof", "authed"}
      BY <1>2 DEF TypeOK, LoginPhase, PhaseOf
    <2>2. LoginPhase' = "ended"
      BY DEF LoginPhase
    <2> QED
      BY <2>1, <2>2 DEF Login!Next, Login!End
  <1> QED
    BY <1>1, <1>2

\* Every step of a connection is a step of the abstract login, or none of it.
LEMMA LoginStep ==
    ASSUME IInv, [Next]_vars
    PROVE  [Login!Next]_(Login!vars)
  <1> USE DEF IInv
  <1>1. CASE Connect
    <2>1. LoginPhase = "offline" /\ LoginPhase' = "challenge" /\ matched' = matched
      BY <1>1 DEF Connect, OfflineInv, LoginPhase, PhaseOf, logVars
    <2> QED
      BY <2>1 DEF Login!Next, Login!Connect
  <1>2. CASE Start /\ ~Connect
    <2>1. /\ UNCHANGED <<closed, status, matched>>
          /\ spc \in {"new", "failed"} <=> spc' \in {"new", "failed"}
      BY <1>2 DEF Start, ConnectFails, ArmFirstRead, SendChallenge,
                  StoreUsername, StorePasswordKey, logVars
    <2> QED
      BY <2>1, LoginStutters
  <1>3. CASE ReadCompletes \/ LoopExits \/ UnknownCommand \/ TooShort
             \/ ChallengeProved \/ Arrive \/ Server
             \/ \E p \in Packets : Transmit(p)
    <2>1. UNCHANGED <<closed, status, matched, spc>>
      BY <1>3 DEF ReadCompletes, LoopExits, UnknownCommand, TooShort,
                  ChallengeProved, Arrive, Server, ReplyChallenge, ReplyProof,
                  SendStray, ServerSends, Finish, Reset, Transmit,
                  ClientUnchanged, HandlerUnchanged, logVars, startVars
    <2> QED
      BY <2>1, LoginStutters
  <1>4. CASE ReadFails
    BY <1>4, LoginEnds DEF ReadFails, BufferInv, TypeOK, logVars, startVars
  <1>5. ASSUME NEW p \in Packets, WriteCompletes(p)
        PROVE  [Login!Next]_(Login!vars)
    <2>1. spc \notin {"new", "failed"} /\ UNCHANGED <<spc, status, matched>>
      BY <1>5 DEF WriteCompletes, OfflineInv, logVars, startVars
    <2>2. CASE closed'
      BY <2>1, <2>2, LoginEnds
    <2>3. CASE ~closed'
      <3>1. closed' = closed
        BY <1>5, <2>3 DEF WriteCompletes, TypeOK
      <3> QED
        BY <2>1, <3>1, LoginStutters
    <2> QED
      BY <2>2, <2>3
  <1>6. CASE OutOfStep \/ ChallengeFailed \/ MultipleOfN \/ ProofFailed
             \/ ProofRejected
    <2>1. spc \notin {"new", "failed"}
      BY <1>6 DEF OutOfStep, ChallengeFailed, MultipleOfN, ProofFailed,
                  ProofRejected, InStep, Parsing, BufferInv
    <2>2. closed' /\ UNCHANGED <<spc, matched>>
      BY <1>6 DEF OutOfStep, ChallengeFailed, MultipleOfN, ProofFailed,
                  ProofRejected, CloseWith, HandlerUnchanged, startVars
    <2> QED
      BY <2>1, <2>2, LoginEnds
  <1>7. CASE ChallengeBegins
    <2>1. /\ spc \notin {"new", "failed"} /\ status = "CHALLENGE"
          /\ status' = "PROOF" /\ UNCHANGED <<spc, closed, matched>>
      BY <1>7 DEF ChallengeBegins, InStep, Parsing, BufferInv,
                  HandlerUnchanged, startVars
    <2>2. CASE closed
      BY <2>1, <2>2 DEF LoginPhase, Login!vars
    <2>3. CASE ~closed
      <3>1. LoginPhase = "challenge" /\ LoginPhase' = "proof"
        BY <2>1, <2>3 DEF LoginPhase, PhaseOf
      <3> QED
        BY <2>1, <3>1 DEF Login!Next, Login!Challenged
    <2> QED
      BY <2>2, <2>3
  <1>8. CASE ProofAccepted
    <2>1. /\ spc \notin {"new", "failed"} /\ status = "PROOF"
          /\ status' = "AUTHED" /\ matched' = TRUE /\ UNCHANGED <<spc, closed>>
      BY <1>8 DEF ProofAccepted, InStep, Parsing, BufferInv,
                  HandlerUnchanged, startVars
    <2>2. CASE closed
      <3>1. LoginPhase = "ended" /\ LoginPhase' = "ended"
        BY <2>1, <2>2 DEF LoginPhase
      <3> QED
        BY <2>1, <3>1 DEF Login!Next, Login!LateProof
    <2>3. CASE ~closed
      <3>1. LoginPhase = "proof" /\ LoginPhase' = "authed"
        BY <2>1, <2>3 DEF LoginPhase, PhaseOf
      <3> QED
        BY <2>1, <3>1 DEF Login!Next, Login!Authenticate
    <2> QED
      BY <2>2, <2>3
  <1>9. CASE UNCHANGED vars
    BY <1>9, LoginStutters DEF vars
  <1> QED
    BY <1>1, <1>2, <1>3, <1>4, <1>5, <1>6, <1>7, <1>8, <1>9
       DEF Next, HandleRead

\* A connection goes through the phases of LoginProtocol and no others,
\* whatever the network and the server do.
THEOREM LoginImplemented == Spec => LoginSpec
  BY LoginInit, LoginStep, Invariance, PTL DEF Spec, LoginSpec, Login!Spec

-----------------------------------------------------------------------------
\* A server that answers in turn: what the connection says of it is true when the
\* network cuts no message where HandleRead is misled.  The invariant follows the
\* reply through wire, kernel and buffer as long as the server has sent nothing
\* out of turn.

\* The replies to a packet.
RepliesTo(p) == IF p = "challenge" THEN {"challengeOk", "challengeFail"}
                                   ELSE {"proofOk", "proofForged", "proofFail"}

\* What the server has sent, when it answers in turn.
Replied ==
    /\ spc \in {"new", "failed", "connected", "armed"} => write["challenge"] = "none"
    /\ proof = "none" => write["proof"] = "none"
    /\ \A p \in answered : write[p] = "whole"
    /\ \A p \in Packets \ answered : sent \cap RepliesTo(p) = {}
    /\ "other" \notin sent
    /\ "proofOk" \in sent => proof = "good"

\* How far the login has come.
Advanced ==
    /\ status = "CHALLENGE" \/ ipc = "prove" => proof = "none"
    /\ status # "CHALLENGE" => "challenge" \in answered
    /\ status = "AUTHED" => "proof" \in answered /\ proof # "none"

\* Where a network that cuts messages at Cuts may leave the first got bytes of one.
CutOf(got, k) == got \in {0, SizeOf(k)} \cup Cuts /\ got <= SizeOf(k)

\* Of the reply to p, the buffer has the first w bytes, the kernel those that
\* follow and the wire the rest; or the rest is lost.
ReplyUnderWay(p, w, k) ==
    /\ w > 0 => head = k
    /\ kernel > 0 => kernelHead = IF w = 0 THEN k ELSE "inside"
    /\ CutOf(w, k) /\ CutOf(w + kernel, k)
    /\ \/ wire = <<>>
       \/ /\ wire = <<[kind |-> k, left |-> SizeOf(k) - (w + kernel)]>>
          /\ w + kernel < SizeOf(k)

Stream(p, w) ==
    IF p \in answered THEN \E k \in sent \cap RepliesTo(p) : ReplyUnderWay(p, w, k)
                      ELSE wire = <<>> /\ kernel = 0 /\ w = 0

\* The buffer is still read, or will be.
Hears == reads > 0 \/ ipc # "idle" \/ spc \in {"new", "connected"}

\* The bytes of the message the client waits for, by its status.
Positioned ==
    Hears =>
        /\ status # "AUTHED" => bufSize = BufferSize
        /\ proof = "none" => Stream("challenge", writePos)
        /\ IF ipc = "prove" THEN writePos > ChallengeHeaderSize
           ELSE status = "PROOF" => proof # "none"
        /\ status = "PROOF" /\ proof # "none" =>
               IF readPos = 0 THEN Stream("proof", writePos)
               ELSE \/ writePos = ChallengeSize /\ Stream("proof", 0)
                    \/ writePos \in Cuts \cap (ChallengeHeaderSize + 1)..(ChallengeSize - 1)

TurnInv == strays = 0 => Replied /\ Advanced /\ Positioned

\* Where the positions stand in HandleRead's loop, and that the cut to 32 bits
\* does no harm there (ByteBuffer.h, GetActualSize).
LEMMA AtCommand ==
    ASSUME IInv, ipc = "parse"
    PROVE  /\ readPos \in Nat /\ writePos \in Nat /\ reads = 0
           /\ spc \notin {"new", "failed", "connected"}
           /\ ActualSize \in Nat
           /\ ActualSize = 0 <=> writePos = readPos
           /\ readPos = 0 => ActualSize = writePos
           /\ \/ readPos = 0
              \/ status = "PROOF" /\ Command(head) = "CHALLENGE" /\ readPos = ChallengeSize
              \/ status = "AUTHED" /\ Command(head) = "PROOF" /\ readPos = ProofSize
  <1>1. /\ readPos \in Nat /\ writePos \in Nat /\ reads = 0
        /\ spc \notin {"new", "failed", "connected"}
        /\ \/ readPos = 0
           \/ status = "PROOF" /\ Command(head) = "CHALLENGE" /\ readPos = ChallengeSize
           \/ status = "AUTHED" /\ Command(head) = "PROOF" /\ readPos = ProofSize
    BY DEF IInv, TypeOK, BufferInv, OneRead
  <1>2. readPos < U32Wrap
    BY <1>1, U32WrapAssumption DEF ChallengeSize, ProofSize
  <1>3. /\ ActualSize \in Nat
        /\ ActualSize = 0 <=> writePos = readPos
        /\ readPos = 0 => ActualSize = writePos
    BY <1>1, <1>2, U32WrapAssumption DEF ActualSize
  <1> QED
    BY <1>1, <1>3

\* A reply has more bytes than its header when it is a success (the sizes of
\* NovusConnection.h), and its command is that of the packet it answers.
LEMMA ReplyKinds ==
    ASSUME NEW p \in Packets, NEW k \in RepliesTo(p)
    PROVE  /\ k \in Replies /\ k \notin Inside /\ k # "inside" /\ k # "none"
           /\ SizeOf(k) \in Nat /\ SizeOf(k) > 0 /\ SizeOf(k) <= BufferSize
           /\ p = "challenge" => /\ Command(k) = "CHALLENGE"
                                 /\ SizeOf(k) = IF k = "challengeOk" THEN 119 ELSE 3
           /\ p = "proof" => /\ Command(k) = "PROOF"
                             /\ SizeOf(k) = IF k = "proofFail" THEN 4 ELSE ProofReplySize
  <1>1. \/ p = "challenge" /\ k \in {"challengeOk", "challengeFail"}
        \/ p = "proof" /\ k \in {"proofOk", "proofForged", "proofFail"}
    BY DEF Packets, RepliesTo
  <1>2. k \in Replies /\ k \notin Inside /\ k # "inside" /\ k # "none"
    BY <1>1 DEF Replies, Inside
  <1>3. Command(k) = IF p = "challenge" THEN "CHALLENGE" ELSE "PROOF"
    BY <1>1 DEF Command
  <1>4. /\ p = "challenge" => SizeOf(k) = IF k = "challengeOk" THEN 119 ELSE 3
        /\ p = "proof" => SizeOf(k) = IF k = "proofFail" THEN 4 ELSE ProofReplySize
    BY <1>1 DEF SizeOf, ChallengeSize, ChallengeHeaderSize, ProofHeaderSize
  <1>5. SizeOf(k) \in Nat /\ SizeOf(k) > 0 /\ SizeOf(k) <= BufferSize
    <2>1. SizeOf(k) \in {119, 3, 4, ProofReplySize}
      BY <1>1, <1>4
    <2>2. ProofReplySize \in Nat /\ ProofReplySize > 0 /\ ProofReplySize <= 4096
      BY ProofReplySizeAssumption
    <2> QED
      BY <2>1, <2>2 DEF BufferSize
  <1> QED
    BY <1>1, <1>2, <1>3, <1>4, <1>5

\* What is unchanged of the reply's places keeps the reply.
LEMMA StreamKept ==
    ASSUME UNCHANGED <<wire, kernel, kernelHead, sent, answered>>,
           NEW p, NEW w, NEW v, Stream(p, w), v = w, w > 0 => head' = head
    PROVE  Stream(p, v)'
  <1>1. CASE p \in answered
    <2>1. PICK k \in sent \cap RepliesTo(p) : ReplyUnderWay(p, w, k)
      BY <1>1 DEF Stream
    <2>2. ReplyUnderWay(p, v, k)'
      BY <2>1 DEF ReplyUnderWay, CutOf
    <2> QED
      BY <1>1, <2>2 DEF Stream
  <1>2. CASE p \notin answered
    BY <1>2 DEF Stream
  <1> QED
    BY <1>1, <1>2

\* The bytes at the start of the buffer are those of a reply to p, and of no
\* other message.
LEMMA StreamAtHead ==
    ASSUME NEW p \in Packets, NEW w \in Nat, w > 0, Stream(p, w)
    PROVE  /\ p \in answered
           /\ \E k \in sent \cap RepliesTo(p) :
                 head = k /\ ReplyUnderWay(p, w, k) /\ CutOf(w, k)
  BY DEF Stream, ReplyUnderWay

\* In the loop, the client looks at the start of the reply it waits for, but
\* behind a cut challenge.
LEMMA ParsesReply ==
    ASSUME IInv, Replied, Advanced, Positioned, ipc = "parse", ActualSize > 0,
           status \in {"CHALLENGE", "PROOF"}
    PROVE  \/ /\ readPos = 0 /\ writePos = ActualSize /\ bufSize = BufferSize
              /\ \E p \in Packets :
                    /\ p = IF status = "CHALLENGE" THEN "challenge" ELSE "proof"
                    /\ Stream(p, writePos) /\ p \in answered
                    /\ \E k \in sent \cap RepliesTo(p) :
                          head = k /\ ReplyUnderWay(p, writePos, k) /\ CutOf(writePos, k)
           \/ /\ status = "PROOF" /\ Command(head) = "CHALLENGE"
              /\ writePos \in Cuts \cap (ChallengeHeaderSize + 1)..(ChallengeSize - 1)
  <1>1. Hears
    BY DEF Hears
  <1>2. CASE readPos = 0
    <2>1. writePos = ActualSize /\ writePos \in Nat /\ writePos > 0
      BY <1>2, AtCommand
    <2>2. CASE status = "CHALLENGE"
      <3>1. Stream("challenge", writePos) /\ bufSize = BufferSize /\ "challenge" \in Packets
        BY <1>1, <2>2 DEF Positioned, Advanced, Packets
      <3> QED
        BY <1>2, <2>1, <2>2, <3>1, StreamAtHead
    <2>3. CASE status = "PROOF"
      <3>1. Stream("proof", writePos) /\ bufSize = BufferSize /\ "proof" \in Packets
        BY <1>1, <1>2, <2>3 DEF Positioned, Packets
      <3> QED
        BY <1>2, <2>1, <2>3, <3>1, StreamAtHead
    <2> QED
      BY <2>2, <2>3
  <1>3. CASE readPos # 0
    <2>1. status = "PROOF" /\ Command(head) = "CHALLENGE" /\ readPos = ChallengeSize
      BY <1>3, AtCommand
    <2>2. writePos # ChallengeSize
      BY <2>1, AtCommand
    <2> QED
      BY <1>1, <1>3, <2>1, <2>2 DEF Positioned
  <1> QED
    BY <1>2, <1>3

-----------------------------------------------------------------------------
\* Steps of the client

\* A step that leaves the reply and the login's progress where they were.
LEMMA TurnKept ==
    ASSUME TurnInv, strays' = strays,
           UNCHANGED <<status, bufVars, ipc, proof, wire, kernel, kernelHead, sent, answered>>,
           Hears' => Hears, spc' \in {"new", "failed", "connected", "armed"} =>
                               write'["challenge"] = "none",
           proof = "none" => write'["proof"] = write["proof"],
           \A p \in answered : write'[p] = write[p]
    PROVE  TurnInv'
  <1> SUFFICES ASSUME strays = 0
               PROVE  (Replied /\ Advanced /\ Positioned)'
    BY DEF TurnInv
  <1>1. Replied /\ Advanced /\ Positioned
    BY DEF TurnInv
  <1>2. UNCHANGED <<readPos, writePos, bufSize, head>>
    BY DEF bufVars
  <1>3. Replied'
    BY <1>1 DEF Replied
  <1>4. Advanced'
    BY <1>1 DEF Advanced
  <1>5. \A p, w : Stream(p, w) => Stream(p, w)'
    BY <1>2, StreamKept
  <1>6. Positioned'
    <2>1. CASE Hears'
      <3>1. Stream("challenge", writePos) => Stream("challenge", writePos)'
        BY <1>2, StreamKept
      <3>2. Stream("proof", writePos) => Stream("proof", writePos)'
        BY <1>2, StreamKept
      <3>3. Stream("proof", 0) => Stream("proof", 0)'
        BY <1>2, StreamKept
      <3> QED
        BY <1>1, <1>2, <2>1, <3>1, <3>2, <3>3 DEF Positioned
    <2>2. CASE ~Hears'
      BY <2>2 DEF Positioned
    <2> QED
      BY <2>1, <2>2
  <1> QED
    BY <1>3, <1>4, <1>6

\* A step after which the connection is not read any more.
LEMMA TurnDeaf ==
    ASSUME TurnInv, strays' = strays, ~Hears',
           UNCHANGED <<spc, proof, write, sent, answered>>,
           status' = status \/ (status' # "CHALLENGE" /\ status # "CHALLENGE"),
           status' = "AUTHED" => status = "AUTHED"
                                 \/ ("proof" \in answered /\ proof # "none"),
           ipc' # "prove"
    PROVE  TurnInv'
  <1> SUFFICES ASSUME strays = 0
               PROVE  (Replied /\ Advanced /\ Positioned)'
    BY DEF TurnInv
  <1>1. Replied /\ Advanced
    BY DEF TurnInv
  <1>2. Replied'
    BY <1>1 DEF Replied
  <1>3. Advanced'
    BY <1>1 DEF Advanced
  <1>4. Positioned'
    BY DEF Positioned
  <1> QED
    BY <1>2, <1>3, <1>4

\* A read that completes moves the reply's bytes from the kernel to the buffer:
\* it has room for all of them.
LEMMA StreamRead ==
    ASSUME IInv, ReadCompletes, NEW p \in Packets, Stream(p, writePos),
           bufSize = BufferSize
    PROVE  Stream(p, writePos)'
  <1>1. /\ writePos \in Nat /\ writePos <= 3 /\ kernel \in Nat /\ kernel > 0
        /\ UNCHANGED <<wire, sent, answered>>
    BY DEF ReadCompletes, SpaceLeft, BufferSize, IInv, TypeOK, BufferInv, IoFree,
           peerVars, ChallengeHeaderSize
  <1>2. PICK k \in sent \cap RepliesTo(p) : ReplyUnderWay(p, writePos, k)
    BY <1>1 DEF Stream
  <1>3. k # "inside" /\ SizeOf(k) \in Nat /\ SizeOf(k) <= BufferSize
    BY ReplyKinds
  <1>4. writePos + kernel <= BufferSize /\ CutOf(writePos + kernel, k)
    BY <1>1, <1>2, <1>3 DEF ReplyUnderWay, CutOf, BufferSize
  <1>5. writePos' = writePos + kernel /\ kernel' = 0
    BY <1>1, <1>4 DEF ReadCompletes, SpaceLeft, BufferSize
  <1>6. head' = k
    <2>1. CASE writePos = 0
      <3>1. kernelHead = k
        BY <1>1, <1>2, <2>1 DEF ReplyUnderWay
      <3>2. head' \in {kernelHead}
        BY <1>1, <1>3, <1>4, <2>1, <3>1 DEF ReadCompletes, SpaceLeft, BufferSize
      <3> QED
        BY <3>1, <3>2
    <2>2. CASE writePos # 0
      <3>1. head' = head
        BY <2>2 DEF ReadCompletes
      <3> QED
        BY <1>1, <1>2, <2>2, <3>1 DEF ReplyUnderWay
    <2> QED
      BY <2>1, <2>2
  <1>7. CutOf(writePos', k) /\ CutOf(writePos' + kernel', k)
    BY <1>1, <1>4, <1>5
  <1>8. \/ wire' = <<>>
        \/ /\ wire' = <<[kind |-> k, left |-> SizeOf(k) - (writePos' + kernel')]>>
           /\ writePos' + kernel' < SizeOf(k)
    BY <1>1, <1>2, <1>5 DEF ReplyUnderWay
  <1>9. ReplyUnderWay(p, writePos, k)'
    BY <1>1, <1>5, <1>6, <1>7, <1>8 DEF ReplyUnderWay, CutOf
  <1> QED
    BY <1>1, <1>2, <1>9 DEF Stream

\* HandleInternalRead without an error.
LEMMA TurnReadCompletes ==
    ASSUME IInv, TurnInv, ReadCompletes
    PROVE  TurnInv'
  <1> SUFFICES ASSUME strays' = 0
               PROVE  (Replied /\ Advanced /\ Positioned)'
    BY DEF TurnInv
  <1>1. /\ UNCHANGED <<spc, status, readPos, bufSize, proof, write, sent, answered, strays>>
        /\ reads > 0 /\ readPos = 0 /\ ipc = "idle" /\ ipc' = "parse"
    BY DEF ReadCompletes, startVars, logVars, peerVars, IoFree, IInv, BufferInv
  <1>2. Replied /\ Advanced /\ Positioned /\ Hears
    BY <1>1 DEF TurnInv, Hears
  <1>3. Replied'
    BY <1>1, <1>2 DEF Replied
  <1>4. Advanced'
    BY <1>1, <1>2 DEF Advanced
  <1>5. status # "AUTHED" => bufSize = BufferSize
    BY <1>2 DEF Positioned
  <1>6. proof = "none" => Stream("challenge", writePos)'
    BY <1>2, <1>5, StreamRead DEF Positioned, Advanced, Packets
  <1>7. status = "PROOF" /\ proof # "none" => Stream("proof", writePos)'
    BY <1>1, <1>2, <1>5, StreamRead DEF Positioned, Packets
  <1>8. Positioned'
    BY <1>1, <1>2, <1>5, <1>6, <1>7 DEF Positioned, BufferSize
  <1> QED
    BY <1>3, <1>4, <1>8

\* HandleRead's next read is armed with the bytes of the reply that have come.
LEMMA TurnRearm ==
    ASSUME IInv, TurnInv, ipc = "parse", Rearm, HandlerUnchanged,
           UNCHANGED <<status, closed, logVars, write>>,
           ActualSize = 0 \/ (readPos = 0 /\ writePos < BufferSize)
    PROVE  TurnInv'
  <1>0. /\ UNCHANGED <<spc, status, closed, proof, write, wire, kernel, kernelHead,
                       sent, answered, strays>>
        /\ ipc' = "idle"
    BY DEF Rearm, HandlerUnchanged, startVars, logVars, netVars, peerVars
  <1>1. /\ readPos \in Nat /\ writePos \in Nat /\ reads = 0
        /\ spc \notin {"new", "failed", "connected"}
        /\ writePos = readPos \/ (readPos = 0 /\ writePos < BufferSize)
        /\ readPos = 0 \/ (status = "PROOF" /\ readPos = ChallengeSize) \/ status = "AUTHED"
    BY AtCommand
  <1>2. CASE ~IsOpen
    <2>1. reads' = reads
      BY <1>2 DEF Rearm, AsyncRead
    <2>2. ~Hears'
      BY <1>0, <1>1, <2>1 DEF Hears
    <2> QED
      BY <1>0, <2>2, TurnDeaf
  <1>3. CASE IsOpen
    <2> SUFFICES ASSUME strays = 0
                 PROVE  (Replied /\ Advanced /\ Positioned)'
      BY <1>0 DEF TurnInv
    <2>1. Replied /\ Advanced /\ Positioned /\ Hears
      BY DEF TurnInv, Hears
    <2>2. Replied'
      BY <1>0, <2>1 DEF Replied
    <2>3. Advanced'
      BY <1>0, <2>1 DEF Advanced
    <2>4. /\ readPos' = 0 /\ writePos' = writePos - readPos
          /\ bufSize' = IF bufSize = writePos - readPos THEN (bufSize * 3) \div 2 ELSE bufSize
          /\ readPos = 0 /\ writePos # 0 => head' = head
      BY <1>1, <1>3 DEF Rearm, AsyncRead
    <2>5. status # "AUTHED" => bufSize' = BufferSize
      BY <1>1, <2>1, <2>4 DEF Positioned, BufferSize
    <2>6. ASSUME NEW p \in Packets, readPos = 0, Stream(p, writePos)
          PROVE  Stream(p, writePos)'
      <3>1. writePos' = writePos /\ (writePos > 0 => head' = head)
        BY <1>1, <2>4, <2>6
      <3> QED
        BY <1>0, <2>6, <3>1, StreamKept
    <2>7. proof = "none" => Stream("challenge", writePos)'
      <3>1. proof = "none" => readPos = 0
        BY <1>0, <1>1, <2>1 DEF Positioned, Advanced, Hears
      <3> QED
        BY <2>1, <2>6, <3>1 DEF Positioned, Packets
    <2>8. status = "PROOF" /\ proof # "none" => Stream("proof", writePos)'
      <3>1. CASE readPos = 0
        BY <2>1, <2>6, <3>1 DEF Positioned, Packets
      <3>2. CASE readPos # 0 /\ status = "PROOF" /\ proof # "none"
        <4>1. writePos = ChallengeSize /\ writePos' = 0
          BY <1>1, <2>4, <3>2 DEF ChallengeSize
        <4>2. Stream("proof", 0)
          BY <2>1, <3>2, <4>1 DEF Positioned, ChallengeSize, ChallengeHeaderSize
        <4> QED
          BY <1>0, <4>1, <4>2, StreamKept
      <3> QED
        BY <3>1, <3>2
    <2>9. status = "PROOF" => proof # "none"
      BY <2>1 DEF Positioned
    <2>10. Positioned'
      BY <1>0, <2>4, <2>5, <2>7, <2>8, <2>9 DEF Positioned, BufferSize
    <2> QED
      BY <2>2, <2>3, <2>10
  <1> QED
    BY <1>2, <1>3

\* The steps that take the io thread out of HandleRead's loop to wait for bytes.
LEMMA TurnWaits ==
    ASSUME IInv, TurnInv, LoopExits \/ TooShort
    PROVE  TurnInv'
  <1>1. /\ ipc = "parse" /\ Rearm /\ HandlerUnchanged
        /\ UNCHANGED <<status, closed, logVars, write>>
    BY DEF LoopExits, TooShort, InStep, Parsing
  <1>2. ActualSize = 0 \/ (readPos = 0 /\ writePos < BufferSize)
    <2>1. CASE LoopExits
      BY <2>1 DEF LoopExits
    <2>2. CASE TooShort
      <3>1. ActualSize < 4 /\ status \in {"CHALLENGE", "PROOF"} /\ status = Command(head)
        <4>1. ActualSize \in Nat
          BY <1>1, AtCommand
        <4> QED
          BY <2>2, <4>1 DEF TooShort, InStep, Parsing, ChallengeHeaderSize, ProofHeaderSize
      <3>2. readPos = 0 /\ ActualSize = writePos
        BY <1>1, <3>1, AtCommand
      <3> QED
        BY <3>1, <3>2, AtCommand, <1>1 DEF BufferSize
    <2> QED
      BY <2>1, <2>2
  <1> QED
    BY <1>1, <1>2, TurnRearm

\* An error of a read, and HandleRead's ways out that close the connection
\* without a further read.
LEMMA TurnEnds ==
    ASSUME IInv, TurnInv,
           ReadFails \/ OutOfStep \/ ChallengeFailed \/ MultipleOfN \/ ProofFailed
    PROVE  TurnInv'
  <1>1. /\ UNCHANGED <<spc, status, proof, write, sent, answered, strays>>
    BY DEF ReadFails, OutOfStep, ChallengeFailed, MultipleOfN, ProofFailed,
           HandlerUnchanged, startVars, logVars, netVars, peerVars
  <1>2. ipc' = "idle"
    BY DEF ReadFails, OutOfStep, ChallengeFailed, MultipleOfN, ProofFailed, CloseWith,
           IoFree
  <1>3. reads' = 0 /\ spc \notin {"new", "failed", "connected"}
    <2>1. CASE ReadFails
      BY <2>1 DEF ReadFails, IInv, TypeOK, BufferInv, OneRead
    <2>2. CASE ~ReadFails
      <3>1. ipc # "idle" /\ reads' = reads
        BY <2>2 DEF OutOfStep, ChallengeFailed, MultipleOfN, ProofFailed, CloseWith,
                    InStep, Parsing
      <3> QED
        BY <3>1 DEF IInv, BufferInv, OneRead
    <2> QED
      BY <2>1, <2>2
  <1>4. ~Hears'
    BY <1>1, <1>2, <1>3 DEF Hears
  <1> QED
    BY <1>1, <1>2, <1>4, TurnDeaf

\* A server that answers in turn sends nothing the client has no handler for.
LEMMA TurnUnknown ==
    ASSUME IInv, TurnInv, UnknownCommand
    PROVE  TurnInv'
  <1> SUFFICES ASSUME strays' = 0
               PROVE  (Replied /\ Advanced /\ Positioned)'
    BY DEF TurnInv
  <1>1. /\ UNCHANGED <<spc, status, proof, write, sent, answered, strays>>
        /\ ipc = "parse" /\ ActualSize > 0 /\ Command(head) = "unhandled" /\ ipc' = "idle"
    BY DEF UnknownCommand, Parsing, HandlerUnchanged, startVars, logVars, netVars, peerVars
  <1>2. Replied /\ Advanced /\ Positioned
    BY <1>1 DEF TurnInv
  <1>3. Replied'
    BY <1>1, <1>2 DEF Replied
  <1>4. Advanced'
    BY <1>1, <1>2 DEF Advanced
  <1>5. status = "AUTHED"
    <2> SUFFICES ASSUME status # "AUTHED"
                 PROVE  FALSE
      OBVIOUS
    <2>1. status \in {"CHALLENGE", "PROOF"}
      BY DEF IInv, TypeOK
    <2>2. PICK p \in Packets : \E k \in RepliesTo(p) : head = k
      BY <1>1, <1>2, <2>1, ParsesReply
    <2>3. Command(head) \in {"CHALLENGE", "PROOF"}
      BY <2>2, ReplyKinds DEF Packets
    <2> QED
      BY <1>1, <2>3
  <1>6. Positioned'
    BY <1>1, <1>2, <1>5 DEF Positioned, Advanced
  <1> QED
    BY <1>3, <1>4, <1>6

\* HandleCommandChallenge begins with the reply to the challenge in the buffer.
LEMMA TurnChallengeBegins ==
    ASSUME IInv, TurnInv, ChallengeBegins
    PROVE  TurnInv'
  <1> SUFFICES ASSUME strays' = 0
               PROVE  (Replied /\ Advanced /\ Positioned)'
    BY DEF TurnInv
  <1>1. /\ UNCHANGED <<spc, readPos, writePos, bufSize, head, proof, write, wire, kernel,
                       kernelHead, sent, answered, strays>>
        /\ ipc = "parse" /\ ActualSize > ChallengeHeaderSize
        /\ status = "CHALLENGE" /\ status' = "PROOF" /\ ipc' = "prove"
    BY DEF ChallengeBegins, InStep, Parsing, HandlerUnchanged, startVars, bufVars, netVars,
           peerVars
  <1>2. Replied /\ Advanced /\ Positioned
    BY <1>1 DEF TurnInv
  <1>3. /\ readPos = 0 /\ writePos = ActualSize /\ bufSize = BufferSize
        /\ Stream("challenge", writePos) /\ "challenge" \in answered
    <2>1. ActualSize > 0
      BY <1>1, AtCommand DEF ChallengeHeaderSize, ActualSize
    <2> QED
      BY <1>1, <1>2, <2>1, ParsesReply
  <1>4. proof = "none"
    BY <1>1, <1>2 DEF Advanced
  <1>5. Replied'
    BY <1>1, <1>2 DEF Replied
  <1>6. Advanced'
    BY <1>1, <1>3, <1>4 DEF Advanced
  <1>7. Stream("challenge", writePos)'
    BY <1>1, <1>3, StreamKept
  <1>8. Positioned'
    BY <1>1, <1>3, <1>4, <1>7 DEF Positioned, BufferSize
  <1> QED
    BY <1>5, <1>6, <1>8

\* The rest of HandleCommandChallenge takes 119 bytes: all that has come of the
\* challenge, or more than has come where the network cut it.
LEMMA TurnChallengeProved ==
    ASSUME IInv, TurnInv, ChallengeProved
    PROVE  TurnInv'
  <1> SUFFICES ASSUME strays' = 0
               PROVE  (Replied /\ Advanced /\ Positioned)'
    BY DEF TurnInv
  <1>1. /\ UNCHANGED <<spc, status, writePos, bufSize, head, wire, kernel, kernelHead, sent,
                       answered, strays>>
        /\ ipc = "prove" /\ ipc' = "parse" /\ proof' # "none"
        /\ readPos' = readPos + ChallengeSize
    BY DEF ChallengeProved, HandlerUnchanged, startVars, netVars, peerVars
  <1>2. Replied /\ Advanced /\ Positioned /\ Hears
    BY <1>1 DEF TurnInv, Hears
  <1>3. /\ status = "PROOF" /\ readPos = 0 /\ writePos \in Nat /\ kernel \in Nat
        /\ proof = "none" /\ Stream("challenge", writePos) /\ writePos > 3
        /\ bufSize = BufferSize /\ spc \notin {"new", "failed", "connected"}
    BY <1>1, <1>2 DEF IInv, TypeOK, BufferInv, Positioned, Advanced, ChallengeHeaderSize
  <1>4. "challenge" \in answered /\ "proof" \notin answered /\ write["proof"] = "none"
    BY <1>2, <1>3 DEF Advanced, Replied
  <1>5. /\ write'["challenge"] = write["challenge"]
        /\ \A p \in answered : write'[p] = write[p]
    BY <1>4 DEF ChallengeProved, Send, IInv, TypeOK, Packets
  <1>6. Replied'
    BY <1>1, <1>2, <1>4, <1>5 DEF Replied, RepliesTo, Packets
  <1>7. Advanced'
    BY <1>1, <1>3, <1>4 DEF Advanced
  <1>8. PICK k \in sent \cap RepliesTo("challenge") : ReplyUnderWay("challenge", writePos, k)
    BY <1>3, <1>4 DEF Stream
  <1>9. SizeOf(k) = 119
    <2>1. SizeOf(k) \in {3, 119} /\ writePos <= SizeOf(k)
      BY <1>8, ReplyKinds DEF Packets, ReplyUnderWay, CutOf
    <2> QED
      BY <1>3, <2>1
  <1>10. \/ writePos = ChallengeSize /\ wire = <<>> /\ kernel = 0
         \/ writePos \in Cuts \cap (ChallengeHeaderSize + 1)..(ChallengeSize - 1)
    <2>1. CASE writePos = 119
      <3>1. kernel = 0
        BY <1>3, <1>8, <1>9, <2>1 DEF ReplyUnderWay, CutOf
      <3>2. wire = <<>>
        BY <1>8, <1>9, <2>1, <3>1 DEF ReplyUnderWay
      <3> QED
        BY <2>1, <3>1, <3>2 DEF ChallengeSize
    <2>2. CASE writePos # 119
      <3>1. writePos \in Cuts /\ writePos <= 119
        BY <1>3, <1>8, <1>9, <2>2 DEF ReplyUnderWay, CutOf
      <3> QED
        BY <1>3, <2>2, <3>1 DEF ChallengeSize, ChallengeHeaderSize
    <2> QED
      BY <2>1, <2>2
  <1>11. readPos' # 0
    BY <1>1, <1>3 DEF ChallengeSize
  <1>12. wire = <<>> /\ kernel = 0 => Stream("proof", 0)'
    BY <1>1, <1>4 DEF Stream
  <1>13. Positioned'
    BY <1>1, <1>3, <1>10, <1>11, <1>12 DEF Positioned, BufferSize, ChallengeSize,
       ChallengeHeaderSize
  <1> QED
    BY <1>6, <1>7, <1>13

\* HandleCommandProof is reached with a reply to the proof in the buffer.
LEMMA AtProof ==
    ASSUME IInv, TurnInv, strays = 0, InStep("PROOF"), ActualSize > 0
    PROVE  /\ readPos = 0 /\ writePos = ActualSize /\ bufSize = BufferSize
           /\ "proof" \in answered /\ proof # "none"
           /\ head \in sent \cap RepliesTo("proof")
           /\ ReplyUnderWay("proof", writePos, head) /\ CutOf(writePos, head)
  <1>1. ipc = "parse" /\ status = "PROOF" /\ Command(head) = "PROOF"
    BY DEF InStep, Parsing
  <1>2. Replied /\ Advanced /\ Positioned /\ Hears
    BY <1>1 DEF TurnInv, Hears
  <1> QED
    BY <1>1, <1>2, ParsesReply DEF Positioned

\* HandleCommandProof: the proof has been answered.
LEMMA TurnProof ==
    ASSUME IInv, TurnInv, ProofAccepted \/ ProofRejected
    PROVE  TurnInv'
  <1>1. /\ UNCHANGED <<spc, proof, write, sent, answered, strays>>
        /\ ipc = "parse" /\ InStep("PROOF") /\ ActualSize > 0 /\ status = "PROOF"
        /\ status' = "AUTHED" /\ reads' = reads /\ ipc' # "prove"
    <2>1. /\ UNCHANGED <<spc, proof, write, sent, answered, strays>>
          /\ ipc = "parse" /\ InStep("PROOF") /\ ActualSize > 0 /\ status = "PROOF"
          /\ status' = "AUTHED" /\ reads' = reads
      BY DEF ProofAccepted, ProofRejected, InStep, Parsing, HandlerUnchanged, startVars,
             netVars, peerVars, CloseWith
    <2>2. ipc' # "prove"
      BY <2>1 DEF ProofAccepted, ProofRejected, CloseWith
    <2> QED
      BY <2>1, <2>2
  <1> SUFFICES ASSUME strays' = 0
               PROVE  (Replied /\ Advanced /\ Positioned)'
    BY DEF TurnInv
  <1>2. Replied /\ Advanced /\ Positioned
    BY <1>1 DEF TurnInv
  <1>3. "proof" \in answered /\ proof # "none"
    BY <1>1, AtProof
  <1>4. Replied'
    BY <1>1, <1>2 DEF Replied
  <1>5. Advanced'
    BY <1>1, <1>2, <1>3 DEF Advanced
  <1>6. Positioned'
    BY <1>1, <1>3 DEF Positioned
  <1> QED
    BY <1>4, <1>5, <1>6

\* Start() arms the first read of an empty buffer, and its other steps touch
\* neither the buffer nor the network.
LEMMA TurnStart ==
    ASSUME IInv, TurnInv, Start
    PROVE  TurnInv'
  <1>1. CASE Connect \/ ConnectFails \/ StoreUsername \/ StorePasswordKey
    <2>1. /\ UNCHANGED <<status, bufVars, ipc, proof, wire, kernel, kernelHead, sent, answered,
                         reads, write, strays>>
          /\ spc' \in {"new", "failed", "connected", "armed"} => spc = "new"
          /\ spc' \in {"new", "connected"} => spc \in {"new", "connected"}
      BY <1>1 DEF Connect, ConnectFails, StoreUsername, StorePasswordKey, logVars, netVars,
                  peerVars
    <2>2. Hears' => Hears
      BY <2>1 DEF Hears
    <2>3. spc' \in {"new", "failed", "connected", "armed"} => write'["challenge"] = "none"
      BY <2>1 DEF IInv, OfflineInv, Packets
    <2> QED
      BY <2>1, <2>2, <2>3, TurnKept
  <1>2. CASE SendChallenge
    <2>1. /\ UNCHANGED <<status, bufVars, ipc, proof, wire, kernel, kernelHead, sent, answered,
                         reads, strays>>
          /\ spc = "armed" /\ spc' = "sent"
      BY <1>2 DEF SendChallenge, logVars, netVars, peerVars
    <2>2. write'["proof"] = write["proof"]
      BY <1>2 DEF SendChallenge, Send, IInv, TypeOK, Packets
    <2>3. Hears' => Hears
      BY <2>1 DEF Hears
    <2> SUFFICES ASSUME strays' = 0
                 PROVE  TurnInv'
      BY DEF TurnInv
    <2>4. Replied
      BY <2>1 DEF TurnInv
    <2>5. write["challenge"] = "none" /\ "challenge" \notin answered
      BY <2>1, <2>4 DEF Replied
    <2>6. \A p \in answered : write'[p] = write[p]
      BY <2>2, <2>5 DEF IInv, TypeOK, Packets
    <2> QED
      BY <2>1, <2>2, <2>3, <2>6, TurnKept
  <1>3. CASE ArmFirstRead
    <2>1. /\ UNCHANGED <<status, closed, ipc, proof, write, wire, kernel, kernelHead, sent,
                         answered, strays>>
          /\ spc = "connected" /\ spc' = "armed" /\ AsyncRead(readPos, writePos, bufSize)
      BY <1>3 DEF ArmFirstRead, logVars, netVars, peerVars
    <2>2. /\ reads = 0 /\ ipc = "idle" /\ readPos = 0 /\ writePos = 0
      BY <2>1 DEF IInv, BufferInv
    <2> SUFFICES ASSUME strays' = 0
                 PROVE  (Replied /\ Advanced /\ Positioned)'
      BY DEF TurnInv
    <2>3. Replied /\ Advanced /\ Positioned /\ Hears
      BY <2>1 DEF TurnInv, Hears
    <2>4. Replied'
      BY <2>1, <2>3 DEF Replied
    <2>5. Advanced'
      BY <2>1, <2>3 DEF Advanced
    <2>6. write["challenge"] = "none" /\ "challenge" \notin answered /\ status = "CHALLENGE"
      BY <2>1, <2>3 DEF Replied, Advanced
    <2>7. proof = "none" /\ bufSize = BufferSize /\ Stream("challenge", 0)
      BY <2>2, <2>3, <2>6 DEF Advanced, Positioned
    <2>8. CASE IsOpen
      <3>1. readPos' = 0 /\ writePos' = 0 /\ bufSize' = BufferSize
        BY <2>1, <2>2, <2>7, <2>8 DEF AsyncRead, BufferSize
      <3>2. Stream("challenge", writePos)'
        BY <2>1, <2>7, <3>1, StreamKept
      <3> QED
        BY <2>1, <2>2, <2>4, <2>5, <2>6, <2>7, <3>1, <3>2 DEF Positioned, BufferSize
    <2>9. CASE ~IsOpen
      <3>1. reads' = 0
        BY <2>1, <2>2, <2>9 DEF AsyncRead
      <3>2. ~Hears'
        BY <2>1, <2>2, <3>1 DEF Hears
      <3> QED
        BY <2>4, <2>5, <3>2 DEF Positioned
    <2> QED
      BY <2>8, <2>9
  <1> QED
    BY <1>1, <1>2, <1>3 DEF Start

\* A packet leaves the socket, its completion runs, or the server closes its end.
LEMMA TurnWrites ==
    ASSUME IInv, TurnInv,
           (\E p \in Packets : WriteCompletes(p) \/ Transmit(p)) \/ Finish
    PROVE  TurnInv'
  <1>1. /\ UNCHANGED <<spc, status, bufVars, ipc, proof, wire, kernel, kernelHead, sent,
                       answered, reads, strays>>
    BY DEF WriteCompletes, Transmit, Finish, ClientUnchanged, startVars, logVars, netVars,
           peerVars
  <1>2. Hears' => Hears
    BY <1>1 DEF Hears
  <1> SUFFICES ASSUME strays' = 0
               PROVE  TurnInv'
    BY DEF TurnInv
  <1>3. Replied
    BY <1>1 DEF TurnInv
  <1>4. CASE write' = write
    BY <1>1, <1>2, <1>3, <1>4, TurnKept DEF Replied
  <1>5. CASE write' # write
    <2>1. PICK p \in Packets : Transmit(p)
      BY <1>5 DEF WriteCompletes, Finish
    <2>2. write[p] = "queued" /\ \A q \in Packets \ {p} : write'[q] = write[q]
      BY <2>1 DEF Transmit, IInv, TypeOK
    <2>3. p \notin answered
      BY <1>3, <2>2 DEF Replied
    <2>4. \A q \in answered : write'[q] = write[q]
      BY <2>2, <2>3 DEF IInv, TypeOK
    <2>5. /\ spc' \in {"new", "failed", "connected", "armed"} => write'["challenge"] = "none"
          /\ proof = "none" => write'["proof"] = write["proof"]
      BY <1>1, <1>3, <2>2 DEF Replied, Packets
    <2> QED
      BY <1>1, <1>2, <2>4, <2>5, TurnKept
  <1> QED
    BY <1>4, <1>5

\* The network and the server's steps leave the client alone: what is left to
\* show is that the reply is still where it is looked for.
LEMMA TurnNetwork ==
    ASSUME TurnInv, strays' = 0, strays = 0, Replied', Advanced',
           UNCHANGED <<spc, status, bufVars, reads, ipc, proof>>,
           \A p \in Packets, w \in {0, writePos} : Hears /\ Stream(p, w) => Stream(p, w)'
    PROVE  TurnInv'
  <1>1. Replied /\ Advanced /\ Positioned
    BY DEF TurnInv
  <1>2. UNCHANGED <<readPos, writePos, bufSize, head>> /\ Hears' = Hears
    BY DEF bufVars, Hears
  <1>3. "challenge" \in Packets /\ "proof" \in Packets
    BY DEF Packets
  <1>4. ASSUME NEW p \in Packets, Hears, Stream(p, writePos)
        PROVE  Stream(p, writePos)'
    <2>1. PICK w \in {0, writePos} : w = writePos
      OBVIOUS
    <2>2. Stream(p, w)'
      BY <1>4, <2>1
    <2>3. writePos' = w
      BY <1>2, <2>1
    <2> QED
      BY <2>2, <2>3 DEF Stream, ReplyUnderWay
  <1>5. Hears /\ Stream("proof", 0) => Stream("proof", 0)'
    BY <1>3
  <1>6. Positioned'
    <2>1. CASE Hears
      BY <1>1, <1>2, <1>3, <1>4, <1>5, <2>1 DEF Positioned
    <2>2. CASE ~Hears
      BY <1>2, <2>2 DEF Positioned
    <2> QED
      BY <2>1, <2>2
  <1> QED
    BY <1>6 DEF TurnInv

\* What arrives of the reply goes from the wire to the kernel.
LEMMA StreamArrives ==
    ASSUME IInv, Arrive, NEW p \in Packets, NEW w \in Nat, Stream(p, w)
    PROVE  /\ Stream(p, w)'
           /\ p \in answered
  <1>1. /\ UNCHANGED <<head, sent, answered>> /\ wire # <<>> /\ kernel \in Nat
    BY DEF Arrive, ClientUnchanged, bufVars, peerVars, IInv, TypeOK
  <1>2. p \in answered
    BY <1>1 DEF Stream
  <1>3. PICK k \in sent \cap RepliesTo(p) : ReplyUnderWay(p, w, k)
    BY <1>2 DEF Stream
  <1>4. SizeOf(k) \in Nat /\ k # "inside"
    BY ReplyKinds
  <1>5. PICK left \in Nat : /\ wire = <<[kind |-> k, left |-> left]>>
                            /\ left = SizeOf(k) - (w + kernel) /\ w + kernel < SizeOf(k)
    BY <1>1, <1>3, <1>4 DEF ReplyUnderWay
  <1>6. Head(wire).kind = k /\ Head(wire).left = left /\ SizeOf(k) - left = w + kernel
    BY <1>1, <1>4, <1>5
  <1>7. PICK n \in {left} \cup {cut - (w + kernel) :
                        cut \in Cuts \cap (w + kernel + 1)..(w + kernel + left)} :
           /\ kernel' = kernel + n
           /\ kernelHead' = IF kernel > 0 THEN kernelHead
                            ELSE IF w + kernel = 0 THEN k ELSE "inside"
           /\ wire' = IF n = left THEN Tail(wire) ELSE [wire EXCEPT ![1].left = left - n]
    BY <1>6 DEF Arrive
  <1>8. /\ n \in Nat /\ n > 0 /\ n <= left
        /\ n = left \/ w + kernel + n \in Cuts
    <2>1. left > 0 /\ w + kernel \in Nat
      BY <1>1, <1>4, <1>5
    <2>2. CASE n = left
      BY <2>1, <2>2
    <2>3. CASE n # left
      <3>1. PICK cut \in Cuts : /\ cut \in (w + kernel + 1)..(w + kernel + left)
                                /\ n = cut - (w + kernel)
        BY <1>7, <2>3
      <3>2. cut \in Nat /\ n \in Nat /\ n > 0 /\ n <= left
        BY <2>1, <3>1
      <3>3. w + kernel + n = cut
        BY <1>1, <3>1, <3>2
      <3> QED
        BY <3>1, <3>2, <3>3
    <2> QED
      BY <2>2, <2>3
  <1>9. w + kernel' \in Nat /\ kernel' > 0 /\ w + kernel' <= SizeOf(k) /\ CutOf(w + kernel', k)
    <2>1. kernel' = kernel + n /\ kernel' \in Nat /\ kernel' > 0
      BY <1>1, <1>7, <1>8
    <2>2. w + kernel' \in Nat /\ w + kernel' <= SizeOf(k)
      BY <1>1, <1>4, <1>5, <1>8, <2>1
    <2>3. w + kernel' = SizeOf(k) \/ w + kernel' \in Cuts
      <3>1. w + kernel' = w + kernel + n
        BY <1>1, <1>8, <2>1
      <3>2. n = left => w + kernel + n = SizeOf(k)
        BY <1>1, <1>4, <1>5
      <3> QED
        BY <1>8, <3>1, <3>2
    <2> QED
      BY <2>1, <2>2, <2>3 DEF CutOf
  <1>10. kernelHead' = IF w = 0 THEN k ELSE "inside"
    <2>1. CASE kernel > 0
      BY <1>3, <1>7, <2>1 DEF ReplyUnderWay
    <2>2. CASE kernel = 0
      BY <1>7, <2>2
    <2> QED
      BY <1>1, <2>1, <2>2
  <1>11. \/ wire' = <<>>
         \/ /\ wire' = <<[kind |-> k, left |-> SizeOf(k) - (w + kernel')]>>
            /\ w + kernel' < SizeOf(k)
    <2>1. CASE n = left
      BY <1>5, <1>7, <2>1
    <2>2. CASE n # left
      <3>1. wire' = <<[kind |-> k, left |-> left - n]>>
        BY <1>5, <1>7, <2>2
      <3>2. left - n = SizeOf(k) - (w + kernel') /\ w + kernel' < SizeOf(k)
        BY <1>1, <1>4, <1>5, <1>7, <1>8, <2>2
      <3> QED
        BY <3>1, <3>2
    <2> QED
      BY <2>1, <2>2
  <1>12. ReplyUnderWay(p, w, k)'
    BY <1>1, <1>3, <1>9, <1>10, <1>11 DEF ReplyUnderWay, CutOf
  <1> QED
    BY <1>1, <1>2, <1>3, <1>12 DEF Stream

\* What the server sends in answer to a packet is on the wire, and nothing is
\* before it.
LEMMA StreamSent ==
    ASSUME IInv, NEW p \in Packets, NEW w \in {0, writePos}, Stream(p, w), p \notin answered,
           NEW kind \in RepliesTo(p), ServerSends(kind), answered' = answered \cup {p}
    PROVE  Stream(p, w)'
  <1>1. wire = <<>> /\ kernel = 0 /\ w = 0
    BY DEF Stream
  <1>2. /\ wire' = <<[kind |-> kind, left |-> SizeOf(kind)]>> /\ kernel' = 0
        /\ kind \in sent'
    BY <1>1 DEF ServerSends
  <1>3. SizeOf(kind) \in Nat /\ SizeOf(kind) > 0
    BY ReplyKinds
  <1>4. ReplyUnderWay(p, w, kind)'
    BY <1>1, <1>2, <1>3 DEF ReplyUnderWay, CutOf
  <1> QED
    BY <1>2, <1>4 DEF Stream

\* Of a reset reply only what the buffer has is left.
LEMMA StreamReset ==
    ASSUME IInv, Reset, NEW p \in Packets, NEW w \in Nat, Stream(p, w)
    PROVE  Stream(p, w)'
  <1>1. /\ UNCHANGED <<head, sent, answered>> /\ wire' = <<>> /\ kernel' = 0
    BY DEF Reset, ClientUnchanged, bufVars
  <1>2. CASE p \in answered
    <2>1. PICK k \in sent \cap RepliesTo(p) : ReplyUnderWay(p, w, k)
      BY <1>2 DEF Stream
    <2>2. ReplyUnderWay(p, w, k)'
      BY <1>1, <2>1 DEF ReplyUnderWay, CutOf
    <2> QED
      BY <1>1, <1>2, <2>1, <2>2 DEF Stream
  <1>3. CASE p \notin answered
    BY <1>1, <1>3 DEF Stream
  <1> QED
    BY <1>2, <1>3

\* Bytes arrive, or are lost with the connection.
LEMMA TurnArrives ==
    ASSUME IInv, TurnInv, Arrive \/ Reset
    PROVE  TurnInv'
  <1>1. UNCHANGED <<spc, status, bufVars, reads, ipc, proof, write, sent, answered, strays>>
    BY DEF Arrive, Reset, ClientUnchanged, startVars, logVars, peerVars
  <1> SUFFICES ASSUME strays' = 0
               PROVE  TurnInv'
    BY DEF TurnInv
  <1>2. Replied /\ Advanced
    BY <1>1 DEF TurnInv
  <1>3. Replied'
    BY <1>1, <1>2 DEF Replied
  <1>4. Advanced'
    BY <1>1, <1>2 DEF Advanced
  <1>5. \A p \in Packets, w \in {0, writePos} : Stream(p, w) => Stream(p, w)'
    BY StreamArrives, StreamReset DEF IInv, TypeOK
  <1> QED
    BY <1>1, <1>3, <1>4, <1>5, TurnNetwork

\* The server answers the challenge, and then the proof.
LEMMA TurnReplies ==
    ASSUME IInv, TurnInv, ReplyChallenge \/ ReplyProof
    PROVE  TurnInv'
  <1>1. UNCHANGED <<spc, status, bufVars, reads, ipc, proof, write, strays>>
    BY DEF ReplyChallenge, ReplyProof, ServerSends, ClientUnchanged, startVars, logVars
  <1> SUFFICES ASSUME strays' = 0
               PROVE  TurnInv'
    BY DEF TurnInv
  <1>2. Replied /\ Advanced /\ Positioned
    BY <1>1 DEF TurnInv
  <1>3. PICK p, kind :
            /\ p \in Packets /\ kind \in RepliesTo(p)
            /\ ServerSends(kind) /\ write[p] = "whole"
            /\ p \notin answered /\ answered' = answered \cup {p}
            /\ kind = "proofOk" => proof = "good"
    <2>1. CASE ReplyChallenge
      <3>1. "challenge" \in Packets
        BY DEF Packets
      <3>2. PICK kind \in {"challengeOk", "challengeFail"} : ServerSends(kind)
        BY <2>1 DEF ReplyChallenge
      <3>3. kind \in RepliesTo("challenge") /\ kind # "proofOk"
        BY <3>2 DEF RepliesTo
      <3> QED
        BY <2>1, <3>1, <3>2, <3>3 DEF ReplyChallenge
    <2>2. CASE ReplyProof
      <3>1. "proof" \in Packets
        BY DEF Packets
      <3>2. PICK kind \in {"proofForged", "proofFail"}
                             \cup (IF proof = "good" THEN {"proofOk"} ELSE {}) :
               ServerSends(kind)
        BY <2>2 DEF ReplyProof
      <3>3. kind \in RepliesTo("proof") /\ (kind = "proofOk" => proof = "good")
        BY <3>2 DEF RepliesTo
      <3> QED
        BY <2>2, <3>1, <3>2, <3>3 DEF ReplyProof
    <2> QED
      BY <2>1, <2>2
  <1>4. sent' = sent \cup {kind} /\ kind # "other"
        /\ \A q \in Packets \ {p} : kind \notin RepliesTo(q)
    BY <1>3 DEF ServerSends, RepliesTo, Packets
  <1>5. Replied'
    BY <1>1, <1>2, <1>3, <1>4 DEF Replied
  <1>6. Advanced'
    BY <1>1, <1>2, <1>3 DEF Advanced
  <1>7. UNCHANGED <<readPos, writePos, bufSize, head>> /\ Hears' = Hears
    BY <1>1 DEF bufVars, Hears
  <1>8. Stream(p, writePos) => Stream(p, writePos)'
    <2> SUFFICES ASSUME Stream(p, writePos)
                 PROVE  Stream(p, writePos)'
      OBVIOUS
    <2>1. PICK w \in {0, writePos} : w = writePos
      OBVIOUS
    <2>2. Stream(p, w)'
      BY <1>3, <2>1, StreamSent
    <2>3. writePos' = w
      BY <1>7, <2>1
    <2> QED
      BY <2>2, <2>3 DEF Stream, ReplyUnderWay
  <1>9. Stream(p, 0) => Stream(p, 0)'
    BY <1>3, StreamSent
  <1>10. CASE p = "challenge"
    <2>1. status = "CHALLENGE" /\ proof = "none"
      BY <1>2, <1>3, <1>10 DEF Advanced
    <2>2. Positioned'
      BY <1>1, <1>2, <1>7, <1>8, <1>10, <2>1 DEF Positioned
    <2> QED
      BY <1>5, <1>6, <2>2 DEF TurnInv
  <1>11. CASE p = "proof"
    <2>1. proof # "none" /\ ipc # "prove" /\ status = "PROOF"
      BY <1>2, <1>3, <1>11 DEF Advanced, Replied, IInv, TypeOK
    <2>2. Positioned'
      BY <1>1, <1>2, <1>7, <1>8, <1>9, <1>11, <2>1 DEF Positioned
    <2> QED
      BY <1>5, <1>6, <2>2 DEF TurnInv
  <1> QED
    BY <1>3, <1>10, <1>11 DEF Packets

-----------------------------------------------------------------------------
\* Whatever has been read, sent and lost: as long as the server has answered in
\* turn, its reply is where HandleRead looks for it, or the challenge was cut.
LEMMA TurnStep == IInv /\ TurnInv /\ [Next]_vars => TurnInv'
  <1> SUFFICES ASSUME IInv, TurnInv, [Next]_vars
               PROVE  TurnInv'
    OBVIOUS
  <1>1. CASE Start
    BY <1>1, TurnStart
  <1>2. CASE ReadCompletes
    BY <1>2, TurnReadCompletes
  <1>3. CASE LoopExits \/ TooShort
    BY <1>3, TurnWaits
  <1>4. CASE ReadFails \/ OutOfStep \/ ChallengeFailed \/ MultipleOfN \/ ProofFailed
    BY <1>4, TurnEnds
  <1>5. CASE UnknownCommand
    BY <1>5, TurnUnknown
  <1>6. CASE ChallengeBegins
    BY <1>6, TurnChallengeBegins
  <1>7. CASE ChallengeProved
    BY <1>7, TurnChallengeProved
  <1>8. CASE ProofAccepted \/ ProofRejected
    BY <1>8, TurnProof
  <1>9. CASE (\E p \in Packets : WriteCompletes(p) \/ Transmit(p)) \/ Finish
    BY <1>9, TurnWrites
  <1>10. CASE Arrive \/ Reset
    BY <1>10, TurnArrives
  <1>11. CASE ReplyChallenge \/ ReplyProof
    BY <1>11, TurnReplies
  <1>12. CASE SendStray
    <2>1. strays' # 0
      BY <1>12 DEF SendStray, IInv, TypeOK
    <2> QED
      BY <2>1 DEF TurnInv
  <1>13. CASE UNCHANGED vars
    <2>1. UNCHANGED <<spc, status, bufVars, reads, ipc, proof, write, sent, answered, strays,
                      wire, kernel, kernelHead>>
      BY <1>13 DEF vars, bufVars
    <2>2. Hears' = Hears
      BY <2>1 DEF Hears
    <2> SUFFICES ASSUME strays' = 0
                 PROVE  TurnInv'
      BY DEF TurnInv
    <2>3. Replied
      BY <2>1 DEF TurnInv
    <2> QED
      BY <2>1, <2>2, <2>3, TurnKept DEF Replied
  <1> QED
    BY <1>1, <1>2, <1>3, <1>4, <1>5, <1>6, <1>7, <1>8, <1>9, <1>10, <1>11, <1>12, <1>13
       DEF Next, HandleRead, Server

\* The initial states satisfy the invariant.
LEMMA TurnInit == Init => TurnInv
  <1> SUFFICES ASSUME Init
               PROVE  Replied /\ Advanced /\ Positioned
    BY DEF TurnInv
  <1>1. Replied
    BY DEF Init, Replied, Packets
  <1>2. Advanced
    BY DEF Init, Advanced
  <1>3. Positioned
    BY DEF Init, Positioned, Stream
  <1> QED
    BY <1>1, <1>2, <1>3

\* While the server answers in turn, the reply the client waits for is the only
\* thing on its way, and HandleRead (NovusConnection.cpp:77-196) looks for it at
\* the start of the buffer, unless the challenge came in pieces.
THEOREM TurnInvariance == Spec => []TurnInv
  BY TurnInit, TurnStep, Invariance, PTL DEF Spec

\* What the connection says of the server stays said, and the server sends no
\* fewer messages than it has sent.
LEMMA Said ==
    ASSUME IInv, Next
    PROVE  /\ sent \subseteq sent'
           /\ strays' = 0 => strays = 0
           /\ \/ verdict' = verdict
              \/ OutOfStep /\ verdict' = "outOfStep"
              \/ ChallengeFailed /\ verdict' = "loginFailed"
              \/ MultipleOfN /\ verdict' = "zeroB"
              \/ ProofFailed /\ verdict' = "proofFailed"
              \/ ProofRejected /\ verdict' = "invalidProof"
  <1>1. sent \subseteq sent'
    <2>1. CASE Start
      BY <2>1 DEF Start, Connect, ConnectFails, ArmFirstRead, SendChallenge, StoreUsername,
                  StorePasswordKey, netVars, peerVars
    <2>2. CASE HandleRead
      BY <2>2 DEF HandleRead, LoopExits, UnknownCommand, OutOfStep, TooShort, ChallengeFailed,
           ChallengeBegins, MultipleOfN, ChallengeProved, ProofFailed, ProofAccepted,
           ProofRejected, HandlerUnchanged, netVars, peerVars
    <2>3. CASE ReadCompletes \/ ReadFails
               \/ (\E p \in Packets : WriteCompletes(p) \/ Transmit(p)) \/ Arrive \/ Server
      BY <2>3 DEF ReadCompletes, ReadFails, WriteCompletes, Transmit, Arrive, Server,
           ReplyChallenge, ReplyProof, SendStray, Finish, Reset, ServerSends, netVars, peerVars
    <2> QED
      BY <2>1, <2>2, <2>3 DEF Next
  <1>2. strays' = strays \/ strays' = strays + 1
    <2>1. CASE Start
      BY <2>1 DEF Start, Connect, ConnectFails, ArmFirstRead, SendChallenge, StoreUsername,
                  StorePasswordKey, netVars, peerVars
    <2>2. CASE HandleRead
      BY <2>2 DEF HandleRead, LoopExits, UnknownCommand, OutOfStep, TooShort, ChallengeFailed,
           ChallengeBegins, MultipleOfN, ChallengeProved, ProofFailed, ProofAccepted,
           ProofRejected, HandlerUnchanged, netVars, peerVars
    <2>3. CASE ReadCompletes \/ ReadFails
               \/ (\E p \in Packets : WriteCompletes(p) \/ Transmit(p)) \/ Arrive \/ Server
      BY <2>3 DEF ReadCompletes, ReadFails, WriteCompletes, Transmit, Arrive, Server,
           ReplyChallenge, ReplyProof, SendStray, Finish, Reset, ServerSends, netVars, peerVars
    <2> QED
      BY <2>1, <2>2, <2>3 DEF Next
  <1>3. \/ verdict' = verdict
        \/ OutOfStep /\ verdict' = "outOfStep"
        \/ ChallengeFailed /\ verdict' = "loginFailed"
        \/ MultipleOfN /\ verdict' = "zeroB"
        \/ ProofFailed /\ verdict' = "proofFailed"
        \/ ProofRejected /\ verdict' = "invalidProof"
    <2>1. CASE Start
      BY <2>1 DEF Start, Connect, ConnectFails, ArmFirstRead, SendChallenge, StoreUsername,
                  StorePasswordKey, logVars
    <2>2. CASE HandleRead
      BY <2>2 DEF HandleRead, LoopExits, UnknownCommand, OutOfStep, TooShort, ChallengeFailed,
           ChallengeBegins, MultipleOfN, ChallengeProved, ProofFailed, ProofAccepted,
           ProofRejected, CloseWith, logVars
    <2>3. CASE ReadCompletes \/ ReadFails
               \/ (\E p \in Packets : WriteCompletes(p) \/ Transmit(p)) \/ Arrive \/ Server
      BY <2>3 DEF ReadCompletes, ReadFails, WriteCompletes, Transmit, Arrive, Server,
           ReplyChallenge, ReplyProof, SendStray, Finish, Reset, ServerSends,
           ClientUnchanged, logVars
    <2> QED
      BY <2>1, <2>2, <2>3 DEF Next
  <1> QED
    BY <1>1, <1>2, <1>3 DEF IInv, TypeOK

\* On a network that never leaves a message's first three bytes alone in a read,
\* "Challenge Failed" (NovusConnection.cpp:111) is said of a server that answers in
\* turn only when it has refused.  The run refusal_cut shows that the hypothesis is
\* needed: cut there, the header of a challenge is taken for a refusal.
THEOREM RefusalIsRealHolds ==
    ASSUME 3 \notin Cuts
    PROVE  Spec => []RefusalIsReal
  <1>1. Init => RefusalIsReal
    BY DEF Init, RefusalIsReal
  <1>2. IInv /\ TurnInv /\ RefusalIsReal /\ [Next]_vars => RefusalIsReal'
    <2> SUFFICES ASSUME IInv, TurnInv, RefusalIsReal, [Next]_vars,
                        verdict' = "loginFailed", strays' = 0
                 PROVE  "challengeFail" \in sent'
      BY DEF RefusalIsReal
    <2>1. CASE UNCHANGED vars
      BY <2>1 DEF vars, RefusalIsReal
    <2>2. CASE Next /\ verdict' = verdict
      BY <2>2, Said DEF RefusalIsReal
    <2>3. CASE Next /\ ChallengeFailed
      <3>1. /\ strays = 0 /\ sent \subseteq sent' /\ ipc = "parse" /\ status = "CHALLENGE"
            /\ ActualSize = 3
        BY <2>3, Said DEF ChallengeFailed, InStep, Parsing, Refused, ChallengeHeaderSize
      <3>2. PICK k \in sent \cap RepliesTo("challenge") : CutOf(3, k)
        BY <3>1, ParsesReply DEF TurnInv
      <3>3. SizeOf(k) = 3
        BY <3>2 DEF CutOf
      <3>4. k = "challengeFail"
        BY <3>2, <3>3, ReplyKinds DEF Packets, RepliesTo
      <3> QED
        BY <3>1, <3>2, <3>4
    <2> QED
      BY <2>1, <2>2, <2>3, Said
  <1> QED
    BY <1>1, <1>2, Invariance, TurnInvariance, PTL DEF Spec

\* On a network that does not cut a message between the header of the proof's
\* reply and the end of M2, "Server sent invalid proof" (NovusConnection.cpp:287) is
\* said of a server that answers in turn only when its M2 was wrong.  The run
\* proof_cut shows that the hypothesis is needed.
THEOREM InvalidProofIsRealHolds ==
    ASSUME Cuts \cap (ProofHeaderSize + 1)..(ProofM2End - 1) = {}
    PROVE  Spec => []InvalidProofIsReal
  <1>1. Init => InvalidProofIsReal
    BY DEF Init, InvalidProofIsReal
  <1>2. IInv /\ TurnInv /\ InvalidProofIsReal /\ [Next]_vars => InvalidProofIsReal'
    <2> SUFFICES ASSUME IInv, TurnInv, InvalidProofIsReal, [Next]_vars,
                        verdict' = "invalidProof", strays' = 0
                 PROVE  "proofForged" \in sent'
      BY DEF InvalidProofIsReal
    <2>1. CASE UNCHANGED vars
      BY <2>1 DEF vars, InvalidProofIsReal
    <2>2. CASE Next /\ verdict' = verdict
      BY <2>2, Said DEF InvalidProofIsReal
    <2>3. CASE Next /\ ProofRejected
      <3>1. /\ strays = 0 /\ sent \subseteq sent' /\ InStep("PROOF") /\ ~M2Matches
            /\ ActualSize > 4 /\ ActualSize > 0
        BY <2>3, Said DEF ProofRejected, InStep, Parsing, ProofHeaderSize
      <3>2. /\ writePos = ActualSize /\ head \in sent \cap RepliesTo("proof")
            /\ CutOf(writePos, head) /\ writePos \in Nat
        BY <3>1, AtProof DEF IInv, TypeOK
      <3>3. SizeOf(head) = IF head = "proofFail" THEN 4 ELSE ProofReplySize
        BY <3>2, ReplyKinds DEF Packets
      <3>4. head # "proofFail" /\ ActualSize >= 22
        <4>1. ActualSize <= SizeOf(head) /\ ActualSize \in {SizeOf(head)} \cup Cuts
          BY <3>1, <3>2 DEF CutOf
        <4>2. head # "proofFail" /\ SizeOf(head) = ProofReplySize
          BY <3>1, <3>2, <3>3, <4>1
        <4>3. ActualSize \in Cuts => ActualSize >= 22
          BY <3>1, <3>2 DEF ProofHeaderSize, ProofM2End
        <4> QED
          BY <3>2, <4>1, <4>2, <4>3, ProofReplySizeAssumption
      <3>5. head # "proofOk"
        BY <3>1, <3>2, <3>4 DEF M2Matches, ProofM2End, TurnInv, Replied
      <3> QED
        BY <3>1, <3>2, <3>4, <3>5 DEF RepliesTo
    <2> QED
      BY <2>1, <2>2, <2>3, Said
  <1> QED
    BY <1>1, <1>2, Invariance, TurnInvariance, PTL DEF Spec

-----------------------------------------------------------------------------
\* Every login's last message is used up by HandleRead when the proof's reply
\* has the 36 bytes it takes, and the network cuts no success but in its header.
WholeSuccess ==
    /\ ProofReplySize = ProofSize
    /\ Cuts \cap (ChallengeHeaderSize + 1)..(ChallengeSize - 1) = {}

\* An authenticated connection has nothing left to read.
AuthedQuiet ==
    strays = 0 /\ status = "AUTHED" /\ Hears =>
        /\ wire = <<>> /\ kernel = 0 /\ bufSize = BufferSize
        /\ IF ipc = "idle" THEN writePos = 0
                           ELSE readPos = ProofSize /\ writePos = ProofSize

\* HandleCommandProof's success uses up the buffer.
LEMMA AcceptedUsesUp ==
    ASSUME WholeSuccess, IInv, TurnInv, ProofAccepted, strays' = 0
    PROVE  /\ wire' = <<>> /\ kernel' = 0 /\ bufSize' = BufferSize
           /\ ipc' # "idle" /\ readPos' = ProofSize /\ writePos' = ProofSize
  <1>1. /\ UNCHANGED <<wire, kernel, bufSize, writePos, ipc, strays>>
        /\ readPos' = readPos + ProofSize
        /\ InStep("PROOF") /\ ipc = "parse" /\ ActualSize > 4 /\ ActualSize > 0
    BY DEF ProofAccepted, InStep, Parsing, ProofHeaderSize, HandlerUnchanged, netVars, peerVars
  <1>2. /\ writePos = ActualSize /\ readPos = 0 /\ bufSize = BufferSize
        /\ head \in RepliesTo("proof")
        /\ ReplyUnderWay("proof", writePos, head) /\ CutOf(writePos, head)
        /\ writePos \in Nat /\ kernel \in Nat
    BY <1>1, AtProof DEF IInv, TypeOK
  <1>3. SizeOf(head) \in {4, 36}
    BY <1>2, ReplyKinds DEF Packets, WholeSuccess, ProofSize
  <1>4. writePos = 36 /\ SizeOf(head) = 36
    <2>1. writePos <= SizeOf(head) /\ writePos \in {SizeOf(head)} \cup Cuts
      BY <1>1, <1>2 DEF CutOf
    <2>2. SizeOf(head) = 36
      BY <1>1, <1>2, <1>3, <2>1
    <2>3. writePos \notin Cuts
      BY <1>1, <1>2, <2>1, <2>2 DEF WholeSuccess, ChallengeHeaderSize, ChallengeSize
    <2> QED
      BY <2>1, <2>2, <2>3
  <1>5. kernel = 0
    BY <1>2, <1>4 DEF ReplyUnderWay, CutOf
  <1>6. wire = <<>>
    BY <1>2, <1>4, <1>5 DEF ReplyUnderWay
  <1> QED
    BY <1>1, <1>2, <1>4, <1>5, <1>6 DEF ProofSize

\* Nothing comes any more, and the loop is left with the buffer empty.
LEMMA QuietStep ==
    ASSUME WholeSuccess
    PROVE  IInv /\ TurnInv /\ AuthedQuiet /\ [Next]_vars => AuthedQuiet'
  <1> SUFFICES ASSUME IInv, TurnInv, AuthedQuiet, [Next]_vars,
                      strays' = 0, status' = "AUTHED", Hears'
               PROVE  /\ wire' = <<>> /\ kernel' = 0 /\ bufSize' = BufferSize
                      /\ IF ipc' = "idle" THEN writePos' = 0
                         ELSE readPos' = ProofSize /\ writePos' = ProofSize
    BY DEF AuthedQuiet
  <1>1. strays = 0
    BY Said DEF vars
  <1>2. Replied /\ Advanced /\ Positioned
    BY <1>1 DEF TurnInv
  <1>3. CASE status # "AUTHED"
    <2>1. ProofAccepted \/ ProofRejected
      BY <1>3 DEF Next, vars, Start, Connect, ConnectFails, ArmFirstRead, SendChallenge,
           StoreUsername, StorePasswordKey, HandleRead, LoopExits, UnknownCommand, OutOfStep,
           TooShort, ChallengeFailed, ChallengeBegins, MultipleOfN, ChallengeProved,
           ProofFailed, ReadCompletes, ReadFails, WriteCompletes, Transmit, Arrive, Server,
           ReplyChallenge, ReplyProof, SendStray, Finish, Reset, ServerSends, ClientUnchanged
    <2>2. ~ProofRejected
      <3> SUFFICES ASSUME ProofRejected
                   PROVE  FALSE
        OBVIOUS
      <3>1. ipc = "parse" /\ ipc' = "idle" /\ UNCHANGED <<spc, reads>>
        BY DEF ProofRejected, InStep, Parsing, CloseWith, HandlerUnchanged, startVars
      <3>2. reads = 0 /\ spc \notin {"new", "failed", "connected"}
        BY <3>1 DEF IInv, BufferInv, OneRead
      <3> QED
        BY <3>1, <3>2 DEF Hears
    <2> QED
      BY <2>1, <2>2, AcceptedUsesUp
  <1>4. CASE status = "AUTHED"
    <2>1. /\ "challenge" \in answered /\ "proof" \in answered
          /\ spc \notin {"new", "failed", "connected"}
      BY <1>2, <1>4 DEF Advanced, Replied, IInv, OfflineInv
    <2>2. Hears => /\ wire = <<>> /\ kernel = 0 /\ bufSize = BufferSize
                   /\ IF ipc = "idle" THEN writePos = 0
                      ELSE ipc = "parse" /\ readPos = ProofSize /\ writePos = ProofSize
      BY <1>1, <1>4 DEF AuthedQuiet, IInv, TypeOK, BufferInv
    <2>3. ipc = "parse" => ActualSize = 0
      BY <2>2, AtCommand DEF Hears
    <2>4. CASE Start \/ Transmit("challenge") \/ Transmit("proof") \/ WriteCompletes("challenge")
               \/ WriteCompletes("proof") \/ Finish \/ UNCHANGED vars
      <3>1. UNCHANGED <<spc, wire, kernel, bufVars, reads, ipc>> \/ Start
        BY <2>4 DEF Transmit, WriteCompletes, Finish, vars, bufVars, netVars, ClientUnchanged,
                    startVars
      <3>2. CASE UNCHANGED <<spc, wire, kernel, bufVars, reads, ipc>>
        BY <2>2, <3>2 DEF Hears, bufVars
      <3>3. CASE Start
        <4>1. /\ UNCHANGED <<wire, kernel, bufVars, reads, ipc>>
              /\ spc' \notin {"new", "connected"}
          BY <2>1, <3>3 DEF Start, Connect, ConnectFails, ArmFirstRead, SendChallenge,
             StoreUsername, StorePasswordKey, netVars
        <4> QED
          BY <2>2, <4>1 DEF Hears, bufVars
      <3> QED
        BY <3>1, <3>2, <3>3
    <2>5. CASE ReadCompletes
      <3>1. reads > 0 /\ ipc = "idle" /\ (kernel > 0 \/ SpaceLeft = 0)
        BY <2>5 DEF ReadCompletes, IoFree
      <3> QED
        BY <2>2, <3>1 DEF Hears, SpaceLeft, BufferSize
    <2>6. CASE ReadFails
      <3>1. UNCHANGED <<spc, ipc>> /\ reads' = 0 /\ ipc = "idle"
        BY <2>6 DEF ReadFails, IoFree, startVars, IInv, TypeOK, BufferInv, OneRead
      <3> QED
        BY <2>1, <3>1 DEF Hears
    <2>7. CASE LoopExits
      <3>1. /\ UNCHANGED <<spc, wire, kernel>> /\ ipc = "parse" /\ ipc' = "idle"
            /\ AsyncRead(readPos, writePos, bufSize)
        BY <2>7 DEF LoopExits, Rearm, HandlerUnchanged, startVars, netVars
      <3>2. wire = <<>> /\ kernel = 0 /\ bufSize = 4096 /\ readPos = 36 /\ writePos = 36
        BY <2>2, <3>1 DEF Hears, BufferSize, ProofSize
      <3>3. CASE IsOpen
        BY <3>1, <3>2, <3>3 DEF AsyncRead, BufferSize
      <3>4. CASE ~IsOpen
        <4>1. reads' = 0
          BY <3>1, <3>4 DEF AsyncRead, IInv, BufferInv, OneRead
        <4> QED
          BY <2>1, <3>1, <4>1 DEF Hears
      <3> QED
        BY <3>3, <3>4
    <2>8. CASE UnknownCommand \/ OutOfStep \/ TooShort \/ ChallengeFailed \/ ChallengeBegins
               \/ ProofFailed \/ ProofAccepted \/ ProofRejected
      <3>1. ipc = "parse" /\ ActualSize > 0
        BY <2>8 DEF UnknownCommand, OutOfStep, TooShort, ChallengeFailed, ChallengeBegins,
             ProofFailed, ProofAccepted, ProofRejected, InStep, Parsing
      <3> QED
        BY <2>3, <3>1
    <2>9. CASE MultipleOfN \/ ChallengeProved
      BY <1>4, <2>9 DEF MultipleOfN, ChallengeProved, IInv, BufferInv
    <2>10. CASE Arrive \/ Reset
      <3>1. /\ UNCHANGED <<spc, bufVars, reads, ipc>>
            /\ wire # <<>> \/ (wire' = <<>> /\ kernel' = 0)
        BY <2>10 DEF Arrive, Reset, ClientUnchanged, startVars
      <3> QED
        BY <2>2, <3>1 DEF Hears, bufVars
    <2>11. CASE ReplyChallenge \/ ReplyProof
      BY <2>1, <2>11 DEF ReplyChallenge, ReplyProof
    <2>12. CASE SendStray
      BY <1>1, <2>12 DEF SendStray
    <2> QED
      BY <2>4, <2>5, <2>6, <2>7, <2>8, <2>9, <2>10, <2>11, <2>12
         DEF Next, HandleRead, Server, Packets
  <1> QED
    BY <1>3, <1>4

\* On a network that delivers a success's bytes together, and with a proof's reply
\* of the 36 bytes HandleRead takes, "Client attempted incorrect auth step"
\* (NovusConnection.cpp:96) is said only of a server that has sent a message out of
\* turn.  The run proof_size shows it said of the 32 bytes of sAuthLogonProofData.
THEOREM StepErrorIsRealHolds ==
    ASSUME WholeSuccess
    PROVE  Spec => []StepErrorIsReal
  <1>1. Init => AuthedQuiet /\ StepErrorIsReal
    BY DEF Init, AuthedQuiet, StepErrorIsReal
  <1>2. IInv /\ TurnInv /\ AuthedQuiet /\ [Next]_vars => AuthedQuiet'
    BY QuietStep
  <1>3. IInv /\ TurnInv /\ AuthedQuiet /\ StepErrorIsReal /\ [Next]_vars => StepErrorIsReal'
    <2> SUFFICES ASSUME IInv, TurnInv, AuthedQuiet, StepErrorIsReal, [Next]_vars,
                        verdict' = "outOfStep", strays' = 0
                 PROVE  FALSE
      BY StepKeepsInv DEF StepErrorIsReal, IInv, TypeOK
    <2>1. CASE UNCHANGED vars
      BY <2>1 DEF vars, StepErrorIsReal
    <2>2. CASE Next /\ verdict' = verdict
      BY <2>2, Said DEF StepErrorIsReal
    <2>3. CASE Next /\ OutOfStep
      <3>1. strays = 0 /\ ipc = "parse" /\ ActualSize > 0 /\ Command(head) # status
        BY <2>3, Said DEF OutOfStep, Parsing
      <3>2. CASE status = "AUTHED"
        <4>1. readPos = ProofSize /\ writePos = ProofSize
          BY <3>1, <3>2 DEF AuthedQuiet, Hears
        <4> QED
          BY <3>1, <4>1, AtCommand
      <3>3. CASE status # "AUTHED"
        <4>1. status \in {"CHALLENGE", "PROOF"}
          BY <3>3 DEF IInv, TypeOK
        <4>2. ~(writePos \in Cuts \cap (ChallengeHeaderSize + 1)..(ChallengeSize - 1))
          BY DEF WholeSuccess
        <4>3. head \in RepliesTo(IF status = "CHALLENGE" THEN "challenge" ELSE "proof")
          BY <3>1, <4>1, <4>2, ParsesReply DEF TurnInv
        <4>4. Command(head) = status
          BY <4>1, <4>3, ReplyKinds DEF Packets
        <4> QED
          BY <3>1, <4>4
      <3> QED
        BY <3>2, <3>3
    <2> QED
      BY <2>1, <2>2, <2>3, Said
  <1> QED
    BY <1>1, <1>2, <1>3, Invariance, TurnInvariance, PTL DEF Spec
=============================================================================
