----------------------------- MODULE Connection -----------------------------
(***************************************************************************)
(* One login connection: client/Connection/NovusConnection, its base class *)
(* client/Networking/BaseSocket.h and the read and write positions of its  *)
(* client/Networking/ByteBuffer.h.                                         *)
(*                                                                         *)
(* Two threads touch the object.  The starter runs Start(): it is the tick *)
(* thread when a script's main() logs in, and the io thread itself when a  *)
(* packet callback does.  The io thread runs the completions of the        *)
(* asynchronous reads and writes.  The network cuts and joins the bytes of *)
(* the server's messages, and the server (external) answers.               *)
(*                                                                         *)
(* Bytes are counted, not stored: what a handler makes of a message        *)
(* depends on the message that begins at the start of the buffer and on    *)
(* how many bytes of it have arrived.                                      *)
(***************************************************************************)
EXTENDS Integers, Sequences

CONSTANTS ProofReplySize, \* bytes of the server's successful proof reply
          U32Wrap,        \* the modulus of the u32 GetActualSize returns
          Cuts,           \* the offsets at which the network may cut a message
          MaxStray,       \* messages out of turn the server may send
          Lossy           \* writes may fail or be short, the peer may go away

ASSUME ProofReplySizeAssumption == ProofReplySize \in 23..4096
ASSUME U32WrapAssumption == U32Wrap \in Nat /\ U32Wrap >= 65536
ASSUME EnvironmentAssumption ==
    Cuts \subseteq Nat \ {0} /\ MaxStray \in Nat /\ Lossy \in BOOLEAN

-----------------------------------------------------------------------------
\* Sizes in bytes: of the packed structs in NovusConnection.h, of what
\* HandleRead takes for each command, and of the buffer a socket starts with.
ChallengeHeaderSize == 3    \* sAuthLogonChallengeHeader
ChallengeSize       == 119  \* packetSize 3, and the 116 HandleRead adds
ProofHeaderSize     == 4    \* sAuthLogonProofHeader
ProofSizeOfStruct   == 32   \* fault: what sAuthLogonProofData holds
ProofSize           == 36   \* packetSize 4, and the 32 HandleRead adds
ProofM2End          == 22   \* command, error and the 20 bytes of M2
BufferSize          == 4096
OtherSize           == 5    \* any message the client has no handler for

Replies == {"challengeOk", "challengeFail", "proofOk", "proofForged",
            "proofFail", "other"}

SizeOf(kind) ==
    CASE kind = "challengeOk"                 -> ChallengeSize
      [] kind = "challengeFail"               -> ChallengeHeaderSize
      [] kind \in {"proofOk", "proofForged"}  -> ProofReplySize
      [] kind = "proofFail"                   -> ProofHeaderSize
      [] kind = "other"                       -> OtherSize

\* What the first byte of the buffer can belong to: the start of a message,
\* or the inside of one, where it may read as any command.  Of bytes still in
\* the kernel it is enough to know that they begin "inside".
Inside == {"insideChallenge", "insideProof", "insideOther"}
Heads  == Replies \cup Inside \cup {"none"}
KernelHeads == Replies \cup {"none", "inside"}

Command(h) ==
    CASE h \in {"challengeOk", "challengeFail", "insideChallenge"} -> "CHALLENGE"
      [] h \in {"proofOk", "proofForged", "proofFail", "insideProof"} -> "PROOF"
      [] OTHER -> "unhandled"

Packets == {"challenge", "proof"}

-----------------------------------------------------------------------------
VARIABLES
    spc,       \* how far Start() has come
    onIo,      \* Start() runs on the io thread, inside a packet callback
    status,    \* _status (NOVUSSTATUS_CLOSED is never assigned)
    closed,    \* _isClosed, set by Close() together with _socket->close()
    readPos,   \* _byteBuffer._readPos
    writePos,  \* _byteBuffer._writePos
    bufSize,   \* _byteBuffer.size()
    head,      \* what the byte at the start of the buffer belongs to
    reads,     \* reads handed to the socket whose completion has not run
    ipc,       \* where the io thread stands in HandleRead
    hookUsers, \* the usernames CallHook has been given, in order
    proof,     \* the client's proof: not computed, computed wrong, or right
    matched,   \* HandleCommandProof has found M2 equal to _proofM2
    verdict,   \* why HandleRead closed the connection
    write,     \* what became of each packet handed to async_write_some
    written,   \* the packets whose write completion has run
    wire,      \* the server's messages in flight, with the bytes still to come
    kernel,    \* bytes the socket has received and no read has taken
    kernelHead,\* what the first of those bytes belongs to
    peer,      \* the server's end: open, closed in order, or reset
    sent,      \* the kinds of message the server has sent
    answered,  \* the packets the server has answered
    strays     \* how many messages it has sent out of turn

startVars == <<spc, onIo>>
bufVars   == <<readPos, writePos, bufSize, head>>
logVars   == <<hookUsers, proof, matched, verdict>>
peerVars  == <<peer, sent, answered, strays>>
netVars   == <<wire, kernel, kernelHead, peerVars>>
vars == <<spc, onIo, status, closed, readPos, writePos, bufSize, head, reads,
          ipc, hookUsers, proof, matched, verdict, write, written, wire,
          kernel, kernelHead, peer, sent, answered, strays>>

\* Fault: Close() leaves the socket open.
NeverClosed == spc \notin {"new", "failed"}

\* The socket is open from a successful connect until Close().
IsOpen == spc \notin {"new", "failed"} /\ ~closed

\* The definitions called faults, here and below, are not part of the model:
\* each is a plausible mistake in the definition that follows it, and a run
\* whose model has the mistake must find a property violated.

\* GetActualSize: the difference of two positions, cut to 32 bits.
ActualSize == IF writePos >= readPos THEN writePos - readPos
                                     ELSE U32Wrap + writePos - readPos

SpaceLeft == bufSize - writePos

\* Fault: a second thread runs the io service.
TwoIoThreads == ipc = "idle"

\* A completion runs on the io thread when that thread is free, which it is
\* not while a packet callback is inside Start().
IoFree == ipc = "idle" /\ ~(onIo /\ spc \notin {"started", "failed"})

Init ==
    /\ spc = "new" /\ onIo \in BOOLEAN
    /\ status = "CHALLENGE" /\ closed = FALSE
    /\ readPos = 0 /\ writePos = 0 /\ bufSize = BufferSize /\ head = "none"
    /\ reads = 0 /\ ipc = "idle"
    /\ hookUsers = <<>> /\ proof = "none" /\ matched = FALSE /\ verdict = "none"
    /\ write = [p \in Packets |-> "none"] /\ written = {}
    /\ wire = <<>> /\ kernel = 0 /\ kernelHead = "none"
    /\ peer = "open" /\ sent = {} /\ answered = {} /\ strays = 0

-----------------------------------------------------------------------------
\* BaseSocket

\* Fault: CleanBuffer is not called.
AsyncReadUncompacted(r, w, size) ==
    /\ readPos' = r /\ writePos' = w /\ bufSize' = size
    /\ reads' = reads + (IF IsOpen THEN 1 ELSE 0)
    /\ UNCHANGED head

\* AsyncRead with the positions and size the caller leaves: CleanBuffer moves
\* what is unread to the front, RecalculateSize grows a full buffer by half,
\* and a read is handed to the socket unless the socket is closed.
AsyncRead(r, w, size) ==
    IF IsOpen
    THEN /\ readPos' = 0
         /\ writePos' = w - r
         /\ bufSize' = IF size = w - r THEN (size * 3) \div 2 ELSE size
         /\ head' = IF r = w THEN "none"
                    ELSE IF r = 0 THEN head ELSE "insideOther"
         /\ reads' = reads + 1
    ELSE /\ readPos' = r /\ writePos' = w /\ bufSize' = size
         /\ UNCHANGED <<head, reads>>

\* Send: a packet given to a closed socket completes with an error.
Send(p) == write' = [write EXCEPT ![p] = IF IsOpen THEN "queued" ELSE "error"]

\* Fault: HandleRead returns without closing the connection.
ReturnOpen(reason) ==
    /\ verdict' = reason
    /\ ipc' = "idle"
    /\ UNCHANGED <<closed, reads>>

\* HandleRead closes the connection and returns: no further read is armed.
CloseWith(reason) ==
    /\ closed' = TRUE
    /\ verdict' = reason
    /\ ipc' = "idle"
    /\ UNCHANGED reads

\* HandleInternalRead without an error.  The read takes all it has room for;
\* a read without room completes at once with no bytes.
ReadCompletes ==
    /\ IoFree /\ reads > 0
    /\ kernel > 0 \/ SpaceLeft = 0
    /\ LET n == IF kernel < SpaceLeft THEN kernel ELSE SpaceLeft IN
       /\ writePos' = writePos + n
       /\ IF writePos = 0 /\ n > 0
          THEN head' \in IF kernelHead = "inside" THEN Inside ELSE {kernelHead}
          ELSE UNCHANGED head
       /\ kernel' = kernel - n
       /\ kernelHead' = IF n = 0 THEN kernelHead
                        ELSE IF n = kernel THEN "none" ELSE "inside"
    /\ reads' = reads - 1
    /\ ipc' = "parse"
    /\ UNCHANGED <<startVars, status, closed, readPos, bufSize, logVars,
                   write, written, wire, peerVars>>

\* HandleInternalRead with an error: end of stream, reset, or a closed socket.
ReadFails ==
    /\ IoFree /\ reads > 0 /\ kernel = 0 /\ SpaceLeft > 0
    /\ closed \/ peer = "reset" \/ (peer = "finished" /\ wire = <<>>)
    /\ reads' = reads - 1
    /\ closed' = TRUE
    /\ UNCHANGED <<startVars, status, bufVars, ipc, logVars, write, written,
                   netVars>>

\* HandleInternalWrite: an error closes; the count of bytes is not looked at.
WriteCompletes(p) ==
    /\ IoFree
    /\ write[p] \in {"whole", "damaged", "error"} /\ p \notin written
    /\ written' = written \cup {p}
    /\ closed' = (closed \/ write[p] = "error")
    /\ UNCHANGED <<startVars, status, bufVars, reads, ipc, logVars, write,
                   netVars>>

-----------------------------------------------------------------------------
\* NovusConnection::Start

Connect ==
    /\ spc = "new"
    /\ spc' = "connected"
    /\ UNCHANGED <<onIo, status, closed, bufVars, reads, ipc, logVars, write,
                   written, netVars>>

\* connect throws; Start() logs the error and returns false.
ConnectFails ==
    /\ spc = "new"
    /\ spc' = "failed"
    /\ UNCHANGED <<onIo, status, closed, bufVars, reads, ipc, logVars, write,
                   written, netVars>>

ArmFirstRead ==
    /\ spc = "connected"
    /\ spc' = "armed"
    /\ AsyncRead(readPos, writePos, bufSize)
    /\ UNCHANGED <<onIo, status, closed, ipc, logVars, write, written, netVars>>

SendChallenge ==
    /\ spc = "armed"
    /\ spc' = "sent"
    /\ Send("challenge")
    /\ UNCHANGED <<onIo, status, closed, bufVars, reads, ipc, logVars, written,
                   netVars>>

\* _username and _password are stored only after the challenge went out ...
StoreUsername ==
    /\ spc = "sent"
    /\ spc' = "named"
    /\ UNCHANGED <<onIo, status, closed, bufVars, reads, ipc, logVars, write,
                   written, netVars>>

\* ... and the password's hash after them.
StorePasswordKey ==
    /\ spc = "named"
    /\ spc' = "started"
    /\ UNCHANGED <<onIo, status, closed, bufVars, reads, ipc, logVars, write,
                   written, netVars>>

Start == Connect \/ ConnectFails \/ ArmFirstRead \/ SendChallenge
         \/ StoreUsername \/ StorePasswordKey

\* What a read of _username and of _passwordKey finds on the io thread.  While
\* Start() is assigning the string, the value read is any (a data race).
UsernamesSeen == CASE spc \in {"named", "started"} -> {"user"}
                   [] spc = "sent"                -> {"empty", "torn"}
                   [] OTHER                       -> {"empty"}
HasPasswordKey == spc = "started"

-----------------------------------------------------------------------------
\* HandleRead: the loop over the buffer, one action per way through its body.
\* The command is read from the start of the buffer, not from _readPos.

Parsing(c) == ipc = "parse" /\ ActualSize > 0 /\ Command(head) = c

\* Fault: any command is handled in any status.
AnyStep(c) == Parsing(c)

\* The handler's status check passes.
InStep(c) == Parsing(c) /\ status = c

HandlerUnchanged == UNCHANGED <<startVars, written, netVars>>

\* Fault: the loop goes on after the read has been armed.
RearmAndGoOn == AsyncRead(readPos, writePos, bufSize) /\ UNCHANGED ipc

\* Fault: HandleRead returns instead of leaving the loop.
ReturnUnarmed == ipc' = "idle" /\ UNCHANGED <<bufVars, reads>>

\* HandleRead leaves its loop.
Rearm == AsyncRead(readPos, writePos, bufSize) /\ ipc' = "idle"

\* The buffer is used up; the next read is armed.
LoopExits ==
    /\ ipc = "parse" /\ ActualSize = 0
    /\ Rearm
    /\ UNCHANGED <<status, closed, logVars, write>> /\ HandlerUnchanged

\* Clean() leaves a buffer of size 0, which RecalculateSize cannot grow.
UnknownCommand ==
    /\ Parsing("unhandled")
    /\ AsyncRead(0, 0, 0)
    /\ ipc' = "idle"
    /\ UNCHANGED <<status, closed, logVars, write>> /\ HandlerUnchanged

OutOfStep ==
    /\ \E c \in {"CHALLENGE", "PROOF"} : Parsing(c) /\ status # c
    /\ CloseWith("outOfStep")
    /\ UNCHANGED <<status, bufVars, hookUsers, proof, matched, write>>
    /\ HandlerUnchanged

\* Not even the header has arrived: wait for the rest.
TooShort ==
    /\ \/ InStep("CHALLENGE") /\ ActualSize < ChallengeHeaderSize
       \/ InStep("PROOF") /\ ActualSize < ProofHeaderSize
    /\ Rearm
    /\ UNCHANGED <<status, closed, logVars, write>> /\ HandlerUnchanged

CallHook == \E u \in UsernamesSeen : hookUsers' = Append(hookUsers, u)

\* Fault: any message with a header is a refusal.
RefusedAtLeast(n) == ActualSize >= n

\* A message of the header's size exactly is taken to be a refusal.
Refused(n) == ActualSize = n

ChallengeFailed ==
    /\ InStep("CHALLENGE") /\ Refused(ChallengeHeaderSize)
    /\ readPos' = readPos + ChallengeHeaderSize
    /\ CallHook
    /\ CloseWith("loginFailed")
    /\ UNCHANGED <<status, writePos, bufSize, head, proof, matched, write>>
    /\ HandlerUnchanged

\* HandleCommandChallenge up to and including the scripts' callbacks.
ChallengeBegins ==
    /\ InStep("CHALLENGE") /\ ActualSize > ChallengeHeaderSize
    /\ status' = "PROOF"
    /\ CallHook
    /\ ipc' = "prove"
    /\ UNCHANGED <<closed, bufVars, reads, proof, matched, verdict, write>>
    /\ HandlerUnchanged

\* The server's values are whole only if all of its message is there; the
\* bytes that are missing are whatever the buffer held.
ChallengeWhole == head = "challengeOk" /\ ActualSize >= ChallengeSize

\* B may be a multiple of N, be it the server's B or what the buffer held.
MultipleOfN ==
    /\ ipc = "prove"
    /\ CloseWith("zeroB")
    /\ UNCHANGED <<status, bufVars, hookUsers, proof, matched, write>>
    /\ HandlerUnchanged

\* The rest of HandleCommandChallenge, and ReadBytes(119) whatever was there.
ChallengeProved ==
    /\ ipc = "prove"
    /\ proof' = IF ChallengeWhole /\ HasPasswordKey THEN "good" ELSE "bad"
    /\ Send("proof")
    /\ readPos' = readPos + ChallengeSize
    /\ ipc' = "parse"
    /\ UNCHANGED <<status, closed, writePos, bufSize, head, reads, hookUsers,
                   matched, verdict>>
    /\ HandlerUnchanged

ProofFailed ==
    /\ InStep("PROOF") /\ Refused(ProofHeaderSize)
    /\ readPos' = readPos + ProofHeaderSize
    /\ CloseWith("proofFailed")
    /\ UNCHANGED <<status, writePos, bufSize, head, hookUsers, proof, matched,
                   write>>
    /\ HandlerUnchanged

\* Fault: the result of memcmp is taken for a boolean.
M2Differs == head # "proofOk"

\* HandleCommandProof compares the bytes where M2 is; a part that has not
\* arrived does not compare equal.
M2Matches == head = "proofOk" /\ ActualSize >= ProofM2End /\ proof = "good"

ProofAccepted ==
    /\ InStep("PROOF") /\ ActualSize > ProofHeaderSize /\ M2Matches
    /\ status' = "AUTHED"
    /\ matched' = TRUE
    /\ readPos' = readPos + ProofSize
    /\ UNCHANGED <<closed, writePos, bufSize, head, reads, ipc, hookUsers,
                   proof, verdict, write>>
    /\ HandlerUnchanged

ProofRejected ==
    /\ InStep("PROOF") /\ ActualSize > ProofHeaderSize /\ ~M2Matches
    /\ status' = "AUTHED"
    /\ CloseWith("invalidProof")
    /\ UNCHANGED <<bufVars, hookUsers, proof, matched, write>>
    /\ HandlerUnchanged

HandleRead ==
    \/ LoopExits \/ UnknownCommand \/ OutOfStep \/ TooShort
    \/ ChallengeFailed \/ ChallengeBegins \/ MultipleOfN \/ ChallengeProved
    \/ ProofFailed \/ ProofAccepted \/ ProofRejected

-----------------------------------------------------------------------------
\* The network and the server (external)

ClientUnchanged == UNCHANGED <<startVars, status, closed, bufVars, reads, ipc,
                               logVars, written>>

\* The packet leaves the socket.  A write may be short, and its buffer is a
\* local of the caller that is gone by now, so the server may get other bytes.
Transmit(p) ==
    /\ write[p] = "queued"
    /\ \E fate \in IF Lossy \/ ~IsOpen \/ peer = "reset"
                   THEN {"whole", "damaged", "error"} ELSE {"whole"} :
         write' = [write EXCEPT ![p] = fate]
    /\ ClientUnchanged /\ UNCHANGED netVars

\* Some bytes of the first message in flight reach the socket.
Arrive ==
    /\ wire # <<>> /\ IsOpen
    /\ LET m    == Head(wire)
           gone == SizeOf(m.kind) - m.left IN
       \E n \in {m.left} \cup {cut - gone : cut \in Cuts \cap (gone + 1)..(gone + m.left)} :
          /\ kernel' = kernel + n
          /\ kernelHead' = IF kernel > 0 THEN kernelHead
                           ELSE IF gone = 0 THEN m.kind
                           ELSE "inside"
          /\ wire' = IF n = m.left THEN Tail(wire)
                     ELSE [wire EXCEPT ![1].left = m.left - n]
    /\ ClientUnchanged /\ UNCHANGED <<write, peerVars>>

ServerSends(kind) ==
    /\ peer = "open"
    /\ wire' = Append(wire, [kind |-> kind, left |-> SizeOf(kind)])
    /\ sent' = sent \cup {kind}
    /\ ClientUnchanged /\ UNCHANGED <<write, kernel, kernelHead, peer>>

ReplyChallenge ==
    /\ write["challenge"] = "whole" /\ "challenge" \notin answered
    /\ \E kind \in {"challengeOk", "challengeFail"} : ServerSends(kind)
    /\ answered' = answered \cup {"challenge"}
    /\ UNCHANGED strays

\* Only the right proof is answered with a proof; an impostor forges one.
ReplyProof ==
    /\ write["proof"] = "whole" /\ "proof" \notin answered
    /\ \E kind \in {"proofForged", "proofFail"}
                     \cup (IF proof = "good" THEN {"proofOk"} ELSE {}) :
         ServerSends(kind)
    /\ answered' = answered \cup {"proof"}
    /\ UNCHANGED strays

\* A message out of turn; a proof that matches cannot be one.
SendStray ==
    /\ spc \notin {"new", "failed"} /\ strays < MaxStray
    /\ \E kind \in Replies \ {"proofOk"} : ServerSends(kind)
    /\ strays' = strays + 1
    /\ UNCHANGED answered

\* The server closes its end: what it has sent still arrives.
Finish ==
    /\ Lossy /\ peer = "open" /\ spc \notin {"new", "failed"}
    /\ peer' = "finished"
    /\ ClientUnchanged
    /\ UNCHANGED <<write, wire, kernel, kernelHead, sent, answered, strays>>

\* The connection is reset: what has not been read is lost.
Reset ==
    /\ Lossy /\ peer # "reset" /\ spc \notin {"new", "failed"}
    /\ peer' = "reset"
    /\ wire' = <<>> /\ kernel' = 0 /\ kernelHead' = "none"
    /\ ClientUnchanged /\ UNCHANGED <<write, sent, answered, strays>>

Server == ReplyChallenge \/ ReplyProof \/ SendStray \/ Finish \/ Reset

-----------------------------------------------------------------------------
Next ==
    \/ Start
    \/ ReadCompletes \/ ReadFails \/ HandleRead
    \/ \E p \in Packets : WriteCompletes(p) \/ Transmit(p)
    \/ Arrive \/ Server

\* Both threads run; the io thread takes completions in the order they were
\* posted, so none waits for ever; the network delivers and the server answers.
Fairness ==
    /\ WF_vars(Start) /\ WF_vars(HandleRead)
    /\ WF_vars(ReadCompletes \/ ReadFails)
    /\ \A p \in Packets : SF_vars(WriteCompletes(p)) /\ WF_vars(Transmit(p))
    /\ WF_vars(Arrive) /\ WF_vars(ReplyChallenge) /\ WF_vars(ReplyProof)

Spec == Init /\ [][Next]_vars
FairSpec == Spec /\ Fairness

-----------------------------------------------------------------------------
\* Properties

\* Every variable keeps its type; the positions never become negative.
TypeOK ==
    /\ spc \in {"new", "failed", "connected", "armed", "sent", "named", "started"}
    /\ onIo \in BOOLEAN
    /\ status \in {"CHALLENGE", "PROOF", "AUTHED"} /\ closed \in BOOLEAN
    /\ readPos \in Nat /\ writePos \in Nat /\ bufSize \in Nat
    /\ head \in Heads
    /\ reads \in Nat /\ ipc \in {"idle", "parse", "prove"}
    /\ hookUsers \in Seq({"empty", "torn", "user"})
    /\ proof \in {"none", "good", "bad"} /\ matched \in BOOLEAN
    /\ verdict \in {"none", "outOfStep", "loginFailed", "zeroB", "proofFailed",
                    "invalidProof"}
    /\ write \in [Packets -> {"none", "queued", "whole", "damaged", "error"}]
    /\ written \subseteq Packets
    /\ wire \in Seq([kind : Replies, left : Nat])
    /\ kernel \in Nat /\ kernelHead \in KernelHeads
    /\ peer \in {"open", "finished", "reset"}
    /\ sent \subseteq Replies /\ answered \subseteq Packets /\ strays \in Nat

\* The buffer has one owner: at most one read is outstanding, and none while
\* HandleRead is at work on the bytes a read would overwrite or move.
OneRead == reads <= 1 /\ (ipc # "idle" => reads = 0)

\* A read is armed with the unread bytes, three at most, at the front of the
\* buffer and all the rest of it free; but a buffer that Clean() has emptied
\* stays empty.
ReadHasRoom ==
    reads > 0 => /\ readPos = 0 /\ writePos <= ChallengeHeaderSize
                 /\ bufSize = BufferSize \/ (bufSize = 0 /\ writePos = 0)

\* Whatever the server sends, in whatever order and pieces: a connection that
\* is authenticated has sent the right proof, and has compared the M2 of a
\* server that knows the session key.
MutualAuth ==
    status = "AUTHED" /\ verdict # "invalidProof" =>
        matched /\ proof = "good" /\ "proofOk" \in sent

\* Scripts hear of one login challenge per connection: a refusal and a
\* challenge, or two challenges, are never both reported.
HookOnce == Len(hookUsers) <= 1

\* When a script logs in from a packet callback, the credentials are in place
\* before any completion can use them (on the tick thread they are not).
CredentialsOnIo ==
    onIo => /\ \A i \in DOMAIN hookUsers : hookUsers[i] = "user"
            /\ proof # "none" => HasPasswordKey

\* A closed connection is closed for good: no read is armed and no packet
\* leaves, also when a completion was already on its way.
ClosingIsFinal ==
    [][closed => /\ closed' /\ reads' <= reads
                 /\ \A p \in Packets : write'[p] = "queued" => write[p] = "queued"]_vars

\* "Client attempted incorrect auth step" (NovusConnection.cpp:96) is said
\* only of a server that has sent a message out of turn.
StepErrorIsReal == verdict = "outOfStep" => strays > 0

\* "Challenge Failed" (NovusConnection.cpp:111) is said of a server that answers
\* in turn only when it has refused the challenge.
RefusalIsReal == verdict = "loginFailed" /\ strays = 0 => "challengeFail" \in sent

\* "Server sent invalid proof" (NovusConnection.cpp:287) is said of a server
\* that answers in turn only when its M2 was wrong.
InvalidProofIsReal == verdict = "invalidProof" /\ strays = 0 => "proofForged" \in sent

\* The phase of the abstract login protocol a connection is in.
PhaseOf(s) == CASE s = "CHALLENGE" -> "challenge"
                [] s = "PROOF"     -> "proof"
                [] OTHER           -> "authed"
LoginPhase == IF closed THEN "ended"
              ELSE IF spc \in {"new", "failed"} THEN "offline" ELSE PhaseOf(status)

\* The connection passes through the phases of the abstract login protocol.
Login == INSTANCE LoginProtocol WITH phase <- LoginPhase, serverProved <- matched
LoginSpec == Login!Spec

\* A login that has connected comes to an end, on a network that loses and
\* resets too: it is authenticated, it is closed, a message out of turn without
\* a handler has left it deaf, or a write was short: HandleInternalWrite does
\* not look at the count, and the server waits for the rest (BaseSocket.h:86).
LoginResolves ==
    spc = "connected" ~> \/ status = "AUTHED" \/ closed
                         \/ bufSize = 0 /\ strays > 0
                         \/ \E p \in Packets : write[p] = "damaged"

-----------------------------------------------------------------------------
\* The inductive invariant

\* Where the positions stand: at the front between reads, and after a handler
\* where it leaves them, with a first byte that no later status accepts.
BufferInv ==
    /\ OneRead
    /\ bufSize \in {0, BufferSize}
    /\ spc \in {"new", "failed", "connected"} =>
           reads = 0 /\ ipc = "idle" /\ readPos = 0 /\ writePos = 0
    /\ reads > 0 =>
           readPos = 0 /\ writePos <= ChallengeHeaderSize /\ writePos <= bufSize
    /\ ipc = "parse" =>
           \/ readPos = 0 /\ writePos <= bufSize
           \/ /\ status = "PROOF" /\ Command(head) = "CHALLENGE"
              /\ readPos = ChallengeSize
           \/ /\ status = "AUTHED" /\ Command(head) = "PROOF"
              /\ readPos = ProofSize
    /\ ipc = "prove" =>
           status = "PROOF" /\ Command(head) = "CHALLENGE" /\ readPos = 0

\* What scripts have heard and what has been proved, by the status.
LogInv ==
    /\ verdict # "none" => closed /\ reads = 0 /\ ipc = "idle"
    /\ status = "CHALLENGE" /\ verdict = "none" => hookUsers = <<>>
    /\ Len(hookUsers) <= 1
    /\ MutualAuth
    /\ onIo /\ spc # "started" =>
           ipc = "idle" /\ hookUsers = <<>> /\ proof = "none"
    /\ onIo => hookUsers \in {<<>>, <<"user">>}

\* Nothing is received that the server has not sent.
WireInv ==
    /\ \A i \in DOMAIN wire : wire[i].kind \in sent
    /\ kernelHead \in sent \cup {"none", "inside"}
    /\ head \in sent \cup Inside \cup {"none"}

\* Before the connection is made nothing has happened to it.
OfflineInv ==
    spc \in {"new", "failed"} =>
        /\ status = "CHALLENGE" /\ ~closed
        /\ \A p \in Packets : write[p] = "none"

IInv == TypeOK /\ BufferInv /\ LogInv /\ WireInv /\ OfflineInv
=============================================================================
