--------------------------- MODULE LoginProtocol ---------------------------
(***************************************************************************)
(* What a login connection promises, whatever the network does to its      *)
(* bytes: the phases of the login are passed one at a time, an             *)
(* authenticated connection is one whose server has proved that it knows   *)
(* the session key, and a connection that has ended stays ended.           *)
(***************************************************************************)
VARIABLES phase,       \* the phase of the login the connection is in
          serverProved \* the server's proof has been compared and it matched

vars == <<phase, serverProved>>

Phases == {"offline", "challenge", "proof", "authed", "ended"}

TypeOK == phase \in Phases /\ serverProved \in BOOLEAN

Init == phase = "offline" /\ serverProved = FALSE

Connect ==
    /\ phase = "offline"
    /\ phase' = "challenge"
    /\ UNCHANGED serverProved

\* The server's challenge has arrived; the client works on its answer.
Challenged ==
    /\ phase = "challenge"
    /\ phase' = "proof"
    /\ UNCHANGED serverProved

Authenticate ==
    /\ phase = "proof"
    /\ phase' = "authed"
    /\ serverProved' = TRUE

\* Either side gives up, or the connection breaks.
End ==
    /\ phase \in {"challenge", "proof", "authed"}
    /\ phase' = "ended"
    /\ UNCHANGED serverProved

\* A connection that has broken may still have a message in hand.
LateProof ==
    /\ phase = "ended"
    /\ serverProved' = TRUE
    /\ UNCHANGED phase

Next == Connect \/ Challenged \/ Authenticate \/ End \/ LateProof

Spec == Init /\ [][Next]_vars
=============================================================================
