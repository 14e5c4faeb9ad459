----------------------------- MODULE HookReports -----------------------------
(***************************************************************************)
(* What a packet hook promises the scripts: a report runs the callbacks    *)
(* that were hooked when it began, each once, in the order in which they   *)
(* were registered.  All of them are of the newest load, because a reload  *)
(* takes the hooks away before it builds new callbacks.                    *)
(*                                                                         *)
(* All of this is promised until the hooks are changed from outside while  *)
(* a report is under way, and then nothing.                                *)
(***************************************************************************)
EXTENDS Naturals, Sequences

VARIABLES
    current,   \* the callbacks of the newest load, as numbers
    hooked,    \* the callbacks that are hooked, in order
    reporting, \* a login is being reported
    left,      \* what the report has not yet run to its end
    running,   \* the callback that runs, or none
    changing,  \* the hooks are being changed
    broken     \* they were changed during a report

vars == <<current, hooked, reporting, left, running, changing, broken>>

NoCallback == 0

Init ==
    /\ current = {} /\ hooked = <<>>
    /\ reporting = FALSE /\ left = <<>> /\ running = NoCallback
    /\ changing = FALSE /\ broken = FALSE

\* The hooks change between reports, or by a callback that registers another.
MayChange == reporting => running # NoCallback

Change ==
    /\ MayChange /\ changing' = ~changing
    /\ UNCHANGED <<current, hooked, reporting, left, running>>

Reload ==
    /\ ~reporting
    /\ hooked' = <<>> /\ current' \cap current = {} /\ changing' \in BOOLEAN
    /\ UNCHANGED <<reporting, left, running>>

Build ==
    /\ current \subseteq current'
    /\ UNCHANGED <<hooked, reporting, left, running, changing>>

Register ==
    /\ MayChange
    /\ \E c \in current : hooked' = Append(hooked, c)
    /\ changing' \in BOOLEAN
    /\ UNCHANGED <<current, reporting, left, running>>

Begin ==
    /\ ~reporting /\ ~changing
    /\ reporting' = TRUE /\ left' = hooked
    /\ UNCHANGED <<current, hooked, running, changing>>

Call ==
    /\ reporting /\ running = NoCallback /\ left # <<>>
    /\ running' = Head(left)
    /\ UNCHANGED <<current, hooked, reporting, left, changing>>

Return ==
    /\ running # NoCallback /\ ~changing
    /\ running' = NoCallback /\ left' = Tail(left)
    /\ UNCHANGED <<current, hooked, reporting, changing>>

End ==
    /\ reporting /\ running = NoCallback /\ left = <<>>
    /\ reporting' = FALSE
    /\ UNCHANGED <<current, hooked, left, running, changing>>

Kept == Change \/ Reload \/ Build \/ Register \/ Begin \/ Call \/ Return \/ End

\* The hooks change under a report.
Break ==
    /\ reporting' /\ broken'
    /\ changing \/ changing' \/ hooked' # hooked \/ ~(current \subseteq current')

Next == \/ ~broken /\ ~broken' /\ Kept
        \/ ~broken /\ Break
        \/ broken /\ broken'

Spec == Init /\ [][Next]_vars
==============================================================================
