------------------------------- MODULE Relay --------------------------------
(***************************************************************************)
(* What the spectator's delta-compressed stream needs of the UDP -> WebRTC *)
(* direction of the bridge: every packet that is accepted is passed on,    *)
(* translated, before the next is accepted.  A relay that cannot pass a    *)
(* packet on stops for good rather than leave a gap.                       *)
(***************************************************************************)
EXTENDS Naturals, Sequences

CONSTANTS Packets,        \* what the upstream sends
          Translate(_)    \* what the browser is given for it

VARIABLES accepted,  \* packets read from the upstream, in order
          passed,    \* packets handed to the browser, in order
          running

relayState == <<accepted, passed, running>>

Init == accepted = <<>> /\ passed = <<>> /\ running = TRUE

Accept ==
    /\ running
    /\ Len(passed) = Len(accepted)
    /\ \E p \in Packets : accepted' = Append(accepted, p)
    /\ UNCHANGED <<passed, running>>

Pass ==
    /\ running
    /\ Len(passed) < Len(accepted)
    /\ passed' = Append(passed, Translate(accepted[Len(passed) + 1]))
    /\ UNCHANGED <<accepted, running>>

Stop ==
    /\ running
    /\ running' = FALSE
    /\ UNCHANGED <<accepted, passed>>

Next == Accept \/ Pass \/ Stop

Spec == Init /\ [][Next]_relayState
=============================================================================
