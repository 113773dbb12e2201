------------------------------ MODULE Datagrams ------------------------------
(***************************************************************************)
(* What a DTLS connection promises to those who use it: each side writes   *)
(* datagrams and reads those of the other, any of which may be missing and *)
(* in any order, but each at most once and none that was not written.  It  *)
(* is over for a side only after one of the two has hung up, and a side    *)
(* for which it is over reads nothing any more.                            *)
(***************************************************************************)
EXTENDS Naturals, Sequences, Functions

CONSTANT Other     \* the two sides, each mapped to the other

VARIABLES written,  \* the number of datagrams each side has written
          read,     \* those each side has read, as their numbers, in order
          hungUp,   \* the sides that have hung up
          over      \* the sides whose reads answer that it is over

datagramVars == <<written, read, hungUp, over>>

Init ==
    /\ written = [s \in DOMAIN Other |-> 0]
    /\ read = [s \in DOMAIN Other |-> <<>>]
    /\ hungUp = {}
    /\ over = {}

Write(s) ==
    /\ written' = [written EXCEPT ![s] = @ + 1]
    /\ UNCHANGED <<read, hungUp, over>>

\* Reading the last datagram may be what makes it over.
Read(s) ==
    /\ s \notin over
    /\ \E k \in 1..written[Other[s]] :
         /\ k \notin Range(read[s])
         /\ read' = [read EXCEPT ![s] = Append(@, k)]
    /\ \/ UNCHANGED over
       \/ hungUp # {} /\ over' = over \cup {s}
    /\ UNCHANGED <<written, hungUp>>

HangUp(s) ==
    /\ hungUp' = hungUp \cup {s}
    /\ UNCHANGED <<written, read, over>>

End(s) ==
    /\ hungUp # {}
    /\ over' = over \cup {s}
    /\ UNCHANGED <<written, read, hungUp>>

Next == \E s \in DOMAIN Other : Write(s) \/ Read(s) \/ HangUp(s) \/ End(s)

Spec == Init /\ [][Next]_datagramVars
=============================================================================
