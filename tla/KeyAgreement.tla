---------------------------- MODULE KeyAgreement ----------------------------
(***************************************************************************)
(* What a handshake promises to those who use its connection: the client   *)
(* settles on a key once, the server comes to hold that key or none, and   *)
(* neither ever changes it.  The server confirms before the client does,   *)
(* so that a client whose handshake has succeeded has a peer that is ready *)
(* to talk with the same key.  Either side may give up before its end.     *)
(***************************************************************************)
VARIABLES key,      \* of each side, {} before it has one
          outcome   \* of each side: "pending", "done" or "failed"

keyState == <<key, outcome>>

Init ==
    /\ key = [s \in {"client", "server"} |-> {}]
    /\ outcome = [s \in {"client", "server"} |-> "pending"]

Propose ==
    /\ outcome["client"] = "pending" /\ key["client"] = {} /\ key["server"] = {}
    /\ key'["client"] # {} /\ key' = [key EXCEPT !["client"] = key'["client"]]
    /\ UNCHANGED outcome

Adopt ==
    /\ outcome["server"] = "pending" /\ key["server"] = {}
    /\ key["client"] # {} /\ key' = [key EXCEPT !["server"] = key["client"]]
    /\ UNCHANGED outcome

Confirm(s) ==
    /\ outcome[s] = "pending" /\ key[s] # {}
    /\ s = "client" => outcome["server"] = "done"
    /\ outcome' = [outcome EXCEPT ![s] = "done"]
    /\ UNCHANGED key

GiveUp(s) ==
    /\ outcome[s] = "pending"
    /\ outcome' = [outcome EXCEPT ![s] = "failed"]
    /\ UNCHANGED key

Next ==
    \/ Propose \/ Adopt
    \/ \E s \in {"client", "server"} : Confirm(s) \/ GiveUp(s)

Spec == Init /\ [][Next]_keyState
=============================================================================
