-------------------------- MODULE MCDtlsConnection --------------------------
(* A client that writes while it is closed, and a server that reads and closes. *)
EXTENDS DtlsConnection

CONSTANTS u1, u2

MCWriters == [s \in Sides |-> IF s = "client" THEN {u1} ELSE {}]
MCClosers == [s \in Sides |-> IF s = "client" THEN {u2} ELSE {u1}]
MCUsers == [s \in Sides |-> MCWriters[s] \cup MCClosers[s]]
MCMaxWrites == [s \in Sides |-> IF s = "client" THEN 2 ELSE 0]
=============================================================================
