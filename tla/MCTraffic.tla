------------------------------- MODULE MCTraffic -------------------------------
(***************************************************************************)
(* Instances of Traffic for TLC: chunks of one or two connections.         *)
(***************************************************************************)
EXTENDS TrafficLedger, TLC

CONSTANTS k1, k2, k3, c1, c2

\* Two uploads and a download of one connection, all of user 1.
OneConn   == [k \in Chunks |-> c1]
TwoUpOneDown == (k1 :> "up") @@ (k2 :> "up") @@ (k3 :> "down")

\* Two connections of two users.
TwoConns  == (k1 :> c1) @@ (k2 :> c1) @@ (k3 :> c2)
TwoUsers  == (c1 :> 1) @@ (c2 :> 2)
OneUser   == [c \in Conns |-> 1]

\* One upload of each of two connections.
PairConns == (k1 :> c1) @@ (k2 :> c2)
AllUp     == [k \in Chunks |-> "up"]
UpAndDown == (k1 :> "up") @@ (k2 :> "down")

\* States that differ only in what was there when Shutdown began are one, where
\* no property asks for it.
ButAtShutdown == <<connVars, record, reportVars, fileVars, counted, life, stops, histVars>>
================================================================================
