----------------------------- MODULE TrafficLedger ------------------------------
(***************************************************************************)
(* Traffic implements Ledger.  A chunk is owed as long as a counter, a     *)
(* report or the backlog holds it; between the panel's answer and          *)
(* clearPending the payload is still there and owed no more.  While the    *)
(* process is down the file is all there is.                               *)
(***************************************************************************)
EXTENDS Traffic

StillOwed ==
    IF life = "down" THEN disk
    ELSE IF rpc = "acked" THEN Memory \ pushData
    ELSE Memory

Books == INSTANCE Ledger WITH
    User <- UserOfChunk, Limit <- maxPendingUsers, MaxBooked <- MaxCount,
    moved <- {k \in Chunks : kpc[k] # "unsent"},
    owed <- StillOwed, file <- disk, booked <- counted, up <- Up

\* Every step of the counters, of a report, of the file, of a crash or of a
\* restart is a step of the book or leaves it alone: nothing enters it but by
\* being moved or by coming back from the file, nothing leaves it but by an
\* acknowledged push, by trimming or with the process, and the file is removed
\* only when nothing in it is owed.
KeepsBooks == Books!Spec
================================================================================
