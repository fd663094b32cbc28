-------------------------------- MODULE Traffic --------------------------------
(***************************************************************************)
(* The accounting of traffic: the byte counters of singbox/tracker.go, the *)
(* records of singbox/stats.go, TrafficReporter of core/traffic.go with    *)
(* its state file, the push of panel/client.go, and the part of Node that  *)
(* starts and stops them.                                                  *)
(*                                                                         *)
(* Bytes are followed in chunks: a chunk is what one Read or Write (one    *)
(* ReadPacket or WritePacket) of a connection moved.  A counter is the set *)
(* of the chunks added to it and not yet swapped out.                      *)
(***************************************************************************)
EXTENDS Integers, FiniteSets

CONSTANTS
    Chunks, Conns,
    Users,              \* user IDs, integers: trimming compares them
    ConnOf, DirOf,      \* the connection and direction of a chunk
    UserOf,             \* the user of a connection
    Threshold,          \* chunks that reach trafficBufferThreshold
    maxPendingUsers,
    requestMaxAttempts,
    StateFile,          \* FALSE: no file is configured
    DiskFaults,         \* TRUE: a write, removal or read of the file may fail
    MaxStops,           \* bound on crashes and shutdowns together
    MaxCount            \* the panel's count of one chunk saturates here

Dirs == {"up", "down"}

ASSUME ChunksFinite == IsFiniteSet(Chunks)
ASSUME UsersAreInts == Users \subseteq Int
ASSUME Attribution ==
    ConnOf \in [Chunks -> Conns] /\ DirOf \in [Chunks -> Dirs] /\ UserOf \in [Conns -> Users]
ASSUME Sizes ==
    /\ Threshold \in Nat \ {0} /\ maxPendingUsers \in Nat \ {0}
    /\ requestMaxAttempts \in Nat \ {0} /\ MaxStops \in Nat /\ MaxCount \in Nat \ {0, 1}
ASSUME Switches == StateFile \in BOOLEAN /\ DiskFaults \in BOOLEAN

VARIABLES
    kpc,            \* where the call that moves a chunk is
    cpc,            \* where each connection is in its life
    buf,            \* uploadBuf and downloadBuf of all connections
    carried,        \* per call: what it swapped out of a full buffer
    settled,        \* per connection: what Close swapped out, by direction
    record,         \* upload and download of the userTrafficRecords
    rpc,            \* where the goroutine that holds reportMu is
    holder,         \* which goroutine that is
    unvisited, half,    \* CollectTraffic: the users to visit, and the one half done
    collected,      \* its result so far
    pushData,
    attempt,
    pending,
    disk,           \* the content of the state file ({}: there is none)
    counted,        \* the panel: how often each chunk has been added
    life,           \* the process
    stops,
    gone, suspect,  \* history: what may be lost, and what may be counted twice
    diskFault,      \* history: the last operation on the file failed
    atShutdown      \* history: what had been moved when Shutdown began

connVars   == <<kpc, cpc, buf, carried, settled>>
reportVars == <<rpc, holder, unvisited, half, collected, pushData, attempt, pending>>
fileVars   == <<disk, diskFault>>
lifeVars   == <<life, stops, atShutdown>>
histVars   == <<gone, suspect>>
vars == <<connVars, record, reportVars, fileVars, counted, lifeVars, histVars>>

UserOfChunk(k) == UserOf[ConnOf[k]]
Buffer(c, d)   == {k \in buf : ConnOf[k] = c /\ DirOf[k] = d}
RecordOf(u, d) == {k \in record : UserOfChunk(k) = u /\ DirOf[k] = d}
UsersOf(S)     == {UserOfChunk(k) : k \in S}
Up             == life \in {"running", "stopping", "closing"}

\* parseUserID refuses an ID that is not positive.
Collectable == {u \in Users : u > 0}

\* Everything the process holds in memory.
InHand == {k \in Chunks : kpc[k] = "moved"}
InConns == InHand \cup buf \cup (UNION {carried[k] : k \in Chunks})
                  \cup (UNION {settled[c] : c \in Conns})
Memory == InConns \cup record \cup collected \cup pushData \cup pending

Init ==
    /\ kpc = [k \in Chunks |-> "unsent"]
    /\ cpc = [c \in Conns |-> "new"]
    /\ buf = {} /\ record = {}
    /\ carried = [k \in Chunks |-> {}]
    /\ settled = [c \in Conns |-> {}]
    /\ rpc = "idle" /\ holder = "nobody"
    /\ unvisited = {} /\ half = {} /\ collected = {} /\ pushData = {} /\ attempt = 0
    /\ pending = {} /\ disk = {} /\ diskFault = FALSE
    /\ counted = [k \in Chunks |-> 0]
    /\ life = "running" /\ stops = 0 /\ atShutdown = {}
    /\ gone = {} /\ suspect = {}

--------------------------------------------------------------------------------
(* A connection: trackedConn and trackedPacketConn. *)

\* The wrapped Read or Write returns; this may still happen while Close runs,
\* up to the point where Close closes the wrapped connection.
Transfer(k) ==
    /\ Up /\ kpc[k] = "unsent" /\ cpc[ConnOf[k]] # "closed"
    /\ kpc' = [kpc EXCEPT ![k] = "moved"]
    /\ cpc' = [cpc EXCEPT ![ConnOf[k]] = IF @ = "new" THEN "open" ELSE @]
    /\ UNCHANGED <<buf, carried, settled, record, reportVars, fileVars, counted, lifeVars, histVars>>

\* atomic.AddInt64 on the buffer; reaching the threshold leads to a swap.
AddToBuffer(k) ==
    /\ Up /\ kpc[k] = "moved"
    /\ buf' = buf \cup {k}
    /\ kpc' = [kpc EXCEPT ![k] =
                  IF Cardinality(Buffer(ConnOf[k], DirOf[k])) + 1 >= Threshold
                  THEN "full" ELSE "done"]
    /\ UNCHANGED <<cpc, carried, settled, record, reportVars, fileVars, counted, lifeVars, histVars>>

\* What an atomic swap to zero leaves behind of a set of chunks.
LoadThenStore(S, taken) == S                        \* mutant: nothing is reset
Swapped(S, taken) == S \ taken

\* atomic.SwapInt64 of the full buffer, by the call that saw it full.
SwapFull(k) ==
    LET taken == Buffer(ConnOf[k], DirOf[k]) IN
    /\ Up /\ kpc[k] = "full"
    /\ carried' = [carried EXCEPT ![k] = taken]
    /\ buf' = Swapped(buf, taken)
    /\ kpc' = [kpc EXCEPT ![k] = "swapped"]
    /\ UNCHANGED <<cpc, settled, record, reportVars, fileVars, counted, lifeVars, histVars>>

\* AddTraffic adds to the record of the user.
CreditedAnew(S) == S                                \* mutant: a store for an add
Credited(S) == record \cup S

\* StatsTracker.AddTraffic of what that call swapped out.
AddTraffic(k) ==
    /\ Up /\ kpc[k] = "swapped"
    /\ record' = Credited(carried[k])
    /\ carried' = [carried EXCEPT ![k] = {}]
    /\ kpc' = [kpc EXCEPT ![k] = "done"]
    /\ UNCHANGED <<cpc, buf, settled, reportVars, fileVars, counted, lifeVars, histVars>>

\* Close: both buffers are swapped out, upload first,
CloseSwap(c, d) ==
    /\ Up /\ cpc[c] = IF d = "up" THEN "open" ELSE "up swapped"
    /\ settled' = [settled EXCEPT ![c] = @ \cup Buffer(c, d)]
    /\ buf' = Swapped(buf, Buffer(c, d))
    /\ cpc' = [cpc EXCEPT ![c] = IF d = "up" THEN "up swapped" ELSE "swapped"]
    /\ UNCHANGED <<kpc, carried, record, reportVars, fileVars, counted, lifeVars, histVars>>

\* then added to the record in the same order, and the connection is closed.
CloseAdd(c, d) ==
    LET added == {k \in settled[c] : DirOf[k] = d} IN
    /\ Up /\ cpc[c] = IF d = "up" THEN "swapped" ELSE "up added"
    /\ record' = Credited(added)
    /\ settled' = [settled EXCEPT ![c] = @ \ added]
    /\ cpc' = [cpc EXCEPT ![c] = IF d = "up" THEN "up added" ELSE "closed"]
    /\ UNCHANGED <<kpc, buf, carried, reportVars, fileVars, counted, lifeVars, histVars>>

ConnStep ==
    \/ \E k \in Chunks : Transfer(k) \/ AddToBuffer(k) \/ SwapFull(k) \/ AddTraffic(k)
    \/ \E c \in Conns, d \in Dirs : CloseSwap(c, d) \/ CloseAdd(c, d)

--------------------------------------------------------------------------------
(* TrafficReporter.Report, under reportMu. *)

\* The ticker goroutine reports (from its ticker, or from Sync before a
\* reload) until the process ends; Shutdown reports once.
Acquire(g) ==
    /\ rpc = "idle" /\ holder = "nobody"
    /\ \/ g = "ticker" /\ Up
       \/ g = "shutdown" /\ life = "stopping"
    /\ holder' = g
    /\ rpc' = "collect"
    /\ unvisited' = Collectable
    /\ UNCHANGED <<connVars, record, half, collected, pushData, attempt, pending, fileVars,
                   counted, lifeVars, histVars>>

\* Range visits the users in any order; the two counters of a record are
\* swapped one after the other.
CollectUp(u) ==
    /\ Up /\ rpc = "collect" /\ half = {} /\ u \in unvisited
    /\ collected' = collected \cup RecordOf(u, "up")
    /\ record' = Swapped(record, RecordOf(u, "up"))
    /\ half' = {u}
    /\ UNCHANGED <<connVars, rpc, holder, unvisited, pushData, attempt, pending, fileVars,
                   counted, lifeVars, histVars>>

CollectDown(u) ==
    /\ Up /\ rpc = "collect" /\ half = {u}
    /\ collected' = collected \cup RecordOf(u, "down")
    /\ record' = Swapped(record, RecordOf(u, "down"))
    /\ half' = {}
    /\ unvisited' = unvisited \ {u}
    /\ UNCHANGED <<connVars, rpc, holder, pushData, attempt, pending, fileVars,
                   counted, lifeVars, histVars>>

\* Release of reportMu; when it was Shutdown's report, engine.Close comes next.
Release ==
    /\ rpc' = "idle" /\ holder' = "nobody"
    /\ life' = IF holder = "shutdown" THEN "closing" ELSE life
    /\ UNCHANGED <<stops, atShutdown>>

\* buildPushPayload; with nothing to push Report returns, and leaves the file.
Merged == pending \cup collected
FreshOnly == collected                              \* mutant: the backlog is left out

Payload == Merged

Build ==
    /\ Up /\ rpc = "collect" /\ unvisited = {}
    /\ pushData' = Payload /\ collected' = {}
    /\ IF Payload = {}
       THEN Release /\ attempt' = 0
       ELSE rpc' = "push" /\ attempt' = 1 /\ UNCHANGED <<holder, lifeVars>>
    /\ UNCHANGED <<connVars, record, unvisited, half, pending, fileVars, counted, histVars>>

\* The panel adds a payload to its books.
Add(n) == IF n < MaxCount THEN n + 1 ELSE n
Booked == [k \in Chunks |-> IF k \in pushData THEN Add(counted[k]) ELSE counted[k]]

\* doWithHeaders: an attempt that is applied and answered 200.
AttemptAcked ==
    /\ Up /\ rpc = "push"
    /\ counted' = Booked
    /\ rpc' = "acked"
    /\ UNCHANGED <<connVars, record, holder, unvisited, half, collected, pushData, attempt, pending,
                   fileVars, lifeVars, histVars>>

\* The attempts are counted from 1; the last one is not tried again.
RetryOneMore == attempt <= requestMaxAttempts       \* mutant: off by one
MayRetry == attempt < requestMaxAttempts
StartsOver ==                                       \* mutant: the count never gets there
    IF attempt + 1 = requestMaxAttempts THEN 1 ELSE attempt + 1
NextAttempt == attempt + 1

\* Or it fails, whether the panel applied it or not: with a status worth a
\* retry (429, 5xx), or with another status, a lost answer, no connection.
AttemptFailed(applied, retryable) ==
    /\ Up /\ rpc = "push"
    /\ counted' = IF applied THEN Booked ELSE counted
    /\ suspect' = IF applied THEN suspect \cup pushData ELSE suspect
    /\ IF retryable /\ MayRetry
       THEN attempt' = NextAttempt /\ UNCHANGED rpc
       ELSE rpc' = "failed" /\ UNCHANGED attempt
    /\ UNCHANGED <<connVars, record, holder, unvisited, half, collected, pushData, pending,
                   fileVars, lifeVars, gone>>

\* clearPending
NotCleared(S) == S                                  \* mutant: the reset is forgotten
Cleared(S) == {}

\* After a push that succeeded: the backlog and the file go.
Clear(fault) ==
    /\ Up /\ rpc = "acked"
    /\ fault => DiskFaults /\ disk # {}
    /\ pending' = Cleared(pending) /\ pushData' = {} /\ attempt' = 0
    /\ disk' = IF fault THEN disk ELSE {}
    /\ diskFault' = fault
    /\ suspect' = IF fault THEN suspect \cup disk ELSE suspect
    /\ Release
    /\ UNCHANGED <<connVars, record, unvisited, half, collected, counted, gone>>

\* trimPending: only the chunks of the largest user IDs stay.
Kept(S) == {k \in S : Cardinality({u \in UsersOf(S) : u > UserOfChunk(k)}) < maxPendingUsers}

\* After a push that failed: bufferPending,
Buffered ==
    /\ Up /\ rpc = "failed"
    /\ pending' = Kept(pushData)
    /\ gone' = gone \cup (pushData \ Kept(pushData))
    /\ pushData' = {} /\ attempt' = 0
    /\ rpc' = "persist"
    /\ UNCHANGED <<connVars, record, holder, unvisited, half, collected, fileVars, counted,
                   lifeVars, suspect>>

\* then persistPending: a temporary file is written and renamed over the old one.
FileAppended(S) == IF StateFile THEN disk \cup S ELSE {}  \* mutant: no truncation
FileOf(S) == IF StateFile THEN S ELSE {}

Persist(fault) ==
    /\ Up /\ rpc = "persist"
    /\ fault => DiskFaults /\ StateFile
    /\ disk' = IF fault THEN disk ELSE FileOf(pending)
    /\ diskFault' = fault
    /\ Release
    /\ UNCHANGED <<connVars, record, unvisited, half, collected, pushData, attempt, pending,
                   counted, histVars>>

Push == AttemptAcked \/ \E applied, retryable \in BOOLEAN : AttemptFailed(applied, retryable)
Settle == Buffered \/ \E fault \in BOOLEAN : Clear(fault) \/ Persist(fault)

ReportStep ==
    \/ \E g \in {"ticker", "shutdown"} : Acquire(g)
    \/ \E u \in Users : CollectUp(u) \/ CollectDown(u)
    \/ Build \/ Push \/ Settle

--------------------------------------------------------------------------------
(* The process. *)

\* Shutdown, on a signal: the tickers are told to stop, nobody waits for them.
BeginShutdown ==
    /\ life = "running" /\ stops < MaxStops
    /\ life' = "stopping" /\ stops' = stops + 1
    /\ atShutdown' = {k \in Chunks : kpc[k] \notin {"unsent", "moved"}}
    /\ UNCHANGED <<connVars, record, reportVars, fileVars, counted, histVars>>

\* The process ends, and all it had in memory with it.
Halt ==
    /\ life' = "down"
    /\ kpc' = [k \in Chunks |-> IF kpc[k] = "unsent" THEN "unsent" ELSE "done"]
    /\ cpc' = [c \in Conns |-> IF cpc[c] = "new" THEN "new" ELSE "closed"]
    /\ buf' = {} /\ record' = {} /\ collected' = {} /\ pushData' = {} /\ pending' = {}
    /\ carried' = [k \in Chunks |-> {}] /\ settled' = [c \in Conns |-> {}]
    /\ rpc' = "idle" /\ holder' = "nobody" /\ unvisited' = {} /\ half' = {} /\ attempt' = 0
    /\ gone' = gone \cup (Memory \ disk)
    /\ suspect' = suspect \cup (IF rpc = "acked" THEN disk \cap pushData ELSE {})
    /\ UNCHANGED <<fileVars, counted>>

Crash == Up /\ stops < MaxStops /\ stops' = stops + 1 /\ atShutdown' = {} /\ Halt

\* main returns when engine.Close has; it waits for no connection and no ticker.
Exit == life = "closing" /\ UNCHANGED <<stops, atShutdown>> /\ Halt

\* Start: loadPending reads the file; it may be unreadable, or damaged and moved aside.
LoadPending(how) ==
    /\ how # "read" => DiskFaults /\ disk # {}
    /\ pending' = IF how = "read" THEN Kept(disk) ELSE {}
    /\ disk' = IF how = "damaged" THEN {} ELSE disk
    /\ diskFault' = (how = "unreadable")
    /\ gone' = gone \cup (disk \ pending')

Restart ==
    /\ life = "down" /\ life' = "running" /\ atShutdown' = {}
    /\ \E how \in {"read", "unreadable", "damaged"} : LoadPending(how)
    /\ UNCHANGED <<connVars, record, rpc, holder, unvisited, half, collected, pushData, attempt,
                   counted, suspect, stops>>

LifeStep == BeginShutdown \/ Crash \/ Exit \/ Restart

Next == ConnStep \/ ReportStep \/ LifeStep

Spec == Init /\ [][Next]_vars

\* The goroutines of the reporter get to run, the ticker keeps reporting, and
\* the service is restarted after it stops.  Connections may stay open, or
\* stand still, for ever.
Running ==
    /\ SF_vars(Acquire("ticker")) /\ WF_vars(Acquire("shutdown"))
    /\ WF_vars(\E u \in Users : CollectUp(u) \/ CollectDown(u))
    /\ WF_vars(Build) /\ WF_vars(Push) /\ WF_vars(Settle)
    /\ WF_vars(Exit) /\ WF_vars(Restart)

RunSpec == Spec /\ Running

\* A panel that is pushed to again and again accepts at last.
PanelAccepts == SF_vars(AttemptAcked)

--------------------------------------------------------------------------------
(* Properties. *)

\* The type of every variable.
TypeOK ==
    /\ kpc \in [Chunks -> {"unsent", "moved", "full", "swapped", "done"}]
    /\ cpc \in [Conns -> {"new", "open", "up swapped", "swapped", "up added", "closed"}]
    /\ buf \in SUBSET Chunks /\ record \in SUBSET Chunks
    /\ carried \in [Chunks -> SUBSET Chunks]
    /\ settled \in [Conns -> SUBSET Chunks]
    /\ rpc \in {"idle", "collect", "push", "acked", "failed", "persist"}
    /\ holder \in {"nobody", "ticker", "shutdown"}
    /\ unvisited \in SUBSET Users /\ half \in SUBSET Users
    /\ collected \in SUBSET Chunks /\ pushData \in SUBSET Chunks
    /\ attempt \in 0..requestMaxAttempts
    /\ pending \in SUBSET Chunks /\ disk \in SUBSET Chunks
    /\ counted \in [Chunks -> 0..MaxCount]
    /\ life \in {"running", "stopping", "closing", "down"}
    /\ stops \in 0..MaxStops
    /\ gone \in SUBSET Chunks /\ suspect \in SUBSET Chunks
    /\ diskFault \in BOOLEAN
    /\ atShutdown \in SUBSET Chunks

Disjoint(S, T) == S \cap T = {}

\* A chunk is in one counter at a time: nothing that was swapped out stays
\* behind, so buildPushPayload never adds the same bytes to a user twice.
OnePlace ==
    /\ Disjoint(InHand, buf)
    /\ \A k \in Chunks : Disjoint(carried[k], InHand \cup buf)
    /\ \A k, j \in Chunks : k # j => Disjoint(carried[k], carried[j])
    /\ \A c \in Conns : Disjoint(settled[c], InHand \cup buf)
    /\ \A c \in Conns, k \in Chunks : Disjoint(settled[c], carried[k])
    /\ \A c, b \in Conns : c # b => Disjoint(settled[c], settled[b])
    /\ Disjoint(record, InConns)
    /\ Disjoint(collected, InConns \cup record)
    /\ Disjoint(pending \cup pushData, InConns \cup record \cup collected)

\* No bytes vanish: what a connection moved is on its way in memory or on disk,
\* or was counted by the panel, or was lost in one of the ways the design
\* admits (trimmed, in memory when the process ended, in a file not readable).
Conserved ==
    \A k \in Chunks : kpc[k] # "unsent" =>
        k \in Memory \cup disk \cup gone \/ counted[k] > 0

\* The panel counts a chunk twice only if a push was applied and answered with
\* a failure, or the file survived the push it had been written for.
AtMostOnce == \A k \in Chunks : counted[k] > 1 => k \in suspect

\* Between two reports the file holds exactly the backlog, unless the last
\* operation on it failed: what a crash now would restore is what is owed.
FileIsBacklog ==
    StateFile /\ Up /\ rpc = "idle" /\ ~diskFault => disk = pending

\* What reached the records of a collectable user is counted by the panel at
\* last, or was lost in an admitted way, if the panel accepts at last.
Delivered ==
    PanelAccepts =>
        \A k \in Chunks :
            k \in record /\ UserOfChunk(k) \in Collectable ~> counted[k] > 0 \/ k \in gone

\* A Report under way always finishes and gives reportMu back, whatever the
\* panel and the disk answer: it goes through a bounded number of attempts.
ReportEnds == rpc # "idle" ~> rpc = "idle"

--------------------------------------------------------------------------------
(* What the comments and the tests say, and the code does not do. *)

Quiet(c) == \A k \in Chunks : ConnOf[k] = c => kpc[k] \in {"unsent", "done"}

\* singbox/tracker.go:193, singbox/tracker_test.go:62: Close settles what is left
\* in the buffers: a closed connection with no call under way has nothing buffered.
ResidueSettled ==
    \A c \in Conns, d \in Dirs : cpc[c] = "closed" /\ Quiet(c) => Buffer(c, d) = {}

\* core/node.go:157: Shutdown flushes the final traffic: when the process has
\* stopped, the bytes moved before Shutdown began were pushed or are on disk.
ShutdownFlushes ==
    life = "down" /\ atShutdown # {} /\ StateFile =>
        \A k \in atShutdown : counted[k] > 0 \/ k \in disk
================================================================================
