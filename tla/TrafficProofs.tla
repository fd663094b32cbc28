----------------------------- MODULE TrafficProofs -----------------------------
(***************************************************************************)
(* Theorems about the accounting of Traffic, for every set of chunks,      *)
(* connections and users, every size, with or without a state file, and    *)
(* whatever the panel and the disk answer.                                 *)
(***************************************************************************)
EXTENDS Traffic, FiniteSetTheorems, TLAPS

--------------------------------------------------------------------------------
(* Types. *)

\* The numbers the bounded counters take.
LEMMA Numbers ==
    /\ 0 \in 0..MaxStops /\ 0 \in 0..MaxCount
    /\ 0 \in 0..requestMaxAttempts /\ 1 \in 0..requestMaxAttempts
    /\ \A n \in 0..MaxCount : Add(n) \in 0..MaxCount
    /\ \A n \in 0..requestMaxAttempts : n < requestMaxAttempts => n + 1 \in 0..requestMaxAttempts
    /\ \A n \in 0..MaxStops : n < MaxStops => n + 1 \in 0..MaxStops
BY Sizes DEF Add

LEMMA InitTyped == Init => TypeOK
<1> SUFFICES ASSUME Init PROVE TypeOK
  OBVIOUS
<1>1. /\ attempt \in 0..requestMaxAttempts /\ stops \in 0..MaxStops
      /\ counted \in [Chunks -> 0..MaxCount]
  BY Numbers DEF Init
<1> QED BY <1>1 DEF Init, TypeOK

LEMMA ConnTyped ==
    ASSUME TypeOK, ConnStep
    PROVE  TypeOK'
<1>1. ASSUME NEW k \in Chunks, Transfer(k) PROVE TypeOK'
  BY <1>1, Attribution DEF Transfer, TypeOK, reportVars, fileVars, lifeVars, histVars
<1>2. ASSUME NEW k \in Chunks, AddToBuffer(k) PROVE TypeOK'
  BY <1>2 DEF AddToBuffer, TypeOK, reportVars, fileVars, lifeVars, histVars
<1>3. ASSUME NEW k \in Chunks, SwapFull(k) PROVE TypeOK'
  BY <1>3 DEF SwapFull, Buffer, Swapped, TypeOK, reportVars, fileVars, lifeVars, histVars
<1>4. ASSUME NEW k \in Chunks, AddTraffic(k) PROVE TypeOK'
  BY <1>4 DEF AddTraffic, Credited, TypeOK, reportVars, fileVars, lifeVars, histVars
<1>5. ASSUME NEW c \in Conns, NEW d \in Dirs, CloseSwap(c, d) PROVE TypeOK'
  BY <1>5 DEF CloseSwap, Buffer, Swapped, TypeOK, reportVars, fileVars, lifeVars, histVars
<1>6. ASSUME NEW c \in Conns, NEW d \in Dirs, CloseAdd(c, d) PROVE TypeOK'
  BY <1>6 DEF CloseAdd, Credited, TypeOK, reportVars, fileVars, lifeVars, histVars
<1> QED BY <1>1, <1>2, <1>3, <1>4, <1>5, <1>6 DEF ConnStep

LEMMA BookedTyped ==
    ASSUME TypeOK
    PROVE  Booked \in [Chunks -> 0..MaxCount]
BY Numbers DEF Booked, TypeOK

LEMMA ReportTyped ==
    ASSUME TypeOK, ReportStep
    PROVE  TypeOK'
<1>1. ASSUME NEW g \in {"ticker", "shutdown"}, Acquire(g) PROVE TypeOK'
  BY <1>1 DEF Acquire, Collectable, TypeOK, connVars, fileVars, lifeVars, histVars
<1>2. ASSUME NEW u \in Users, CollectUp(u) PROVE TypeOK'
  BY <1>2 DEF CollectUp, RecordOf, Swapped, TypeOK, connVars, fileVars, lifeVars, histVars
<1>3. ASSUME NEW u \in Users, CollectDown(u) PROVE TypeOK'
  BY <1>3 DEF CollectDown, RecordOf, Swapped, TypeOK, connVars, fileVars, lifeVars, histVars
<1>4. CASE Build
  <2>1. /\ attempt' \in 0..requestMaxAttempts
        /\ rpc' \in {"idle", "collect", "push", "acked", "failed", "persist"}
        /\ holder' \in {"nobody", "ticker", "shutdown"}
    BY <1>4, Numbers DEF Build, Release, TypeOK
  <2>2. life' \in {"running", "stopping", "closing", "down"}
    BY <1>4 DEF Build, Release, TypeOK, lifeVars
  <2>3. stops' = stops /\ atShutdown' = atShutdown
    BY <1>4 DEF Build, Release, lifeVars
  <2>4. pushData' \in SUBSET Chunks /\ collected' \in SUBSET Chunks
    BY <1>4 DEF Build, Payload, Merged, TypeOK
  <2> QED BY <1>4, <2>1, <2>2, <2>3, <2>4 DEF Build, TypeOK, connVars, fileVars, histVars
<1>5. CASE AttemptAcked
  BY <1>5, BookedTyped DEF AttemptAcked, TypeOK, connVars, fileVars, lifeVars, histVars
<1>6. ASSUME NEW a \in BOOLEAN, NEW r \in BOOLEAN, AttemptFailed(a, r) PROVE TypeOK'
  <2>1. /\ attempt' \in 0..requestMaxAttempts
        /\ rpc' \in {"idle", "collect", "push", "acked", "failed", "persist"}
    BY <1>6, Numbers DEF AttemptFailed, MayRetry, NextAttempt, TypeOK
  <2>2. counted' \in [Chunks -> 0..MaxCount]
    BY <1>6, BookedTyped DEF AttemptFailed, TypeOK
  <2>3. suspect' \in SUBSET Chunks
    BY <1>6 DEF AttemptFailed, TypeOK
  <2> QED BY <1>6, <2>1, <2>2, <2>3 DEF AttemptFailed, TypeOK, connVars, fileVars, lifeVars
<1>7. ASSUME NEW f \in BOOLEAN, Clear(f) PROVE TypeOK'
  <2>1. attempt' \in 0..requestMaxAttempts
    BY <1>7, Numbers DEF Clear
  <2>2. life' \in {"running", "stopping", "closing", "down"} /\ diskFault' \in BOOLEAN
    BY <1>7 DEF Clear, Release, TypeOK
  <2>3. suspect' \in SUBSET Chunks /\ disk' \in SUBSET Chunks
    BY <1>7 DEF Clear, TypeOK
  <2> QED BY <1>7, <2>1, <2>2, <2>3 DEF Clear, Cleared, Release, TypeOK, connVars
<1>8. CASE Buffered
  <2>1. attempt' \in 0..requestMaxAttempts
    BY <1>8, Numbers DEF Buffered
  <2>2. pending' \in SUBSET Chunks /\ gone' \in SUBSET Chunks
    BY <1>8 DEF Buffered, Kept, TypeOK
  <2> QED BY <1>8, <2>1, <2>2 DEF Buffered, TypeOK, connVars, fileVars, lifeVars
<1>9. ASSUME NEW f \in BOOLEAN, Persist(f) PROVE TypeOK'
  <2>1. life' \in {"running", "stopping", "closing", "down"} /\ diskFault' \in BOOLEAN
    BY <1>9 DEF Persist, Release, TypeOK
  <2>2. disk' \in SUBSET Chunks
    BY <1>9 DEF Persist, FileOf, TypeOK
  <2> QED BY <1>9, <2>1, <2>2 DEF Persist, Release, TypeOK, connVars, histVars
<1> QED BY <1>1, <1>2, <1>3, <1>4, <1>5, <1>6, <1>7, <1>8, <1>9 DEF ReportStep, Push, Settle

LEMMA MemoryTyped ==
    ASSUME TypeOK
    PROVE  Memory \subseteq Chunks
<1>1. InHand \subseteq Chunks
  BY DEF InHand
<1>2. \A k \in Chunks : carried[k] \subseteq Chunks
  BY DEF TypeOK
<1>3. \A c \in Conns : settled[c] \subseteq Chunks
  BY DEF TypeOK
<1>4. (UNION {carried[k] : k \in Chunks}) \subseteq Chunks
  BY <1>2
<1>5. (UNION {settled[c] : c \in Conns}) \subseteq Chunks
  BY <1>3
<1>6. InConns \subseteq Chunks
  BY <1>1, <1>4, <1>5 DEF InConns, TypeOK
<1> QED BY <1>6 DEF Memory, TypeOK

LEMMA HaltTyped ==
    ASSUME TypeOK, Halt, stops' \in 0..MaxStops, atShutdown' \in SUBSET Chunks
    PROVE  TypeOK'
<1>1. gone' \in SUBSET Chunks /\ suspect' \in SUBSET Chunks
  BY MemoryTyped DEF Halt, TypeOK
<1>2. /\ kpc' \in [Chunks -> {"unsent", "moved", "full", "swapped", "done"}]
      /\ cpc' \in [Conns -> {"new", "open", "up swapped", "swapped", "up added", "closed"}]
      /\ carried' \in [Chunks -> SUBSET Chunks] /\ settled' \in [Conns -> SUBSET Chunks]
  BY DEF Halt, TypeOK
<1>3. attempt' \in 0..requestMaxAttempts
  BY Numbers DEF Halt
<1> QED BY <1>1, <1>2, <1>3 DEF Halt, TypeOK, fileVars

LEMMA LifeTyped ==
    ASSUME TypeOK, LifeStep
    PROVE  TypeOK'
<1>1. CASE BeginShutdown
  <2>1. stops' \in 0..MaxStops
    BY <1>1, Numbers DEF BeginShutdown, TypeOK
  <2>2. atShutdown' \in SUBSET Chunks
    BY <1>1 DEF BeginShutdown
  <2> QED BY <1>1, <2>1, <2>2 DEF BeginShutdown, TypeOK, connVars, reportVars, fileVars, histVars
<1>2. CASE Crash
  <2>1. stops' \in 0..MaxStops /\ atShutdown' \in SUBSET Chunks /\ Halt
    BY <1>2, Numbers DEF Crash, TypeOK
  <2> QED BY <2>1, HaltTyped
<1>3. CASE Exit
  <2>1. stops' \in 0..MaxStops /\ atShutdown' \in SUBSET Chunks /\ Halt
    BY <1>3 DEF Exit, TypeOK
  <2> QED BY <2>1, HaltTyped
<1>4. CASE Restart
  <2>1. PICK how \in {"read", "unreadable", "damaged"} : LoadPending(how)
    BY <1>4 DEF Restart
  <2>2. /\ pending' \in SUBSET Chunks /\ disk' \in SUBSET Chunks /\ diskFault' \in BOOLEAN
        /\ gone' \in SUBSET Chunks
    BY <2>1 DEF LoadPending, Kept, TypeOK
  <2> QED BY <1>4, <2>2 DEF Restart, TypeOK, connVars
<1> QED BY <1>1, <1>2, <1>3, <1>4 DEF LifeStep

LEMMA NextTyped == TypeOK /\ [Next]_vars => TypeOK'
<1>1. ASSUME TypeOK, UNCHANGED vars PROVE TypeOK'
  BY <1>1 DEF vars, TypeOK, connVars, reportVars, fileVars, lifeVars, histVars
<1> QED BY <1>1, ConnTyped, ReportTyped, LifeTyped DEF Next

\* The reporter, the counters and the process keep every variable in its type.
THEOREM TypeCorrect == Spec => []TypeOK
BY InitTyped, NextTyped, PTL DEF Spec

--------------------------------------------------------------------------------
(* Where a chunk may be.                                                   *)
(*                                                                         *)
(* A chunk walks from the call that moves it through the buffer, what a    *)
(* call or Close has swapped out, the record and the result of             *)
(* CollectTraffic to what is owed to the panel.  Places says that it is    *)
(* never in two of these at a time.                                        *)

Owed == pushData \cup pending \cup disk

OutOfConns(x) ==
    /\ x \notin buf
    /\ \A k \in Chunks : x \notin carried[k]
    /\ \A c \in Conns : x \notin settled[c]

OutOfReport(x) == x \notin record /\ x \notin collected /\ x \notin Owed

Places ==
    /\ \A x \in Chunks : kpc[x] \in {"unsent", "moved"} => OutOfConns(x) /\ OutOfReport(x)
    /\ \A x \in buf :
          /\ OutOfReport(x)
          /\ \A k \in Chunks : x \notin carried[k]
          /\ \A c \in Conns : x \notin settled[c]
    /\ \A k \in Chunks : \A x \in carried[k] :
          /\ OutOfReport(x)
          /\ \A j \in Chunks : j # k => x \notin carried[j]
          /\ \A c \in Conns : x \notin settled[c]
    /\ \A c \in Conns : \A x \in settled[c] :
          /\ OutOfReport(x)
          /\ \A b \in Conns : b # c => x \notin settled[b]
    /\ \A x \in record : x \notin collected /\ x \notin Owed
    /\ \A x \in collected : x \notin Owed

\* What the goroutine that holds reportMu has in its hands.
Phases ==
    /\ rpc \in {"idle", "collect", "persist"} => pushData = {}
    /\ rpc \in {"push", "acked", "failed"} => pending \subseteq pushData
    /\ rpc # "collect" => collected = {}
    /\ life = "down" => rpc = "idle" /\ pending = {}

LEMMA InitPlaces == Init => Places /\ Phases
BY DEF Init, Places, Phases, OutOfConns, OutOfReport, Owed

LEMMA ConnPlaces ==
    ASSUME TypeOK, Places, Phases, ConnStep
    PROVE  Places' /\ Phases'
<1> USE DEF OutOfConns, OutOfReport
<1>0. Owed' = Owed /\ collected' = collected /\ Phases'
  <2>1. UNCHANGED <<reportVars, fileVars, lifeVars>>
    BY DEF ConnStep, Transfer, AddToBuffer, SwapFull, AddTraffic, CloseSwap, CloseAdd
  <2>2. UNCHANGED <<rpc, collected, pushData, pending, disk, life>>
    BY <2>1 DEF reportVars, fileVars, lifeVars
  <2> QED BY <2>2 DEF Owed, Phases
<1>1. ASSUME NEW k \in Chunks, Transfer(k) PROVE Places'
  <2>1. /\ \A x \in Chunks : kpc'[x] \in {"unsent", "moved"} => kpc[x] \in {"unsent", "moved"}
        /\ UNCHANGED <<buf, carried, settled, record>>
    BY <1>1 DEF Transfer, TypeOK
  <2> QED BY <2>1, <1>0 DEF Places
<1>2. ASSUME NEW k \in Chunks, AddToBuffer(k) PROVE Places'
  <2>1. /\ \A x \in Chunks : x # k => kpc'[x] = kpc[x]
        /\ kpc[k] = "moved" /\ kpc'[k] \notin {"unsent", "moved"}
        /\ buf' = buf \cup {k}
        /\ UNCHANGED <<carried, settled, record>>
    BY <1>2 DEF AddToBuffer, TypeOK
  <2> QED BY <2>1, <1>0 DEF Places
<1>3. ASSUME NEW k \in Chunks, SwapFull(k) PROVE Places'
  <2>1. /\ \A x \in Chunks : kpc'[x] \in {"unsent", "moved"} => kpc[x] \in {"unsent", "moved"}
        /\ UNCHANGED <<settled, record>>
        /\ \A j \in Chunks : j # k => carried'[j] = carried[j]
    BY <1>3 DEF SwapFull, TypeOK
  <2>2. /\ \A x \in buf' : x \in buf /\ x \notin carried'[k]
        /\ \A x \in carried'[k] : x \in buf
    BY <1>3 DEF SwapFull, TypeOK, Buffer, Swapped
  <2> QED BY <2>1, <2>2, <1>0 DEF Places
<1>4. ASSUME NEW k \in Chunks, AddTraffic(k) PROVE Places'
  <2>1. /\ \A x \in Chunks : kpc'[x] \in {"unsent", "moved"} => kpc[x] \in {"unsent", "moved"}
        /\ UNCHANGED <<buf, settled>>
        /\ \A j \in Chunks : j # k => carried'[j] = carried[j]
        /\ carried'[k] = {}
        /\ record' = record \cup carried[k]
    BY <1>4 DEF AddTraffic, Credited, TypeOK
  <2> QED BY <2>1, <1>0 DEF Places
<1>5. ASSUME NEW c \in Conns, NEW d \in Dirs, CloseSwap(c, d) PROVE Places'
  <2>1. /\ UNCHANGED <<kpc, carried, record>>
        /\ \A b \in Conns : b # c => settled'[b] = settled[b]
    BY <1>5 DEF CloseSwap, TypeOK
  <2>2. /\ \A x \in buf' : x \in buf /\ x \notin Buffer(c, d)
        /\ \A x \in settled'[c] : x \in settled[c] \/ x \in Buffer(c, d)
        /\ Buffer(c, d) \subseteq buf
    BY <1>5 DEF CloseSwap, TypeOK, Buffer, Swapped
  <2> QED BY <2>1, <2>2, <1>0 DEF Places
<1>6. ASSUME NEW c \in Conns, NEW d \in Dirs, CloseAdd(c, d) PROVE Places'
  <2> DEFINE added == {k \in settled[c] : DirOf[k] = d}
  <2>1. /\ UNCHANGED <<kpc, buf, carried>>
        /\ \A b \in Conns : b # c => settled'[b] = settled[b]
        /\ settled'[c] = settled[c] \ added
        /\ record' = record \cup added
    BY <1>6 DEF CloseAdd, Credited, TypeOK
  <2> QED BY <2>1, <1>0 DEF Places
<1> QED BY <1>0, <1>1, <1>2, <1>3, <1>4, <1>5, <1>6 DEF ConnStep

LEMMA ReportPlaces ==
    ASSUME TypeOK, Places, Phases, ReportStep
    PROVE  Places' /\ Phases'
<1> USE DEF OutOfConns, OutOfReport
<1>0. UNCHANGED <<kpc, buf, carried, settled>>
  BY DEF ReportStep, Push, Settle, Acquire, CollectUp, CollectDown, Build, AttemptAcked,
         AttemptFailed, Clear, Buffered, Persist, connVars
<1>b. life \in {"running", "stopping", "closing"} /\ life' \in {"running", "stopping", "closing"}
  BY DEF ReportStep, Push, Settle, Acquire, CollectUp, CollectDown, Build, AttemptAcked,
         AttemptFailed, Clear, Buffered, Persist, Release, lifeVars, Up
\* The steps that add nothing to what is owed, and leave the rest alone.
<1>a. ASSUME Owed' \subseteq Owed, record' = record, collected' = collected
      PROVE  Places'
  BY <1>a, <1>0 DEF Places
<1>1. ASSUME NEW g \in {"ticker", "shutdown"}, Acquire(g) PROVE Places' /\ Phases'
  BY <1>1, <1>a, <1>b DEF Acquire, Phases, Owed, fileVars
<1>2. ASSUME NEW u \in Users, CollectUp(u) \/ CollectDown(u) PROVE Places' /\ Phases'
  <2>1. Owed' = Owed /\ Phases'
    BY <1>2, <1>b DEF CollectUp, CollectDown, Owed, Phases, fileVars
  <2>2. PICK d \in Dirs : /\ record' = record \ RecordOf(u, d)
                           /\ collected' = collected \cup RecordOf(u, d)
    BY <1>2 DEF CollectUp, CollectDown, Swapped, Dirs
  <2>3. RecordOf(u, d) \subseteq record
    BY DEF RecordOf
  <2>4. /\ \A x \in record' : x \in record /\ x \notin RecordOf(u, d)
        /\ \A x \in collected' : x \in collected \/ x \in record
        /\ \A x \in collected' : x \in collected \/ x \in RecordOf(u, d)
    BY <2>2, <2>3
  <2> QED BY <1>0, <2>1, <2>4 DEF Places
<1>3. CASE Build
  <2>1. collected' = {} /\ record' = record /\ \A x \in Owed' : x \in Owed \/ x \in collected
    BY <1>3 DEF Build, Payload, Merged, Owed, fileVars
  <2>2. Phases'
    BY <1>3, <1>b DEF Build, Payload, Merged, Release, Phases
  <2> QED BY <1>0, <2>1, <2>2 DEF Places
<1>4. CASE Push
  <2>1. Owed' = Owed /\ record' = record /\ collected' = collected /\ Phases'
    BY <1>4, <1>b DEF Push, AttemptAcked, AttemptFailed, Owed, Phases, fileVars
  <2> QED BY <2>1, <1>a
<1>5. ASSUME NEW f \in BOOLEAN, Clear(f) PROVE Places' /\ Phases'
  BY <1>5, <1>a, <1>b DEF Clear, Cleared, Release, Phases, Owed
<1>6. CASE Buffered
  <2>1. Kept(pushData) \subseteq pushData
    BY DEF Kept
  <2> QED BY <1>6, <2>1, <1>a, <1>b DEF Buffered, Phases, Owed, fileVars
<1>7. ASSUME NEW f \in BOOLEAN, Persist(f) PROVE Places' /\ Phases'
  BY <1>7, <1>a, <1>b DEF Persist, FileOf, Release, Phases, Owed
<1> QED BY <1>1, <1>2, <1>3, <1>4, <1>5, <1>6, <1>7 DEF ReportStep, Settle

LEMMA HaltPlaces ==
    ASSUME TypeOK, Places, Halt
    PROVE  Places' /\ Phases'
<1> USE DEF OutOfConns, OutOfReport
<1>1. /\ \A k \in Chunks : carried'[k] = {}
      /\ \A c \in Conns : settled'[c] = {}
      /\ \A k \in Chunks : kpc'[k] \in {"unsent", "moved"} => kpc[k] = "unsent"
      /\ buf' = {} /\ record' = {} /\ collected' = {} /\ Owed' \subseteq Owed
  BY DEF Halt, Owed, fileVars
<1>2. Phases'
  BY DEF Halt, Phases
<1> QED BY <1>1, <1>2 DEF Places

LEMMA LifePlaces ==
    ASSUME TypeOK, Places, Phases, LifeStep
    PROVE  Places' /\ Phases'
<1>1. CASE BeginShutdown
  BY <1>1 DEF BeginShutdown, connVars, reportVars, fileVars, Places, Phases, OutOfConns,
              OutOfReport, Owed
<1>2. CASE Crash \/ Exit
  BY <1>2, HaltPlaces DEF Crash, Exit
<1>3. CASE Restart
  <2>1. PICK how \in {"read", "unreadable", "damaged"} : LoadPending(how)
    BY <1>3 DEF Restart
  <2>2. Kept(disk) \subseteq disk
    BY DEF Kept
  <2>3. pending' \subseteq disk /\ disk' \subseteq disk
    BY <2>1, <2>2 DEF LoadPending
  <2>4. Owed' \subseteq Owed
    BY <1>3, <2>3 DEF Restart, Owed
  <2>5. UNCHANGED <<kpc, buf, carried, settled, record, collected>>
    BY <1>3 DEF Restart, connVars
  <2>6. Places'
    BY <2>4, <2>5 DEF Places, OutOfConns, OutOfReport
  <2> QED BY <1>3, <2>6 DEF Restart, Phases
<1> QED BY <1>1, <1>2, <1>3 DEF LifeStep

LEMMA NextPlaces == TypeOK /\ Places /\ Phases /\ [Next]_vars => Places' /\ Phases'
<1>1. ASSUME Places, Phases, UNCHANGED vars PROVE Places' /\ Phases'
  BY <1>1 DEF vars, Places, Phases, OutOfConns, OutOfReport, Owed, connVars, reportVars,
              fileVars, lifeVars
<1> QED BY <1>1, ConnPlaces, ReportPlaces, LifePlaces DEF Next

\* Every state keeps the places of the chunks apart and the goroutine that holds
\* reportMu in phase: the invariant the theorems below rest on.
THEOREM PlacesHold == Spec => [](TypeOK /\ Places /\ Phases)
BY InitTyped, NextTyped, InitPlaces, NextPlaces, PTL DEF Spec

LEMMA InConnsOf ==
    ASSUME NEW x \in InConns
    PROVE  \/ x \in Chunks /\ kpc[x] = "moved"
           \/ x \in buf
           \/ (\E k \in Chunks : x \in carried[k]) \/ (\E c \in Conns : x \in settled[c])
BY DEF InConns, InHand

LEMMA PlacesApart == TypeOK /\ Places => OnePlace
<1> SUFFICES ASSUME TypeOK, Places PROVE OnePlace
  OBVIOUS
<1> USE DEF OutOfConns, OutOfReport
<1>1. \A x \in InHand : x \in Chunks /\ kpc[x] = "moved"
  BY DEF InHand
<1>2. \A x \in InHand : x \notin buf
  BY <1>1 DEF Places
<1>3. \A k \in Chunks : \A x \in carried[k] : x \notin InHand \cup buf
  BY <1>1 DEF Places
<1>4. \A k, j \in Chunks : k # j => \A x \in carried[k] : x \notin carried[j]
  BY DEF Places
<1>5. \A c \in Conns : \A x \in settled[c] : x \notin InHand \cup buf
  BY <1>1 DEF Places
<1>6. \A c \in Conns, k \in Chunks : \A x \in settled[c] : x \notin carried[k]
  BY DEF Places
<1>7. \A c, b \in Conns : c # b => \A x \in settled[c] : x \notin settled[b]
  BY DEF Places
<1>8. \A x \in InConns : x \notin record /\ x \notin collected /\ x \notin Owed
  BY InConnsOf DEF Places
<1>9. \A x \in record : x \notin collected /\ x \notin Owed
  BY DEF Places
<1>10. \A x \in collected : x \notin Owed
  BY DEF Places
<1>11. Disjoint(record, InConns) /\ Disjoint(collected, InConns \cup record)
  BY <1>8, <1>9 DEF Disjoint
<1>12. Disjoint(pending \cup pushData, InConns \cup record \cup collected)
  BY <1>8, <1>9, <1>10 DEF Disjoint, Owed
<1>13. \A c \in Conns, k \in Chunks : Disjoint(settled[c], carried[k])
  BY <1>6 DEF Disjoint
<1>14. /\ \A k, j \in Chunks : k # j => Disjoint(carried[k], carried[j])
       /\ \A c, b \in Conns : c # b => Disjoint(settled[c], settled[b])
  BY <1>4, <1>7 DEF Disjoint
<1>15. /\ Disjoint(InHand, buf)
       /\ \A k \in Chunks : Disjoint(carried[k], InHand \cup buf)
       /\ \A c \in Conns : Disjoint(settled[c], InHand \cup buf)
  BY <1>2, <1>3, <1>5 DEF Disjoint
<1> QED BY <1>11, <1>12, <1>13, <1>14, <1>15 DEF OnePlace

\* No chunk is ever in two counters: a swap leaves nothing behind, and what
\* buildPushPayload adds up was never counted under two headings.
THEOREM NeverInTwoPlaces == Spec => []OnePlace
BY PlacesHold, PlacesApart, PTL

--------------------------------------------------------------------------------
(* How often a chunk is counted. *)

\* Not yet handed to the panel: with a connection or in the node's counters.
Unreported(x) ==
    \/ kpc[x] \in {"unsent", "moved"} \/ ~OutOfConns(x)
    \/ x \in record \/ x \in collected

Counts ==
    /\ \A x \in Chunks : Unreported(x) => counted[x] = 0
    /\ \A x \in Owed : \/ x \in suspect
                       \/ counted[x] = 0
                       \/ rpc = "acked" /\ x \in pushData /\ counted[x] = 1
    /\ AtMostOnce

LEMMA InitCounts == Init => Counts
BY Sizes DEF Init, Counts, AtMostOnce, Owed

LEMMA ConnCounts ==
    ASSUME TypeOK, Counts, ConnStep
    PROVE  Counts'
<1> USE DEF OutOfConns
<1>0. UNCHANGED <<counted, suspect, rpc, pushData, Owed, collected>>
  BY DEF ConnStep, Transfer, AddToBuffer, SwapFull, AddTraffic, CloseSwap, CloseAdd,
         reportVars, fileVars, histVars, Owed
<1>a. SUFFICES ASSUME NEW x \in Chunks, Unreported(x)' PROVE Unreported(x)
  BY <1>0 DEF Counts, AtMostOnce
<1>1. ASSUME NEW k \in Chunks, Transfer(k) \/ AddToBuffer(k) PROVE Unreported(x)
  BY <1>0, <1>1, <1>a DEF Transfer, AddToBuffer, TypeOK, Unreported
<1>2. ASSUME NEW k \in Chunks, SwapFull(k) PROVE Unreported(x)
  <2>1. Buffer(ConnOf[k], DirOf[k]) \subseteq buf
    BY DEF Buffer
  <2> QED BY <1>0, <1>2, <1>a, <2>1 DEF SwapFull, Swapped, TypeOK, Unreported
<1>3. ASSUME NEW k \in Chunks, AddTraffic(k) PROVE Unreported(x)
  BY <1>0, <1>3, <1>a DEF AddTraffic, Credited, TypeOK, Unreported
<1>4. ASSUME NEW c \in Conns, NEW d \in Dirs, CloseSwap(c, d) PROVE Unreported(x)
  <2>1. Buffer(c, d) \subseteq buf
    BY DEF Buffer
  <2> QED BY <1>0, <1>4, <1>a, <2>1 DEF CloseSwap, Swapped, TypeOK, Unreported
<1>5. ASSUME NEW c \in Conns, NEW d \in Dirs, CloseAdd(c, d) PROVE Unreported(x)
  BY <1>0, <1>5, <1>a DEF CloseAdd, Credited, TypeOK, Unreported
<1> QED BY <1>1, <1>2, <1>3, <1>4, <1>5 DEF ConnStep

LEMMA ReportCounts ==
    ASSUME TypeOK, Places, Phases, Counts, ReportStep
    PROVE  Counts'
<1> USE DEF OutOfConns
<1>0. UNCHANGED <<kpc, buf, carried, settled>>
  BY DEF ReportStep, Push, Settle, Acquire, CollectUp, CollectDown, Build, AttemptAcked,
         AttemptFailed, Clear, Buffered, Persist, connVars
\* The steps that do not count, and end with nothing acknowledged.
<1>a. ASSUME counted' = counted, suspect \subseteq suspect', rpc # "acked", rpc' # "acked",
             record' \cup collected' \subseteq record \cup collected,
             \A x \in Owed' : x \in Owed \/ x \in collected
      PROVE  Counts'
  <2>1. \A x \in Chunks : Unreported(x)' => counted'[x] = 0
    BY <1>a, <1>0 DEF Counts, Unreported
  <2>2. \A x \in Owed' : x \in suspect' \/ counted'[x] = 0
    BY <1>a DEF Counts, Unreported, TypeOK
  <2>3. AtMostOnce'
    BY <1>a DEF Counts, AtMostOnce
  <2> QED BY <2>1, <2>2, <2>3 DEF Counts
<1>1. ASSUME NEW g \in {"ticker", "shutdown"}, Acquire(g) PROVE Counts'
  BY <1>1, <1>a DEF Acquire, Owed, fileVars, histVars
<1>2. ASSUME NEW u \in Users, CollectUp(u) \/ CollectDown(u) PROVE Counts'
  <2>1. Owed' = Owed /\ counted' = counted /\ suspect' = suspect /\ rpc = "collect" /\ rpc' = rpc
    BY <1>2 DEF CollectUp, CollectDown, Owed, fileVars, histVars
  <2>2. PICK d \in Dirs : /\ record' = record \ RecordOf(u, d)
                           /\ collected' = collected \cup RecordOf(u, d)
    BY <1>2 DEF CollectUp, CollectDown, Swapped, Dirs
  <2>3. RecordOf(u, d) \subseteq record
    BY DEF RecordOf
  <2>4. record' \cup collected' \subseteq record \cup collected
    BY <2>2, <2>3
  <2> QED BY <2>1, <2>4, <1>a
<1>3. CASE Build
  <2>1. /\ counted' = counted /\ suspect' = suspect /\ rpc = "collect" /\ rpc' # "acked"
        /\ record' = record /\ collected' = {}
    BY <1>3 DEF Build, Release, histVars
  <2>2. \A x \in Owed' : x \in Owed \/ x \in collected
    BY <1>3 DEF Build, Payload, Merged, Owed, fileVars
  <2> QED BY <2>1, <2>2, <1>a
<1>4. CASE AttemptAcked
  <2>1. /\ UNCHANGED <<suspect, record, collected, pushData>> /\ Owed' = Owed
        /\ rpc = "push" /\ rpc' = "acked" /\ counted' = Booked
    BY <1>4 DEF AttemptAcked, Owed, fileVars, histVars
  <2>2. ASSUME NEW x \in Chunks, x \notin pushData PROVE counted'[x] = counted[x]
    BY <2>1, <2>2 DEF Booked
  <2>3. ASSUME NEW x \in pushData PROVE x \in suspect \/ counted'[x] = 1
    <3>1. x \in Chunks /\ (x \in suspect \/ counted[x] = 0)
      BY <2>1 DEF Counts, Owed, TypeOK
    <3>2. counted'[x] = Add(counted[x])
      BY <2>1, <3>1 DEF Booked
    <3> QED BY <3>1, <3>2, Sizes DEF Add
  <2>4. ASSUME NEW x \in Chunks, Unreported(x)' PROVE counted'[x] = 0
    <3>1. Unreported(x)
      BY <2>1, <2>4, <1>0 DEF Unreported
    <3>2. x \notin pushData
      BY <3>1 DEF Places, OutOfReport, Owed, Unreported
    <3> QED BY <3>1, <3>2, <2>2 DEF Counts
  <2>5. ASSUME NEW x \in Owed
        PROVE  x \in suspect \/ counted'[x] = 0 \/ (x \in pushData /\ counted'[x] = 1)
    BY <2>1, <2>2, <2>3 DEF Counts, Owed, TypeOK
  <2>6. AtMostOnce'
    <3>1. ASSUME NEW x \in Chunks, counted'[x] > 1 PROVE x \in suspect
      BY <2>2, <2>3, <3>1 DEF Counts, AtMostOnce
    <3> QED BY <3>1, <2>1 DEF AtMostOnce
  <2> QED BY <2>1, <2>4, <2>5, <2>6 DEF Counts
<1>5. ASSUME NEW a \in BOOLEAN, NEW r \in BOOLEAN, AttemptFailed(a, r) PROVE Counts'
  <2>1. /\ UNCHANGED <<record, collected, pushData>> /\ Owed' = Owed
        /\ rpc = "push" /\ rpc' \in {"push", "failed"}
    BY <1>5 DEF AttemptFailed, Owed, fileVars
  <2>2. CASE a
    <3>1. counted' = Booked /\ suspect' = suspect \cup pushData
      BY <1>5, <2>2 DEF AttemptFailed
    <3>2. ASSUME NEW x \in Chunks, x \notin pushData PROVE counted'[x] = counted[x]
      BY <3>1, <3>2 DEF Booked
    <3>3. ASSUME NEW x \in Chunks, Unreported(x)' PROVE counted'[x] = 0
      <4>1. Unreported(x)
        BY <2>1, <3>3, <1>0 DEF Unreported
      <4>2. x \notin pushData
        BY <4>1 DEF Places, OutOfReport, Owed, Unreported
      <4> QED BY <4>1, <4>2, <3>2 DEF Counts
    <3>4. ASSUME NEW x \in Owed PROVE x \in suspect' \/ counted'[x] = 0
      BY <2>1, <3>1, <3>2 DEF Counts, Owed, TypeOK
    <3>5. AtMostOnce'
      BY <3>1, <3>2 DEF Counts, AtMostOnce
    <3> QED BY <2>1, <3>3, <3>4, <3>5 DEF Counts
  <2>3. CASE ~a
    <3>1. counted' = counted /\ suspect' = suspect
      BY <1>5, <2>3 DEF AttemptFailed
    <3> QED BY <2>1, <3>1, <1>a
  <2> QED BY <2>2, <2>3
<1>6. ASSUME NEW f \in BOOLEAN, Clear(f) PROVE Counts'
  <2>1. /\ counted' = counted /\ UNCHANGED <<record, collected>> /\ rpc' = "idle"
        /\ suspect \subseteq suspect' /\ (Owed' = {} \/ Owed' \subseteq suspect')
    BY <1>6 DEF Clear, Cleared, Release, Owed
  <2>2. \A x \in Chunks : Unreported(x)' => counted'[x] = 0
    BY <2>1, <1>0 DEF Counts, Unreported
  <2>3. AtMostOnce'
    BY <2>1 DEF Counts, AtMostOnce
  <2> QED BY <2>1, <2>2, <2>3 DEF Counts
<1>7. CASE Buffered
  <2>1. Kept(pushData) \subseteq pushData
    BY DEF Kept
  <2>2. /\ counted' = counted /\ UNCHANGED <<record, collected, suspect>>
        /\ rpc = "failed" /\ rpc' = "persist" /\ Owed' \subseteq Owed
    BY <1>7, <2>1 DEF Buffered, Owed, fileVars
  <2> QED BY <2>2, <1>a
<1>8. ASSUME NEW f \in BOOLEAN, Persist(f) PROVE Counts'
  <2>1. /\ counted' = counted /\ UNCHANGED <<record, collected, suspect>>
        /\ rpc = "persist" /\ rpc' = "idle" /\ Owed' \subseteq Owed
    BY <1>8 DEF Persist, FileOf, Release, Owed, histVars
  <2> QED BY <2>1, <1>a
<1> QED BY <1>1, <1>2, <1>3, <1>4, <1>5, <1>6, <1>7, <1>8 DEF ReportStep, Push, Settle

LEMMA LifeCounts ==
    ASSUME TypeOK, Places, Phases, Counts, LifeStep
    PROVE  Counts'
<1> USE DEF OutOfConns
<1>1. CASE BeginShutdown
  BY <1>1 DEF BeginShutdown, connVars, reportVars, fileVars, histVars, Counts, Unreported,
              AtMostOnce, Owed
<1>2. CASE Crash \/ Exit
  <2>1. Halt
    BY <1>2 DEF Crash, Exit
  <2>2. /\ \A k \in Chunks : carried'[k] = {}
        /\ \A c \in Conns : settled'[c] = {}
        /\ \A k \in Chunks : kpc'[k] \in {"unsent", "moved"} => kpc[k] = "unsent"
        /\ buf' = {} /\ record' = {} /\ collected' = {} /\ counted' = counted /\ rpc' = "idle"
        /\ suspect' = suspect \cup (IF rpc = "acked" THEN disk \cap pushData ELSE {})
    BY <2>1 DEF Halt
  <2>3. Owed' = disk
    BY <2>1 DEF Halt, Owed, fileVars
  <2>4. \A x \in Chunks : Unreported(x)' => counted'[x] = 0
    BY <2>2 DEF Counts, Unreported
  <2>5. \A x \in disk : x \in suspect' \/ counted'[x] = 0
    BY <2>2 DEF Counts, Owed
  <2>6. AtMostOnce'
    BY <2>2 DEF Counts, AtMostOnce
  <2> QED BY <2>3, <2>4, <2>5, <2>6 DEF Counts
<1>3. CASE Restart
  <2>1. PICK how \in {"read", "unreadable", "damaged"} : LoadPending(how)
    BY <1>3 DEF Restart
  <2>2. Kept(disk) \subseteq disk
    BY DEF Kept
  <2>3. pending' \subseteq disk /\ disk' \subseteq disk
    BY <2>1, <2>2 DEF LoadPending
  <2>4. /\ UNCHANGED <<kpc, buf, carried, settled, record, collected, rpc, pushData, counted, suspect>>
        /\ rpc = "idle"
    BY <1>3 DEF Restart, connVars, Phases
  <2>5. Owed' \subseteq Owed
    BY <2>3, <2>4 DEF Owed
  <2> QED BY <2>4, <2>5 DEF Counts, Unreported, AtMostOnce
<1> QED BY <1>1, <1>2, <1>3 DEF LifeStep

LEMMA NextCounts ==
    TypeOK /\ Places /\ Phases /\ Counts /\ [Next]_vars => Counts'
<1>1. ASSUME Counts, UNCHANGED vars PROVE Counts'
  BY <1>1 DEF vars, Counts, Unreported, OutOfConns, AtMostOnce, Owed, connVars, reportVars,
              fileVars, histVars
<1> QED BY <1>1, ConnCounts, ReportCounts, LifeCounts DEF Next

\* Whatever the panel answers, whenever the process stops and whatever happens
\* to the file, a chunk is counted twice only after a push that was applied
\* and answered with a failure, or when the file outlived the push of its content.
THEOREM CountedOnce == Spec => []AtMostOnce
<1>1. Init => Counts
  BY InitCounts
<1>2. Counts => AtMostOnce
  BY DEF Counts
<1> QED BY <1>1, <1>2, PlacesHold, NextCounts, PTL DEF Spec

--------------------------------------------------------------------------------
(* Nothing vanishes. *)

InMemory(x) ==
    \/ x \in Chunks /\ kpc[x] = "moved"
    \/ x \in buf
    \/ \E k \in Chunks : x \in carried[k]
    \/ \E c \in Conns : x \in settled[c]
    \/ x \in record \/ x \in collected \/ x \in pushData \/ x \in pending

LEMMA MemoryIs ==
    /\ \A x : x \in Memory <=> InMemory(x)
    /\ \A x : x \in Memory' <=> InMemory(x)'
BY DEF Memory, InConns, InHand, InMemory

\* Where a moved chunk is at any time.
Traced(x) == InMemory(x) \/ x \in disk \/ x \in gone \/ counted[x] > 0

Traces ==
    /\ \A x \in Chunks : kpc[x] # "unsent" => Traced(x)
    /\ \A k \in Chunks : kpc[k] # "swapped" => carried[k] = {}
    /\ rpc = "acked" => \A x \in pushData : counted[x] > 0
    /\ life # "down" => \A x \in disk : \/ x \in pending \/ x \in pushData
                                       \/ x \in gone \/ counted[x] > 0

LEMMA InitTraces == Init => Traces
BY DEF Init, Traces

LEMMA ConnTraces ==
    ASSUME TypeOK, Traces, ConnStep
    PROVE  Traces'
<1>0. /\ UNCHANGED <<rpc, pushData, pending, collected, disk, gone, counted, life>>
      /\ \A x \in record : x \in record'
  BY DEF ConnStep, Transfer, AddToBuffer, SwapFull, AddTraffic, CloseSwap, CloseAdd, Credited,
         reportVars, fileVars, lifeVars, histVars
<1>1. ASSUME NEW k \in Chunks, Transfer(k) PROVE Traces'
  <2>1. /\ kpc[k] = "unsent" /\ kpc' = [kpc EXCEPT ![k] = "moved"]
        /\ UNCHANGED <<buf, carried, settled>>
    BY <1>1 DEF Transfer
  <2>2. \A x \in Chunks : kpc'[x] # "unsent" => Traced(x)'
    BY <1>0, <2>1 DEF Traces, Traced, InMemory, TypeOK
  <2>3. \A j \in Chunks : kpc'[j] # "swapped" => carried'[j] = {}
    BY <2>1 DEF Traces, TypeOK
  <2> QED BY <1>0, <2>2, <2>3 DEF Traces
<1>2. ASSUME NEW k \in Chunks, AddToBuffer(k) PROVE Traces'
  <2>1. /\ kpc[k] = "moved" /\ kpc'[k] \in {"full", "done"}
        /\ \A j \in Chunks : j # k => kpc'[j] = kpc[j]
        /\ buf' = buf \cup {k} /\ UNCHANGED <<carried, settled>>
    BY <1>2 DEF AddToBuffer, TypeOK
  <2>2. \A x \in Chunks : kpc'[x] # "unsent" => Traced(x)'
    BY <1>0, <2>1 DEF Traces, Traced, InMemory
  <2>3. \A j \in Chunks : kpc'[j] # "swapped" => carried'[j] = {}
    BY <2>1 DEF Traces
  <2> QED BY <1>0, <2>2, <2>3 DEF Traces
<1>3. ASSUME NEW k \in Chunks, SwapFull(k) PROVE Traces'
  <2>1. /\ kpc[k] = "full" /\ kpc'[k] = "swapped"
        /\ \A j \in Chunks : j # k => kpc'[j] = kpc[j] /\ carried'[j] = carried[j]
        /\ \A x \in buf : x \in buf' \/ x \in carried'[k]
        /\ carried[k] = {} /\ UNCHANGED settled
    BY <1>3 DEF SwapFull, Swapped, TypeOK, Traces
  <2>2. \A x \in Chunks : kpc'[x] # "unsent" => Traced(x)'
    BY <1>0, <2>1 DEF Traces, Traced, InMemory
  <2>3. \A j \in Chunks : kpc'[j] # "swapped" => carried'[j] = {}
    BY <2>1 DEF Traces
  <2> QED BY <1>0, <2>2, <2>3 DEF Traces
<1>4. ASSUME NEW k \in Chunks, AddTraffic(k) PROVE Traces'
  <2>1. /\ kpc[k] = "swapped" /\ kpc'[k] = "done"
        /\ \A j \in Chunks : j # k => kpc'[j] = kpc[j] /\ carried'[j] = carried[j]
        /\ carried'[k] = {} /\ \A x \in carried[k] : x \in record'
        /\ UNCHANGED <<buf, settled>>
    BY <1>4 DEF AddTraffic, Credited, TypeOK
  <2>2. \A x \in Chunks : kpc'[x] # "unsent" => Traced(x)'
    BY <1>0, <2>1 DEF Traces, Traced, InMemory
  <2>3. \A j \in Chunks : kpc'[j] # "swapped" => carried'[j] = {}
    BY <2>1 DEF Traces
  <2> QED BY <1>0, <2>2, <2>3 DEF Traces
<1>5. ASSUME NEW c \in Conns, NEW d \in Dirs, CloseSwap(c, d) \/ CloseAdd(c, d) PROVE Traces'
  <2>1. /\ \A b \in Conns : b # c => settled'[b] = settled[b]
        /\ \A x \in settled[c] : x \in settled'[c] \/ x \in record'
        /\ \A x \in buf : x \in buf' \/ x \in settled'[c]
        /\ UNCHANGED <<kpc, carried>>
    <3>1. CASE CloseSwap(c, d)
      BY <3>1 DEF CloseSwap, Swapped, TypeOK
    <3>2. CASE CloseAdd(c, d)
      BY <3>2 DEF CloseAdd, Credited, TypeOK
    <3> QED BY <1>5, <3>1, <3>2
  <2>2. \A x \in Chunks : kpc'[x] # "unsent" => Traced(x)'
    BY <1>0, <2>1 DEF Traces, Traced, InMemory
  <2> QED BY <1>0, <2>1, <2>2 DEF Traces
<1> QED BY <1>1, <1>2, <1>3, <1>4, <1>5 DEF ConnStep

LEMMA BookedGrows ==
    ASSUME TypeOK
    PROVE  /\ \A x \in Chunks : counted[x] > 0 => Booked[x] > 0
           /\ \A x \in pushData : Booked[x] > 0
<1>1. \A n \in 0..MaxCount : Add(n) > 0
  BY Sizes DEF Add
<1> QED BY <1>1 DEF Booked, TypeOK

LEMMA ReportTraces ==
    ASSUME TypeOK, Phases, Traces, ReportStep
    PROVE  Traces'
<1>0. UNCHANGED <<kpc, buf, carried, settled>> /\ life # "down"
  BY DEF ReportStep, Push, Settle, Acquire, CollectUp, CollectDown, Build, AttemptAcked,
         AttemptFailed, Clear, Buffered, Persist, connVars, Up
\* The steps that drop nothing the trace of a chunk rests on.
<1>a. ASSUME \A x \in Chunks :
                 /\ x \in record \/ x \in collected \/ x \in pushData \/ x \in pending => Traced(x)'
                 /\ x \in disk \/ x \in gone => Traced(x)'
                 /\ counted[x] > 0 => counted'[x] > 0,
             rpc' = "acked" => \A x \in pushData' : counted'[x] > 0,
             \A x \in disk' : \/ x \in pending' \/ x \in pushData'
                             \/ x \in gone' \/ counted'[x] > 0
      PROVE  Traces'
  <2>1. \A x \in Chunks : kpc'[x] # "unsent" => Traced(x)'
    BY <1>a, <1>0 DEF Traces, Traced, InMemory
  <2> QED BY <2>1, <1>a, <1>0 DEF Traces
<1>1. ASSUME NEW g \in {"ticker", "shutdown"}, Acquire(g) PROVE Traces'
  BY <1>1, <1>a, <1>0 DEF Acquire, fileVars, histVars, Traces, Traced, InMemory
<1>2. ASSUME NEW u \in Users, CollectUp(u) \/ CollectDown(u) PROVE Traces'
  <2>1. /\ UNCHANGED <<counted, disk, pending, pushData, gone>> /\ rpc' # "acked"
        /\ \A x \in record : x \in record' \/ x \in collected'
        /\ \A x \in collected : x \in collected'
    BY <1>2 DEF CollectUp, CollectDown, Swapped, fileVars, histVars
  <2> QED BY <2>1, <1>a, <1>0 DEF Traces, Traced, InMemory
<1>3. CASE Build
  <2>1. /\ UNCHANGED <<counted, disk, pending, gone, record>> /\ rpc' # "acked"
        /\ pushData' = pending \cup collected /\ rpc = "collect"
    BY <1>3 DEF Build, Payload, Merged, Release, fileVars, histVars
  <2> QED BY <2>1, <1>a, <1>0 DEF Traces, Traced, InMemory, Phases
<1>4. CASE AttemptAcked
  <2>1. /\ UNCHANGED <<disk, pending, gone, record, collected, pushData>>
        /\ counted' = Booked
    BY <1>4 DEF AttemptAcked, fileVars, histVars
  <2>2. /\ \A x \in Chunks : counted[x] > 0 => counted'[x] > 0
        /\ \A x \in pushData : counted'[x] > 0
    BY <2>1, BookedGrows
  <2> QED BY <2>1, <2>2, <1>a, <1>0 DEF Traces, Traced, InMemory, TypeOK
<1>5. ASSUME NEW a \in BOOLEAN, NEW r \in BOOLEAN, AttemptFailed(a, r) PROVE Traces'
  <2>1. /\ UNCHANGED <<disk, pending, gone, record, collected, pushData>> /\ rpc' # "acked"
        /\ counted' = Booked \/ counted' = counted
    BY <1>5 DEF AttemptFailed, fileVars
  <2>2. \A x \in Chunks : counted[x] > 0 => counted'[x] > 0
    BY <2>1, BookedGrows
  <2> QED BY <2>1, <2>2, <1>a, <1>0 DEF Traces, Traced, InMemory, TypeOK
<1>6. ASSUME NEW f \in BOOLEAN, Clear(f) PROVE Traces'
  <2>1. /\ UNCHANGED <<counted, gone, record, collected>> /\ rpc = "acked" /\ rpc' = "idle"
        /\ pushData' = {} /\ disk' \subseteq disk
    BY <1>6 DEF Clear, Release
  <2>2. \A x \in pushData \cup pending : counted[x] > 0
    BY <2>1 DEF Traces, Phases
  <2>3. \A x \in disk : x \in gone \/ counted[x] > 0
    BY <2>2, <1>0 DEF Traces
  <2> QED BY <2>1, <2>2, <2>3, <1>a, <1>0 DEF Traced, InMemory, TypeOK
<1>7. CASE Buffered
  <2>1. /\ UNCHANGED <<counted, disk, record, collected>> /\ rpc = "failed" /\ rpc' = "persist"
        /\ \A x \in gone : x \in gone'
        /\ \A x \in pushData : x \in pending' \/ x \in gone'
    BY <1>7 DEF Buffered, fileVars
  <2>2. \A x \in pending : x \in pushData
    BY <2>1 DEF Phases
  <2> QED BY <2>1, <2>2, <1>a, <1>0 DEF Traces, Traced, InMemory, TypeOK
<1>8. ASSUME NEW f \in BOOLEAN, Persist(f) PROVE Traces'
  <2>1. /\ UNCHANGED <<counted, gone, record, collected, pending, pushData>> /\ rpc' = "idle"
        /\ disk' = disk \/ disk' \subseteq pending
    BY <1>8 DEF Persist, FileOf, Release, histVars
  <2>2. pushData = {}
    BY <1>8 DEF Persist, Phases
  <2> QED BY <2>1, <2>2, <1>a, <1>0 DEF Traces, Traced, InMemory, TypeOK
<1> QED BY <1>1, <1>2, <1>3, <1>4, <1>5, <1>6, <1>7, <1>8 DEF ReportStep, Push, Settle

LEMMA LifeTraces ==
    ASSUME TypeOK, Phases, Traces, LifeStep
    PROVE  Traces'
<1>1. CASE BeginShutdown
  <2>1. /\ UNCHANGED <<kpc, buf, carried, settled, record, collected, pushData, pending, rpc,
                       disk, gone, counted>>
        /\ life = "running"
    BY <1>1 DEF BeginShutdown, connVars, reportVars, fileVars, histVars
  <2> QED BY <2>1 DEF Traces, Traced, InMemory
<1>2. CASE Crash \/ Exit
  <2>1. Halt
    BY <1>2 DEF Crash, Exit
  <2>2. /\ \A x \in Memory : x \in gone' \/ x \in disk'
        /\ \A x \in gone : x \in gone'
        /\ disk' = disk /\ counted' = counted /\ life' = "down" /\ rpc' = "idle"
        /\ \A x \in Chunks : kpc'[x] # "unsent" => kpc[x] # "unsent"
        /\ \A x \in Chunks : carried'[x] = {}
    BY <2>1 DEF Halt, fileVars
  <2>3. \A x \in Chunks : kpc'[x] # "unsent" => Traced(x)'
    BY <2>2, MemoryIs DEF Traces, Traced
  <2> QED BY <2>2, <2>3 DEF Traces
<1>3. CASE Restart
  <2>1. PICK how \in {"read", "unreadable", "damaged"} : LoadPending(how)
    BY <1>3 DEF Restart
  <2>2. UNCHANGED <<kpc, buf, carried, settled, record, collected, pushData, rpc, counted>>
    BY <1>3 DEF Restart, connVars
  <2>3. disk' \subseteq disk /\ gone' = gone \cup (disk \ pending')
    BY <2>1 DEF LoadPending
  <2>4. rpc = "idle" /\ life = "down" /\ pending = {}
    BY <1>3 DEF Restart, Phases
  <2>5. \A x \in Chunks : kpc'[x] # "unsent" => Traced(x)'
    BY <2>2, <2>3, <2>4 DEF Traces, Traced, InMemory
  <2> QED BY <2>2, <2>3, <2>4, <2>5 DEF Traces
<1> QED BY <1>1, <1>2, <1>3 DEF LifeStep

LEMMA NextTraces ==
    TypeOK /\ Phases /\ Traces /\ [Next]_vars => Traces'
<1>1. ASSUME Traces, UNCHANGED vars PROVE Traces'
  BY <1>1 DEF vars, Traces, Traced, InMemory, connVars, reportVars, fileVars, lifeVars, histVars
<1> QED BY <1>1, ConnTraces, ReportTraces, LifeTraces DEF Next

\* No bytes vanish: every chunk ever moved is in memory, in the file, counted
\* by the panel, or among those lost in a way the design admits.
THEOREM NothingVanishes == Spec => []Conserved
<1>1. Init => Traces
  BY InitTraces
<1>2. Traces => Conserved
  BY MemoryIs DEF Traces, Traced, Conserved
<1> QED BY <1>1, <1>2, PlacesHold, NextTraces, PTL DEF Spec

--------------------------------------------------------------------------------
(* The state file. *)

LEMMA FinitelyManyUsers ==
    ASSUME NEW S \in SUBSET Chunks
    PROVE  IsFiniteSet(UsersOf(S))
<1> DEFINE f == [k \in S |-> UserOfChunk(k)]
<1>1. IsFiniteSet(S)
  BY ChunksFinite, FS_Subset
<1>2. f \in Surjection(S, UsersOf(S))
  BY DEF Surjection, UsersOf
<1> QED BY <1>1, <1>2, FS_Surjection

\* trimPending keeps what it once kept, so reading the file back loses nothing.
LEMMA KeptTwice ==
    ASSUME NEW S \in SUBSET Chunks
    PROVE  Kept(Kept(S)) = Kept(S)
<1> DEFINE Above(T, k) == {u \in UsersOf(T) : u > UserOfChunk(k)}
<1>1. Kept(S) \subseteq S /\ Kept(Kept(S)) \subseteq Kept(S)
  BY DEF Kept
<1>2. ASSUME NEW k \in Kept(S) PROVE k \in Kept(Kept(S))
  <2>1. Above(Kept(S), k) \in SUBSET Above(S, k)
    BY <1>1 DEF UsersOf
  <2>2. IsFiniteSet(Above(S, k))
    <3>1. Above(S, k) \in SUBSET UsersOf(S)
      OBVIOUS
    <3> QED BY <3>1, FinitelyManyUsers, FS_Subset
  <2>3. /\ Cardinality(Above(Kept(S), k)) <= Cardinality(Above(S, k))
        /\ Cardinality(Above(Kept(S), k)) \in Nat /\ Cardinality(Above(S, k)) \in Nat
    <3>1. IsFiniteSet(Above(Kept(S), k)) /\ Cardinality(Above(Kept(S), k)) <= Cardinality(Above(S, k))
      BY <2>1, <2>2, FS_Subset
    <3> QED BY <3>1, <2>2, FS_CardinalityType
  <2>4. Cardinality(Above(S, k)) < maxPendingUsers
    BY <1>2 DEF Kept
  <2>5. Cardinality(Above(Kept(S), k)) < maxPendingUsers
    BY <2>3, <2>4, Sizes
  <2> QED BY <1>2, <2>5 DEF Kept
<1> QED BY <1>1, <1>2

LEMMA KeptNothing == Kept({}) = {}
BY DEF Kept

\* The file holds the backlog from the end of one report to the middle of the next.
Filed ==
    /\ Kept(pending) = pending /\ Kept(disk) = disk
    /\ StateFile /\ life # "down" /\ rpc # "persist" /\ ~diskFault => disk = pending

LEMMA NextFiled == TypeOK /\ Filed /\ [Next]_vars => Filed'
<1> SUFFICES ASSUME TypeOK, Filed, [Next]_vars PROVE Filed'
  OBVIOUS
\* The steps that touch neither, and do not end the writing of the file.
<1>a. ASSUME UNCHANGED <<pending, disk, diskFault>>, rpc = "persist" => rpc' = "persist",
             life = "down" => life' = "down"
      PROVE  Filed'
  BY <1>a DEF Filed, Kept
<1>1. CASE ConnStep
  BY <1>1, <1>a DEF ConnStep, Transfer, AddToBuffer, SwapFull, AddTraffic, CloseSwap, CloseAdd,
                    reportVars, fileVars, lifeVars
<1>2. CASE \/ \E g \in {"ticker", "shutdown"} : Acquire(g)
           \/ \E u \in Users : CollectUp(u) \/ CollectDown(u)
           \/ Build \/ Push
  BY <1>2, <1>a DEF Acquire, CollectUp, CollectDown, Build, Push, AttemptAcked, AttemptFailed,
                    Release, fileVars, lifeVars, Up
<1>3. ASSUME NEW f \in BOOLEAN, Clear(f) PROVE Filed'
  <2>1. pending' = {} /\ disk' = (IF f THEN disk ELSE {}) /\ diskFault' = f
    BY <1>3 DEF Clear, Cleared
  <2>2. Kept(pending)' = {} /\ Kept(disk)' = disk'
    BY <2>1, KeptNothing DEF Filed, Kept
  <2> QED BY <2>1, <2>2 DEF Filed
<1>4. CASE Buffered
  <2>1. pending' = Kept(pushData) /\ disk' = disk /\ rpc' = "persist"
    BY <1>4 DEF Buffered, fileVars
  <2>2. Kept(Kept(pushData)) = Kept(pushData)
    BY KeptTwice DEF TypeOK
  <2>3. Kept(pending)' = pending'
    BY <2>1, <2>2 DEF Kept
  <2>4. Kept(disk)' = disk'
    BY <2>1 DEF Filed, Kept
  <2> QED BY <2>1, <2>3, <2>4 DEF Filed
<1>5. ASSUME NEW f \in BOOLEAN, Persist(f) PROVE Filed'
  <2>1. /\ pending' = pending /\ disk' = (IF f THEN disk ELSE FileOf(pending)) /\ diskFault' = f
    BY <1>5 DEF Persist
  <2>2. Kept(pending)' = pending'
    BY <2>1 DEF Filed, Kept
  <2>3. disk' \in {disk, pending, {}}
    BY <2>1 DEF FileOf
  <2>4. Kept(disk)' = disk'
    BY <2>3, KeptNothing DEF Filed, Kept
  <2>5. StateFile /\ ~f => disk' = pending
    BY <2>1 DEF FileOf
  <2> QED BY <2>1, <2>2, <2>4, <2>5 DEF Filed
<1>6. CASE LifeStep
  <2>1. CASE BeginShutdown
    BY <2>1, <1>a DEF BeginShutdown, reportVars, fileVars
  <2>2. CASE Crash \/ Exit
    <3>1. pending' = {} /\ disk' = disk /\ life' = "down"
      BY <2>2 DEF Crash, Exit, Halt, fileVars
    <3>2. Kept(pending)' = pending' /\ Kept(disk)' = disk'
      BY <3>1, KeptNothing DEF Filed, Kept
    <3> QED BY <3>1, <3>2 DEF Filed
  <2>3. CASE Restart
    <3>1. PICK how \in {"read", "unreadable", "damaged"} : LoadPending(how)
      BY <2>3 DEF Restart
    <3>2. /\ how = "read" => pending' = Kept(disk) /\ disk' = disk
          /\ how = "unreadable" => pending' = {} /\ disk' = disk /\ diskFault'
          /\ how = "damaged" => pending' = {} /\ disk' = {}
      BY <3>1 DEF LoadPending
    <3>3. Kept(disk) = disk
      BY DEF Filed
    <3>4. pending' \in {disk, {}} /\ disk' \in {disk, {}} /\ (pending' = disk' \/ diskFault')
      BY <3>2, <3>3
    <3>5. Kept(pending)' = pending' /\ Kept(disk)' = disk'
      BY <3>3, <3>4, KeptNothing DEF Kept
    <3> QED BY <3>4, <3>5 DEF Filed
  <2> QED BY <1>6, <2>1, <2>2, <2>3 DEF LifeStep
<1>7. CASE UNCHANGED vars
  BY <1>7, <1>a DEF vars, reportVars, fileVars, lifeVars
<1> QED BY <1>1, <1>2, <1>3, <1>4, <1>5, <1>6, <1>7 DEF Next, ReportStep, Settle

\* Between two reports the file is the backlog, whatever happened before, as
\* long as the last operation on the file succeeded.
THEOREM FileExact == Spec => []FileIsBacklog
<1>1. Init => Filed
  BY KeptNothing DEF Init, Filed
<1>2. Filed => FileIsBacklog
  BY DEF Filed, FileIsBacklog, Up
<1> QED BY <1>1, <1>2, TypeCorrect, NextFiled, PTL DEF Spec
================================================================================
