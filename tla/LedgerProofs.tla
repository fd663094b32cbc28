------------------------------ MODULE LedgerProofs ------------------------------
(***************************************************************************)
(* Traffic implements Ledger: for every set of chunks and connections, any *)
(* sizes and bounds, and whatever the panel, the disk and the process do,  *)
(* each step of the accounting is a step of the book or leaves it alone.   *)
(***************************************************************************)
EXTENDS TrafficLedger, TrafficProofs, WellFoundedInduction

--------------------------------------------------------------------------------
(* What trimPending keeps. *)

\* A backlog that is cut keeps at least maxPendingUsers users: the one left out
\* with the fewest users above it has that many, and all of them are kept.
LEMMA KeptEnough ==
    ASSUME NEW S \in SUBSET Chunks, Kept(S) # S
    PROVE  Cardinality({UserOfChunk(k) : k \in Kept(S)}) >= maxPendingUsers
<1> DEFINE U == UsersOf(S)
           Above(u) == {v \in U : v > u}
           Cut == {u \in U : Cardinality(Above(u)) >= maxPendingUsers}
           A == {Above(u) : u \in Cut}
<1>1. IsFiniteSet(U)
  BY FinitelyManyUsers
<1>2. \A u \in U : u \in Int
  BY Attribution, UsersAreInts DEF UsersOf, UserOfChunk
<1>3. \A u \in U : IsFiniteSet(Above(u)) /\ Cardinality(Above(u)) \in Nat
  <2> TAKE u \in U
  <2>1. Above(u) \in SUBSET U
    OBVIOUS
  <2> HIDE DEF U, Above
  <2>2. IsFiniteSet(Above(u))
    BY <1>1, <2>1, FS_Subset
  <2> QED BY <2>2, FS_CardinalityType
<1>4. \A k \in S : UserOfChunk(k) \in U /\ (k \in Kept(S) <=> UserOfChunk(k) \notin Cut)
  <2> TAKE k \in S
  <2>1. UserOfChunk(k) \in U
    BY DEF UsersOf
  <2>2. k \in Kept(S) <=> Cardinality(Above(UserOfChunk(k))) < maxPendingUsers
    BY DEF Kept
  <2> QED BY <2>1, <2>2, <1>3, Sizes
<1>5. PICK u \in Cut : \A w \in Cut : ~(Above(w) \subseteq Above(u) /\ Above(w) # Above(u))
  <2>1. A # {}
    <3>1. PICK k \in S : k \notin Kept(S)
      BY DEF Kept
    <3>2. UserOfChunk(k) \in Cut
      BY <1>4, <3>1
    <3> QED BY <3>2
  <2>2. A \subseteq FiniteSubsetsOf(U)
    BY <1>3 DEF FiniteSubsetsOf
  <2>3. IsWellFoundedOn(StrictSubsetOrdering(U), FiniteSubsetsOf(U))
    BY FS_StrictSubsetOrderingWellFounded
  <2> HIDE DEF U, A
  <2>4. \E X \in A : \A Y \in A : ~(<<Y, X>> \in StrictSubsetOrdering(U))
    BY <2>1, <2>2, <2>3, WFMin
  <2> USE DEF U, A
  <2>5. \A X, Y \in A : Y \subseteq X /\ Y # X => <<Y, X>> \in StrictSubsetOrdering(U)
    BY DEF StrictSubsetOrdering
  <2>6. PICK X \in A : \A Y \in A : ~(Y \subseteq X /\ Y # X)
    BY <2>4, <2>5
  <2>7. PICK u \in Cut : X = Above(u)
    OBVIOUS
  <2>8. \A w \in Cut : Above(w) \in A
    OBVIOUS
  <2>9. \A w \in Cut : ~(Above(w) \subseteq Above(u) /\ Above(w) # Above(u))
    BY <2>6, <2>7, <2>8
  <2> QED BY <2>9
<1>6. \A w \in Above(u) : w \in UsersOf(Kept(S))
  <2> TAKE w \in Above(u)
  <2>1. Above(w) \subseteq Above(u) /\ Above(w) # Above(u)
    BY <1>2
  <2>2. w \in U /\ w \notin Cut
    BY <2>1, <1>5
  <2>3. PICK k \in S : w = UserOfChunk(k)
    BY <2>2 DEF UsersOf
  <2> QED BY <2>2, <2>3, <1>4 DEF UsersOf
<1>7. UsersOf(Kept(S)) = {UserOfChunk(k) : k \in Kept(S)}
  BY DEF UsersOf
<1>8. IsFiniteSet(UsersOf(Kept(S))) /\ Cardinality(UsersOf(Kept(S))) \in Nat
  <2>1. Kept(S) \in SUBSET Chunks
    BY DEF Kept
  <2> QED BY <2>1, FinitelyManyUsers, FS_CardinalityType
<1>9. Cardinality(Above(u)) <= Cardinality(UsersOf(Kept(S)))
  BY <1>6, <1>8, FS_Subset
<1> QED BY <1>3, <1>5, <1>7, <1>8, <1>9, Sizes

\* And more chunks belong to no fewer users.
LEMMA MoreUsers ==
    ASSUME NEW S \in SUBSET Chunks, NEW T \in SUBSET Chunks,
           {UserOfChunk(k) : k \in S} \subseteq {UserOfChunk(k) : k \in T},
           Cardinality({UserOfChunk(k) : k \in S}) >= maxPendingUsers
    PROVE  Cardinality({UserOfChunk(k) : k \in T}) >= maxPendingUsers
<1>1. IsFiniteSet({UserOfChunk(k) : k \in T}) /\ IsFiniteSet({UserOfChunk(k) : k \in S})
  BY FinitelyManyUsers DEF UsersOf
<1>2. Cardinality({UserOfChunk(k) : k \in S}) <= Cardinality({UserOfChunk(k) : k \in T})
  BY <1>1, FS_Subset
<1>3. /\ Cardinality({UserOfChunk(k) : k \in S}) \in Nat
      /\ Cardinality({UserOfChunk(k) : k \in T}) \in Nat
  BY <1>1, FS_CardinalityType
<1> QED BY <1>2, <1>3, Sizes

--------------------------------------------------------------------------------
(* The invariant the step proof needs, beside Places, Phases and Traces.     *)

\* Nothing is in memory while the process is down, and there is no file unless
\* one is configured.
Ended ==
    /\ life = "down" => Memory = {}
    /\ ~StateFile => disk = {}

LEMMA InitEnded == Init => Ended
BY DEF Init, Ended

\* What Halt leaves of the memory.
LEMMA HaltForgets ==
    ASSUME Halt
    PROVE  Memory' = {}
<1>1. \A x : ~InMemory(x)'
  BY DEF Halt, InMemory
<1> QED BY <1>1, MemoryIs

LEMMA NextEnded == TypeOK /\ Ended /\ [Next]_vars => Ended'
<1> SUFFICES ASSUME TypeOK, Ended, [Next]_vars PROVE Ended'
  OBVIOUS
\* The steps of a process that goes on running, and do not write the file.
<1>a. ASSUME life' # "down", disk' \subseteq disk PROVE Ended'
  BY <1>a DEF Ended
<1>1. CASE ConnStep
  BY <1>1, <1>a DEF ConnStep, Transfer, AddToBuffer, SwapFull, AddTraffic, CloseSwap, CloseAdd,
                    fileVars, lifeVars, Up
<1>2. CASE \/ \E g \in {"ticker", "shutdown"} : Acquire(g)
           \/ \E u \in Users : CollectUp(u) \/ CollectDown(u)
           \/ Build \/ Push \/ Buffered \/ \E f \in BOOLEAN : Clear(f)
  BY <1>2, <1>a DEF Acquire, CollectUp, CollectDown, Build, Push, AttemptAcked, AttemptFailed,
                    Buffered, Clear, Release, fileVars, lifeVars, Up
<1>3. ASSUME NEW f \in BOOLEAN, Persist(f) PROVE Ended'
  BY <1>3 DEF Persist, FileOf, Release, Up, Ended
<1>4. CASE BeginShutdown \/ Restart
  BY <1>4, <1>a DEF BeginShutdown, Restart, LoadPending, fileVars
<1>5. CASE Crash \/ Exit
  BY <1>5, HaltForgets DEF Crash, Exit, Halt, fileVars, Ended
<1>6. CASE UNCHANGED vars
  <2>1. \A x : InMemory(x)' <=> InMemory(x)
    BY <1>6 DEF vars, connVars, reportVars, InMemory
  <2>2. Memory' = Memory
    BY <2>1, MemoryIs
  <2> QED BY <1>6, <2>2 DEF vars, fileVars, lifeVars, Ended
<1> QED BY <1>1, <1>2, <1>3, <1>4, <1>5, <1>6 DEF Next, ReportStep, LifeStep, Settle

--------------------------------------------------------------------------------
(* What the steps do to the memory. *)

\* Calls, Close and CollectTraffic hand chunks on and lose none.
LEMMA ConnKeepsMemory ==
    ASSUME TypeOK, Traces, NEW k \in Chunks, AddToBuffer(k) \/ SwapFull(k) \/ AddTraffic(k)
    PROVE  Memory' = Memory
<1>0. UNCHANGED <<settled, collected, pushData, pending>>
  BY DEF AddToBuffer, SwapFull, AddTraffic, reportVars
<1>1. CASE AddToBuffer(k)
  <2>1. /\ kpc[k] = "moved" /\ kpc'[k] # "moved"
        /\ \A j \in Chunks : j # k => kpc'[j] = kpc[j]
        /\ buf' = buf \cup {k} /\ UNCHANGED <<carried, record>>
    BY <1>1 DEF AddToBuffer, TypeOK
  <2>2. \A x : InMemory(x)' <=> InMemory(x)
    BY <1>0, <2>1 DEF InMemory
  <2> QED BY <2>2, MemoryIs
<1>2. CASE SwapFull(k)
  <2>1. /\ kpc[k] = "full" /\ kpc'[k] = "swapped" /\ carried[k] = {}
        /\ \A j \in Chunks : j # k => kpc'[j] = kpc[j] /\ carried'[j] = carried[j]
        /\ \A x : x \in buf <=> x \in buf' \/ x \in carried'[k]
        /\ UNCHANGED record
    BY <1>2 DEF SwapFull, Swapped, Buffer, TypeOK, Traces
  <2>2. \A x : InMemory(x)' <=> InMemory(x)
    BY <1>0, <2>1 DEF InMemory
  <2> QED BY <2>2, MemoryIs
<1>3. CASE AddTraffic(k)
  <2>1. /\ kpc[k] = "swapped" /\ kpc'[k] = "done" /\ carried'[k] = {}
        /\ \A j \in Chunks : j # k => kpc'[j] = kpc[j] /\ carried'[j] = carried[j]
        /\ record' = record \cup carried[k] /\ UNCHANGED buf
    BY <1>3 DEF AddTraffic, Credited, TypeOK
  <2>2. \A x : InMemory(x)' <=> InMemory(x)
    BY <1>0, <2>1 DEF InMemory
  <2> QED BY <2>2, MemoryIs
<1> QED BY <1>1, <1>2, <1>3

LEMMA CloseKeepsMemory ==
    ASSUME TypeOK, NEW c \in Conns, NEW d \in Dirs, CloseSwap(c, d) \/ CloseAdd(c, d)
    PROVE  Memory' = Memory
<1>0. UNCHANGED <<kpc, carried, collected, pushData, pending>>
  BY DEF CloseSwap, CloseAdd, reportVars
<1>1. \A b \in Conns : b # c => settled'[b] = settled[b]
  BY DEF CloseSwap, CloseAdd, TypeOK
<1>2. CASE CloseSwap(c, d)
  <2>1. /\ UNCHANGED record
        /\ \A x : x \in buf \/ x \in settled[c] <=> x \in buf' \/ x \in settled'[c]
    BY <1>2 DEF CloseSwap, Swapped, Buffer, TypeOK
  <2>2. \A x : InMemory(x)' <=> InMemory(x)
    BY <1>0, <1>1, <2>1 DEF InMemory
  <2> QED BY <2>2, MemoryIs
<1>3. CASE CloseAdd(c, d)
  <2>1. /\ UNCHANGED buf
        /\ \A x : x \in record \/ x \in settled[c] <=> x \in record' \/ x \in settled'[c]
    BY <1>3 DEF CloseAdd, Credited, TypeOK
  <2>2. \A x : InMemory(x)' <=> InMemory(x)
    BY <1>0, <1>1, <2>1 DEF InMemory
  <2> QED BY <2>2, MemoryIs
<1> QED BY <1>2, <1>3

LEMMA CollectKeepsMemory ==
    ASSUME NEW u \in Users, CollectUp(u) \/ CollectDown(u)
    PROVE  Memory' = Memory
<1>1. /\ UNCHANGED <<kpc, buf, carried, settled, pushData, pending>>
      /\ \A x : x \in record \/ x \in collected <=> x \in record' \/ x \in collected'
  BY DEF CollectUp, CollectDown, RecordOf, Swapped, connVars
<1>2. \A x : InMemory(x)' <=> InMemory(x)
  BY <1>1 DEF InMemory
<1> QED BY <1>2, MemoryIs

\* What was handed over for a push is in the reporter's hands alone.
LEMMA InReporter ==
    ASSUME Places, NEW x \in pushData \cup pending \cup disk
    PROVE  x \in Memory <=> x \in pushData \/ x \in pending
<1>1. x \in Owed
  BY DEF Owed
<1>2. /\ x \notin buf /\ x \notin record /\ x \notin collected
      /\ \A k \in Chunks : x \notin carried[k]
      /\ \A c \in Conns : x \notin settled[c]
      /\ x \in Chunks => kpc[x] # "moved"
  BY <1>1 DEF Places, OutOfReport
<1> QED BY <1>2, MemoryIs DEF InMemory

\* The book counts as its implementation does.
LEMMA SameCardinality == \A S : Books!Cardinality(S) = Cardinality(S)
BY Zenon DEF Cardinality, Books!Cardinality

\* A step that leaves all the book shows as it is.
LEMMA Unbooked ==
    ASSUME \/ /\ Memory' = Memory /\ rpc' # "acked" /\ rpc # "acked"
           \/ Memory' = Memory /\ UNCHANGED <<rpc, pushData>>,
           Up <=> Up', (life = "down") <=> (life' = "down"),
           UNCHANGED <<disk, counted>>,
           \A k \in Chunks : kpc'[k] = "unsent" <=> kpc[k] = "unsent"
    PROVE  UNCHANGED Books!vars
<1>1. StillOwed' = StillOwed
  BY DEF StillOwed
<1>2. {k \in Chunks : kpc[k] # "unsent"}' = {k \in Chunks : kpc[k] # "unsent"}
  OBVIOUS
<1>3. Up' = Up
  BY DEF Up
<1> QED BY <1>1, <1>2, <1>3 DEF Books!vars

--------------------------------------------------------------------------------
(* Every step is a step of the book. *)

LEMMA ConnBooks ==
    ASSUME TypeOK, Places, Traces, ConnStep
    PROVE  [Books!Next]_Books!vars
<1>0. /\ UNCHANGED <<rpc, pushData, disk, counted, life>> /\ Up
      /\ life # "down"
  BY DEF ConnStep, Transfer, AddToBuffer, SwapFull, AddTraffic, CloseSwap, CloseAdd,
         reportVars, fileVars, lifeVars, Up
<1>1. ASSUME NEW k \in Chunks, Transfer(k) PROVE Books!Next
  <2>1. /\ kpc[k] = "unsent" /\ kpc' = [kpc EXCEPT ![k] = "moved"]
        /\ UNCHANGED <<buf, carried, settled, record, collected, pending>>
    BY <1>1 DEF Transfer, reportVars
  <2>2. kpc'[k] = "moved" /\ \A j \in Chunks : j # k => kpc'[j] = kpc[j]
    BY <2>1 DEF TypeOK
  <2>3. \A x : InMemory(x)' <=> InMemory(x) \/ x = k
    BY <1>0, <2>1, <2>2 DEF InMemory
  <2>4. Memory' = Memory \cup {k}
    BY <2>3, MemoryIs
  <2>5. k \notin pushData
    BY <2>1 DEF Places, OutOfReport, Owed
  <2>6. StillOwed' = StillOwed \cup {k}
    BY <1>0, <2>4, <2>5 DEF StillOwed
  <2>7. {j \in Chunks : kpc[j] # "unsent"}' = {j \in Chunks : kpc[j] # "unsent"} \cup {k}
    BY <2>2
  <2>8. k \notin {j \in Chunks : kpc[j] # "unsent"}
    BY <2>1
  <2>9. Up' = Up
    BY <1>0 DEF Up
  <2>10. Books!Move(k)
    BY <1>0, <2>6, <2>7, <2>8, <2>9 DEF Books!Move
  <2> QED BY <2>10 DEF Books!Next
<1>2. ASSUME NEW k \in Chunks, AddToBuffer(k) \/ SwapFull(k) \/ AddTraffic(k)
      PROVE  UNCHANGED Books!vars
  <2>1. Memory' = Memory
    BY <1>2, ConnKeepsMemory
  <2>2. \A j \in Chunks : kpc'[j] = "unsent" <=> kpc[j] = "unsent"
    BY <1>2 DEF AddToBuffer, SwapFull, AddTraffic, TypeOK
  <2>3. Up <=> Up'
    BY <1>0 DEF Up
  <2> QED BY <1>0, <2>1, <2>2, <2>3, Unbooked
<1>3. ASSUME NEW c \in Conns, NEW d \in Dirs, CloseSwap(c, d) \/ CloseAdd(c, d)
      PROVE  UNCHANGED Books!vars
  <2>1. Memory' = Memory
    BY <1>3, CloseKeepsMemory
  <2>2. kpc' = kpc
    BY <1>3 DEF CloseSwap, CloseAdd
  <2>3. Up <=> Up'
    BY <1>0 DEF Up
  <2> QED BY <1>0, <2>1, <2>2, <2>3, Unbooked
<1> QED BY <1>1, <1>2, <1>3 DEF ConnStep

\* Waiting, collecting, building the payload: nothing of it shows in the book.
LEMMA CollectBooks ==
    ASSUME TypeOK, Phases,
           \/ \E g \in {"ticker", "shutdown"} : Acquire(g)
           \/ \E u \in Users : CollectUp(u) \/ CollectDown(u)
           \/ Build
    PROVE  UNCHANGED Books!vars
<1>1. /\ UNCHANGED <<kpc, disk, counted>> /\ rpc # "acked" /\ rpc' # "acked"
      /\ Up /\ Up' /\ life # "down" /\ life' # "down"
  BY DEF Acquire, CollectUp, CollectDown, Build, Release, connVars, fileVars, lifeVars, Up
<1>2. CASE \E g \in {"ticker", "shutdown"} : Acquire(g)
  <2>1. \A x : InMemory(x)' <=> InMemory(x)
    BY <1>2 DEF Acquire, connVars, InMemory
  <2>2. Memory' = Memory
    BY <2>1, MemoryIs
  <2> QED BY <1>1, <2>2, Unbooked
<1>3. ASSUME NEW u \in Users, CollectUp(u) \/ CollectDown(u) PROVE UNCHANGED Books!vars
  BY <1>1, <1>3, CollectKeepsMemory, Unbooked
<1>4. CASE Build
  <2>1. \A x : InMemory(x)' <=> InMemory(x)
    BY <1>4 DEF Build, Payload, Merged, Phases, connVars, InMemory
  <2>2. Memory' = Memory
    BY <2>1, MemoryIs
  <2> QED BY <1>1, <2>2, Unbooked
<1> QED BY <1>2, <1>3, <1>4

\* An attempt: the panel books the payload and says so, books it unnoticed, or
\* nothing happens.
LEMMA PushBooks ==
    ASSUME TypeOK, Push
    PROVE  [Books!Next]_Books!vars
<1>0. /\ UNCHANGED <<kpc, pushData, disk, life>> /\ Up /\ life # "down" /\ rpc = "push"
  BY DEF Push, AttemptAcked, AttemptFailed, connVars, fileVars, lifeVars, Up
<1>1. \A x : InMemory(x)' <=> InMemory(x)
  BY DEF Push, AttemptAcked, AttemptFailed, connVars, InMemory
<1>2. Memory' = Memory
  BY <1>1, MemoryIs
<1>3. pushData \in SUBSET StillOwed
  BY <1>0, MemoryIs DEF StillOwed, InMemory
<1>4. UNCHANGED {k \in Chunks : kpc[k] # "unsent"} /\ Up' = Up
  BY <1>0 DEF Up
<1>5. counted' = Booked => Books!Book(pushData)
  BY DEF Books!Book, Booked, Add
<1>6. CASE AttemptAcked
  <2>1. StillOwed' = StillOwed \ pushData
    BY <1>0, <1>2, <1>6 DEF AttemptAcked, StillOwed
  <2>2. Books!Settle(pushData)
    BY <1>0, <1>4, <1>5, <1>6, <2>1 DEF AttemptAcked, Books!Settle
  <2> QED BY <1>3, <2>2 DEF Books!Next
<1>7. ASSUME NEW a \in BOOLEAN, NEW r \in BOOLEAN, AttemptFailed(a, r)
      PROVE  [Books!Next]_Books!vars
  <2>1. rpc' # "acked"
    BY <1>0, <1>7 DEF AttemptFailed
  <2>2. StillOwed' = StillOwed
    BY <1>0, <1>2, <2>1 DEF StillOwed
  <2>3. CASE a
    <3>1. Books!Misbook(pushData)
      BY <1>0, <1>4, <1>5, <1>7, <2>2, <2>3 DEF AttemptFailed, Books!Misbook
    <3> QED BY <1>3, <3>1 DEF Books!Next
  <2>4. CASE ~a
    BY <1>0, <1>4, <1>7, <2>2, <2>4 DEF AttemptFailed, Books!vars
  <2> QED BY <2>3, <2>4
<1> QED BY <1>6, <1>7 DEF Push

\* After a push that was acknowledged the backlog goes, and the file with it:
\* all they hold was settled.
LEMMA ClearBooks ==
    ASSUME TypeOK, Places, Phases, NEW f \in BOOLEAN, Clear(f)
    PROVE  [Books!Next]_Books!vars
<1>0. /\ UNCHANGED <<kpc, buf, carried, settled, record, collected, counted>>
      /\ Up /\ Up' /\ life # "down" /\ life' # "down" /\ rpc = "acked" /\ rpc' # "acked"
      /\ pending' = {} /\ pushData' = {} /\ disk' = IF f THEN disk ELSE {}
  BY DEF Clear, Cleared, Release, connVars, Up
<1>1. pending \subseteq pushData
  BY <1>0 DEF Phases
<1>2. \A x \in pushData : ~InMemory(x)'
  BY <1>0 DEF Places, OutOfReport, Owed, InMemory
<1>3. \A x : InMemory(x)' <=> InMemory(x) /\ x \notin pushData
  BY <1>0, <1>1, <1>2 DEF InMemory
<1>4. Memory' = Memory \ pushData
  BY <1>3, MemoryIs
<1>5. StillOwed' = StillOwed
  BY <1>0, <1>4 DEF StillOwed
<1>6. UNCHANGED {k \in Chunks : kpc[k] # "unsent"} /\ Up' = Up
  BY <1>0
<1>7. CASE f
  BY <1>0, <1>5, <1>6, <1>7 DEF Books!vars
<1>8. CASE ~f
  <2>1. disk \cap StillOwed = {}
    BY <1>0, <1>1, InReporter DEF StillOwed
  <2>2. Books!Forget
    BY <1>0, <1>5, <1>6, <1>8, <2>1 DEF Books!Forget
  <2> QED BY <2>2 DEF Books!Next
<1> QED BY <1>7, <1>8

\* After a push that failed the payload is the backlog, cut when it is too long.
LEMMA BufferedBooks ==
    ASSUME TypeOK, Places, Phases, Buffered
    PROVE  [Books!Next]_Books!vars
<1> DEFINE cut == pushData \ Kept(pushData)
<1>0. /\ UNCHANGED <<kpc, buf, carried, settled, record, collected, counted, disk, life>>
      /\ Up /\ life # "down" /\ rpc = "failed" /\ rpc' = "persist"
      /\ pending' = Kept(pushData) /\ pushData' = {}
  BY DEF Buffered, connVars, fileVars, lifeVars, Up
<1>1. pending \subseteq pushData /\ Kept(pushData) \subseteq pushData
  BY <1>0 DEF Phases, Kept
<1>2. \A x \in pushData : InMemory(x)' <=> x \in Kept(pushData)
  BY <1>0 DEF Places, OutOfReport, Owed, InMemory
<1>3. \A x : x \notin pushData => (InMemory(x)' <=> InMemory(x))
  BY <1>0, <1>1 DEF InMemory
<1>4. \A x \in pushData : x \in Memory
  BY MemoryIs DEF InMemory
<1>5. Memory' = Memory \ cut
  BY <1>1, <1>2, <1>3, <1>4, MemoryIs
<1>6. StillOwed = Memory /\ StillOwed' = StillOwed \ cut
  BY <1>0, <1>5 DEF StillOwed
<1>7. UNCHANGED {k \in Chunks : kpc[k] # "unsent"} /\ Up' = Up
  BY <1>0 DEF Up
<1>8. CASE Kept(pushData) = pushData
  BY <1>0, <1>6, <1>7, <1>8 DEF Books!vars
<1>9. CASE Kept(pushData) # pushData
  <2>1. Cardinality({UserOfChunk(k) : k \in Kept(pushData)}) >= maxPendingUsers
    BY <1>9, KeptEnough DEF TypeOK
  <2>2. {UserOfChunk(k) : k \in Kept(pushData)} \subseteq {UserOfChunk(k) : k \in StillOwed \ cut}
    BY <1>1, <1>4, <1>6
  <2>3. Cardinality({UserOfChunk(k) : k \in StillOwed \ cut}) >= maxPendingUsers
    <3>1. Kept(pushData) \in SUBSET Chunks /\ StillOwed \ cut \in SUBSET Chunks
      BY <1>1, <1>6, MemoryTyped DEF TypeOK
    <3> HIDE DEF cut
    <3> QED BY <2>1, <2>2, <3>1, MoreUsers
  <2>4. Books!Trim(cut)
    BY <1>0, <1>6, <1>7, <2>3, SameCardinality DEF Books!Trim
  <2>5. cut \in SUBSET StillOwed
    BY <1>4, <1>6
  <2> QED BY <2>4, <2>5 DEF Books!Next
<1> QED BY <1>8, <1>9

\* The backlog is written to the file: all the file held that is still owed is in it.
LEMMA PersistBooks ==
    ASSUME TypeOK, Places, Phases, Ended, NEW f \in BOOLEAN, Persist(f)
    PROVE  [Books!Next]_Books!vars
<1>0. /\ UNCHANGED <<kpc, counted, pending, pushData>> /\ pushData = {}
      /\ Up /\ Up' /\ life # "down" /\ life' # "down" /\ rpc = "persist" /\ rpc' # "acked"
      /\ disk' = IF f THEN disk ELSE FileOf(pending)
  BY DEF Persist, Phases, Release, connVars, Up
<1>1. \A x : InMemory(x)' <=> InMemory(x)
  BY <1>0 DEF Persist, connVars, InMemory
<1>2. Memory' = Memory
  BY <1>1, MemoryIs
<1>3. StillOwed = Memory /\ StillOwed' = StillOwed
  BY <1>0, <1>2 DEF StillOwed
<1>4. UNCHANGED {k \in Chunks : kpc[k] # "unsent"} /\ Up' = Up
  BY <1>0
<1>5. CASE f \/ ~StateFile
  <2>1. disk' = disk
    BY <1>0, <1>5 DEF FileOf, Ended
  <2> QED BY <1>0, <1>3, <1>4, <2>1 DEF Books!vars
<1>6. CASE ~f /\ StateFile
  <2>1. pending \in SUBSET StillOwed
    BY <1>3, MemoryIs DEF InMemory
  <2>2. disk \cap StillOwed \subseteq pending
    BY <1>0, <1>3, InReporter
  <2>3. Books!Save(pending)
    BY <1>0, <1>3, <1>4, <1>6, <2>2 DEF FileOf, Books!Save
  <2> QED BY <2>1, <2>3 DEF Books!Next
<1> QED BY <1>5, <1>6

LEMMA LifeBooks ==
    ASSUME TypeOK, Phases, Ended, LifeStep
    PROVE  [Books!Next]_Books!vars
<1>1. CASE BeginShutdown
  <2>1. \A x : InMemory(x)' <=> InMemory(x)
    BY <1>1 DEF BeginShutdown, connVars, reportVars, InMemory
  <2>2. Memory' = Memory
    BY <2>1, MemoryIs
  <2>3. Up /\ Up' /\ life # "down" /\ life' # "down" /\ UNCHANGED <<kpc, rpc, pushData, disk, counted>>
    BY <1>1 DEF BeginShutdown, Up, connVars, reportVars, fileVars
  <2> QED BY <2>2, <2>3, Unbooked
<1>2. CASE Crash \/ Exit
  <2>1. Halt /\ Up
    BY <1>2 DEF Crash, Exit, Up
  <2>2. UNCHANGED <<disk, counted>> /\ life' = "down"
    BY <2>1 DEF Halt, fileVars
  <2>3. StillOwed' = disk
    BY <2>2 DEF StillOwed
  <2>4. \A k \in Chunks : kpc'[k] = "unsent" <=> kpc[k] = "unsent"
    BY <2>1 DEF Halt
  <2>5. UNCHANGED {k \in Chunks : kpc[k] # "unsent"}
    BY <2>4
  <2>6. Up' = FALSE
    BY <2>2 DEF Up
  <2>7. Books!Stop
    BY <2>1, <2>2, <2>3, <2>5, <2>6 DEF Books!Stop
  <2> QED BY <2>7 DEF Books!Next
<1>3. CASE Restart
  <2>1. PICK how \in {"read", "unreadable", "damaged"} : LoadPending(how)
    BY <1>3 DEF Restart
  <2>2. /\ UNCHANGED <<kpc, buf, carried, settled, record, collected, pushData, rpc, counted>>
        /\ life = "down" /\ life' = "running" /\ rpc = "idle"
    BY <1>3 DEF Restart, Phases, connVars
  <2>3. \A x : ~InMemory(x)
    BY <2>2, MemoryIs DEF Ended
  <2>4. \A x : InMemory(x)' <=> x \in pending'
    BY <2>2, <2>3 DEF InMemory
  <2>5. Memory' = pending'
    BY <2>4, MemoryIs
  <2>6. StillOwed' = pending'
    BY <2>2, <2>5 DEF StillOwed
  <2>7. /\ pending' \in SUBSET disk
        /\ IF pending' = {}
           THEN disk' \in {disk, {}}
           ELSE disk' = disk /\ pending' = Kept(disk)
    BY <2>1 DEF LoadPending, Kept
  <2>8. Kept(disk) # disk => Cardinality({UserOfChunk(k) : k \in Kept(disk)}) >= maxPendingUsers
    BY KeptEnough DEF TypeOK
  <2>9. Up = FALSE /\ Up' = TRUE /\ UNCHANGED {k \in Chunks : kpc[k] # "unsent"}
    BY <2>2 DEF Up
  <2>10. Books!Start(pending')
    BY <2>2, <2>6, <2>7, <2>8, <2>9, SameCardinality DEF Books!Start
  <2> QED BY <2>7, <2>10 DEF Books!Next
<1> QED BY <1>1, <1>2, <1>3 DEF LifeStep

LEMMA NextBooks ==
    TypeOK /\ Places /\ Phases /\ Traces /\ Ended /\ [Next]_vars => [Books!Next]_Books!vars
<1> SUFFICES ASSUME TypeOK, Places, Phases, Traces, Ended, [Next]_vars
             PROVE  [Books!Next]_Books!vars
  OBVIOUS
<1>1. CASE ReportStep
  BY <1>1, CollectBooks, PushBooks, ClearBooks, BufferedBooks, PersistBooks DEF ReportStep, Settle
<1>2. CASE UNCHANGED vars
  <2>1. \A x : InMemory(x)' <=> InMemory(x)
    BY <1>2 DEF vars, connVars, reportVars, InMemory
  <2>2. Memory' = Memory
    BY <2>1, MemoryIs
  <2>3. Up <=> Up'
    BY <1>2 DEF vars, lifeVars, Up
  <2> QED BY <1>2, <2>2, <2>3, Unbooked DEF vars, connVars, reportVars, fileVars, lifeVars
<1> QED BY <1>1, <1>2, ConnBooks, LifeBooks DEF Next

LEMMA InitBooks == Init => Books!Init
<1> SUFFICES ASSUME Init PROVE Books!Init
  OBVIOUS
<1>1. \A x : ~InMemory(x)
  BY DEF Init, InMemory
<1>2. StillOwed = {}
  BY <1>1, MemoryIs DEF Init, StillOwed
<1>3. {k \in Chunks : kpc[k] # "unsent"} = {}
  BY DEF Init
<1>4. Up = TRUE
  BY DEF Init, Up
<1> QED BY <1>2, <1>3, <1>4 DEF Init, Books!Init

\* The accounting implements the book.  Nothing is owed but what was moved or
\* comes back from the file, and nothing is struck off but by an acknowledged
\* push, by trimming to no fewer than maxPendingUsers users, or with the process.
THEOREM Implementation == Spec => KeepsBooks
<1>1. Spec => []Traces
  BY InitTraces, NextTraces, PlacesHold, PTL DEF Spec
<1>2. Spec => []Ended
  BY InitEnded, NextEnded, TypeCorrect, PTL DEF Spec
<1> QED BY <1>1, <1>2, PlacesHold, InitBooks, NextBooks, PTL DEF Spec, KeepsBooks, Books!Spec
================================================================================
