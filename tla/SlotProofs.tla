------------------------------- MODULE SlotProofs -------------------------------
(***************************************************************************)
(* More theorems about Limiter, for every set of connections, users and    *)
(* addresses and every limit: who is in the indexes and in the alive       *)
(* payload, which bucket a connection draws from, and what passes the rate *)
(* check.                                                                  *)
(***************************************************************************)
EXTENDS LimiterProofs

--------------------------------------------------------------------------------
(* The indexes. *)

\* Until the first reload one counter numbers the connections.
Numbered ==
    generation = 1 =>
        /\ \A c \in Conns : pc[c] # "idle" => meta[c].id <= connSequence[1]
        /\ \A c, d \in Conns : pc[c] # "idle" /\ pc[d] # "idle" /\ meta[c].id = meta[d].id => c = d

SlotInv == TypeOK /\ RefCountExact /\ NoGhostSlot /\ Numbered /\ NoLostSlot

\* The steps that number connections, or leave the numbers alone.
LEMMA NumberEffect ==
    ASSUME TypeOK, [Next]_vars
    PROVE  /\ generation' = 1 => generation = 1
           /\ \/ /\ connSequence' = connSequence
                 /\ \A d \in Conns : meta'[d] = meta[d] /\ (pc'[d] = "idle" <=> pc[d] = "idle")
              \/ \E c \in Conns, g \in 1..generation :
                    /\ connSequence' = [connSequence EXCEPT ![g] = @ + 1]
                    /\ pc[c] = "idle" /\ meta'[c].id = connSequence[g] + 1
                    /\ \A d \in Conns : d # c =>
                           meta'[d] = meta[d] /\ (pc'[d] = "idle" <=> pc[d] = "idle")
<1>1. CASE NodeStep
  BY <1>1 DEF NodeStep, UpdateUsers, UpdateAliveList, BuildAlivePayload, Reload, Tick,
              connVars, genVars, TypeOK
<1>2. CASE UNCHANGED vars
  BY <1>2 DEF vars, connVars, genVars
<1>3. ASSUME NEW c \in Conns, ConnStep(c), ~\E u, i, k : Route(c, u, i, k)
      PROVE  /\ UNCHANGED <<connSequence, generation, meta>>
             /\ \A d \in Conns : pc'[d] = "idle" <=> pc[d] = "idle"
  <2>1. UNCHANGED <<connSequence, generation, meta>>
    BY <1>3 DEF ConnStep, CheckUser, CheckLimits, Register, RegisterConn, ReadBucket,
                CreateBucket, Unregister, UnregisterConn, genVars
  <2>2. pc[c] # "idle" /\ \E label \in PCs \ {"idle"} : pc' = [pc EXCEPT ![c] = label]
    BY <1>3 DEF ConnStep, CheckUser, CheckLimits, Register, RegisterConn, ReadBucket,
                CreateBucket, Unregister, UnregisterConn, Goto, PCs
  <2> QED BY <2>1, <2>2 DEF TypeOK
<1>4. ASSUME NEW c \in Conns, NEW u, NEW i, NEW k, Route(c, u, i, k)
      PROVE  /\ generation' = generation
             /\ \E g \in 1..generation :
                    /\ connSequence' = [connSequence EXCEPT ![g] = @ + 1]
                    /\ pc[c] = "idle" /\ meta'[c].id = connSequence[g] + 1
                    /\ \A d \in Conns : d # c =>
                           meta'[d] = meta[d] /\ (pc'[d] = "idle" <=> pc[d] = "idle")
  <2>1. PICK g \in 1..generation :
            /\ connSequence' = [connSequence EXCEPT ![g] = @ + 1]
            /\ meta' = [meta EXCEPT ![c] = [id |-> connSequence[g] + 1, user |-> u,
                                            ip |-> i, kind |-> k, at |-> now]]
    BY <1>4 DEF Route
  <2>2. /\ pc[c] = "idle" /\ generation' = generation
        /\ meta'[c].id = connSequence[g] + 1
        /\ \A d \in Conns : d # c => meta'[d] = meta[d] /\ pc'[d] = pc[d]
    BY <1>4, <2>1 DEF Route, Goto, TypeOK
  <2> QED BY <2>1, <2>2
<1> QED BY <1>1, <1>2, <1>3, <1>4 DEF Next

LEMMA NextNumbered == TypeOK /\ Numbered /\ [Next]_vars => Numbered'
<1> SUFFICES ASSUME TypeOK, Numbered, [Next]_vars, generation' = 1
             PROVE  /\ \A c \in Conns : pc'[c] # "idle" => meta'[c].id <= connSequence'[1]
                    /\ \A c, d \in Conns :
                           pc'[c] # "idle" /\ pc'[d] # "idle" /\ meta'[c].id = meta'[d].id => c = d
  BY DEF Numbered
<1>1. generation = 1 /\ 1 \in 1..MaxGen /\ connSequence[1] \in Nat
  BY NumberEffect, ClockBounds DEF TypeOK
<1>2. \A c \in Conns : meta[c].id \in Nat
  BY DEF TypeOK, Meta
<1>3. CASE /\ connSequence' = connSequence
           /\ \A d \in Conns : meta'[d] = meta[d] /\ (pc'[d] = "idle" <=> pc[d] = "idle")
  BY <1>1, <1>3 DEF Numbered
<1>4. ASSUME NEW c \in Conns, NEW g \in 1..generation,
             /\ connSequence' = [connSequence EXCEPT ![g] = @ + 1]
             /\ pc[c] = "idle" /\ meta'[c].id = connSequence[g] + 1
             /\ \A d \in Conns : d # c =>
                    meta'[d] = meta[d] /\ (pc'[d] = "idle" <=> pc[d] = "idle")
      PROVE  /\ \A d \in Conns : pc'[d] # "idle" => meta'[d].id <= connSequence'[1]
             /\ \A d, e \in Conns :
                    pc'[d] # "idle" /\ pc'[e] # "idle" /\ meta'[d].id = meta'[e].id => d = e
  <2>1. g = 1
    BY <1>1
  <2>2. connSequence'[1] = connSequence[1] + 1 /\ meta'[c].id = connSequence[1] + 1
    BY <1>1, <1>4, <2>1 DEF TypeOK
  <2>3. \A d \in Conns : d # c /\ pc'[d] # "idle" =>
            meta'[d] = meta[d] /\ pc[d] # "idle" /\ meta[d].id <= connSequence[1]
    BY <1>1, <1>4 DEF Numbered
  <2> QED BY <1>1, <1>2, <2>2, <2>3 DEF Numbered
<1> QED BY <1>3, <1>4, NumberEffect

\* Who counts for the statistics, and what happens to their index.
Tracked(c) == pc[c] \in {"tracked", "wrapping", "open", "closing"}

LEMMA ActiveUsersEffect ==
    ASSUME TypeOK, [Next]_vars
    PROVE  \/ /\ activeUsers' = activeUsers
              /\ \A d \in Conns : Tracked(d) => Tracked(d)' /\ meta'[d] = meta[d]
           \/ \E c \in Conns :
                /\ activeUsers' = [activeUsers EXCEPT ![meta[c].user] = @ \cup {meta[c].id}]
                /\ Tracked(c)' /\ meta' = meta /\ \A d \in Conns : Tracked(d) => Tracked(d)'
           \/ \E c \in Conns :
                /\ activeUsers' = [activeUsers EXCEPT ![meta[c].user] = @ \ {meta[c].id}]
                /\ meta' = meta /\ \A d \in Conns : Tracked(d) /\ d # c => Tracked(d)'
<1>1. CASE NodeStep \/ UNCHANGED vars
  BY <1>1 DEF NodeStep, UpdateUsers, UpdateAliveList, BuildAlivePayload, Reload, Tick,
              vars, connVars, Tracked
<1>2. ASSUME NEW c \in Conns, RegisterConn(c)
      PROVE  /\ activeUsers' = [activeUsers EXCEPT ![meta[c].user] = @ \cup {meta[c].id}]
             /\ Tracked(c)' /\ meta' = meta /\ \A d \in Conns : Tracked(d) => Tracked(d)'
  BY <1>2 DEF RegisterConn, Goto, Tracked, TypeOK
<1>3. ASSUME NEW c \in Conns, UnregisterConn(c)
      PROVE  /\ activeUsers' = [activeUsers EXCEPT ![meta[c].user] = @ \ {meta[c].id}]
             /\ meta' = meta /\ \A d \in Conns : Tracked(d) /\ d # c => Tracked(d)'
  BY <1>3 DEF UnregisterConn, Left, Goto, Tracked, TypeOK
<1>4. ASSUME NEW c \in Conns, ConnStep(c), ~RegisterConn(c), ~UnregisterConn(c)
      PROVE  /\ activeUsers' = activeUsers
             /\ \A d \in Conns : Tracked(d) => Tracked(d)' /\ meta'[d] = meta[d]
  <2>1. activeUsers' = activeUsers
    BY <1>4 DEF ConnStep, Route, CheckUser, CheckLimits, Register, ReadBucket,
                CreateBucket, Unregister
  <2>2. /\ \A d \in Conns : d # c => meta'[d] = meta[d]
        /\ pc[c] # "idle" => meta' = meta
    BY <1>4 DEF ConnStep, Route, CheckUser, CheckLimits, Register, ReadBucket,
                CreateBucket, Unregister, TypeOK
  <2>3. \E label : /\ pc' = [pc EXCEPT ![c] = label]
                   /\ Tracked(c) => label \in {"tracked", "wrapping", "open", "closing"}
    BY <1>4 DEF ConnStep, Route, CheckUser, CheckLimits, Register, ReadBucket,
                CreateBucket, Unregister, Goto, Tracked
  <2> QED BY <2>1, <2>2, <2>3 DEF Tracked, TypeOK
<1> QED BY <1>1, <1>2, <1>3, <1>4 DEF Next

\* A slot is given up with the step that ends its connection.
LEMMA NextNoGhost == TypeOK /\ NoGhostSlot /\ [Next]_vars => NoGhostSlot'
<1> SUFFICES ASSUME TypeOK, NoGhostSlot, [Next]_vars PROVE NoGhostSlot'
  OBVIOUS
<1>1. \A u \in Users : activeUsers'[u] \subseteq
          {meta'[c].id : c \in {d \in Conns : Tracked(d)' /\ meta'[d].user = u}}
  <2> SUFFICES ASSUME NEW u \in Users, NEW id \in activeUsers'[u]
               PROVE  \E c \in Conns : Tracked(c)' /\ meta'[c].user = u /\ meta'[c].id = id
    OBVIOUS
  <2>1. ASSUME id \in activeUsers[u]
        PROVE  \E c \in Conns : Tracked(c) /\ meta[c].user = u /\ meta[c].id = id
    BY <2>1 DEF NoGhostSlot, IdsOf, Tracked
  <2>2. activeUsers \in [Users -> SUBSET Nat]
    BY DEF TypeOK
  <2>3. CASE /\ activeUsers' = activeUsers
             /\ \A d \in Conns : Tracked(d) => Tracked(d)' /\ meta'[d] = meta[d]
    BY <2>1, <2>3
  <2>4. ASSUME NEW c \in Conns,
               /\ activeUsers' = [activeUsers EXCEPT ![meta[c].user] = @ \cup {meta[c].id}]
               /\ Tracked(c)' /\ meta' = meta /\ \A d \in Conns : Tracked(d) => Tracked(d)'
        PROVE  \E d \in Conns : Tracked(d)' /\ meta'[d].user = u /\ meta'[d].id = id
    BY <2>1, <2>2, <2>4
  <2>5. ASSUME NEW c \in Conns,
               /\ activeUsers' = [activeUsers EXCEPT ![meta[c].user] = @ \ {meta[c].id}]
               /\ meta' = meta /\ \A d \in Conns : Tracked(d) /\ d # c => Tracked(d)'
        PROVE  \E d \in Conns : Tracked(d)' /\ meta'[d].user = u /\ meta'[d].id = id
    BY <2>1, <2>2, <2>5
  <2> QED BY <2>3, <2>4, <2>5, ActiveUsersEffect
<1>2. /\ \A u \in Users : \A id \in activeConnByUser'[u] :
            \E c \in Conns : Holds(c)' /\ meta'[c].user = u /\ meta'[c].id = id
      /\ \A i \in IPs : \A id \in activeConnByIP'[i] :
            \E c \in Conns : Holds(c)' /\ meta'[c].ip = i /\ meta'[c].id = id
  <2>1. /\ \A u \in Users : \A id \in activeConnByUser[u] :
              \E c \in Conns : Holds(c) /\ meta[c].user = u /\ meta[c].id = id
        /\ \A i \in IPs : \A id \in activeConnByIP[i] :
              \E c \in Conns : Holds(c) /\ meta[c].ip = i /\ meta[c].id = id
    BY DEF NoGhostSlot, IdsOf, HeldBy
  <2>2. ASSUME NEW c \in Conns, Register(c)
        PROVE  /\ \A u \in Users : \A id \in activeConnByUser'[u] :
                     \E d \in Conns : Holds(d)' /\ meta'[d].user = u /\ meta'[d].id = id
               /\ \A i \in IPs : \A id \in activeConnByIP'[i] :
                     \E d \in Conns : Holds(d)' /\ meta'[d].ip = i /\ meta'[d].id = id
    <3>1. Holds(c)' /\ meta' = meta /\ \A d \in Conns : Holds(d) => Holds(d)'
      BY <2>2, RegisterEffect DEF Holds, TypeOK
    <3>2. \A u \in Users : \A id \in activeConnByUser'[u] :
              id \in activeConnByUser[u] \/ (u = meta[c].user /\ id = meta[c].id)
      <4> TAKE u \in Users
      <4>1. activeConnByUser'[u] = IF u = meta[c].user THEN activeConnByUser[u] \cup {meta[c].id}
                                ELSE activeConnByUser[u]
        BY <2>2, RegisterEffect
      <4> QED BY <4>1
    <3>3. \A i \in IPs : \A id \in activeConnByIP'[i] :
              id \in activeConnByIP[i] \/ (i = meta[c].ip /\ id = meta[c].id)
      <4> TAKE i \in IPs
      <4>1. activeConnByIP'[i] = IF i = meta[c].ip THEN activeConnByIP[i] \cup {meta[c].id}
                                ELSE activeConnByIP[i]
        BY <2>2, RegisterEffect
      <4> QED BY <4>1
    <3> QED BY <2>1, <3>1, <3>2, <3>3
  <2>3. ASSUME NEW c \in Conns, Unregister(c)
        PROVE  /\ \A u \in Users : \A id \in activeConnByUser'[u] :
                     \E d \in Conns : Holds(d)' /\ meta'[d].user = u /\ meta'[d].id = id
               /\ \A i \in IPs : \A id \in activeConnByIP'[i] :
                     \E d \in Conns : Holds(d)' /\ meta'[d].ip = i /\ meta'[d].id = id
    <3>1. meta' = meta /\ \A d \in Conns : Holds(d) /\ d # c => Holds(d)'
      BY <2>3, UnregisterEffect DEF Holds, TypeOK
    <3>2. \A u \in Users : \A id \in activeConnByUser'[u] :
              id \in activeConnByUser[u] /\ (u = meta[c].user => id # meta[c].id)
      <4> TAKE u \in Users
      <4>1. activeConnByUser'[u] = IF u = meta[c].user THEN activeConnByUser[u] \ {meta[c].id}
                                ELSE activeConnByUser[u]
        BY <2>3, UnregisterEffect
      <4> QED BY <4>1
    <3>3. \A i \in IPs : \A id \in activeConnByIP'[i] :
              id \in activeConnByIP[i] /\ (i = meta[c].ip => id # meta[c].id)
      <4> TAKE i \in IPs
      <4>1. activeConnByIP'[i] = IF i = meta[c].ip THEN activeConnByIP[i] \ {meta[c].id}
                                ELSE activeConnByIP[i]
        BY <2>3, UnregisterEffect
      <4> QED BY <4>1
    <3> QED BY <2>1, <3>1, <3>2, <3>3
  <2>4. CASE ~\E c \in Conns : Register(c) \/ Unregister(c)
    <3>1. /\ UNCHANGED <<activeConnByUser, activeConnByIP>>
          /\ \A d \in Conns : Holds(d) => Holds(d)' /\ meta'[d] = meta[d]
      BY <2>4, QuietStep DEF indexVars, Holds
    <3> QED BY <2>1, <3>1
  <2> QED BY <2>2, <2>3, <2>4
<1> QED BY <1>1, <1>2 DEF NoGhostSlot, IdsOf, HeldBy, Tracked

\* What CheckLimits adds to the entries, and who stays in them.
LEMMA EntriesEffect ==
    ASSUME TypeOK, [Next]_vars, ~\E c \in Conns : Unregister(c)
    PROVE  userEntries \subseteq userEntries'
<1>1. CASE NodeStep \/ UNCHANGED vars
  BY <1>1 DEF NodeStep, UpdateUsers, UpdateAliveList, BuildAlivePayload, Reload, Tick,
              vars, entryVars
<1>2. ASSUME NEW c \in Conns, ConnStep(c) PROVE userEntries \subseteq userEntries'
  BY <1>2 DEF ConnStep, Route, CheckUser, CheckLimits, Register, RegisterConn, ReadBucket,
              CreateBucket, UnregisterConn, entryVars
<1> QED BY <1>1, <1>2 DEF Next

\* With numbers that are unique, a close takes away its own slot only.
LEMMA NextNoLost ==
    TypeOK /\ Numbered /\ NoLostSlot /\ [Next]_vars => NoLostSlot'
<1> SUFFICES ASSUME TypeOK, Numbered, NoLostSlot, [Next]_vars, generation' = 1,
                    NEW d \in Conns, Holds(d)'
             PROVE  /\ meta'[d].id \in activeConnByUser'[meta'[d].user]
                    /\ meta'[d].user \in userEntries'
                    /\ meta'[d].ip # NoIP => meta'[d].id \in activeConnByIP'[meta'[d].ip]
  BY DEF NoLostSlot
<1>1. generation = 1
  BY NumberEffect
<1>2. Holds(d) => /\ meta[d].id \in activeConnByUser[meta[d].user]
                  /\ meta[d].user \in userEntries
                  /\ meta[d].ip # NoIP => meta[d].id \in activeConnByIP[meta[d].ip]
  BY <1>1 DEF NoLostSlot
<1>3. meta[d].ip \in IPs \cup {NoIP} /\ (pc[d] \notin {"idle", "built", "denied"} => meta[d].user \in Users)
  BY DEF TypeOK, Meta
<1>4. ASSUME NEW c \in Conns, Register(c)
      PROVE  /\ meta'[d].id \in activeConnByUser'[meta'[d].user]
             /\ meta'[d].user \in userEntries'
             /\ meta'[d].ip # NoIP => meta'[d].id \in activeConnByIP'[meta'[d].ip]
  <2>1. meta' = meta /\ (d = c \/ Holds(d)) /\ meta[d].user \in Users
    BY <1>3, <1>4, RegisterEffect DEF Holds, TypeOK
  <2>2. userEntries' = userEntries \cup {meta[c].user}
    BY <1>4 DEF Register
  <2>3. meta[d].id \in activeConnByUser'[meta[d].user]
    BY <1>2, <1>4, <2>1, RegisterEffect
  <2>4. meta[d].ip # NoIP => meta[d].id \in activeConnByIP'[meta[d].ip]
    BY <1>2, <1>3, <1>4, <2>1, RegisterEffect
  <2> QED BY <1>2, <2>1, <2>2, <2>3, <2>4
<1>5. ASSUME NEW c \in Conns, Unregister(c)
      PROVE  /\ meta'[d].id \in activeConnByUser'[meta'[d].user]
             /\ meta'[d].user \in userEntries'
             /\ meta'[d].ip # NoIP => meta'[d].id \in activeConnByIP'[meta'[d].ip]
  <2>1. meta' = meta /\ d # c /\ Holds(d) /\ meta[d].user \in Users
    BY <1>3, <1>5, UnregisterEffect DEF Holds, TypeOK
  <2>2. meta[d].id # meta[c].id
    BY <1>1, <1>5, <2>1, UnregisterEffect DEF Numbered, Holds
  <2>0. /\ \A u \in Users : activeConnByUser[u] \ {meta[c].id} \subseteq activeConnByUser'[u]
        /\ \A i \in IPs : activeConnByIP[i] \ {meta[c].id} \subseteq activeConnByIP'[i]
    <3>1. \A u \in Users : activeConnByUser'[u] =
              IF u = meta[c].user THEN activeConnByUser[u] \ {meta[c].id} ELSE activeConnByUser[u]
      BY <1>5, UnregisterEffect
    <3>2. \A i \in IPs : activeConnByIP'[i] =
              IF i = meta[c].ip THEN activeConnByIP[i] \ {meta[c].id} ELSE activeConnByIP[i]
      BY <1>5, UnregisterEffect
    <3> QED BY <3>1, <3>2
  <2>3. meta[d].id \in activeConnByUser'[meta[d].user]
    BY <1>2, <2>0, <2>1, <2>2
  <2>4. meta[d].ip # NoIP => meta[d].id \in activeConnByIP'[meta[d].ip]
    BY <1>2, <1>3, <2>0, <2>1, <2>2
  <2>5. meta[d].user \in userEntries'
    <3>1. userEntries' = IF activeConnByUser'[meta[c].user] = {} THEN userEntries \ {meta[c].user}
                         ELSE userEntries
      <4>1. userEntries' = LET left == activeConnByUser[meta[c].user] \ {meta[c].id} IN
                           IF left = {} THEN userEntries \ {meta[c].user} ELSE userEntries
        BY <1>5 DEF Unregister, Left
      <4>2. activeConnByUser'[meta[c].user] = activeConnByUser[meta[c].user] \ {meta[c].id}
        BY <1>5, UnregisterEffect
      <4> QED BY <4>1, <4>2
    <3> QED BY <1>2, <2>1, <2>3, <3>1
  <2> QED BY <2>1, <2>3, <2>4, <2>5
<1>6. CASE ~\E c \in Conns : Register(c) \/ Unregister(c)
  <2>1. /\ UNCHANGED <<activeConnByUser, activeConnByIP>>
        /\ Holds(d) /\ meta'[d] = meta[d]
    BY <1>6, QuietStep DEF indexVars, Holds
  <2>2. userEntries \subseteq userEntries'
    BY <1>6, EntriesEffect
  <2> QED BY <1>2, <2>1, <2>2
<1> QED BY <1>4, <1>5, <1>6

LEMMA InitSlots == Init => SlotInv
<1> SUFFICES ASSUME Init PROVE SlotInv
  OBVIOUS
<1>1. NoGhostSlot /\ Numbered /\ NoLostSlot
  BY DEF Init, NoGhostSlot, Numbered, NoLostSlot, Holds
<1> QED BY <1>1, InitTyped, InitCounted DEF SlotInv

\* The inductive invariant of the indexes: ConnIDs are unique until the first
\* reload.
THEOREM SlotInvariance == Spec => []SlotInv
<1>1. SlotInv /\ [Next]_vars => SlotInv'
  BY NextTyped, NextCounted, NextNoGhost, NextNumbered, NextNoLost DEF SlotInv
<1> QED BY <1>1, InitSlots, PTL DEF Spec

\* No connection that is gone keeps a slot of its user or address, or counts in
\* the statistics (Unregister, UnregisterConn), before and after any reload.
THEOREM NoSlotOutlives == Spec => []NoGhostSlot
BY SlotInvariance, PTL DEF SlotInv

\* Until the engine is first reloaded every registered connection is in the
\* indexes the limits are read from (connSequence, Register).
THEOREM NoSlotMissing == Spec => []NoLostSlot
BY SlotInvariance, PTL DEF SlotInv

\* BuildAlivePayload names no address of a user that has no connection of that
\* user, and until the first reload every one that has.
THEOREM PayloadAsHeld == Spec => []PayloadExact
<1>1. SlotInv => PayloadExact
  <2> SUFFICES ASSUME SlotInv, NEW u \in Users
               PROVE  LET held == {i \in IPs : HeldFrom(u, i) # {}} IN
                      /\ OnlineDevices(u) \subseteq held
                      /\ generation = 1 /\ u \in DOMAIN userByName => held \subseteq OnlineDevices(u)
    BY DEF PayloadExact
  <2>1. \A i \in IPs : activeIPsCount[u][i] > 0 <=> HeldFrom(u, i) # {}
    <3> TAKE i \in IPs
    <3>1. activeIPsCount[u][i] = Cardinality(HeldFrom(u, i)) /\ IsFiniteSet(HeldFrom(u, i))
      BY HeldFinite DEF SlotInv, RefCountExact
    <3>2. Cardinality(HeldFrom(u, i)) \in Nat /\ (Cardinality(HeldFrom(u, i)) = 0 <=> HeldFrom(u, i) = {})
      BY <3>1, FS_EmptySet, HeldFinite
    <3> QED BY <3>1, <3>2
  <2>2. generation = 1 => \A i \in IPs : HeldFrom(u, i) # {} => u \in userEntries
    BY DEF SlotInv, NoLostSlot, HeldFrom, HeldBy
  <2> QED BY <2>1, <2>2 DEF OnlineDevices, currentUserIPs
<1> QED BY <1>1, SlotInvariance, PTL

--------------------------------------------------------------------------------
(* Speed buckets. *)

\* Who may change a bucket: its own goroutine, and UpdateUsers.
LEMMA BucketEffect ==
    ASSUME TypeOK, [Next]_vars,
           ~\E c \in Conns : ReadBucket(c) \/ CreateBucket(c),
           ~\E l \in UserLists : UpdateUsers(l)
    PROVE  UNCHANGED <<bucket, speedBucketByName>>
<1>1. CASE NodeStep \/ UNCHANGED vars
  BY <1>1 DEF NodeStep, UpdateAliveList, BuildAlivePayload, Reload, Tick, vars, connVars, userVars
<1>2. ASSUME NEW c \in Conns, ConnStep(c) PROVE UNCHANGED <<bucket, speedBucketByName>>
  BY <1>2 DEF ConnStep, Route, CheckUser, CheckLimits, Register, RegisterConn, Unregister,
              UnregisterConn, userVars
<1> QED BY <1>1, <1>2 DEF Next

\* The connections that are wrapped while the limit of their user stays the
\* same share one bucket, though UserSpeedBucket looks under RLock, lets go,
\* and creates under Lock.
THEOREM OneBucket == Spec => SharedBucket
<1> DEFINE Taken == \A c \in Conns : bucket'[c] # bucket[c] =>
                        bucket'[c] = speedBucketByName'[meta[c].user]
           Stays == \A u \in Users : speedBucketByName[u] \notin {NoBucket, speedBucketByName'[u]} =>
                        SpeedLimitOf(u)' # SpeedLimitOf(u) \/ u \notin DOMAIN userByName'
<1>1. TypeOK /\ [Next]_vars => Taken /\ Stays
  <2> SUFFICES ASSUME TypeOK, [Next]_vars PROVE Taken /\ Stays
    OBVIOUS
  <2>1. bucket \in [Conns -> Entry] /\ speedBucketByName \in [Users -> Entry]
    BY DEF TypeOK
  <2>2. ASSUME NEW c \in Conns, ReadBucket(c) PROVE Taken /\ Stays
    <3>1. /\ speedBucketByName' = speedBucketByName
          /\ bucket' \in {bucket, [bucket EXCEPT ![c] = speedBucketByName[meta[c].user]]}
      BY <2>2 DEF ReadBucket, userVars
    <3> QED BY <2>1, <3>1
  <2>3. ASSUME NEW c \in Conns, CreateBucket(c) PROVE Taken /\ Stays
    <3>1. meta[c].user \in Users
      BY <2>3 DEF CreateBucket, TypeOK
    <3>2. /\ speedBucketByName' = [speedBucketByName EXCEPT ![meta[c].user] = BucketFor(c)]
          /\ bucket' = [bucket EXCEPT ![c] = BucketFor(c)]
      BY <2>3 DEF CreateBucket
    <3>3. Taken
      BY <2>1, <3>1, <3>2
    <3>4. Stays
      BY <2>1, <3>1, <3>2 DEF BucketFor
    <3> QED BY <3>3, <3>4
  <2>4. ASSUME NEW l \in UserLists, UpdateUsers(l) PROVE Taken /\ Stays
    <3>1. /\ bucket' = bucket /\ userByName' = l
          /\ speedBucketByName' = [u \in Users |-> KeptBucket(u, l)]
      BY <2>4 DEF UpdateUsers, connVars
    <3>2. Stays
      BY <3>1 DEF KeptBucket, SpeedLimitOf
    <3> QED BY <3>1, <3>2
  <2> QED BY <2>2, <2>3, <2>4, BucketEffect
<1>2. TypeOK /\ [Next]_vars => [Taken /\ Stays]_vars
  BY <1>1
<1> QED BY <1>2, TypeCorrect, PTL DEF Spec, SharedBucket

--------------------------------------------------------------------------------
(* Pruning. *)

\* A record that has to go is one that every stamp to come would open anew.
LEMMA PruneSame ==
    ASSUME NEW r \in Rate, NEW n \in Nat, NEW t \in Int, now \in Nat,
           MaxLag <= Window, t >= now - MaxLag
    PROVE  /\ CpsPasses(Prune(r), n, t) = CpsPasses(r, n, t)
           /\ CpsNext(Prune(r), n, t) = CpsNext(r, n, t)
<1>1. CASE ~Stale(r)
  BY <1>1 DEF Prune
<1>2. CASE Stale(r)
  <2>1. Prune(r) = NoRate
    BY <1>2 DEF Prune
  <2>2. Expired(r, t) <=> TRUE
    BY <1>2, ClockBounds DEF Expired, Stale, Rate
  <2>3. Expired(NoRate, t) <=> TRUE
    BY DEF Expired, NoRate
  <2>4. (CpsPasses(NoRate, n, t) <=> TRUE) /\ (CpsPasses(r, n, t) <=> TRUE)
    BY <2>2, <2>3, Zenon DEF CpsPasses
  <2>5. CpsPasses(NoRate, n, t) = CpsPasses(r, n, t)
    BY <2>4, Zenon DEF CpsPasses
  <2>6. CpsNext(NoRate, n, t) = CpsNext(r, n, t)
    BY <2>2, <2>3, Zenon DEF CpsNext
  <2> QED BY <2>1, <2>5, <2>6
<1> QED BY <1>1, <1>2

\* Only Check and UpdateUsers change a rate record, and Check changes a place.
LEMMA RateEffect ==
    ASSUME TypeOK, [Next]_vars, ~\E c \in Conns : CheckLimits(c),
           ~\E l \in UserLists : UpdateUsers(l)
    PROVE  UNCHANGED <<recentConnByUser, recentConnByIP, passed>>
<1>1. CASE NodeStep \/ UNCHANGED vars
  BY <1>1 DEF NodeStep, UpdateAliveList, BuildAlivePayload, Reload, Tick, vars, rateVars
<1>2. ASSUME NEW c \in Conns, ConnStep(c)
      PROVE  UNCHANGED <<recentConnByUser, recentConnByIP, passed>>
  BY <1>2 DEF ConnStep, Route, CheckUser, Register, RegisterConn, ReadBucket, CreateBucket,
              Unregister, UnregisterConn, rateVars
<1> QED BY <1>1, <1>2 DEF Next

\* UpdateUsers drops no rate record that a later Check could have told from
\* none, provided a stamp is checked within a window of being taken.
THEOREM PruningUnseen == Spec => PruneInvisible
<1> DEFINE Unseen ==
      MaxLag <= Window => \A t \in (now - MaxLag)..(now + Window) :
        /\ \A u \in Users : pc' = pc =>
              /\ CpsPasses(recentConnByUser'[u], MaxNewConnPerUser, t)
                     = CpsPasses(recentConnByUser[u], MaxNewConnPerUser, t)
              /\ CpsNext(recentConnByUser'[u], MaxNewConnPerUser, t)
                     = CpsNext(recentConnByUser[u], MaxNewConnPerUser, t)
        /\ \A i \in IPs : pc' = pc =>
              CpsNext(recentConnByIP'[i], MaxNewConnPerIP, t)
                  = CpsNext(recentConnByIP[i], MaxNewConnPerIP, t)
<1>1. TypeOK /\ [Next]_vars => Unseen
  <2> SUFFICES ASSUME TypeOK, [Next]_vars, MaxLag <= Window, pc' = pc,
                      NEW t \in (now - MaxLag)..(now + Window)
               PROVE  /\ \A u \in Users :
                            /\ CpsPasses(recentConnByUser'[u], MaxNewConnPerUser, t)
                                   = CpsPasses(recentConnByUser[u], MaxNewConnPerUser, t)
                            /\ CpsNext(recentConnByUser'[u], MaxNewConnPerUser, t)
                                   = CpsNext(recentConnByUser[u], MaxNewConnPerUser, t)
                      /\ \A i \in IPs :
                            CpsNext(recentConnByIP'[i], MaxNewConnPerIP, t)
                                = CpsNext(recentConnByIP[i], MaxNewConnPerIP, t)
    OBVIOUS
  <2>1. t \in Int /\ now \in Nat /\ t >= now - MaxLag
    BY ClockBounds DEF TypeOK
  <2>2. ASSUME NEW c \in Conns, CheckLimits(c) PROVE FALSE
    <3>1. pc[c] = "looked" /\ pc'[c] \in {"admitted", "denied"}
      BY <2>2 DEF CheckLimits, Goto, TypeOK
    <3> QED BY <3>1
  <2>3. ASSUME NEW l \in UserLists, UpdateUsers(l)
        PROVE  /\ \A u \in Users :
                     /\ CpsPasses(recentConnByUser'[u], MaxNewConnPerUser, t)
                            = CpsPasses(recentConnByUser[u], MaxNewConnPerUser, t)
                     /\ CpsNext(recentConnByUser'[u], MaxNewConnPerUser, t)
                            = CpsNext(recentConnByUser[u], MaxNewConnPerUser, t)
               /\ \A i \in IPs :
                     CpsNext(recentConnByIP'[i], MaxNewConnPerIP, t)
                         = CpsNext(recentConnByIP[i], MaxNewConnPerIP, t)
    <3>1. /\ \A u \in Users : recentConnByUser'[u] = Prune(recentConnByUser[u])
          /\ \A i \in IPs : recentConnByIP'[i] = Prune(recentConnByIP[i])
      BY <2>3 DEF UpdateUsers
    <3>2. /\ \A u \in Users : recentConnByUser[u] \in Rate
          /\ \A i \in IPs : recentConnByIP[i] \in Rate
      BY DEF TypeOK
    <3> QED BY <2>1, <3>1, <3>2, LimitsAreNat, PruneSame
  <2> QED BY <2>2, <2>3, RateEffect
<1>2. TypeOK /\ [Next]_vars => [Unseen]_vars
  BY <1>1
<1> QED BY <1>2, TypeCorrect, PTL DEF Spec, PruneInvisible

--------------------------------------------------------------------------------
(* The rate windows. *)

\* Cur passed in the window that was opened at a, one of them opening it; Prev
\* in the window before; the others of P are older than both.
Windows(P, at, a, Cur, Prev) ==
    /\ Cur \subseteq P /\ Prev \subseteq P
    /\ Cardinality(Cur) <= MaxNewConnPerUser /\ Cardinality(Prev) <= MaxNewConnPerUser
    /\ \E c \in Cur : at[c] = a
    /\ \A c \in Cur : a - 1 <= at[c] /\ at[c] < a + Window
    /\ Prev # {} => \E c \in Prev : at[c] <= a - Window
    /\ \A c \in Prev : at[c] < a
    /\ \A c \in P \ (Cur \cup Prev) : at[c] < a - Window

At == [c \in Conns |-> meta[c].at]
PassedOf(u) == {c \in passed : meta[c].user = u}

Windowed ==
    \A u \in Users :
        LET r == recentConnByUser[u] IN
        /\ r.count = 0 => \A c \in PassedOf(u) : At[c] < now - Window - 1
        /\ r.count > 0 =>
               /\ r.lastReset <= now
               /\ \E Cur, Prev : Cardinality(Cur) = r.count
                                 /\ Windows(PassedOf(u), At, r.lastReset, Cur, Prev)

\* A stamp is at most a tick old when it is checked, and only a connection that
\* was checked has passed.
Stamped ==
    /\ \A c \in Conns : pc[c] \in {"built", "looked"} => now - MaxLag <= meta[c].at /\ meta[c].at <= now
    /\ \A c \in passed : pc[c] \notin {"idle", "built", "looked"}

RateInv ==
    TypeOK /\ Stamped /\ TwoWindowsAtMost /\ (MaxNewConnPerUser > 0 /\ MaxLag <= 1 => Windowed)

\* The opener of the window before and that of the current one are a window
\* apart: a span of one window misses one of them.
LEMMA SpanBound ==
    ASSUME NEW P \in SUBSET Conns, NEW at \in [Conns -> Int], NEW a \in Int, NEW Cur, NEW Prev,
           MaxNewConnPerUser > 0, Windows(P, at, a, Cur, Prev),
           NEW t \in Int, a <= t + Window
    PROVE  Cardinality({c \in P : t <= at[c] /\ at[c] < t + Window}) < 2 * MaxNewConnPerUser
<1> DEFINE S == {c \in P : t <= at[c] /\ at[c] < t + Window}
<1> USE LimitsAreNat, ClockBounds
<1>1. /\ IsFiniteSet(Cur) /\ IsFiniteSet(Prev) /\ IsFiniteSet(S)
      /\ Cardinality(Cur) \in Nat /\ Cardinality(Prev) \in Nat
      /\ Cardinality(Cur) <= MaxNewConnPerUser /\ Cardinality(Prev) <= MaxNewConnPerUser
  <2>1. Cur \subseteq Conns /\ Prev \subseteq Conns /\ S \subseteq Conns
    BY DEF Windows
  <2> QED BY <2>1, ConnsFinite, FS_Subset, FS_CardinalityType DEF Windows
<1>2. S \subseteq Cur \cup Prev
  <2> SUFFICES ASSUME NEW c \in S, c \notin Cur \cup Prev PROVE FALSE
    OBVIOUS
  <2>1. at[c] < a - Window /\ t <= at[c] /\ at[c] \in Int
    BY DEF Windows
  <2> QED BY <2>1
<1>3. ASSUME NEW A, NEW B, IsFiniteSet(A), IsFiniteSet(B), S \subseteq A \cup B
      PROVE  Cardinality(S) <= Cardinality(A) + Cardinality(B)
  <2>1. IsFiniteSet(A \cup B) /\ Cardinality(A \cup B) <= Cardinality(A) + Cardinality(B)
    <3>1. /\ IsFiniteSet(A \cup B) /\ IsFiniteSet(A \cap B)
          /\ Cardinality(A \cup B) = Cardinality(A) + Cardinality(B) - Cardinality(A \cap B)
      BY <1>3, FS_Union, FS_Intersection
    <3> QED BY <1>3, <3>1, FS_CardinalityType
  <2>2. Cardinality(S) <= Cardinality(A \cup B)
    BY <1>3, <2>1, FS_Subset
  <2> QED BY <1>1, <1>3, <2>1, <2>2, FS_CardinalityType
<1>4. PICK o \in Cur : at[o] = a
  BY DEF Windows
<1>5. CASE Prev = {}
  <2>1. Cardinality(S) <= Cardinality(Cur)
    BY <1>1, <1>2, <1>5, FS_Subset
  <2> QED BY <1>1, <2>1, FS_CardinalityType
<1>6. CASE Prev # {}
  <2>1. PICK p \in Prev : at[p] <= a - Window
    BY <1>6 DEF Windows
  <2>2. o \notin S \/ p \notin S
    BY <1>4, <2>1 DEF Windows
  <2>3. CASE o \notin S
    <3>1. IsFiniteSet(Cur \ {o}) /\ Cardinality(Cur \ {o}) = Cardinality(Cur) - 1
      BY <1>1, <1>4, FS_RemoveElement
    <3>2. Cardinality(S) <= Cardinality(Cur \ {o}) + Cardinality(Prev)
      BY <1>1, <1>2, <1>3, <2>3, <3>1
    <3> QED BY <1>1, <3>1, <3>2, FS_CardinalityType
  <2>4. CASE p \notin S
    <3>1. IsFiniteSet(Prev \ {p}) /\ Cardinality(Prev \ {p}) = Cardinality(Prev) - 1
      BY <1>1, <2>1, FS_RemoveElement
    <3>2. Cardinality(S) <= Cardinality(Cur) + Cardinality(Prev \ {p})
      BY <1>1, <1>2, <1>3, <2>4, <3>1
    <3> QED BY <1>1, <3>1, <3>2, FS_CardinalityType
  <2> QED BY <2>2, <2>3, <2>4
<1> QED BY <1>5, <1>6

\* A connection that passes opens a window of its own, or joins the current one.
LEMMA WindowOpens ==
    ASSUME NEW P \in SUBSET Conns, NEW at \in [Conns -> Int], NEW a \in Int, NEW Cur, NEW Prev,
           MaxNewConnPerUser > 0, Windows(P, at, a, Cur, Prev),
           NEW c \in Conns \ P, at[c] >= a + Window
    PROVE  Cardinality({c}) = 1 /\ Windows(P \cup {c}, at, at[c], {c}, Cur)
<1> USE LimitsAreNat, ClockBounds
<1>1. Cardinality({c}) = 1
  BY FS_Singleton
<1>2. Cur \subseteq P /\ Prev \subseteq P /\ \A x \in P : at[x] \in Int
  BY DEF Windows
<1>3. \A x \in Cur : at[x] < at[c]
  BY <1>2 DEF Windows
<1>4. \A x \in (P \cup {c}) \ ({c} \cup Cur) : at[x] < at[c] - Window
  BY <1>2 DEF Windows
<1>5. \E x \in Cur : at[x] <= at[c] - Window
  BY <1>2 DEF Windows
<1> QED BY <1>1, <1>2, <1>3, <1>4, <1>5 DEF Windows

LEMMA WindowFirst ==
    ASSUME NEW P \in SUBSET Conns, NEW at \in [Conns -> Int], MaxNewConnPerUser > 0,
           NEW c \in Conns \ P, \A x \in P : at[x] < at[c] - Window
    PROVE  Cardinality({c}) = 1 /\ Windows(P \cup {c}, at, at[c], {c}, {})
<1> USE LimitsAreNat, ClockBounds
<1>1. Cardinality({c}) = 1 /\ Cardinality({}) = 0
  BY FS_Singleton, FS_EmptySet
<1> QED BY <1>1 DEF Windows

LEMMA WindowGrows ==
    ASSUME NEW P \in SUBSET Conns, NEW at \in [Conns -> Int], NEW a \in Int, NEW Cur, NEW Prev,
           Windows(P, at, a, Cur, Prev), Cardinality(Cur) < MaxNewConnPerUser,
           NEW c \in Conns \ P, a - 1 <= at[c], at[c] < a + Window
    PROVE  /\ Cardinality(Cur \cup {c}) = Cardinality(Cur) + 1
           /\ Windows(P \cup {c}, at, a, Cur \cup {c}, Prev)
<1> USE LimitsAreNat, ClockBounds
<1>1. Cur \subseteq Conns /\ c \notin Cur
  BY DEF Windows
<1>2. Cardinality(Cur \cup {c}) = Cardinality(Cur) + 1 /\ Cardinality(Cur) \in Nat
  BY <1>1, ConnsFinite, FS_Subset, FS_AddElement, FS_CardinalityType
<1> QED BY <1>1, <1>2 DEF Windows

\* What a step does to the stamps, their order, and the clock.
LEMMA StampEffect ==
    ASSUME TypeOK, Stamped, [Next]_vars
    PROVE  /\ now' >= now
           /\ \A d \in passed : meta'[d] = meta[d] /\ pc'[d] \notin {"idle", "built", "looked"}
           /\ \A d \in Conns : pc'[d] \in {"built", "looked"} =>
                  now' - MaxLag <= meta'[d].at /\ meta'[d].at <= now'
<1> USE ClockBounds
<1>1. /\ now \in Nat /\ \A d \in Conns : meta[d].at \in Nat
      /\ meta \in [Conns -> Meta] /\ pc \in [Conns -> PCs] /\ passed \subseteq Conns
  BY DEF TypeOK, Meta
<1>2. CASE Tick
  <2>1. /\ now' = now + 1 /\ UNCHANGED <<meta, pc>>
        /\ \A c \in Conns : pc[c] \in {"built", "looked"} => now - meta[c].at < MaxLag
    BY <1>2 DEF Tick, connVars
  <2> QED BY <1>1, <2>1 DEF Stamped
<1>3. CASE (NodeStep /\ ~Tick) \/ UNCHANGED vars
  <2>1. UNCHANGED <<now, meta, pc>>
    BY <1>3 DEF NodeStep, UpdateUsers, UpdateAliveList, BuildAlivePayload, Reload, vars, connVars
  <2> QED BY <1>1, <2>1 DEF Stamped
<1>4. ASSUME NEW c \in Conns, NEW u, NEW i, NEW k, Route(c, u, i, k)
      PROVE  /\ now' = now
             /\ \A d \in passed : meta'[d] = meta[d] /\ pc'[d] \notin {"idle", "built", "looked"}
             /\ \A d \in Conns : pc'[d] \in {"built", "looked"} =>
                    now' - MaxLag <= meta'[d].at /\ meta'[d].at <= now'
  <2>1. PICK g \in 1..generation :
            meta' = [meta EXCEPT ![c] = [id |-> connSequence[g] + 1, user |-> u,
                                         ip |-> i, kind |-> k, at |-> now]]
    BY <1>4 DEF Route
  <2>2. /\ now' = now /\ pc[c] = "idle" /\ pc' = [pc EXCEPT ![c] = "built"]
    BY <1>4 DEF Route, Goto
  <2>3. /\ meta'[c].at = now
        /\ \A d \in Conns : d # c => meta'[d] = meta[d] /\ pc'[d] = pc[d]
    BY <1>1, <2>1, <2>2
  <2>4. c \notin passed
    BY <2>2 DEF Stamped
  <2> QED BY <1>1, <2>2, <2>3, <2>4 DEF Stamped
<1>5. ASSUME NEW c \in Conns, ConnStep(c), ~\E u, i, k : Route(c, u, i, k)
      PROVE  /\ now' = now
             /\ \A d \in passed : meta'[d] = meta[d] /\ pc'[d] \notin {"idle", "built", "looked"}
             /\ \A d \in Conns : pc'[d] \in {"built", "looked"} =>
                    now' - MaxLag <= meta'[d].at /\ meta'[d].at <= now'
  <2>1. UNCHANGED <<now, meta>>
    BY <1>5 DEF ConnStep, CheckUser, CheckLimits, Register, RegisterConn, ReadBucket,
                CreateBucket, Unregister, UnregisterConn
  <2>2. /\ pc'[c] \notin {"idle", "built"} /\ (pc'[c] = "looked" => pc[c] = "built")
        /\ \A d \in Conns : d # c => pc'[d] = pc[d]
    <3>0. pc \in [Conns -> PCs]
      BY <1>1
    <3>1. CASE CheckUser(c)
      BY <3>0, <3>1 DEF CheckUser, Goto
    <3>2. CASE CheckLimits(c)
      BY <3>0, <3>2 DEF CheckLimits, Goto
    <3>3. CASE Register(c)
      BY <3>0, <3>3 DEF Register, Goto
    <3>4. CASE RegisterConn(c)
      BY <3>0, <3>4 DEF RegisterConn, Goto
    <3>5. CASE ReadBucket(c)
      BY <3>0, <3>5 DEF ReadBucket, Goto
    <3>6. CASE CreateBucket(c)
      BY <3>0, <3>6 DEF CreateBucket, Goto
    <3>7. CASE Unregister(c)
      BY <3>0, <3>7 DEF Unregister, Goto
    <3>8. CASE UnregisterConn(c)
      BY <3>0, <3>8 DEF UnregisterConn, Goto
    <3> QED BY <1>5, <3>1, <3>2, <3>3, <3>4, <3>5, <3>6, <3>7, <3>8 DEF ConnStep
  <2>3. \A d \in Conns : pc'[d] \in {"built", "looked"} => pc[d] \in {"built", "looked"}
    BY <1>1, <2>2
  <2>4. \A d \in passed : pc'[d] \notin {"idle", "built", "looked"}
    BY <1>1, <2>2 DEF Stamped
  <2> QED BY <1>1, <2>1, <2>3, <2>4 DEF Stamped
<1> QED BY <1>1, <1>2, <1>3, <1>4, <1>5 DEF Next, NodeStep, ConnStep

LEMMA NextStamped == TypeOK /\ Stamped /\ [Next]_vars => Stamped'
<1> SUFFICES ASSUME TypeOK, Stamped, [Next]_vars PROVE Stamped'
  OBVIOUS
<1>1. \A c \in passed' : pc'[c] \notin {"idle", "built", "looked"}
  <2>1. ASSUME NEW c \in Conns, CheckLimits(c)
        PROVE  \A d \in passed' : pc'[d] \notin {"idle", "built", "looked"}
    <3>1. passed' \subseteq passed \cup {c}
      BY <2>1, Zenon DEF CheckLimits
    <3>2. pc'[c] \in {"admitted", "denied"}
      BY <2>1 DEF CheckLimits, Goto, TypeOK
    <3> QED BY <3>1, <3>2, StampEffect
  <2>2. ASSUME NEW l \in UserLists, UpdateUsers(l) PROVE passed' = passed
    BY <2>2 DEF UpdateUsers
  <2> QED BY <2>1, <2>2, RateEffect, StampEffect
<1> QED BY <1>1, StampEffect DEF Stamped

\* The windows of a user whom no passing and no pruning concerns stay.
LEMMA SameWindows ==
    ASSUME TypeOK, Stamped, Windowed, [Next]_vars, NEW u \in Users,
           recentConnByUser'[u] = recentConnByUser[u], PassedOf(u)' = PassedOf(u)
    PROVE  LET r == recentConnByUser'[u] IN
           /\ r.count = 0 => \A c \in PassedOf(u)' : At'[c] < now' - Window - 1
           /\ r.count > 0 =>
                  /\ r.lastReset <= now'
                  /\ \E Cur, Prev : Cardinality(Cur) = r.count
                                    /\ Windows(PassedOf(u)', At', r.lastReset, Cur, Prev)
<1> DEFINE r == recentConnByUser[u]
<1>1. /\ now \in Int /\ now' \in Int /\ now <= now' /\ r \in Rate /\ Window \in Nat
      /\ \A c \in PassedOf(u) : At'[c] = At[c] /\ At[c] \in Int
  <2>1. TypeOK'
    BY NextTyped
  <2>2. \A c \in PassedOf(u) : meta'[c] = meta[c] /\ c \in Conns /\ meta[c].at \in Nat
    BY StampEffect DEF TypeOK, PassedOf, Meta
  <2>3. now \in Int /\ now' \in Int
    BY <2>1, ClockBounds DEF TypeOK
  <2> QED BY <2>2, <2>3, StampEffect, ClockBounds DEF TypeOK, At
<1>2. CASE r.count = 0
  <2>1. \A c \in PassedOf(u) : At[c] < now - Window - 1
    BY <1>2 DEF Windowed
  <2> QED BY <1>1, <1>2, <2>1
<1>3. CASE r.count > 0
  <2>1. PICK Cur, Prev : Cardinality(Cur) = r.count /\ Windows(PassedOf(u), At, r.lastReset, Cur, Prev)
    BY <1>3 DEF Windowed
  <2>2. Windows(PassedOf(u), At', r.lastReset, Cur, Prev)
    BY <1>1, <2>1 DEF Windows
  <2>3. r.lastReset <= now'
    BY <1>1, <1>3 DEF Windowed, Rate
  <2> QED BY <1>3, <2>1, <2>2, <2>3
<1> QED BY <1>1, <1>2, <1>3 DEF Rate

\* UpdateUsers: a record is dropped when its windows are long past.
LEMMA PruneWindows ==
    ASSUME TypeOK, Stamped, Windowed, [Next]_vars, NEW l \in UserLists, UpdateUsers(l)
    PROVE  Windowed'
<1> SUFFICES ASSUME NEW u \in Users
             PROVE  LET r == recentConnByUser'[u] IN
                    /\ r.count = 0 => \A c \in PassedOf(u)' : At'[c] < now' - Window - 1
                    /\ r.count > 0 =>
                           /\ r.lastReset <= now'
                           /\ \E Cur, Prev : Cardinality(Cur) = r.count
                                             /\ Windows(PassedOf(u)', At', r.lastReset, Cur, Prev)
  BY DEF Windowed
<1> DEFINE r == recentConnByUser[u]
<1>1. /\ recentConnByUser'[u] = Prune(r) /\ PassedOf(u)' = PassedOf(u) /\ At' = At /\ now' = now
  BY DEF UpdateUsers, PassedOf, At, connVars
<1>2. CASE ~Stale(r)
  BY <1>1, <1>2, SameWindows DEF Prune
<1>3. CASE Stale(r)
  <2>1. /\ r \in Rate /\ now \in Int /\ Window \in Nat \ {0}
        /\ \A c \in PassedOf(u) : At[c] \in Int
    BY ClockBounds DEF TypeOK, PassedOf, At, Meta
  <2>2. now - r.lastReset > 2 * Window
    BY <1>3 DEF Stale
  <2>3. CASE r.count = 0
    BY <1>1, <1>3, <2>3 DEF Prune, NoRate, Windowed
  <2>4. CASE r.count > 0
    <3>1. PICK Cur, Prev : Windows(PassedOf(u), At, r.lastReset, Cur, Prev)
      BY <2>4 DEF Windowed
    <3>2. \A c \in PassedOf(u) : At[c] < r.lastReset + Window
      <4>1. \A c \in PassedOf(u) :
              \/ At[c] < r.lastReset + Window
              \/ At[c] < r.lastReset
              \/ At[c] < r.lastReset - Window
        BY <3>1 DEF Windows
      <4> QED BY <2>1, <4>1 DEF Rate
    <3>3. \A c \in PassedOf(u) : At[c] < now - Window - 1
      BY <2>1, <2>2, <3>2 DEF Rate
    <3> QED BY <1>1, <1>3, <3>3 DEF Prune, NoRate
  <2> QED BY <2>1, <2>3, <2>4 DEF Rate
<1> QED BY <1>2, <1>3

\* checkCPS on the record of the user: a connection that does not pass leaves
\* it, one that does opens a window or is counted in the current one.
LEMMA CheckRate ==
    ASSUME TypeOK, Stamped, NEW c \in Conns, CheckLimits(c), MaxNewConnPerUser > 0
    PROVE  LET u == meta[c].user
               r == recentConnByUser[u]
           IN  /\ u \in Users /\ c \notin passed /\ UNCHANGED <<meta, now>>
               /\ now - MaxLag <= meta[c].at /\ meta[c].at <= now
               /\ \A v \in Users : v # u => /\ recentConnByUser'[v] = recentConnByUser[v]
                                            /\ PassedOf(v)' = PassedOf(v)
               /\ \/ /\ recentConnByUser'[u] = r /\ passed' = passed
                  \/ /\ Expired(r, meta[c].at) /\ passed' = passed \cup {c}
                     /\ recentConnByUser'[u] = [lastReset |-> meta[c].at, count |-> 1]
                  \/ /\ ~Expired(r, meta[c].at) /\ r.count < MaxNewConnPerUser
                     /\ passed' = passed \cup {c}
                     /\ recentConnByUser'[u] = [r EXCEPT !.count = @ + 1]
<1> DEFINE u == meta[c].user
           r == recentConnByUser[u]
<1>1. u \in Users /\ c \notin passed /\ UNCHANGED <<meta, now>> /\ recentConnByUser \in [Users -> Rate]
      /\ now - MaxLag <= meta[c].at /\ meta[c].at <= now
  BY DEF CheckLimits, TypeOK, Stamped
<1>2. /\ recentConnByUser' = [recentConnByUser EXCEPT ![u] = CpsNext(r, MaxNewConnPerUser, meta[c].at)]
      /\ passed' = IF CpsPasses(r, MaxNewConnPerUser, meta[c].at) THEN passed \cup {c} ELSE passed
  <2>1. /\ recentConnByUser' = [recentConnByUser EXCEPT ![u] = CpsNext(@, MaxNewConnPerUser, meta[c].at)]
        /\ passed' = IF UserRateOK(c) THEN passed \cup {c} ELSE passed
    BY DEF CheckLimits
  <2>2. UserRateOK(c) <=> CpsPasses(r, MaxNewConnPerUser, meta[c].at)
    BY DEF UserRateOK
  <2> QED BY <2>1, <2>2
<1>3. /\ recentConnByUser'[u] = CpsNext(r, MaxNewConnPerUser, meta[c].at)
      /\ \A v \in Users : v # u => recentConnByUser'[v] = recentConnByUser[v]
  BY <1>1, <1>2
<1>4. \A v \in Users : v # u => PassedOf(v)' = PassedOf(v)
  BY <1>1, <1>2 DEF PassedOf
<1>5. CASE Expired(r, meta[c].at)
  <2>1. passed' = passed \cup {c}
    BY <1>2, <1>5 DEF CpsPasses
  <2>2. recentConnByUser'[u] = [lastReset |-> meta[c].at, count |-> 1]
    BY <1>3, <1>5 DEF CpsNext
  <2> QED BY <1>1, <1>3, <1>4, <1>5, <2>1, <2>2
<1>6. CASE ~Expired(r, meta[c].at) /\ r.count < MaxNewConnPerUser
  <2>1. passed' = passed \cup {c}
    BY <1>2, <1>6 DEF CpsPasses
  <2>2. recentConnByUser'[u] = [r EXCEPT !.count = @ + 1]
    BY <1>3, <1>6 DEF CpsNext
  <2> QED BY <1>1, <1>3, <1>4, <1>6, <2>1, <2>2
<1>7. CASE ~Expired(r, meta[c].at) /\ ~(r.count < MaxNewConnPerUser)
  <2>1. passed' = passed
    BY <1>2, <1>7 DEF CpsPasses
  <2>2. recentConnByUser'[u] = r
    BY <1>3, <1>7 DEF CpsNext
  <2> QED BY <1>1, <1>3, <1>4, <2>1, <2>2
<1> QED BY <1>5, <1>6, <1>7

\* A connection that passes is in a window with the others that passed, with the
\* new record's start and count.
LEMMA CheckWindows ==
    ASSUME TypeOK, Stamped, Windowed, NEW c \in Conns, CheckLimits(c),
           MaxNewConnPerUser > 0, MaxLag <= 1, passed' # passed
    PROVE  LET u == meta[c].user
               r == recentConnByUser'[u]
           IN  /\ r \in Rate /\ r.count > 0 /\ r.lastReset <= now
               /\ r.lastReset - 1 <= meta[c].at
               /\ \E Cur, Prev : Cardinality(Cur) = r.count
                                 /\ Windows(PassedOf(u) \cup {c}, At, r.lastReset, Cur, Prev)
<1> USE ClockBounds, LimitsAreNat
<1> DEFINE u == meta[c].user
           r == recentConnByUser[u]
           s == meta[c].at
           P == PassedOf(u)
<1>1. /\ u \in Users /\ r \in Rate /\ s \in Nat /\ now \in Nat /\ s <= now /\ now - 1 <= s
      /\ At \in [Conns -> Int] /\ At[c] = s /\ P \in SUBSET Conns /\ c \in Conns \ P
  <2>1. u \in Users /\ c \notin passed /\ now - MaxLag <= s /\ s <= now
    BY CheckRate
  <2>2. /\ \A d \in Conns : meta[d].at \in Nat
        /\ now \in Nat /\ r \in Rate /\ passed \subseteq Conns
    BY <2>1 DEF TypeOK, Meta
  <2>3. At \in [Conns -> Int] /\ At[c] = s
    BY <2>2 DEF At
  <2>4. P \in SUBSET Conns /\ c \in Conns \ P
    BY <2>1, <2>2 DEF PassedOf
  <2> QED BY <2>1, <2>2, <2>3, <2>4
<1>2. /\ r.count = 0 => \A x \in P : At[x] < now - Window - 1
      /\ r.count > 0 => /\ r.lastReset <= now
                        /\ \E Cur, Prev : Cardinality(Cur) = r.count /\ Windows(P, At, r.lastReset, Cur, Prev)
  BY <1>1 DEF Windowed
<1>3. r.count \in Nat /\ r.lastReset \in Int
  BY <1>1 DEF Rate
<1>4. CASE Expired(r, s) /\ recentConnByUser'[u] = [lastReset |-> s, count |-> 1]
  <2>1. \E Cur, Prev : Cardinality(Cur) = 1 /\ Windows(P \cup {c}, At, s, Cur, Prev)
    <3>1. CASE r.count = 0
      <4>1. \A x \in P : At[x] < At[c] - Window
        <5>1. \A x \in P : At[x] \in Int
          BY <1>1
        <5> QED BY <1>1, <1>2, <3>1, <5>1
      <4> QED BY <1>1, <4>1, WindowFirst
    <3>2. CASE r.count > 0
      <4>1. PICK Cur, Prev : Windows(P, At, r.lastReset, Cur, Prev)
        BY <1>2, <3>2
      <4>2. s >= r.lastReset + Window
        BY <1>1, <1>3, <1>4, <3>2 DEF Expired
      <4> QED BY <1>1, <1>3, <4>1, <4>2, WindowOpens
    <3> QED BY <1>3, <3>1, <3>2
  <2> QED BY <1>1, <1>4, <2>1 DEF Rate
<1>5. CASE /\ ~Expired(r, s) /\ r.count < MaxNewConnPerUser
           /\ recentConnByUser'[u] = [r EXCEPT !.count = @ + 1]
  <2>1. r.count > 0 /\ s < r.lastReset + Window
    BY <1>1, <1>3, <1>5 DEF Expired
  <2>2. PICK Cur, Prev : Cardinality(Cur) = r.count /\ Windows(P, At, r.lastReset, Cur, Prev)
    BY <1>2, <2>1
  <2>3. r.lastReset <= now /\ r.lastReset - 1 <= s
    BY <1>1, <1>2, <1>3, <2>1
  <2>4. /\ Cardinality(Cur \cup {c}) = r.count + 1
        /\ Windows(P \cup {c}, At, r.lastReset, Cur \cup {c}, Prev)
    BY <1>1, <1>3, <1>5, <2>1, <2>2, <2>3, WindowGrows
  <2>5. recentConnByUser'[u] = [lastReset |-> r.lastReset, count |-> r.count + 1]
    BY <1>1, <1>5 DEF Rate
  <2> QED BY <1>3, <2>3, <2>4, <2>5 DEF Rate
<1> QED BY <1>1, <1>4, <1>5, CheckRate

LEMMA NextWindowed ==
    ASSUME TypeOK, Stamped, Windowed, [Next]_vars, MaxNewConnPerUser > 0, MaxLag <= 1
    PROVE  Windowed'
<1>1. ASSUME NEW c \in Conns, CheckLimits(c) PROVE Windowed'
  <2>1. /\ UNCHANGED <<meta, now>> /\ At' = At /\ meta[c].user \in Users
        /\ \A v \in Users : v # meta[c].user => /\ recentConnByUser'[v] = recentConnByUser[v]
                                                /\ PassedOf(v)' = PassedOf(v)
    BY <1>1, CheckRate DEF At
  <2>2. CASE passed' = passed
    <3>1. \A v \in Users : /\ recentConnByUser'[v] = recentConnByUser[v]
                           /\ PassedOf(v)' = PassedOf(v)
      <4>1. c \notin passed
        BY <1>1, CheckRate
      <4>2. recentConnByUser'[meta[c].user] = recentConnByUser[meta[c].user]
        BY <1>1, <2>2, <4>1, CheckRate
      <4> QED BY <2>1, <2>2, <4>2 DEF PassedOf
    <3> QED BY <3>1, SameWindows DEF Windowed
  <2>3. CASE passed' # passed
    <3>1. passed' = passed \cup {c}
      BY <1>1, <2>3, CheckRate
    <3>2. PassedOf(meta[c].user)' = PassedOf(meta[c].user) \cup {c}
      BY <2>1, <3>1 DEF PassedOf
    <3>3. LET r == recentConnByUser'[meta[c].user] IN
          /\ r.count > 0 /\ r \in Rate /\ r.lastReset <= now'
          /\ \E Cur, Prev : Cardinality(Cur) = r.count
                            /\ Windows(PassedOf(meta[c].user)', At', r.lastReset, Cur, Prev)
      BY <1>1, <2>1, <2>3, <3>2, CheckWindows
    <3>4. \A v \in Users : v # meta[c].user =>
              LET r == recentConnByUser'[v] IN
              /\ r.count = 0 => \A d \in PassedOf(v)' : At'[d] < now' - Window - 1
              /\ r.count > 0 =>
                     /\ r.lastReset <= now'
                     /\ \E Cur, Prev : Cardinality(Cur) = r.count
                                       /\ Windows(PassedOf(v)', At', r.lastReset, Cur, Prev)
      BY <2>1, SameWindows
    <3>5. recentConnByUser'[meta[c].user].count # 0
      BY <3>3 DEF Rate
    <3> QED BY <2>1, <3>3, <3>4, <3>5 DEF Windowed
  <2> QED BY <2>2, <2>3
<1>2. ASSUME NEW l \in UserLists, UpdateUsers(l) PROVE Windowed'
  BY <1>2, PruneWindows
<1>3. CASE (~\E c \in Conns : CheckLimits(c)) /\ (~\E l \in UserLists : UpdateUsers(l))
  <2>1. UNCHANGED <<recentConnByUser, passed>>
    BY <1>3, RateEffect
  <2>2. \A v \in Users : PassedOf(v)' = PassedOf(v)
    BY <2>1, StampEffect DEF PassedOf
  <2> QED BY <2>1, <2>2, SameWindows DEF Windowed
<1> QED BY <1>1, <1>2, <1>3

LEMMA NextTwoWindows ==
    ASSUME TypeOK, Stamped, Windowed, TwoWindowsAtMost, [Next]_vars,
           MaxNewConnPerUser > 0, MaxLag <= 1
    PROVE  TwoWindowsAtMost'
<1> USE ClockBounds, LimitsAreNat
<1> SUFFICES ASSUME NEW u \in Users, NEW t \in 0..MaxTime
             PROVE  Cardinality(PassedIn(u, t, t + Window - 1)') < 2 * MaxNewConnPerUser
  BY DEF TwoWindowsAtMost
<1>1. Cardinality(PassedIn(u, t, t + Window - 1)) < 2 * MaxNewConnPerUser
  BY DEF TwoWindowsAtMost
<1>2. CASE passed' = passed
  <2>1. PassedIn(u, t, t + Window - 1)' = PassedIn(u, t, t + Window - 1)
    BY <1>2, StampEffect DEF PassedIn
  <2> QED BY <1>1, <2>1
<1>3. CASE passed' # passed
  <2>1. PICK c \in Conns : CheckLimits(c)
    <3>1. ASSUME NEW l \in UserLists, UpdateUsers(l) PROVE passed' = passed
      BY <3>1 DEF UpdateUsers
    <3> QED BY <1>3, <3>1, RateEffect
  <2>2. passed' = passed \cup {c} /\ meta' = meta
    BY <1>3, <2>1, CheckRate
  <2>3. \A d \in Conns : meta[d].at \in Nat
    BY DEF TypeOK, Meta
  <2>4. CASE c \notin PassedIn(u, t, t + Window - 1)'
    <3>1. PassedIn(u, t, t + Window - 1)' = PassedIn(u, t, t + Window - 1)
      BY <2>2, <2>4 DEF PassedIn
    <3> QED BY <1>1, <3>1
  <2>5. CASE c \in PassedIn(u, t, t + Window - 1)'
    <3> DEFINE P == PassedOf(u) \cup {c}
               a == recentConnByUser'[u].lastReset
    <3>1. u = meta[c].user /\ meta[c].at \in t..(t + Window - 1)
      BY <2>2, <2>5 DEF PassedIn
    <3>2. PICK Cur, Prev : Windows(P, At, a, Cur, Prev)
      BY <1>3, <2>1, <3>1, CheckWindows
    <3>3. a \in Int /\ a - 1 <= meta[c].at
      BY <1>3, <2>1, <3>1, CheckWindows DEF Rate
    <3>4. a <= t + Window
      BY <2>3, <3>1, <3>3
    <3>5. P \in SUBSET Conns /\ At \in [Conns -> Int]
      BY <2>3 DEF PassedOf, TypeOK, At
    <3>6. Cardinality({d \in P : t <= At[d] /\ At[d] < t + Window}) < 2 * MaxNewConnPerUser
      BY <3>2, <3>3, <3>4, <3>5, SpanBound
    <3>7. PassedIn(u, t, t + Window - 1)' = {d \in P : t <= At[d] /\ At[d] < t + Window}
      <4>1. passed \subseteq Conns
        BY DEF TypeOK
      <4>2. \A d \in Conns : At[d] = meta[d].at
        BY DEF At
      <4> QED BY <2>2, <2>3, <3>1, <4>1, <4>2 DEF PassedIn, PassedOf
    <3> QED BY <3>6, <3>7
  <2> QED BY <2>4, <2>5
<1> QED BY <1>2, <1>3

LEMMA InitRate == Init => RateInv
<1> SUFFICES ASSUME Init PROVE RateInv
  OBVIOUS
<1>1. passed = {} /\ \A u \in Users : recentConnByUser[u].count = 0
  BY DEF Init, NoRate
<1>2. Stamped /\ Windowed
  BY <1>1 DEF Init, Stamped, Windowed, PassedOf
<1>3. TwoWindowsAtMost
  <2> SUFFICES ASSUME MaxNewConnPerUser > 0, NEW u \in Users, NEW t
               PROVE  Cardinality(PassedIn(u, t, t + Window - 1)) < 2 * MaxNewConnPerUser
    BY DEF TwoWindowsAtMost
  <2>1. PassedIn(u, t, t + Window - 1) = {}
    BY <1>1 DEF PassedIn
  <2> QED BY <2>1, LimitsAreNat, FS_EmptySet
<1> QED BY <1>2, <1>3, InitTyped DEF RateInv

\* At most one connection less than twice the limit passes the per-user rate
\* check with stamps in a span of one window (checkCPS, UpdateUsers), as long
\* as a stamp is at most a tick old when it is checked.
THEOREM TwoWindows == Spec => []TwoWindowsAtMost
<1>1. RateInv /\ [Next]_vars => RateInv'
  <2> SUFFICES ASSUME RateInv, [Next]_vars PROVE RateInv'
    OBVIOUS
  <2>1. TypeOK' /\ Stamped'
    BY NextTyped, NextStamped DEF RateInv
  <2>2. MaxNewConnPerUser > 0 /\ MaxLag <= 1 => Windowed' /\ TwoWindowsAtMost'
    BY NextWindowed, NextTwoWindows DEF RateInv
  <2>3. TwoWindowsAtMost'
    BY <2>2 DEF TwoWindowsAtMost
  <2> QED BY <2>1, <2>2, <2>3 DEF RateInv
<1>2. RateInv => TwoWindowsAtMost
  BY DEF RateInv
<1> QED BY <1>1, <1>2, InitRate, PTL DEF Spec
================================================================================
