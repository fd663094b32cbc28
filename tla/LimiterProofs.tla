----------------------------- MODULE LimiterProofs -----------------------------
(***************************************************************************)
(* Theorems about the admission control of Limiter, for every set of       *)
(* connections, users and addresses, every limit and every list the panel  *)
(* may send.                                                               *)
(***************************************************************************)
EXTENDS Limiter, FiniteSetTheorems, TLAPS

--------------------------------------------------------------------------------
(* Types. *)

\* A record of a user list is a user record, and its key a user name.
LEMMA ListsTyped ==
    ASSUME NEW l \in UserLists, NEW u \in DOMAIN l
    PROVE  u \in Users /\ l[u] \in User
BY ListsAssumption

\* The helpers of the actions return values of the expected type.
LEMMA RateTyped ==
    ASSUME NEW r \in Rate, NEW n, NEW t \in Int
    PROVE  CpsNext(r, n, t) \in Rate
<1>1. CASE Expired(r, t)
  BY <1>1 DEF CpsNext, Rate
<1>2. CASE ~Expired(r, t)
  BY <1>2 DEF CpsNext, Rate
<1> QED BY <1>1, <1>2

LEMMA PruneTyped ==
    ASSUME NEW r \in Rate
    PROVE  Prune(r) \in Rate
BY DEF Prune, Rate, NoRate

LEMMA StringSetTyped ==
    ASSUME NEW s \in Seq(RemoteIPs \cup {Blank})
    PROVE  stringSet(s) \subseteq RemoteIPs
BY DEF stringSet

\* A limit read without a record is 0, with one it is the record's.
LEMMA SpeedTyped ==
    ASSUME userByName \in UserLists, NEW u
    PROVE  SpeedLimitOf(u) \in Int
BY ListsTyped DEF SpeedLimitOf, User

LEMMA InitTyped == Init => TypeOK
BY ListsAssumption, ClockBounds
   DEF Init, TypeOK, Meta, NoMeta, User, NoRecord, Entry, NoBucket, Rate, NoRate, PCs

LEMMA RouteTyped ==
    ASSUME TypeOK, NEW c \in Conns, NEW u \in Users \cup {NoUser},
           NEW i \in IPs \cup {NoIP}, NEW k \in Kinds, Route(c, u, i, k)
    PROVE  TypeOK'
<1>1. PICK g \in 1..generation :
        /\ connSequence' = [connSequence EXCEPT ![g] = @ + 1]
        /\ meta' = [meta EXCEPT ![c] = [id |-> connSequence[g] + 1, user |-> u,
                                        ip |-> i, kind |-> k, at |-> now]]
  BY DEF Route
<1>2. g \in 1..MaxGen /\ connSequence[g] \in Nat
  BY ClockBounds DEF TypeOK
<1>3. [id |-> connSequence[g] + 1, user |-> u, ip |-> i, kind |-> k, at |-> now] \in Meta
  BY <1>2, KindsAssumption DEF TypeOK, Meta
<1>4. connSequence' \in [1..MaxGen -> Nat]
  BY <1>1, <1>2 DEF TypeOK
<1>5. meta' \in [Conns -> Meta]
  BY <1>1, <1>3 DEF TypeOK
<1>6. pc' \in [Conns -> PCs] /\ \A d \in Conns : d # c => pc'[d] = pc[d] /\ meta'[d] = meta[d]
  BY <1>1 DEF TypeOK, Route, Goto, PCs
<1>7. pc'[c] = "built"
  BY DEF Route, Goto, TypeOK
<1> QED
  BY <1>4, <1>5, <1>6, <1>7
  DEF Route, TypeOK, userVars, indexVars, entryVars, aliveVars, rateVars, histVars

LEMMA CheckUserTyped ==
    ASSUME TypeOK, NEW c \in Conns, CheckUser(c)
    PROVE  TypeOK'
<1>1. CASE meta[c].user \in DOMAIN userByName
  <2>1. meta[c].user \in Users /\ userByName[meta[c].user] \in User
    BY <1>1, ListsTyped DEF TypeOK
  <2>2. looked' \in [Conns -> User] /\ pc' = [pc EXCEPT ![c] = "looked"]
    BY <1>1, <2>1 DEF CheckUser, TypeOK, Goto
  <2> QED
    BY <2>1, <2>2 DEF CheckUser, TypeOK, PCs, userVars, indexVars, entryVars, aliveVars,
                      rateVars, genVars, histVars
<1>2. CASE meta[c].user \notin DOMAIN userByName
  BY <1>2 DEF CheckUser, TypeOK, PCs, Goto, userVars, indexVars, entryVars, aliveVars,
              rateVars, genVars, histVars
<1> QED BY <1>1, <1>2

LEMMA CheckLimitsTyped ==
    ASSUME TypeOK, NEW c \in Conns, CheckLimits(c)
    PROVE  TypeOK'
<1>1. meta[c].user \in Users /\ meta[c].at \in Nat /\ meta[c].ip \in IPs \cup {NoIP}
  BY DEF TypeOK, CheckLimits, Meta
<1>2. recentConnByUser' \in [Users -> Rate] /\ passed' \in SUBSET Conns
  <2>1. CpsNext(recentConnByUser[meta[c].user], MaxNewConnPerUser, meta[c].at) \in Rate
    BY <1>1, RateTyped DEF TypeOK
  <2>2. recentConnByUser' \in [Users -> Rate]
    BY <1>1, <2>1 DEF CheckLimits, TypeOK
  <2>3. passed' = passed \/ passed' = passed \cup {c}
    BY Zenon DEF CheckLimits
  <2> QED BY <2>2, <2>3 DEF TypeOK
<1>3. recentConnByIP' \in [IPs -> Rate]
  <2>1. CASE meta[c].ip = NoIP
    BY <2>1 DEF CheckLimits, TypeOK
  <2>2. CASE meta[c].ip # NoIP
    <3>1. CpsNext(recentConnByIP[meta[c].ip], MaxNewConnPerIP, meta[c].at) \in Rate
      BY <1>1, <2>2, RateTyped DEF TypeOK
    <3> QED BY <1>1, <3>1 DEF CheckLimits, TypeOK
  <2> QED BY <2>1, <2>2
<1>4. userEntries' \in SUBSET Users /\ ipEntries' \in SUBSET IPs
  BY <1>1 DEF CheckLimits, TypeOK
<1>5. /\ pc' \in [Conns -> PCs]
      /\ \A d \in Conns : d # c => pc'[d] = pc[d]
  BY DEF CheckLimits, TypeOK, Goto, PCs
<1>6. newDevice' \in [Conns -> BOOLEAN]
  BY Zenon DEF CheckLimits, TypeOK
<1>7. UNCHANGED <<meta, looked, wanted, bucket, userVars, indexVars, aliveVars,
                  genVars, activeUsers, now, overlap>>
  BY DEF CheckLimits
<1> QED
  BY <1>1, <1>2, <1>3, <1>4, <1>5, <1>6, <1>7
  DEF TypeOK, userVars, indexVars, aliveVars, genVars

LEMMA RegisterTyped ==
    ASSUME TypeOK, NEW c \in Conns, Register(c)
    PROVE  TypeOK'
<1>1. meta[c].user \in Users /\ meta[c].id \in Nat /\ meta[c].ip \in IPs \cup {NoIP}
  BY DEF TypeOK, Register, Meta
<1>2. /\ activeConnByUser' \in [Users -> SUBSET Nat]
      /\ userEntries' \in SUBSET Users
  BY <1>1 DEF Register, TypeOK
<1>3. /\ activeConnByIP' \in [IPs -> SUBSET Nat]
      /\ ipEntries' \in SUBSET IPs
      /\ activeIPsCount' \in [Users -> [IPs -> Nat]]
  <2>1. CASE meta[c].ip = NoIP
    BY <2>1 DEF Register, TypeOK
  <2>2. CASE meta[c].ip # NoIP
    <3>1. meta[c].ip \in IPs
      BY <1>1, <2>2
    <3>2. activeConnByIP' \in [IPs -> SUBSET Nat] /\ ipEntries' \in SUBSET IPs
      <4>1. /\ activeConnByIP' = [activeConnByIP EXCEPT ![meta[c].ip] = @ \cup {meta[c].id}]
            /\ ipEntries' = ipEntries \cup {meta[c].ip}
        BY <2>2 DEF Register
      <4>2. activeConnByIP \in [IPs -> SUBSET Nat] /\ ipEntries \subseteq IPs
        BY DEF TypeOK
      <4> QED BY <1>1, <3>1, <4>1, <4>2
    <3>3. activeIPsCount' = [activeIPsCount EXCEPT ![meta[c].user][meta[c].ip] = @ + 1]
      BY <2>2 DEF Register
    <3>4. activeIPsCount[meta[c].user] \in [IPs -> Nat]
      BY <1>1 DEF TypeOK
    <3>5. activeIPsCount[meta[c].user][meta[c].ip] + 1 \in Nat
      BY <3>1, <3>4
    <3>6. [activeIPsCount[meta[c].user] EXCEPT ![meta[c].ip] = @ + 1] \in [IPs -> Nat]
      BY <3>4, <3>5
    <3> QED BY <1>1, <3>2, <3>3, <3>6 DEF TypeOK
  <2> QED BY <2>1, <2>2
<1>4. /\ pc' \in [Conns -> PCs]
      /\ \A d \in Conns : d # c => pc'[d] = pc[d]
  BY DEF Register, TypeOK, Goto, PCs
<1>5. overlap' \in [Conns -> SUBSET Conns] /\ newDevice' \in [Conns -> BOOLEAN]
  BY DEF Register, TypeOK
<1>6. UNCHANGED <<meta, looked, wanted, bucket, userVars, aliveVars, rateVars,
                  genVars, activeUsers, now>>
  BY DEF Register
<1> QED
  BY <1>1, <1>2, <1>3, <1>4, <1>5, <1>6 DEF TypeOK, userVars, aliveVars, rateVars, genVars

LEMMA RegisterConnTyped ==
    ASSUME TypeOK, NEW c \in Conns, RegisterConn(c)
    PROVE  TypeOK'
<1>1. meta[c].user \in Users /\ meta[c].id \in Nat
  BY DEF TypeOK, RegisterConn, Meta
<1>2. activeUsers' \in [Users -> SUBSET Nat]
  BY <1>1 DEF RegisterConn, TypeOK
<1>3. /\ pc' \in [Conns -> PCs]
      /\ \A d \in Conns : d # c => pc'[d] = pc[d]
  BY DEF RegisterConn, TypeOK, Goto, PCs
<1> QED
  BY <1>1, <1>2, <1>3
  DEF RegisterConn, TypeOK, userVars, indexVars, entryVars, aliveVars, rateVars, genVars, histVars

LEMMA ReadBucketTyped ==
    ASSUME TypeOK, NEW c \in Conns, ReadBucket(c)
    PROVE  TypeOK'
<1>1. meta[c].user \in Users
  BY DEF TypeOK, ReadBucket
<1>2. SpeedLimitOf(meta[c].user) \in Int
  BY SpeedTyped DEF TypeOK
<1>3. wanted' \in [Conns -> Int] /\ bucket' \in [Conns -> Entry]
  BY <1>1, <1>2 DEF ReadBucket, TypeOK
<1>4. /\ pc' \in [Conns -> PCs]
      /\ \A d \in Conns : d # c => pc'[d] = pc[d]
  BY DEF ReadBucket, TypeOK, Goto, PCs
<1> QED
  BY <1>1, <1>3, <1>4
  DEF ReadBucket, TypeOK, userVars, indexVars, entryVars, aliveVars, rateVars, genVars, histVars

LEMMA CreateBucketTyped ==
    ASSUME TypeOK, NEW c \in Conns, CreateBucket(c)
    PROVE  TypeOK'
<1>1. meta[c].user \in Users
  BY DEF TypeOK, CreateBucket
<1>2. BucketFor(c) \in Entry
  BY <1>1 DEF BucketFor, NewBucket, Entry, TypeOK
<1>3. speedBucketByName' \in [Users -> Entry] /\ bucket' \in [Conns -> Entry]
  BY <1>1, <1>2 DEF CreateBucket, TypeOK
<1>4. /\ pc' \in [Conns -> PCs]
      /\ \A d \in Conns : d # c => pc'[d] = pc[d]
  BY DEF CreateBucket, TypeOK, Goto, PCs
<1> QED
  BY <1>1, <1>3, <1>4
  DEF CreateBucket, TypeOK, indexVars, entryVars, aliveVars, rateVars, genVars, histVars

LEMMA UnregisterTyped ==
    ASSUME TypeOK, NEW c \in Conns, Unregister(c)
    PROVE  TypeOK'
<1>1. meta[c].user \in Users /\ meta[c].ip \in IPs \cup {NoIP}
  BY DEF TypeOK, Unregister, Meta
<1>2. activeConnByUser' \in [Users -> SUBSET Nat] /\ userEntries' \in SUBSET Users
  BY <1>1 DEF Unregister, TypeOK, Left
<1>3. activeConnByIP' \in [IPs -> SUBSET Nat] /\ ipEntries' \in SUBSET IPs
  <2>1. CASE meta[c].ip = NoIP
    BY <2>1 DEF Unregister, TypeOK
  <2>2. CASE meta[c].ip # NoIP
    <3>1. /\ activeConnByIP' = [activeConnByIP EXCEPT ![meta[c].ip] = Left(@, c)]
          /\ ipEntries' \subseteq ipEntries
      BY <2>2 DEF Unregister
    <3>2. meta[c].ip \in IPs /\ activeConnByIP \in [IPs -> SUBSET Nat] /\ ipEntries \subseteq IPs
      BY <1>1, <2>2 DEF TypeOK
    <3>3. Left(activeConnByIP[meta[c].ip], c) \subseteq Nat
      BY <3>2 DEF Left
    <3> QED BY <3>1, <3>2, <3>3
  <2> QED BY <2>1, <2>2
<1>4. activeIPsCount' \in [Users -> [IPs -> Nat]]
  <2>1. CASE meta[c].ip = NoIP
    BY <2>1 DEF Unregister, TypeOK
  <2>2. CASE meta[c].ip # NoIP
    <3>1. meta[c].ip \in IPs /\ activeIPsCount[meta[c].user] \in [IPs -> Nat]
      BY <1>1, <2>2 DEF TypeOK
    <3>2. Dec(activeIPsCount[meta[c].user][meta[c].ip]) \in Nat
      BY <3>1 DEF Dec
    <3>3. [activeIPsCount[meta[c].user] EXCEPT ![meta[c].ip] = Dec(@)] \in [IPs -> Nat]
      BY <3>1, <3>2
    <3>4. activeIPsCount' = [activeIPsCount EXCEPT ![meta[c].user][meta[c].ip] = Dec(@)]
      BY <2>2 DEF Unregister
    <3> QED BY <1>1, <3>3, <3>4 DEF TypeOK
  <2> QED BY <2>1, <2>2
<1>5. /\ pc' \in [Conns -> PCs]
      /\ \A d \in Conns : d # c => pc'[d] = pc[d]
  BY DEF Unregister, TypeOK, Goto, PCs
<1> QED
  BY <1>1, <1>2, <1>3, <1>4, <1>5
  DEF Unregister, TypeOK, userVars, aliveVars, rateVars, genVars, histVars

LEMMA UnregisterConnTyped ==
    ASSUME TypeOK, NEW c \in Conns, UnregisterConn(c)
    PROVE  TypeOK'
<1>1. meta[c].user \in Users
  BY DEF TypeOK, UnregisterConn
<1>2. activeUsers' \in [Users -> SUBSET Nat]
  BY <1>1 DEF UnregisterConn, TypeOK, Left
<1>3. /\ pc' \in [Conns -> PCs]
      /\ \A d \in Conns : d # c => pc'[d] = pc[d]
  BY DEF UnregisterConn, TypeOK, Goto, PCs
<1> QED
  BY <1>1, <1>2, <1>3
  DEF UnregisterConn, TypeOK, userVars, indexVars, entryVars, aliveVars, rateVars, genVars, histVars

LEMMA NodeStepTyped ==
    ASSUME TypeOK, NodeStep
    PROVE  TypeOK'
<1>1. ASSUME NEW l \in UserLists, UpdateUsers(l) PROVE TypeOK'
  <2>1. recentConnByUser' \in [Users -> Rate] /\ recentConnByIP' \in [IPs -> Rate]
    BY <1>1, PruneTyped DEF UpdateUsers, TypeOK
  <2>2. \A u \in Users : KeptBucket(u, l) \in Entry
    BY DEF KeptBucket, NoBucket, Entry, TypeOK
  <2>3. speedBucketByName' \in [Users -> Entry]
    BY <1>1, <2>2 DEF UpdateUsers
  <2> QED
    BY <1>1, <2>1, <2>3
    DEF UpdateUsers, TypeOK, connVars, indexVars, entryVars, aliveVars, genVars, histVars
<1>2. ASSUME NEW a \in AliveLists, UpdateAliveList(a) PROVE TypeOK'
  <2>1. a \in [Users -> Seq(RemoteIPs \cup {Blank})]
    BY <1>2, ListsAssumption
  <2>2. \A u \in Users : a[u] \in Seq(RemoteIPs \cup {Blank})
    BY <2>1
  <2>3. \A u \in Users : Len(a[u]) \in Nat /\ stringSet(a[u]) \subseteq RemoteIPs
    BY <2>2, StringSetTyped
  <2>4. aliveList' \in [Users -> Nat] /\ remoteUserOnline' \in [Users -> SUBSET RemoteIPs]
    BY <1>2, <2>3 DEF UpdateAliveList
  <2> QED
    BY <1>2, <2>4
    DEF UpdateAliveList, TypeOK, connVars, userVars, indexVars, entryVars, rateVars, genVars, histVars
<1>3. CASE BuildAlivePayload
  <2>1. \A u \in Users : OnlineDevices(u) \subseteq IPs
    BY DEF OnlineDevices, currentUserIPs
  <2>2. oldUserOnline' \in [Users -> SUBSET IPs]
    BY <1>3, <2>1 DEF BuildAlivePayload
  <2> QED
    BY <1>3, <2>2
    DEF BuildAlivePayload, TypeOK, connVars, userVars, indexVars, entryVars, rateVars, genVars, histVars
<1>4. CASE Reload
  BY <1>4, ClockBounds
  DEF Reload, TypeOK, connVars, userVars, indexVars, entryVars, aliveVars, rateVars, histVars
<1>5. CASE Tick
  BY <1>5, ClockBounds
  DEF Tick, TypeOK, connVars, userVars, indexVars, entryVars, aliveVars, rateVars, genVars, histVars
<1> QED BY <1>1, <1>2, <1>3, <1>4, <1>5 DEF NodeStep

LEMMA NextTyped == TypeOK /\ [Next]_vars => TypeOK'
<1> SUFFICES ASSUME TypeOK, [Next]_vars PROVE TypeOK'
  OBVIOUS
<1>1. ASSUME NEW c \in Conns, ConnStep(c) PROVE TypeOK'
  BY <1>1, RouteTyped, CheckUserTyped, CheckLimitsTyped, RegisterTyped, RegisterConnTyped,
     ReadBucketTyped, CreateBucketTyped, UnregisterTyped, UnregisterConnTyped DEF ConnStep
<1>2. CASE NodeStep
  BY <1>2, NodeStepTyped
<1>3. CASE UNCHANGED vars
  BY <1>3 DEF vars, TypeOK, connVars, userVars, indexVars, entryVars, aliveVars, rateVars,
              genVars, histVars
<1> QED BY <1>1, <1>2, <1>3 DEF Next

\* The limiter, the tracker and the statistics keep every variable in its
\* type, and a goroutine past the user check carries a real user name.
THEOREM TypeCorrect == Spec => []TypeOK
BY InitTyped, NextTyped, PTL DEF Spec
--------------------------------------------------------------------------------
(* What Register and Unregister do to the indexes, key by key. *)

LEMMA RegisterEffect ==
    ASSUME TypeOK, NEW c \in Conns, Register(c)
    PROVE  /\ pc[c] = "admitted" /\ pc' = [pc EXCEPT ![c] = "registered"] /\ meta' = meta
           /\ meta[c].user \in Users
           /\ \A u \in Users : activeConnByUser'[u] =
                 IF u = meta[c].user THEN activeConnByUser[u] \cup {meta[c].id}
                 ELSE activeConnByUser[u]
           /\ \A i \in IPs : activeConnByIP'[i] =
                 IF i = meta[c].ip THEN activeConnByIP[i] \cup {meta[c].id}
                 ELSE activeConnByIP[i]
           /\ \A u \in Users, i \in IPs : activeIPsCount'[u][i] =
                 IF u = meta[c].user /\ i = meta[c].ip THEN activeIPsCount[u][i] + 1
                 ELSE activeIPsCount[u][i]
<1>1. meta[c].user \in Users /\ meta[c].ip \in IPs \cup {NoIP}
  BY DEF TypeOK, Register, Meta
<1>2. pc[c] = "admitted" /\ pc' = [pc EXCEPT ![c] = "registered"] /\ meta' = meta
  BY DEF Register, Goto
<1>3. activeConnByUser' = [activeConnByUser EXCEPT ![meta[c].user] = @ \cup {meta[c].id}]
  BY DEF Register
<1>4. CASE meta[c].ip = NoIP
  <2>1. activeConnByIP' = activeConnByIP /\ activeIPsCount' = activeIPsCount
    BY <1>4 DEF Register
  <2>2. \A i \in IPs : i # meta[c].ip
    BY <1>4, Sentinels
  <2> QED BY <1>1, <1>2, <1>3, <2>1, <2>2 DEF TypeOK
<1>5. CASE meta[c].ip # NoIP
  <2>1. /\ activeConnByIP' = [activeConnByIP EXCEPT ![meta[c].ip] = @ \cup {meta[c].id}]
        /\ activeIPsCount' = [activeIPsCount EXCEPT ![meta[c].user][meta[c].ip] = @ + 1]
    BY <1>5 DEF Register
  <2>2. /\ activeConnByUser \in [Users -> SUBSET Nat] /\ activeConnByIP \in [IPs -> SUBSET Nat]
        /\ activeIPsCount \in [Users -> [IPs -> Nat]]
    BY DEF TypeOK
  <2> QED BY <1>1, <1>2, <1>3, <2>1, <2>2
<1> QED BY <1>4, <1>5

LEMMA UnregisterEffect ==
    ASSUME TypeOK, NEW c \in Conns, Unregister(c)
    PROVE  /\ pc[c] = "open" /\ pc' = [pc EXCEPT ![c] = "closing"] /\ meta' = meta
           /\ meta[c].user \in Users
           /\ \A u \in Users : activeConnByUser'[u] =
                 IF u = meta[c].user THEN activeConnByUser[u] \ {meta[c].id}
                 ELSE activeConnByUser[u]
           /\ \A i \in IPs : activeConnByIP'[i] =
                 IF i = meta[c].ip THEN activeConnByIP[i] \ {meta[c].id}
                 ELSE activeConnByIP[i]
           /\ \A u \in Users, i \in IPs : activeIPsCount'[u][i] =
                 IF u = meta[c].user /\ i = meta[c].ip THEN Dec(activeIPsCount[u][i])
                 ELSE activeIPsCount[u][i]
<1>1. meta[c].user \in Users /\ meta[c].ip \in IPs \cup {NoIP}
  BY DEF TypeOK, Unregister, Meta
<1>2. pc[c] = "open" /\ pc' = [pc EXCEPT ![c] = "closing"] /\ meta' = meta
  BY DEF Unregister, Goto
<1>3. activeConnByUser' = [activeConnByUser EXCEPT ![meta[c].user] = @ \ {meta[c].id}]
  BY DEF Unregister, Left
<1>4. CASE meta[c].ip = NoIP
  <2>1. activeConnByIP' = activeConnByIP /\ activeIPsCount' = activeIPsCount
    BY <1>4 DEF Unregister
  <2>2. \A i \in IPs : i # meta[c].ip
    BY <1>4, Sentinels
  <2> QED BY <1>1, <1>2, <1>3, <2>1, <2>2 DEF TypeOK
<1>5. CASE meta[c].ip # NoIP
  <2>1. /\ activeConnByIP' = [activeConnByIP EXCEPT ![meta[c].ip] = @ \ {meta[c].id}]
        /\ activeIPsCount' = [activeIPsCount EXCEPT ![meta[c].user][meta[c].ip] = Dec(@)]
    BY <1>5 DEF Unregister, Left
  <2>2. /\ activeConnByUser \in [Users -> SUBSET Nat] /\ activeConnByIP \in [IPs -> SUBSET Nat]
        /\ activeIPsCount \in [Users -> [IPs -> Nat]]
    BY DEF TypeOK
  <2> QED BY <1>1, <1>2, <1>3, <2>1, <2>2
<1> QED BY <1>4, <1>5

\* No other step touches the indexes, who holds a slot, or the metadata of a
\* connection that has been routed.
LEMMA QuietStep ==
    ASSUME TypeOK, [Next]_vars,
           ~\E c \in Conns : Register(c) \/ Unregister(c)
    PROVE  /\ UNCHANGED indexVars
           /\ \A d \in Conns : /\ Holds(d)' <=> Holds(d)
                               /\ pc[d] # "idle" => meta'[d] = meta[d] /\ pc'[d] # "idle"
<1>1. ASSUME NEW c \in Conns, ConnStep(c)
      PROVE  /\ UNCHANGED indexVars
             /\ \A d \in Conns : /\ Holds(d)' <=> Holds(d)
                                 /\ pc[d] # "idle" => meta'[d] = meta[d] /\ pc'[d] # "idle"
  <2>1. ASSUME NEW u \in Users \cup {NoUser}, NEW i \in IPs \cup {NoIP}, NEW k \in Kinds,
               Route(c, u, i, k)
        PROVE  /\ UNCHANGED indexVars
               /\ \A d \in Conns : /\ Holds(d)' <=> Holds(d)
                                   /\ pc[d] # "idle" => meta'[d] = meta[d] /\ pc'[d] # "idle"
    BY <2>1 DEF Route, Goto, Holds, TypeOK
  <2>2. CASE CheckUser(c)
    BY <2>2 DEF CheckUser, Goto, Holds, TypeOK
  <2>3. CASE CheckLimits(c)
    <3>1. UNCHANGED <<indexVars, meta>> /\ pc[c] = "looked"
      BY <2>3 DEF CheckLimits
    <3>2. pc' = [pc EXCEPT ![c] = "admitted"] \/ pc' = [pc EXCEPT ![c] = "denied"]
      BY <2>3, Zenon DEF CheckLimits, Goto
    <3> QED BY <3>1, <3>2 DEF Holds, TypeOK
  <2>4. CASE RegisterConn(c)
    BY <2>4 DEF RegisterConn, Goto, Holds, TypeOK
  <2>5. CASE ReadBucket(c)
    BY <2>5 DEF ReadBucket, Goto, Holds, TypeOK
  <2>6. CASE CreateBucket(c)
    BY <2>6 DEF CreateBucket, Goto, Holds, TypeOK
  <2>7. CASE UnregisterConn(c)
    BY <2>7 DEF UnregisterConn, Goto, Holds, TypeOK
  <2> QED BY <1>1, <2>1, <2>2, <2>3, <2>4, <2>5, <2>6, <2>7 DEF ConnStep
<1>2. CASE NodeStep
  <2>1. UNCHANGED <<indexVars, pc, meta>>
    BY <1>2 DEF NodeStep, UpdateUsers, UpdateAliveList, BuildAlivePayload, Reload, Tick, connVars
  <2> QED BY <2>1 DEF Holds
<1>3. CASE UNCHANGED vars
  <2>1. UNCHANGED <<indexVars, pc, meta>>
    BY <1>3 DEF vars, connVars
  <2> QED BY <2>1 DEF Holds
<1> QED BY <1>1, <1>2, <1>3 DEF Next

--------------------------------------------------------------------------------
(* The reference count of an address. *)

LEMMA HeldFinite ==
    ASSUME NEW u, NEW i
    PROVE  IsFiniteSet(HeldFrom(u, i)) /\ Cardinality(HeldFrom(u, i)) \in Nat
<1>1. HeldFrom(u, i) \subseteq Conns
  BY DEF HeldFrom, HeldBy
<1> QED BY <1>1, ConnsFinite, FS_Subset, FS_CardinalityType

LEMMA InitCounted == Init => RefCountExact
<1> SUFFICES ASSUME Init, NEW u \in Users, NEW i \in IPs
             PROVE  activeIPsCount[u][i] = Cardinality(HeldFrom(u, i))
  BY DEF RefCountExact
<1>1. HeldFrom(u, i) = {}
  BY DEF Init, HeldFrom, HeldBy, Holds
<1> QED BY <1>1, FS_EmptySet DEF Init

LEMMA NextCounted == TypeOK /\ RefCountExact /\ [Next]_vars => RefCountExact'
<1> SUFFICES ASSUME TypeOK, RefCountExact, [Next]_vars,
                    NEW u \in Users, NEW i \in IPs
             PROVE  (activeIPsCount[u][i] = Cardinality(HeldFrom(u, i)))'
  BY DEF RefCountExact
<1>0. activeIPsCount[u][i] = Cardinality(HeldFrom(u, i))
  BY DEF RefCountExact
<1>1. ASSUME NEW c \in Conns, Register(c)
      PROVE  (activeIPsCount[u][i] = Cardinality(HeldFrom(u, i)))'
  <2>1. c \notin HeldFrom(u, i)
    BY <1>1, RegisterEffect DEF HeldFrom, HeldBy, Holds
  <2>2. CASE u = meta[c].user /\ i = meta[c].ip
    <3>1. HeldFrom(u, i)' = HeldFrom(u, i) \cup {c}
      BY <1>1, <2>2, RegisterEffect DEF HeldFrom, HeldBy, Holds, TypeOK
    <3>2. Cardinality(HeldFrom(u, i)') = Cardinality(HeldFrom(u, i)) + 1
      BY <2>1, <3>1, HeldFinite, FS_AddElement
    <3> QED BY <1>0, <1>1, <2>2, <3>2, RegisterEffect
  <2>3. CASE ~(u = meta[c].user /\ i = meta[c].ip)
    <3>1. HeldFrom(u, i)' = HeldFrom(u, i)
      <4>1. meta' = meta /\ pc[c] = "admitted" /\ pc' = [pc EXCEPT ![c] = "registered"]
        BY <1>1, RegisterEffect
      <4>2. \A d \in Conns : d # c => pc'[d] = pc[d]
        BY <4>1 DEF TypeOK
      <4> QED BY <2>3, <4>1, <4>2 DEF HeldFrom, HeldBy, Holds, TypeOK
    <3> QED BY <1>0, <1>1, <2>3, <3>1, RegisterEffect
  <2> QED BY <2>2, <2>3
<1>2. ASSUME NEW c \in Conns, Unregister(c)
      PROVE  (activeIPsCount[u][i] = Cardinality(HeldFrom(u, i)))'
  <2>1. CASE u = meta[c].user /\ i = meta[c].ip
    <3>1. c \in HeldFrom(u, i)
      BY <1>2, <2>1, UnregisterEffect DEF HeldFrom, HeldBy, Holds
    <3>2. HeldFrom(u, i)' = HeldFrom(u, i) \ {c}
      BY <1>2, <2>1, UnregisterEffect DEF HeldFrom, HeldBy, Holds, TypeOK
    <3>3. /\ Cardinality(HeldFrom(u, i)') = Cardinality(HeldFrom(u, i)) - 1
          /\ Cardinality(HeldFrom(u, i)') \in Nat
      BY <3>1, <3>2, HeldFinite, FS_RemoveElement, FS_CardinalityType
    <3>4. Dec(activeIPsCount[u][i]) = Cardinality(HeldFrom(u, i)) - 1
      BY <1>0, <3>3, HeldFinite DEF Dec
    <3> QED BY <1>2, <2>1, <3>3, <3>4, UnregisterEffect
  <2>2. CASE ~(u = meta[c].user /\ i = meta[c].ip)
    <3>1. HeldFrom(u, i)' = HeldFrom(u, i)
      <4>1. meta' = meta /\ pc[c] = "open" /\ pc' = [pc EXCEPT ![c] = "closing"]
        BY <1>2, UnregisterEffect
      <4>2. \A d \in Conns : d # c => pc'[d] = pc[d]
        BY <4>1 DEF TypeOK
      <4> QED BY <2>2, <4>1, <4>2 DEF HeldFrom, HeldBy, Holds, TypeOK
    <3> QED BY <1>0, <1>2, <2>2, <3>1, UnregisterEffect
  <2> QED BY <2>1, <2>2
<1>3. CASE ~\E c \in Conns : Register(c) \/ Unregister(c)
  <2>1. HeldFrom(u, i)' = HeldFrom(u, i)
    BY <1>3, QuietStep DEF HeldFrom, HeldBy, Holds
  <2> QED BY <1>0, <1>3, <2>1, QuietStep DEF indexVars
<1> QED BY <1>1, <1>2, <1>3

\* activeIPsCount is, for every user and address, the number of registered
\* connections: Register and Unregister keep it exact across reloads, refused
\* connections and user updates, so no address is counted for a connection
\* that is gone and none is forgotten while a connection is up.
THEOREM CountsExact == Spec => []RefCountExact
<1>1. Init => TypeOK /\ RefCountExact
  BY InitTyped, InitCounted
<1>2. (TypeOK /\ RefCountExact) /\ [Next]_vars => (TypeOK /\ RefCountExact)'
  BY NextTyped, NextCounted
<1> QED BY <1>1, <1>2, PTL DEF Spec
--------------------------------------------------------------------------------
(* How far the limits can be exceeded. *)

\* Every index a limit is read from is finite.
IndexFinite ==
    /\ \A u \in Users : IsFiniteSet(activeConnByUser[u]) /\ IsFiniteSet(currentUserIPs(u))
    /\ \A i \in IPs : IsFiniteSet(activeConnByIP[i])

\* Who has registered never registers again, so it is counted once in overlap.
OverlapRegistered ==
    \A c \in Conns : \A d \in overlap[c] :
        pc[d] \notin {"idle", "built", "looked", "admitted", "denied"}

OvershootInv == TypeOK /\ IndexFinite /\ OverlapRegistered
                /\ OvershootNeedsOverlap /\ DeviceOvershootNeedsOverlap

\* Adding one element to a finite set, or removing some.
LEMMA OneMore ==
    ASSUME NEW S, IsFiniteSet(S), NEW x
    PROVE  /\ IsFiniteSet(S \cup {x})
           /\ Cardinality(S) \in Nat /\ Cardinality(S \cup {x}) \in Nat
           /\ Cardinality(S \cup {x}) <= Cardinality(S) + 1
           /\ x \notin S => Cardinality(S \cup {x}) = Cardinality(S) + 1
<1>1. Cardinality(S) \in Nat
  BY FS_CardinalityType
<1>2. /\ IsFiniteSet(S \cup {x})
      /\ Cardinality(S \cup {x}) = IF x \in S THEN Cardinality(S) ELSE Cardinality(S) + 1
  BY FS_AddElement
<1> QED BY <1>1, <1>2

LEMMA SomeLess ==
    ASSUME NEW S, IsFiniteSet(S), NEW T \in SUBSET S
    PROVE  /\ IsFiniteSet(T)
           /\ Cardinality(S) \in Nat /\ Cardinality(T) \in Nat
           /\ Cardinality(T) <= Cardinality(S)
BY FS_Subset, FS_CardinalityType

LEMMA OverlapFinite ==
    ASSUME TypeOK, NEW c \in Conns
    PROVE  /\ IsFiniteSet(SameUser(c)) /\ Cardinality(SameUser(c)) \in Nat
           /\ IsFiniteSet(SameIP(c)) /\ Cardinality(SameIP(c)) \in Nat
<1>1. SameUser(c) \subseteq Conns /\ SameIP(c) \subseteq Conns
  BY DEF SameUser, SameIP, TypeOK
<1> QED BY <1>1, ConnsFinite, FS_Subset, FS_CardinalityType

\* A step of Register adds at most one address to a user, one of Unregister none.
LEMMA RegisterIPs ==
    ASSUME TypeOK, NEW c \in Conns, Register(c), NEW u \in Users
    PROVE  /\ currentUserIPs(u)' \subseteq currentUserIPs(u) \cup {meta[c].ip}
           /\ u # meta[c].user => currentUserIPs(u)' = currentUserIPs(u)
BY RegisterEffect DEF currentUserIPs

LEMMA UnregisterIPs ==
    ASSUME TypeOK, NEW c \in Conns, Unregister(c), NEW u \in Users
    PROVE  currentUserIPs(u)' \subseteq currentUserIPs(u)
<1>1. \A i \in IPs : activeIPsCount[u][i] \in Nat
  BY DEF TypeOK
<1> QED BY <1>1, UnregisterEffect DEF currentUserIPs, Dec

LEMMA NextFinite == TypeOK /\ IndexFinite /\ [Next]_vars => IndexFinite'
<1> SUFFICES ASSUME TypeOK, IndexFinite, [Next]_vars PROVE IndexFinite'
  OBVIOUS
<1>1. ASSUME NEW c \in Conns, Register(c) PROVE IndexFinite'
  <2>1. ASSUME NEW u \in Users
        PROVE  IsFiniteSet(activeConnByUser[u])' /\ IsFiniteSet(currentUserIPs(u))'
    <3>1. IsFiniteSet(activeConnByUser[u]) /\ IsFiniteSet(currentUserIPs(u))
      BY DEF IndexFinite
    <3>2. IsFiniteSet(activeConnByUser'[u])
      <4>1. IsFiniteSet(activeConnByUser[u] \cup {meta[c].id})
        BY <3>1, OneMore
      <4> QED BY <1>1, <3>1, <4>1, RegisterEffect
    <3>3. IsFiniteSet(currentUserIPs(u) \cup {meta[c].ip})
      BY <3>1, OneMore
    <3>4. IsFiniteSet(currentUserIPs(u)')
      BY <1>1, <3>3, RegisterIPs, SomeLess
    <3> QED BY <3>2, <3>4
  <2>2. ASSUME NEW i \in IPs PROVE IsFiniteSet(activeConnByIP[i])'
    <3>1. IsFiniteSet(activeConnByIP[i]) /\ IsFiniteSet(activeConnByIP[i] \cup {meta[c].id})
      BY OneMore DEF IndexFinite
    <3> QED BY <1>1, <3>1, RegisterEffect
  <2> QED BY <2>1, <2>2 DEF IndexFinite
<1>2. ASSUME NEW c \in Conns, Unregister(c) PROVE IndexFinite'
  <2>1. ASSUME NEW u \in Users
        PROVE  IsFiniteSet(activeConnByUser[u])' /\ IsFiniteSet(currentUserIPs(u))'
    <3>1. IsFiniteSet(activeConnByUser[u]) /\ IsFiniteSet(currentUserIPs(u))
      BY DEF IndexFinite
    <3>2. activeConnByUser'[u] \subseteq activeConnByUser[u]
      BY <1>2, UnregisterEffect
    <3> QED BY <1>2, <3>1, <3>2, UnregisterIPs, SomeLess
  <2>2. ASSUME NEW i \in IPs PROVE IsFiniteSet(activeConnByIP[i])'
    <3>1. activeConnByIP'[i] \subseteq activeConnByIP[i] /\ IsFiniteSet(activeConnByIP[i])
      BY <1>2, UnregisterEffect DEF IndexFinite
    <3> QED BY <3>1, SomeLess
  <2> QED BY <2>1, <2>2 DEF IndexFinite
<1>3. CASE ~\E c \in Conns : Register(c) \/ Unregister(c)
  BY <1>3, QuietStep DEF IndexFinite, currentUserIPs, indexVars
<1> QED BY <1>1, <1>2, <1>3

\* Register(d) enters d in the overlap of every other admitted connection; no
\* other step changes an overlap, and nobody returns to the start.
LEMMA OverlapEffect ==
    ASSUME TypeOK, [Next]_vars, NEW c \in Conns
    PROVE  /\ \A d \in Conns : Register(d) =>
                 overlap'[c] = IF d = c THEN {}
                               ELSE IF pc[c] = "admitted" THEN overlap[c] \cup {d}
                               ELSE overlap[c]
           /\ (~\E d \in Conns : Register(d)) => overlap'[c] = overlap[c]
<1>1. ASSUME NEW d \in Conns, Register(d)
      PROVE  overlap'[c] = IF d = c THEN {}
                           ELSE IF pc[c] = "admitted" THEN overlap[c] \cup {d}
                           ELSE overlap[c]
  BY <1>1 DEF Register
<1>2. ASSUME ~\E d \in Conns : Register(d) PROVE overlap'[c] = overlap[c]
  <2>1. CASE NodeStep
    BY <2>1 DEF NodeStep, UpdateUsers, UpdateAliveList, BuildAlivePayload, Reload, Tick, histVars
  <2>2. CASE UNCHANGED vars
    BY <2>2 DEF vars, histVars
  <2>3. ASSUME NEW d \in Conns, ConnStep(d) PROVE overlap'[c] = overlap[c]
    BY <1>2, <2>3 DEF ConnStep, Route, CheckUser, CheckLimits, RegisterConn, ReadBucket,
                      CreateBucket, Unregister, UnregisterConn, histVars
  <2> QED BY <2>1, <2>2, <2>3 DEF Next
<1> QED BY <1>1, <1>2

\* Once registered, a goroutine never goes back to an earlier step.
LEMMA PastRegister ==
    ASSUME TypeOK, [Next]_vars, NEW d \in Conns,
           pc[d] \notin {"idle", "built", "looked", "admitted", "denied"}
    PROVE  pc'[d] \notin {"idle", "built", "looked", "admitted", "denied"}
<1>1. CASE NodeStep
  BY <1>1 DEF NodeStep, UpdateUsers, UpdateAliveList, BuildAlivePayload, Reload, Tick, connVars
<1>2. CASE UNCHANGED vars
  BY <1>2 DEF vars, connVars
<1>3. ASSUME NEW c \in Conns, ConnStep(c)
      PROVE  pc'[d] \notin {"idle", "built", "looked", "admitted", "denied"}
  BY <1>3 DEF ConnStep, Route, CheckUser, CheckLimits, Register, RegisterConn, ReadBucket,
              CreateBucket, Unregister, UnregisterConn, Goto, TypeOK
<1> QED BY <1>1, <1>2, <1>3 DEF Next

LEMMA NextOverlapRegistered ==
    TypeOK /\ OverlapRegistered /\ [Next]_vars => OverlapRegistered'
<1> SUFFICES ASSUME TypeOK, OverlapRegistered, [Next]_vars,
                    NEW c \in Conns, NEW d \in overlap'[c]
             PROVE  pc'[d] \notin {"idle", "built", "looked", "admitted", "denied"}
  BY DEF OverlapRegistered
<1>1. CASE d \in overlap[c]
  BY <1>1, PastRegister DEF OverlapRegistered, TypeOK
<1>2. CASE d \notin overlap[c]
  <2>1. PICK e \in Conns : Register(e)
    BY <1>2, OverlapEffect
  <2>2. d = e
    BY <1>2, <2>1, OverlapEffect
  <2> QED BY <2>1, <2>2, RegisterEffect DEF TypeOK
<1> QED BY <1>1, <1>2

\* A connection becomes admitted only by a Check that found room everywhere.
LEMMA BecomesAdmitted ==
    ASSUME TypeOK, [Next]_vars, NEW c \in Conns, pc[c] # "admitted", pc'[c] = "admitted"
    PROVE  /\ UNCHANGED <<indexVars, meta, looked, overlap>>
           /\ ~UserFull(c) /\ ~IPFull(c) /\ ~DeviceFull(c)
           /\ newDevice'[c] => UnknownDevice(c)
<1>1. CheckLimits(c)
  <2>1. pc'[c] # pc[c]
    OBVIOUS
  <2>2. ~NodeStep /\ ~UNCHANGED vars
    BY <2>1 DEF NodeStep, UpdateUsers, UpdateAliveList, BuildAlivePayload, Reload, Tick,
                connVars, vars
  <2>3. ASSUME NEW d \in Conns, ConnStep(d), ~CheckLimits(c) PROVE FALSE
    <3>1. CASE d # c
      <4>1. \E label : pc' = [pc EXCEPT ![d] = label]
        BY <2>3 DEF ConnStep, Route, CheckUser, CheckLimits, Register, RegisterConn,
                    ReadBucket, CreateBucket, Unregister, UnregisterConn, Goto
      <4> QED BY <2>1, <3>1, <4>1 DEF TypeOK
    <3>2. CASE d = c
      BY <2>3, <3>2 DEF ConnStep, Route, CheckUser, Register, RegisterConn, ReadBucket,
                        CreateBucket, Unregister, UnregisterConn, Goto, TypeOK
    <3> QED BY <3>1, <3>2
  <2> QED BY <2>2, <2>3 DEF Next
<1>2. Decision(c) = "allow"
  BY <1>1 DEF CheckLimits, Goto, TypeOK
<1>3. ~UserFull(c) /\ ~IPFull(c) /\ ~DeviceFull(c)
  BY <1>2, Zenon DEF Decision
<1>4. newDevice'[c] => UnknownDevice(c)
  BY <1>1, Zenon DEF CheckLimits, TypeOK
<1> QED BY <1>1, <1>3, <1>4 DEF CheckLimits

\* What an admitted connection carries to its Register does not change.
LEMMA StaysAdmitted ==
    ASSUME TypeOK, [Next]_vars, NEW c \in Conns, pc[c] = "admitted", pc'[c] = "admitted"
    PROVE  /\ meta'[c] = meta[c] /\ looked'[c] = looked[c]
           /\ newDevice'[c] = newDevice[c]
<1>1. CASE NodeStep
  BY <1>1 DEF NodeStep, UpdateUsers, UpdateAliveList, BuildAlivePayload, Reload, Tick,
              connVars, histVars
<1>2. CASE UNCHANGED vars
  BY <1>2 DEF vars, connVars, histVars
<1>3. ASSUME NEW d \in Conns, ConnStep(d)
      PROVE  /\ meta'[c] = meta[c] /\ looked'[c] = looked[c]
             /\ newDevice'[c] = newDevice[c]
  <2>1. CASE d = c
    BY <1>3, <2>1 DEF ConnStep, Route, CheckUser, CheckLimits, Register, RegisterConn,
                      ReadBucket, CreateBucket, Unregister, UnregisterConn, Goto, TypeOK
  <2>2. CASE d # c
    BY <1>3, <2>2 DEF ConnStep, Route, CheckUser, CheckLimits, Register, RegisterConn,
                      ReadBucket, CreateBucket, Unregister, UnregisterConn, TypeOK, histVars
  <2> QED BY <2>1, <2>2
<1> QED BY <1>1, <1>2, <1>3 DEF Next

\* Register(d) adds d to what another admitted connection may overshoot by.
LEMMA RegisterOverlap ==
    ASSUME TypeOK, OverlapRegistered, [Next]_vars, NEW c \in Conns, NEW d \in Conns,
           Register(d), pc[c] = "admitted", c # d
    PROVE  /\ Cardinality(SameUser(c)') = Cardinality(SameUser(c))
                 + (IF meta[d].user = meta[c].user THEN 1 ELSE 0)
           /\ Cardinality(SameIP(c)') = Cardinality(SameIP(c))
                 + (IF meta[d].ip = meta[c].ip THEN 1 ELSE 0)
<1>1. overlap'[c] = overlap[c] \cup {d} /\ meta' = meta
  BY OverlapEffect, RegisterEffect
<1>2. d \notin overlap[c]
  BY RegisterEffect DEF OverlapRegistered
<1>5. Cardinality(SameIP(c)') = Cardinality(SameIP(c))
         + (IF meta[d].ip = meta[c].ip THEN 1 ELSE 0)
  <2>1. CASE meta[d].ip = meta[c].ip
    <3>1. SameIP(c)' = SameIP(c) \cup {d} /\ d \notin SameIP(c)
      BY <1>1, <1>2, <2>1 DEF SameIP
    <3> QED BY <2>1, <3>1, OneMore, OverlapFinite
  <2>2. CASE meta[d].ip # meta[c].ip
    <3>1. SameIP(c)' = SameIP(c)
      BY <1>1, <2>2 DEF SameIP
    <3> QED BY <2>2, <3>1, OverlapFinite
  <2> QED BY <2>1, <2>2
<1>3. CASE meta[d].user = meta[c].user
  <2>1. SameUser(c)' = SameUser(c) \cup {d} /\ d \notin SameUser(c)
    BY <1>1, <1>2, <1>3 DEF SameUser
  <2>2. Cardinality(SameUser(c)') = Cardinality(SameUser(c)) + 1
    BY <2>1, OneMore, OverlapFinite
  <2> QED BY <1>3, <2>2, <1>5
<1>4. CASE meta[d].user # meta[c].user
  <2>1. SameUser(c)' = SameUser(c)
    BY <1>1, <1>4 DEF SameUser
  <2> QED BY <1>4, <2>1, <1>5, OverlapFinite
<1> QED BY <1>3, <1>4

\* Without a Register, what an admitted connection may overshoot by stays.
LEMMA QuietOverlap ==
    ASSUME TypeOK, OverlapRegistered, [Next]_vars, NEW c \in Conns,
           ~\E d \in Conns : Register(d), meta'[c] = meta[c]
    PROVE  SameUser(c)' = SameUser(c) /\ SameIP(c)' = SameIP(c)
<1>1. overlap'[c] = overlap[c] /\ overlap[c] \subseteq Conns
  BY OverlapEffect DEF TypeOK
<1>2. \A d \in overlap[c] : meta'[d] = meta[d]
  <2>1. CASE \E e \in Conns : Unregister(e)
    BY <2>1, UnregisterEffect
  <2>2. CASE ~\E e \in Conns : Unregister(e)
    BY <1>1, <2>2, QuietStep DEF OverlapRegistered
  <2> QED BY <2>1, <2>2
<1> QED BY <1>1, <1>2 DEF SameUser, SameIP

LEMMA AdmittedUser ==
    ASSUME TypeOK, NEW c \in Conns, pc[c] = "admitted"
    PROVE  meta[c].user \in Users /\ meta[c].ip \in IPs \cup {NoIP} /\ looked[c].device \in Nat
BY DEF TypeOK, Meta, User

\* One admitted connection, one limit: the index it was checked against holds
\* fewer entries than the limit plus those who registered in between.
LEMMA NextUserOvershoot ==
    ASSUME OvershootInv, [Next]_vars, NEW c \in Conns, pc'[c] = "admitted",
           MaxConnPerUser > 0
    PROVE  Cardinality(activeConnByUser'[meta'[c].user])
               < MaxConnPerUser + Cardinality(SameUser(c)')
<1> USE DEF OvershootInv
<1>1. CASE pc[c] # "admitted"
  <2>1. TypeOK' /\ meta' = meta /\ activeConnByUser' = activeConnByUser
    BY <1>1, NextTyped, BecomesAdmitted DEF indexVars
  <2>2. meta[c].user \in Users
    BY <2>1 DEF TypeOK
  <2>3. Cardinality(activeConnByUser[meta[c].user]) \in Nat
    BY <2>2, FS_CardinalityType DEF IndexFinite
  <2>4. ~(Cardinality(activeConnByUser[meta[c].user]) >= MaxConnPerUser)
    BY <1>1, BecomesAdmitted DEF UserFull
  <2>5. overlap'[c] = overlap[c] /\ SameUser(c)' = SameUser(c)
    BY <1>1, <2>1, BecomesAdmitted DEF SameUser
  <2>6. Cardinality(SameUser(c)) \in Nat
    BY OverlapFinite
  <2> QED BY <2>1, <2>3, <2>4, <2>5, <2>6, LimitsAreNat
<1>2. CASE pc[c] = "admitted"
  <2> DEFINE u == meta[c].user
             n == Cardinality(activeConnByUser[u])
             k == Cardinality(SameUser(c))
  <2>1. u \in Users /\ meta'[c] = meta[c]
    BY <1>2, AdmittedUser, StaysAdmitted
  <2>2. IsFiniteSet(activeConnByUser[u]) /\ n \in Nat /\ k \in Nat
    BY <2>1, FS_CardinalityType, OverlapFinite DEF IndexFinite
  <2>3. n < MaxConnPerUser + k
    BY <1>2 DEF OvershootNeedsOverlap
  <2>4. ASSUME NEW d \in Conns, Register(d)
        PROVE  Cardinality(activeConnByUser'[u]) < MaxConnPerUser + Cardinality(SameUser(c)')
    <3>0. \A w \in Users : activeConnByUser'[w] =
              IF w = meta[d].user THEN activeConnByUser[w] \cup {meta[d].id}
              ELSE activeConnByUser[w]
      BY <2>4, RegisterEffect
    <3>1. c # d
      BY <2>4, RegisterEffect DEF TypeOK
    <3>2. Cardinality(SameUser(c)') = k + (IF meta[d].user = u THEN 1 ELSE 0)
      BY <1>2, <2>4, <3>1, RegisterOverlap
    <3>3. CASE meta[d].user = u
      <4>1. activeConnByUser'[u] = activeConnByUser[u] \cup {meta[d].id}
        BY <2>1, <3>0, <3>3
      <4>2. Cardinality(activeConnByUser'[u]) \in Nat /\ Cardinality(activeConnByUser'[u]) <= n + 1
        BY <2>2, <4>1, OneMore
      <4> QED BY <2>2, <2>3, <3>2, <3>3, <4>2, LimitsAreNat
    <3>4. CASE meta[d].user # u
      <4>1. activeConnByUser'[u] = activeConnByUser[u]
        BY <2>1, <3>0, <3>4
      <4> QED BY <2>2, <2>3, <3>2, <3>4, <4>1
    <3> QED BY <3>3, <3>4
  <2>5. CASE ~\E d \in Conns : Register(d)
    <3>1. Cardinality(SameUser(c)') = k
      BY <2>1, <2>5, QuietOverlap
    <3>2. activeConnByUser'[u] \subseteq activeConnByUser[u]
      <4>1. ASSUME NEW e \in Conns, Unregister(e)
            PROVE  activeConnByUser'[u] \subseteq activeConnByUser[u]
        <5>1. \A w \in Users : activeConnByUser'[w] =
                  IF w = meta[e].user THEN activeConnByUser[w] \ {meta[e].id}
                  ELSE activeConnByUser[w]
          BY <4>1, UnregisterEffect
        <5> QED BY <2>1, <5>1
      <4>2. CASE ~\E e \in Conns : Unregister(e)
        BY <2>5, <4>2, QuietStep DEF indexVars
      <4> QED BY <4>1, <4>2
    <3>3. Cardinality(activeConnByUser'[u]) \in Nat /\ Cardinality(activeConnByUser'[u]) <= n
      BY <2>2, <3>2, SomeLess
    <3> QED BY <2>1, <2>2, <2>3, <3>1, <3>3, LimitsAreNat
  <2> QED BY <2>1, <2>4, <2>5
<1> QED BY <1>1, <1>2
LEMMA NextIPOvershoot ==
    ASSUME OvershootInv, [Next]_vars, NEW c \in Conns, pc'[c] = "admitted",
           MaxConnPerIP > 0, meta'[c].ip # NoIP
    PROVE  Cardinality(activeConnByIP'[meta'[c].ip])
               < MaxConnPerIP + Cardinality(SameIP(c)')
<1> USE DEF OvershootInv
<1>1. CASE pc[c] # "admitted"
  <2>1. TypeOK' /\ meta' = meta /\ activeConnByIP' = activeConnByIP
    BY <1>1, NextTyped, BecomesAdmitted DEF indexVars
  <2>2. meta[c].ip \in IPs
    BY <2>1 DEF TypeOK, Meta
  <2>3. Cardinality(activeConnByIP[meta[c].ip]) \in Nat
    BY <2>2, FS_CardinalityType DEF IndexFinite
  <2>4. ~(Cardinality(activeConnByIP[meta[c].ip]) >= MaxConnPerIP)
    BY <1>1, <2>1, BecomesAdmitted DEF IPFull
  <2>5. overlap'[c] = overlap[c] /\ SameIP(c)' = SameIP(c)
    BY <1>1, <2>1, BecomesAdmitted DEF SameIP
  <2>6. Cardinality(SameIP(c)) \in Nat
    BY OverlapFinite
  <2> QED BY <2>1, <2>3, <2>4, <2>5, <2>6, LimitsAreNat
<1>2. CASE pc[c] = "admitted"
  <2> DEFINE i == meta[c].ip
             n == Cardinality(activeConnByIP[i])
             k == Cardinality(SameIP(c))
  <2>1. i \in IPs /\ meta'[c] = meta[c]
    BY <1>2, AdmittedUser, StaysAdmitted
  <2>2. IsFiniteSet(activeConnByIP[i]) /\ n \in Nat /\ k \in Nat
    BY <2>1, FS_CardinalityType, OverlapFinite DEF IndexFinite
  <2>3. n < MaxConnPerIP + k
    BY <1>2, <2>1 DEF OvershootNeedsOverlap
  <2>4. ASSUME NEW d \in Conns, Register(d)
        PROVE  Cardinality(activeConnByIP'[i]) < MaxConnPerIP + Cardinality(SameIP(c)')
    <3>0. \A w \in IPs : activeConnByIP'[w] =
              IF w = meta[d].ip THEN activeConnByIP[w] \cup {meta[d].id}
              ELSE activeConnByIP[w]
      BY <2>4, RegisterEffect
    <3>1. c # d
      BY <2>4, RegisterEffect DEF TypeOK
    <3>2. Cardinality(SameIP(c)') = k + (IF meta[d].ip = i THEN 1 ELSE 0)
      BY <1>2, <2>4, <3>1, RegisterOverlap
    <3>3. CASE meta[d].ip = i
      <4>1. activeConnByIP'[i] = activeConnByIP[i] \cup {meta[d].id}
        BY <2>1, <3>0, <3>3
      <4>2. Cardinality(activeConnByIP'[i]) \in Nat /\ Cardinality(activeConnByIP'[i]) <= n + 1
        BY <2>2, <4>1, OneMore
      <4> QED BY <2>2, <2>3, <3>2, <3>3, <4>2, LimitsAreNat
    <3>4. CASE meta[d].ip # i
      <4>1. activeConnByIP'[i] = activeConnByIP[i]
        BY <2>1, <3>0, <3>4
      <4> QED BY <2>2, <2>3, <3>2, <3>4, <4>1
    <3> QED BY <3>3, <3>4
  <2>5. CASE ~\E d \in Conns : Register(d)
    <3>1. Cardinality(SameIP(c)') = k
      BY <2>1, <2>5, QuietOverlap
    <3>2. activeConnByIP'[i] \subseteq activeConnByIP[i]
      <4>1. ASSUME NEW e \in Conns, Unregister(e)
            PROVE  activeConnByIP'[i] \subseteq activeConnByIP[i]
        <5>1. \A w \in IPs : activeConnByIP'[w] =
                  IF w = meta[e].ip THEN activeConnByIP[w] \ {meta[e].id}
                  ELSE activeConnByIP[w]
          BY <4>1, UnregisterEffect
        <5> QED BY <2>1, <5>1
      <4>2. CASE ~\E e \in Conns : Unregister(e)
        BY <2>5, <4>2, QuietStep DEF indexVars
      <4> QED BY <4>1, <4>2
    <3>3. Cardinality(activeConnByIP'[i]) \in Nat /\ Cardinality(activeConnByIP'[i]) <= n
      BY <2>2, <3>2, SomeLess
    <3> QED BY <2>1, <2>2, <2>3, <3>1, <3>3, LimitsAreNat
  <2> QED BY <2>1, <2>4, <2>5
<1> QED BY <1>1, <1>2

LEMMA NextDeviceOvershoot ==
    ASSUME OvershootInv, [Next]_vars, NEW c \in Conns, pc'[c] = "admitted", newDevice'[c]
    PROVE  Cardinality(currentUserIPs(meta[c].user)') < looked'[c].device + Cardinality(SameUser(c)')
           /\ meta'[c] = meta[c]
<1> USE DEF OvershootInv
<1>1. CASE pc[c] # "admitted"
  <2>1. TypeOK' /\ meta' = meta /\ looked' = looked /\ activeIPsCount' = activeIPsCount
    BY <1>1, NextTyped, BecomesAdmitted DEF indexVars
  <2>2. meta[c].user \in Users /\ looked[c].device \in Nat
    BY <2>1 DEF TypeOK, User
  <2>3. Cardinality(currentUserIPs(meta[c].user)) \in Nat
    BY <2>2, FS_CardinalityType DEF IndexFinite
  <2>4. ~(Cardinality(currentUserIPs(meta[c].user)) >= looked[c].device)
    BY <1>1, BecomesAdmitted DEF DeviceFull, DeviceCountReaches
  <2>5. SameUser(c)' = SameUser(c)
    BY <1>1, <2>1, BecomesAdmitted DEF SameUser
  <2>6. currentUserIPs(meta[c].user)' = currentUserIPs(meta[c].user)
    BY <2>1 DEF currentUserIPs
  <2>7. Cardinality(SameUser(c)) \in Nat
    BY OverlapFinite
  <2> QED BY <2>1, <2>2, <2>3, <2>4, <2>5, <2>6, <2>7
<1>2. CASE pc[c] = "admitted"
  <2> DEFINE u == meta[c].user
             n == Cardinality(currentUserIPs(u))
             k == Cardinality(SameUser(c))
             m == looked[c].device
  <2>1. /\ u \in Users /\ m \in Nat
        /\ meta'[c] = meta[c] /\ looked'[c] = looked[c] /\ newDevice[c]
    BY <1>2, AdmittedUser, StaysAdmitted
  <2>2. IsFiniteSet(currentUserIPs(u)) /\ n \in Nat /\ k \in Nat
    BY <2>1, FS_CardinalityType, OverlapFinite DEF IndexFinite
  <2>3. n < m + k
    BY <1>2, <2>1 DEF DeviceOvershootNeedsOverlap
  <2>4. ASSUME NEW d \in Conns, Register(d)
        PROVE  Cardinality(currentUserIPs(u)') < m + Cardinality(SameUser(c)')
    <3>1. c # d
      BY <2>4, RegisterEffect DEF TypeOK
    <3>2. Cardinality(SameUser(c)') = k + (IF meta[d].user = u THEN 1 ELSE 0)
      BY <1>2, <2>4, <3>1, RegisterOverlap
    <3>3. meta' = meta
      BY <2>4, RegisterEffect
    <3>4. CASE meta[d].user = u
      <4>1. currentUserIPs(u)' \subseteq currentUserIPs(u) \cup {meta[d].ip}
        BY <2>1, <2>4, <3>3, RegisterEffect DEF currentUserIPs
      <4>2. /\ IsFiniteSet(currentUserIPs(u) \cup {meta[d].ip})
            /\ Cardinality(currentUserIPs(u) \cup {meta[d].ip}) \in Nat
            /\ Cardinality(currentUserIPs(u) \cup {meta[d].ip}) <= n + 1
        BY <2>2, OneMore
      <4>3. /\ Cardinality(currentUserIPs(u)') \in Nat
            /\ Cardinality(currentUserIPs(u)') <= Cardinality(currentUserIPs(u) \cup {meta[d].ip})
        BY <4>1, <4>2, SomeLess
      <4> QED BY <2>1, <2>2, <2>3, <3>2, <3>4, <4>2, <4>3
    <3>5. CASE meta[d].user # u
      <4>1. currentUserIPs(u)' = currentUserIPs(u)
        BY <2>1, <2>4, <3>3, <3>5, RegisterEffect DEF currentUserIPs
      <4> QED BY <2>1, <2>2, <2>3, <3>2, <3>5, <4>1
    <3> QED BY <3>4, <3>5
  <2>5. CASE ~\E d \in Conns : Register(d)
    <3>1. Cardinality(SameUser(c)') = k
      BY <2>1, <2>5, QuietOverlap
    <3>2. currentUserIPs(u)' \subseteq currentUserIPs(u)
      <4>1. ASSUME NEW e \in Conns, Unregister(e) PROVE currentUserIPs(u)' \subseteq currentUserIPs(u)
        <5>1. \A i \in IPs : activeIPsCount[u][i] \in Nat
          BY <2>1 DEF TypeOK
        <5> QED BY <2>1, <4>1, <5>1, UnregisterEffect DEF currentUserIPs, Dec
      <4>2. CASE ~\E e \in Conns : Unregister(e)
        BY <2>1, <2>5, <4>2, QuietStep DEF indexVars, currentUserIPs
      <4> QED BY <4>1, <4>2
    <3>3. Cardinality(currentUserIPs(u)') \in Nat /\ Cardinality(currentUserIPs(u)') <= n
      BY <2>2, <3>2, SomeLess
    <3> QED BY <2>1, <2>2, <2>3, <3>1, <3>3
  <2> QED BY <2>1, <2>4, <2>5
<1> QED BY <1>1, <1>2

LEMMA InitOvershoot == Init => OvershootInv
<1> SUFFICES ASSUME Init PROVE OvershootInv
  OBVIOUS
<1>1. IndexFinite
  <2>1. \A u \in Users : currentUserIPs(u) = {}
    BY DEF Init, currentUserIPs
  <2> QED BY <2>1, FS_EmptySet DEF Init, IndexFinite
<1>2. OverlapRegistered /\ OvershootNeedsOverlap /\ DeviceOvershootNeedsOverlap
  BY DEF Init, OverlapRegistered, OvershootNeedsOverlap, DeviceOvershootNeedsOverlap
<1> QED BY <1>1, <1>2, InitTyped DEF OvershootInv

LEMMA NextOvershoot == OvershootInv /\ [Next]_vars => OvershootInv'
<1> SUFFICES ASSUME OvershootInv, [Next]_vars PROVE OvershootInv'
  OBVIOUS
<1>1. TypeOK' /\ IndexFinite' /\ OverlapRegistered'
  BY NextTyped, NextFinite, NextOverlapRegistered DEF OvershootInv
<1>2. OvershootNeedsOverlap'
  BY NextUserOvershoot, NextIPOvershoot DEF OvershootNeedsOverlap
<1>3. DeviceOvershootNeedsOverlap'
  BY NextDeviceOvershoot DEF DeviceOvershootNeedsOverlap
<1> QED BY <1>1, <1>2, <1>3 DEF OvershootInv

\* The gap between Check and Register is all that exceeds a limit: an admitted
\* connection still finds fewer ConnIDs of its user, and of its address, than
\* the limit plus the connections that registered since its Check.
THEOREM OvershootBounded == Spec => []OvershootNeedsOverlap
BY InitOvershoot, NextOvershoot, PTL DEF Spec, OvershootInv

\* And a connection let in as a new device fewer addresses of its user than the
\* device limit it was checked against, plus those connections.
THEOREM DeviceOvershootBounded == Spec => []DeviceOvershootNeedsOverlap
BY InitOvershoot, NextOvershoot, PTL DEF Spec, OvershootInv
================================================================================
