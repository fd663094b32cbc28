-------------------------------- MODULE Limiter --------------------------------
(***************************************************************************)
(* Admission control of one node: core/limiter.go, driven by the           *)
(* connection tracker of singbox/tracker.go and the online index of        *)
(* singbox/stats.go.                                                       *)
(*                                                                         *)
(* sing-box runs one goroutine per connection.  Each goroutine takes the   *)
(* steps of RoutedConnection: build the metadata, Check (two critical      *)
(* sections), Register, RegisterConn, wrapSpeedLimit (two critical         *)
(* sections), and later Close.  A step of the model is one critical        *)
(* section; everything may happen between two of them: other connections,  *)
(* UpdateUsers, UpdateAliveList, BuildAlivePayload, a reload of the engine *)
(* or the passage of time.                                                 *)
(***************************************************************************)
EXTENDS Integers, Sequences, FiniteSets

CONSTANTS
    Conns,              \* the connections routed in a behaviour
    Users, NoUser,      \* user names ("user-<id>"), and the empty name
    IPs, NoIP,          \* source addresses, and the invalid address
    RemoteIPs, Blank,   \* addresses in an alive list, and a blank entry
    Kinds,              \* subset of {"tcp", "udp"}
    UserLists,          \* the user lists the panel may send
    AliveLists,         \* the alive lists the panel may send
    MaxConnPerUser,     \* 0 switches a limit off, here and below
    MaxConnPerIP,
    MaxNewConnPerUser,
    MaxNewConnPerIP,
    Window,             \* the rate window, in ticks
    MaxLag,             \* ticks between taking StartedAt and checking it
    MaxTime,            \* bound on the clock
    MaxGen              \* bound on the sing-box instances

User == [device : Nat, speed : Int]     \* panel.User without ID and UUID

ASSUME ConnsFinite == IsFiniteSet(Conns)
ASSUME LimitsAreNat ==
    /\ MaxConnPerUser \in Nat /\ MaxConnPerIP \in Nat
    /\ MaxNewConnPerUser \in Nat /\ MaxNewConnPerIP \in Nat
ASSUME ClockBounds ==
    /\ Window \in Nat \ {0} /\ MaxLag \in Nat
    /\ MaxTime \in Nat /\ MaxGen \in Nat \ {0}
ASSUME Sentinels == NoUser \notin Users /\ NoIP \notin IPs
ASSUME KindsAssumption == Kinds \subseteq {"tcp", "udp"}
ASSUME ListsAssumption ==
    /\ \A l \in UserLists : DOMAIN l \subseteq Users /\ \A u \in DOMAIN l : l[u] \in User
    /\ AliveLists \subseteq [Users -> Seq(RemoteIPs \cup {Blank})]

VARIABLES
    pc,                 \* where each connection's goroutine is
    meta,               \* its ConnMeta
    looked,             \* the user record Check copied under configMu
    wanted,             \* the speed limit UserSpeedBucket read under RLock
    bucket,             \* the bucket its wrapped connection draws from
    generation,         \* the sing-box instance now routing
    connSequence,       \* per instance: limiterTracker.connSequence
    userByName, speedBucketByName,
    activeConnByUser, activeConnByIP,   \* ConnIDs per key
    userEntries, ipEntries,             \* the keys present in those two maps
    activeIPsCount,
    oldUserOnline,      \* the addresses of the last alive payload
    remoteUserOnline, aliveList,
    recentConnByUser, recentConnByIP,   \* rate windows
    activeUsers,        \* StatsTracker.activeUsers: ConnIDs per user
    now,
    overlap,            \* history: who registered since this one's Check
    newDevice,          \* history: Check let it in as a device not yet known
    passed              \* history: the connections that passed the per-user rate check

connVars  == <<pc, meta, looked, wanted, bucket>>
userVars  == <<userByName, speedBucketByName>>
indexVars == <<activeConnByUser, activeConnByIP, activeIPsCount>>
entryVars == <<userEntries, ipEntries>>
aliveVars == <<oldUserOnline, remoteUserOnline, aliveList>>
rateVars  == <<recentConnByUser, recentConnByIP, passed>>
genVars   == <<generation, connSequence>>
histVars  == <<overlap, newDevice>>
vars == <<connVars, userVars, indexVars, entryVars, aliveVars, rateVars,
          genVars, histVars, activeUsers, now>>

NoMeta   == [id |-> 0, user |-> NoUser, ip |-> NoIP, kind |-> "tcp", at |-> 0]
NoRecord == [device |-> 0, speed |-> 0]
NoRate   == [lastReset |-> 0, count |-> 0]      \* the key is not in the map
NoBucket == [by |-> NoUser, rate |-> 0]

PCs == {"idle", "built", "looked", "admitted", "registered", "tracked",
        "wrapping", "open", "closing", "closed", "denied"}

\* The limiter holds a slot for c: Register has run and Unregister has not.
Holds(c) == pc[c] \in {"registered", "tracked", "wrapping", "open"}

HeldBy(u)      == {c \in Conns : Holds(c) /\ meta[c].user = u}
HeldFrom(u, i) == {c \in HeldBy(u) : meta[c].ip = i}
IdsOf(S)       == {meta[c].id : c \in S}

Init ==
    /\ pc = [c \in Conns |-> "idle"]
    /\ meta = [c \in Conns |-> NoMeta]
    /\ looked = [c \in Conns |-> NoRecord]
    /\ wanted = [c \in Conns |-> 0]
    /\ bucket = [c \in Conns |-> NoBucket]
    /\ generation = 1
    /\ connSequence = [g \in 1..MaxGen |-> 0]
    /\ userByName \in UserLists      \* Node.Start calls UpdateUsers before the engine starts
    /\ speedBucketByName = [u \in Users |-> NoBucket]
    /\ activeConnByUser = [u \in Users |-> {}]
    /\ activeConnByIP = [i \in IPs |-> {}]
    /\ userEntries = {} /\ ipEntries = {}
    /\ activeIPsCount = [u \in Users |-> [i \in IPs |-> 0]]
    /\ oldUserOnline = [u \in Users |-> {}]
    /\ remoteUserOnline = [u \in Users |-> {}]
    /\ aliveList = [u \in Users |-> 0]
    /\ recentConnByUser = [u \in Users |-> NoRate]
    /\ recentConnByIP = [i \in IPs |-> NoRate]
    /\ activeUsers = [u \in Users |-> {}]
    /\ now = 0
    /\ overlap = [c \in Conns |-> {}]
    /\ newDevice = [c \in Conns |-> FALSE]
    /\ passed = {}

Goto(c, label) == pc' = [pc EXCEPT ![c] = label]

--------------------------------------------------------------------------------
(* RoutedConnection / RoutedPacketConnection up to Register. *)

\* buildConnMeta: the instance's own counter numbers the connection.  A
\* connection accepted by an instance that is being replaced still goes
\* through that instance's tracker.
Route(c, u, i, k) ==
    /\ pc[c] = "idle"
    /\ \E g \in 1..generation :
          /\ connSequence' = [connSequence EXCEPT ![g] = @ + 1]
          /\ meta' = [meta EXCEPT ![c] = [id |-> connSequence[g] + 1, user |-> u,
                                          ip |-> i, kind |-> k, at |-> now]]
    /\ Goto(c, "built")
    /\ UNCHANGED <<looked, wanted, bucket, userVars, indexVars, entryVars, aliveVars,
                   rateVars, histVars, generation, activeUsers, now>>

\* Check, first half: the user table is read under configMu, which is then
\* released; the record is used later, under stateMu.
CheckUser(c) ==
    /\ pc[c] = "built"
    /\ IF meta[c].user \in DOMAIN userByName
       THEN /\ looked' = [looked EXCEPT ![c] = userByName[meta[c].user]]
            /\ Goto(c, "looked")
       ELSE /\ Goto(c, "denied")        \* "missing user", "unknown user"
            /\ UNCHANGED looked
    /\ UNCHANGED <<meta, wanted, bucket, userVars, indexVars, entryVars, aliveVars,
                   rateVars, genVars, histVars, activeUsers, now>>

\* checkCPS on the record r of one key: does a connection stamped t pass a
\* limit of n, and what does the record become.
CpsPassesOneMore(r, n, t) ==               \* mutant: off by one at the limit
    r.count = 0 \/ t - r.lastReset >= Window \/ r.count <= n
Expired(r, t) == r.count = 0 \/ t - r.lastReset >= Window
CpsPasses(r, n, t) == Expired(r, t) \/ r.count < n
CpsNext(r, n, t) ==
    IF Expired(r, t) THEN [lastReset |-> t, count |-> 1]
    ELSE IF r.count < n THEN [r EXCEPT !.count = @ + 1] ELSE r

UserRateOK(c) ==
    \/ MaxNewConnPerUser = 0
    \/ CpsPasses(recentConnByUser[meta[c].user], MaxNewConnPerUser, meta[c].at)

IPRateOK(c) ==
    \/ MaxNewConnPerIP = 0 \/ meta[c].ip = NoIP
    \/ CpsPasses(recentConnByIP[meta[c].ip], MaxNewConnPerIP, meta[c].at)

UserFullLate(c) ==                          \* mutant: > for >=
    /\ MaxConnPerUser > 0
    /\ Cardinality(activeConnByUser[meta[c].user]) > MaxConnPerUser

UserFull(c) ==
    /\ MaxConnPerUser > 0
    /\ Cardinality(activeConnByUser[meta[c].user]) >= MaxConnPerUser

IPFull(c) ==
    /\ MaxConnPerIP > 0 /\ meta[c].ip # NoIP
    /\ Cardinality(activeConnByIP[meta[c].ip]) >= MaxConnPerIP

currentUserIPs(u) == {i \in IPs : activeIPsCount[u][i] > 0}

\* A device the limiter has met: connected here, in the last payload, or online elsewhere.
KnownIPs(u) == currentUserIPs(u) \cup oldUserOnline[u] \cup remoteUserOnline[u]

\* currentDeviceCount is the largest of four counts; it reaches n when one of them does.
RemoteCountReaches(u, n) ==                 \* mutant: the panel's counts only
    Cardinality(remoteUserOnline[u]) >= n \/ aliveList[u] >= n

DeviceCountReaches(u, n) ==
    \/ Cardinality(currentUserIPs(u)) >= n
    \/ Cardinality(remoteUserOnline[u]) >= n
    \/ aliveList[u] >= n
    \/ Cardinality(oldUserOnline[u]) >= n

UnknownDevice(c) ==
    /\ looked[c].device > 0 /\ meta[c].ip # NoIP
    /\ meta[c].ip \notin KnownIPs(meta[c].user)

DeviceFull(c) == UnknownDevice(c) /\ DeviceCountReaches(meta[c].user, looked[c].device)

\* The four early returns of Check in their order, then Allow.
Decision(c) ==
    IF ~UserRateOK(c) \/ ~IPRateOK(c) THEN "rate"
    ELSE IF UserFull(c)   THEN "user full"
    ELSE IF IPFull(c)     THEN "ip full"
    ELSE IF DeviceFull(c) THEN "device limit"
    ELSE "allow"

\* Check, second half, under stateMu.  A connection refused further down has
\* already used up its rate allowance and left (possibly empty) map entries.
CheckLimits(c) ==
    LET u == meta[c].user
        i == meta[c].ip
        t == meta[c].at
    IN
    /\ pc[c] = "looked"
    /\ IF MaxNewConnPerUser > 0
       THEN /\ recentConnByUser' =
                 [recentConnByUser EXCEPT ![u] = CpsNext(@, MaxNewConnPerUser, t)]
            /\ passed' = IF UserRateOK(c) THEN passed \cup {c} ELSE passed
       ELSE UNCHANGED <<recentConnByUser, passed>>
    /\ recentConnByIP' =
         IF MaxNewConnPerIP > 0 /\ i # NoIP /\ UserRateOK(c)
         THEN [recentConnByIP EXCEPT ![i] = CpsNext(@, MaxNewConnPerIP, t)]
         ELSE recentConnByIP
    /\ userEntries' = IF MaxConnPerUser > 0 /\ Decision(c) # "rate"
                      THEN userEntries \cup {u} ELSE userEntries
    /\ ipEntries' = IF /\ MaxConnPerIP > 0 /\ i # NoIP
                       /\ Decision(c) \notin {"rate", "user full"}
                    THEN ipEntries \cup {i} ELSE ipEntries
    /\ Goto(c, IF Decision(c) = "allow" THEN "admitted" ELSE "denied")
    /\ newDevice' = [newDevice EXCEPT ![c] = Decision(c) = "allow" /\ UnknownDevice(c)]
    /\ UNCHANGED <<meta, looked, wanted, bucket, userVars, indexVars, aliveVars,
                   genVars, activeUsers, now, overlap>>

Register(c) ==
    LET u == meta[c].user
        i == meta[c].ip
    IN
    /\ pc[c] = "admitted"
    /\ activeConnByUser' = [activeConnByUser EXCEPT ![u] = @ \cup {meta[c].id}]
    /\ userEntries' = userEntries \cup {u}
    /\ IF i = NoIP
       THEN UNCHANGED <<activeConnByIP, ipEntries, activeIPsCount>>
       ELSE /\ activeConnByIP' = [activeConnByIP EXCEPT ![i] = @ \cup {meta[c].id}]
            /\ ipEntries' = ipEntries \cup {i}
            /\ activeIPsCount' = [activeIPsCount EXCEPT ![u][i] = @ + 1]
    /\ Goto(c, "registered")
    /\ overlap' = [d \in Conns |-> IF d = c THEN {}
                                   ELSE IF pc[d] = "admitted" THEN overlap[d] \cup {c}
                                   ELSE overlap[d]]
    /\ newDevice' = [newDevice EXCEPT ![c] = FALSE]
    /\ UNCHANGED <<meta, looked, wanted, bucket, userVars, aliveVars, rateVars,
                   genVars, activeUsers, now>>

\* StatsTracker.RegisterConn
RegisterConn(c) ==
    /\ pc[c] = "registered"
    /\ activeUsers' = [activeUsers EXCEPT ![meta[c].user] = @ \cup {meta[c].id}]
    /\ Goto(c, IF meta[c].kind = "tcp" THEN "tracked" ELSE "open")
    /\ UNCHANGED <<meta, looked, wanted, bucket, userVars, indexVars, entryVars, aliveVars,
                   rateVars, genVars, histVars, now>>

--------------------------------------------------------------------------------
(* wrapSpeedLimit, for TCP connections only. *)

\* speedLimitByName[u] is written together with userByName; a missing key reads 0.
SpeedLimitOf(u) == IF u \in DOMAIN userByName THEN userByName[u].speed ELSE 0

\* UserSpeedBucket, under RLock: no limit, or a bucket to share, or go on.
ReadBucket(c) ==
    LET u == meta[c].user IN
    /\ pc[c] = "tracked"
    /\ IF SpeedLimitOf(u) <= 0
       THEN Goto(c, "open") /\ UNCHANGED <<wanted, bucket>>
       ELSE IF speedBucketByName[u] # NoBucket
       THEN /\ bucket' = [bucket EXCEPT ![c] = speedBucketByName[u]]
            /\ Goto(c, "open") /\ UNCHANGED wanted
       ELSE /\ wanted' = [wanted EXCEPT ![c] = SpeedLimitOf(u)]
            /\ Goto(c, "wrapping") /\ UNCHANGED bucket
    /\ UNCHANGED <<meta, looked, userVars, indexVars, entryVars, aliveVars, rateVars,
                   genVars, histVars, activeUsers, now>>

NewBucket(c) == [by |-> c, rate |-> wanted[c]]     \* as mutant: no double check

BucketFor(c) ==
    LET there == speedBucketByName[meta[c].user]
    IN  IF there # NoBucket THEN there ELSE NewBucket(c)

\* UserSpeedBucket, under Lock: the bucket is created only if there is still
\* none, with the rate that was read before the lock was taken.
CreateBucket(c) ==
    /\ pc[c] = "wrapping"
    /\ speedBucketByName' = [speedBucketByName EXCEPT ![meta[c].user] = BucketFor(c)]
    /\ bucket' = [bucket EXCEPT ![c] = BucketFor(c)]
    /\ Goto(c, "open")
    /\ UNCHANGED <<meta, looked, wanted, userByName, indexVars, entryVars, aliveVars,
                   rateVars, genVars, histVars, activeUsers, now>>

--------------------------------------------------------------------------------
(* trackedConn.Close, once per connection (closeOnce). *)

\* One connection less in a map of ConnIDs.
LeftStays(ids, c) == ids                    \* mutant: the delete is forgotten
LeftEmpty(ids, c) == {}                     \* mutant: the key goes with the first close
Left(ids, c) == ids \ {meta[c].id}

\* One reference less; the key goes with the last one.
DecNever(n) == n                            \* mutant: no decrement
Dec(n) == IF n > 0 THEN n - 1 ELSE 0

Unregister(c) ==
    LET u == meta[c].user
        i == meta[c].ip
        usersLeft == Left(activeConnByUser[u], c)
    IN
    /\ pc[c] = "open"
    /\ activeConnByUser' = [activeConnByUser EXCEPT ![u] = usersLeft]
    /\ userEntries' = IF usersLeft = {} THEN userEntries \ {u} ELSE userEntries
    /\ IF i = NoIP
       THEN UNCHANGED <<activeConnByIP, ipEntries, activeIPsCount>>
       ELSE LET ipsLeft == Left(activeConnByIP[i], c) IN
            /\ activeConnByIP' = [activeConnByIP EXCEPT ![i] = ipsLeft]
            /\ ipEntries' = IF ipsLeft = {} THEN ipEntries \ {i} ELSE ipEntries
            /\ activeIPsCount' = [activeIPsCount EXCEPT ![u][i] = Dec(@)]
    /\ Goto(c, "closing")
    /\ UNCHANGED <<meta, looked, wanted, bucket, userVars, aliveVars, rateVars,
                   genVars, histVars, activeUsers, now>>

\* StatsTracker.UnregisterConn
UnregisterConn(c) ==
    /\ pc[c] = "closing"
    /\ activeUsers' = [activeUsers EXCEPT ![meta[c].user] = Left(@, c)]
    /\ Goto(c, "closed")
    /\ UNCHANGED <<meta, looked, wanted, bucket, userVars, indexVars, entryVars, aliveVars,
                   rateVars, genVars, histVars, now>>

--------------------------------------------------------------------------------
(* The operations of the node's ticker goroutine. *)

\* A rate record is dropped once it is older than two windows.
StaleEarly(r) == now - r.lastReset >= Window    \* mutant: one window
Stale(r) == now - r.lastReset > 2 * Window
Prune(r) == IF Stale(r) THEN NoRate ELSE r

\* A bucket outlives the update only if the user stays with the same limit.
KeptBucket(u, l) ==
    IF u \in DOMAIN l /\ SpeedLimitOf(u) = l[u].speed THEN speedBucketByName[u] ELSE NoBucket

UpdateUsers(l) ==
    /\ recentConnByUser' = [u \in Users |-> Prune(recentConnByUser[u])]
    /\ recentConnByIP' = [i \in IPs |-> Prune(recentConnByIP[i])]
    /\ userByName' = l
    /\ speedBucketByName' = [u \in Users |-> KeptBucket(u, l)]
    /\ UNCHANGED <<connVars, indexVars, entryVars, aliveVars, genVars, histVars,
                   passed, activeUsers, now>>

\* stringSet: blank entries and repetitions go, but they were counted.
AsGiven(s) == {s[k] : k \in DOMAIN s}       \* mutant: blanks are kept
stringSet(s) == {s[k] : k \in DOMAIN s} \ {Blank}

UpdateAliveList(a) ==
    /\ aliveList' = [u \in Users |-> Len(a[u])]
    /\ remoteUserOnline' = [u \in Users |-> stringSet(a[u])]
    /\ UNCHANGED <<connVars, userVars, indexVars, entryVars, oldUserOnline, rateVars,
                   genVars, histVars, activeUsers, now>>

\* What is online now: the users with an entry, and their counted addresses.
OnlineOrRecent(u) == currentUserIPs(u) \cup oldUserOnline[u]    \* mutant: nothing ages out

OnlineDevices(u) ==
    IF u \in userEntries /\ u \in DOMAIN userByName THEN currentUserIPs(u) ELSE {}

BuildAlivePayload ==
    /\ oldUserOnline' = [u \in Users |-> OnlineDevices(u)]
    /\ UNCHANGED <<connVars, userVars, indexVars, entryVars, remoteUserOnline, aliveList,
                   rateVars, genVars, histVars, activeUsers, now>>

\* Engine.ReloadUsers: createBox gives the new instance a tracker of its own,
\* whose connSequence starts at zero; the limiter and the statistics are kept.
Reload ==
    /\ generation < MaxGen
    /\ generation' = generation + 1
    /\ UNCHANGED <<connVars, userVars, indexVars, entryVars, aliveVars, rateVars,
                   connSequence, histVars, activeUsers, now>>

\* Time passes; a goroutine that took its stamp is checked within MaxLag ticks.
Tick ==
    /\ now < MaxTime
    /\ \A c \in Conns : pc[c] \in {"built", "looked"} => now - meta[c].at < MaxLag
    /\ now' = now + 1
    /\ UNCHANGED <<connVars, userVars, indexVars, entryVars, aliveVars, rateVars,
                   genVars, histVars, activeUsers>>

ConnStep(c) ==
    \/ \E u \in Users \cup {NoUser}, i \in IPs \cup {NoIP}, k \in Kinds : Route(c, u, i, k)
    \/ CheckUser(c) \/ CheckLimits(c) \/ Register(c) \/ RegisterConn(c)
    \/ ReadBucket(c) \/ CreateBucket(c) \/ Unregister(c) \/ UnregisterConn(c)

NodeStep ==
    \/ \E l \in UserLists : UpdateUsers(l)
    \/ \E a \in AliveLists : UpdateAliveList(a)
    \/ BuildAlivePayload
    \/ Reload
    \/ Tick

Next == NodeStep \/ \E c \in Conns : ConnStep(c)

Spec == Init /\ [][Next]_vars

--------------------------------------------------------------------------------
(* Properties. *)

Entry == [by : Conns \cup {NoUser}, rate : Int]
Rate  == [lastReset : Int, count : Nat]
Meta  == [id : Nat, user : Users \cup {NoUser}, ip : IPs \cup {NoIP},
          kind : {"tcp", "udp"}, at : Nat]

\* The type of every variable; a goroutine past CheckUser carries a real user name.
TypeOK ==
    /\ pc \in [Conns -> PCs]
    /\ meta \in [Conns -> Meta]
    /\ \A c \in Conns : pc[c] \notin {"idle", "built", "denied"} => meta[c].user \in Users
    /\ looked \in [Conns -> User] /\ wanted \in [Conns -> Int]
    /\ bucket \in [Conns -> Entry]
    /\ generation \in 1..MaxGen /\ connSequence \in [1..MaxGen -> Nat]
    /\ userByName \in UserLists
    /\ speedBucketByName \in [Users -> Entry]
    /\ activeConnByUser \in [Users -> SUBSET Nat]
    /\ activeConnByIP \in [IPs -> SUBSET Nat]
    /\ userEntries \in SUBSET Users /\ ipEntries \in SUBSET IPs
    /\ activeIPsCount \in [Users -> [IPs -> Nat]]
    /\ oldUserOnline \in [Users -> SUBSET IPs]
    /\ remoteUserOnline \in [Users -> SUBSET RemoteIPs]
    /\ aliveList \in [Users -> Nat]
    /\ recentConnByUser \in [Users -> Rate] /\ recentConnByIP \in [IPs -> Rate]
    /\ activeUsers \in [Users -> SUBSET Nat]
    /\ now \in 0..MaxTime
    /\ overlap \in [Conns -> SUBSET Conns]
    /\ newDevice \in [Conns -> BOOLEAN]
    /\ passed \in SUBSET Conns

\* The per-address reference count is the number of registered connections of
\* the user from that address, whatever reloads, refusals and closes happened
\* in between (Register, Unregister: "maintain the IP reference count").
RefCountExact ==
    \A u \in Users, i \in IPs : activeIPsCount[u][i] = Cardinality(HeldFrom(u, i))

\* A connection that is gone never keeps a slot: every ConnID in an index
\* belongs to a registered connection of that key.  Otherwise a user would be
\* locked out by connections that do not exist.
NoGhostSlot ==
    /\ \A u \in Users : activeConnByUser[u] \subseteq IdsOf(HeldBy(u))
    /\ \A i \in IPs : activeConnByIP[i] \subseteq
                        IdsOf({c \in Conns : Holds(c) /\ meta[c].ip = i})
    /\ \A u \in Users : activeUsers[u] \subseteq
                        IdsOf({c \in Conns : /\ pc[c] \in {"tracked", "wrapping", "open", "closing"}
                                             /\ meta[c].user = u})

\* Until the engine is first reloaded, no registered connection is missing
\* from the indexes either, so the limits count all of them.  (After a reload
\* two connections may carry the same ConnID, and this is lost.)
NoLostSlot ==
    generation = 1 =>
        \A c \in Conns : Holds(c) =>
            /\ meta[c].id \in activeConnByUser[meta[c].user]
            /\ meta[c].user \in userEntries
            /\ meta[c].ip # NoIP => meta[c].id \in activeConnByIP[meta[c].ip]

\* Who registered between c's Check and c's Register, for the same user or address.
SameUser(c) == {d \in overlap[c] : meta[d].user = meta[c].user}
SameIP(c)   == {d \in overlap[c] : meta[d].ip = meta[c].ip}

\* Check and Register are two critical sections, so the connection caps can be
\* exceeded, but only by connections that registered in between: an admitted
\* connection finds fewer than the limit, plus those.
OvershootNeedsOverlap ==
    \A c \in Conns : pc[c] = "admitted" =>
        /\ MaxConnPerUser > 0 =>
              Cardinality(activeConnByUser[meta[c].user])
                  < MaxConnPerUser + Cardinality(SameUser(c))
        /\ MaxConnPerIP > 0 /\ meta[c].ip # NoIP =>
              Cardinality(activeConnByIP[meta[c].ip])
                  < MaxConnPerIP + Cardinality(SameIP(c))

\* The same for devices: a connection let in as a new device finds fewer
\* addresses of its user than the limit it was checked against, plus those of
\* the connections that registered in between.
DeviceOvershootNeedsOverlap ==
    \A c \in Conns : pc[c] = "admitted" /\ newDevice[c] =>
        Cardinality(currentUserIPs(meta[c].user))
            < looked[c].device + Cardinality(SameUser(c))

\* The alive payload names no address without a registered connection, and,
\* until the engine is first reloaded, every address that has one.
PayloadExact ==
    \A u \in Users :
        LET held == {i \in IPs : HeldFrom(u, i) # {}} IN
        /\ OnlineDevices(u) \subseteq held
        /\ generation = 1 /\ u \in DOMAIN userByName => held \subseteq OnlineDevices(u)

\* The connections of a user that are wrapped while its limit stays the same
\* draw from one bucket: a wrapped connection takes the bucket in the map, and
\* the one in the map is not replaced (the double check of UserSpeedBucket).
SharedBucket ==
    [][/\ \A c \in Conns : bucket'[c] # bucket[c] =>
              bucket'[c] = speedBucketByName'[meta[c].user]
       /\ \A u \in Users : speedBucketByName[u] \notin {NoBucket, speedBucketByName'[u]} =>
              SpeedLimitOf(u)' # SpeedLimitOf(u) \/ u \notin DOMAIN userByName']_vars

\* Dropping old rate records in UpdateUsers changes no later decision: for
\* every stamp a connection can still carry, checkCPS does the same before and
\* after, provided a stamp is checked within a window of being taken.
PruneInvisible ==
    [][MaxLag <= Window => \A t \in (now - MaxLag)..(now + Window) :
        /\ \A u \in Users : pc' = pc =>
              /\ CpsPasses(recentConnByUser'[u], MaxNewConnPerUser, t)
                     = CpsPasses(recentConnByUser[u], MaxNewConnPerUser, t)
              /\ CpsNext(recentConnByUser'[u], MaxNewConnPerUser, t)
                     = CpsNext(recentConnByUser[u], MaxNewConnPerUser, t)
        /\ \A i \in IPs : pc' = pc =>
              CpsNext(recentConnByIP'[i], MaxNewConnPerIP, t)
                  = CpsNext(recentConnByIP[i], MaxNewConnPerIP, t)]_vars

PassedIn(u, from, to) == {c \in passed : meta[c].user = u /\ meta[c].at \in from..to}

\* The windows are anchored at the first connection, not sliding: in a span of
\* one window almost twice the limit may pass the rate check, and never twice
\* the limit, as long as a connection is checked at most one tick after its
\* stamp was taken.
TwoWindowsAtMost ==
    MaxNewConnPerUser > 0 /\ MaxLag <= 1 =>
        \A u \in Users, t \in 0..MaxTime :
            Cardinality(PassedIn(u, t, t + Window - 1)) < 2 * MaxNewConnPerUser

--------------------------------------------------------------------------------
(* What the tests say, and the code does not do. *)

\* core/limiter_test.go:112: the alive payload has every registered address of a known user.
PayloadComplete ==
    \A u \in Users, i \in IPs :
        u \in DOMAIN userByName /\ HeldFrom(u, i) # {} => i \in OnlineDevices(u)
================================================================================
