# A TLA+ model of singbox-bridge

singbox-bridge runs one or more VLESS nodes on an embedded sing-box and keeps
them in step with an Xboard panel. It pulls the user list and the node
configuration, reloads sing-box when they change, admits connections under the
limits the panel and the operator set, counts every user's bytes, and pushes
the counts to the panel. This directory models that behaviour in TLA+, checks
it with TLC on small instances, and proves the most important invariants with
TLAPS for every instance.

## 1. The system

### Components, their state and their operations

| Component | Source | State | Operations |
|---|---|---|---|
| Limiter | `core/limiter.go` | user table and speed buckets (`configMu`); connection indexes, address counts, rate windows, alive lists (`stateMu`) | `Check`, `Register`, `Unregister`, `UserSpeedBucket`, `UpdateUsers`, `UpdateAliveList`, `BuildAlivePayload` |
| Connection tracker | `singbox/tracker.go` | per instance: `connSequence`; per connection: `uploadBuf`, `downloadBuf`, `closeOnce` | `RoutedConnection`, `RoutedPacketConnection`, `Read`/`Write`/`ReadPacket`/`WritePacket`, `Close` |
| StatsTracker | `singbox/stats.go` | traffic records (atomics in a `sync.Map`), online index (`activeUsersMu`) | `AddTraffic`, `CollectTraffic`, `RegisterConn`, `UnregisterConn` |
| TrafficReporter | `core/traffic.go` | `pending`, the state file (`reportMu`) | `Report`, `loadPending` |
| Panel client | `panel/client.go` | ETags and cached contents | `GetUsers`, `GetNodeConfig`, `GetUserAlive`, `PushTraffic`, `SendAlive`, with retries; the decoding of what the panel sends |
| UserSyncer | `core/sync.go` | hashes and config of what was loaded last (`mu`) | `Sync`, `SetInitialHash` |
| Engine | `singbox/engine.go` | the running instance, its users and config (`mu`) | `Start`, `ReloadUsers` with rollback, `Close` |
| Node | `core/node.go`, `core/alive.go` | the above | `Start`, the three tickers, `Shutdown` |
| Process | `main.go`, the systemd unit of `install.sh` | the nodes | start, signal, exit, restart |
| Route configuration | `singbox/config.go` | none | `BuildConfig` |
| Environment | `config/env.go` | none | `Load` |
| Doctor, system checks | `core/doctor.go`, `sys_*.go` | none | check, log |

### How they interact

sing-box runs a goroutine per connection. That goroutine calls the tracker, the
tracker calls the limiter and the statistics, and the connection it returns
counts what passes through it. One goroutine per node (`runTickers`) calls
`Sync`, `Report` and the alive report one after the other; `Sync` calls the
client, the limiter, the reporter and the engine. On a signal, another goroutine
per node runs `Shutdown`, which shares the reporter and the engine with the
ticker goroutine and waits for it only at `reportMu`. The limiter and the
statistics live as long as the process; the sing-box instance and its tracker
are replaced on every reload.

### What is hard

- Connections are admitted in several critical sections, while other
  connections, list updates, reloads and time get in between.
- Counters are emptied by several goroutines with atomic swaps, and the bytes
  are on their way for a while before anything holds them durably.
- A push may take effect and be answered with an error; the process may die
  between an answer and the removal of the file; the file may not be written,
  removed or read.
- A reload can fail, and so can its rollback; a shutdown can meet either at any
  step.
- An answer of the panel may be lost, garbled, or a 304 that stands for what was
  sent before; and whether anything has changed is judged by hashes.
- Six locks are taken by four kinds of goroutines, one of them an RWMutex taken
  together with another lock.
- Several nodes share a process: one that does not start ends all, and a signal
  may come at any step of that.

`PROJECT.json` lists these hazards one by one, at the line where each bites,
with the properties that watch it.

### What correctness means, component by component

- **Limiter**: a registered connection is counted and one that is gone is not;
  limits are exceeded only as far as concurrent admissions explain; the device
  counts and the alive payload follow the connections; the rate limit is bounded
  over any window; connections of one user share one bucket.
- **Accounting**: bytes are in one place at a time; none vanish and none are
  counted twice except where the design admits it; the file holds the backlog;
  what was recorded is counted in the end; a report ends.
- **Following the panel**: the hashes describe what is loaded; a cached tag
  stands for cached content; the limiter has the last list; one instance
  listens; none is forgotten; no change is missed and nothing is reloaded
  without one; the panel cannot lift the safety rules; the node settles on what the
  panel serves.
- **The process**: calls return and fields are not raced for; reported traffic
  survives failed starts, signals and kills, as far as the disk does its part;
  intervals follow their order of precedence; the process comes back.

## 2. The modules

| Module | Contents |
|---|---|
| `Limiter` | the limiter, the admission half of the tracker, the online index of the statistics |
| `MCLimiter` | user lists and alive lists for TLC |
| `LimiterProofs`, `SlotProofs` | theorems about `Limiter`: types, counts and caps; the indexes, the payload, the buckets and the rate windows |
| `Traffic` | the counting half of the tracker, the traffic records, the reporter and its file, the push, start and stop of the process |
| `Ledger`, `TrafficLedger` | what the accounting promises, without counters and reports; the mapping by which `Traffic` implements it |
| `MCTraffic` | which connection, direction and user each chunk belongs to |
| `TrafficProofs`, `LedgerProofs` | theorems about `Traffic`; that it implements `Ledger` |
| `Syncer` | the ETag cache, `Sync`, the engine's reload and rollback, start and shutdown |
| `PanelData` | node configs and alive lists as they are decoded; what the hashes are made of |
| `Options` | `BuildConfig`, and the decision of the first rule that matches |
| `Reconfig` | `Syncer` composed with `PanelData` and `Options` |
| `SyncerProofs`, `ReconfigProofs` | theorems about `Syncer` and `Reconfig` |
| `MCSyncer` | user lists, bodies, routes and connections for TLC |
| `Locks`, `MCLocks` | the six locks of a node, and the calls that take them |
| `LocksProofs` | theorems about `Locks` |
| `Settings` | `Load` of `config/env.go` |
| `Nodes`, `MCNodes` | the process with its nodes, from `Settings` to the exit and the next start; settings for TLC |
| `NodesProofs` | theorems about `Nodes` |

Names are those of the source wherever TLA+ allows it; `PROJECT.json` ("map")
gives the lines each definition models. A definition with the comment *mutant*
is a wrong variant of the definition below it, which stands for a plausible bug;
no specification uses it. It shows that the property it is paired with in
`PROJECT.json` notices such a bug.

### Limiter

A step is one critical section. A connection goes through

    idle -> built -> looked -> admitted -> registered -> tracked -> [wrapping ->] open -> closing -> closed
                  \         \
                   denied    denied

| Action | Code |
|---|---|
| `Route` | `buildConnMeta`: the ConnID is the next number of the instance's own counter |
| `CheckUser` | the first half of `Check`, under `configMu` |
| `CheckLimits` | the second half, under `stateMu`, with the record read in the first: rate windows, caps, device limit, and the entries and allowances that stay when it refuses |
| `Register`, `RegisterConn` | `Limiter.Register`, `StatsTracker.RegisterConn` |
| `ReadBucket`, `CreateBucket` | the two critical sections of `UserSpeedBucket` (TCP only) |
| `Unregister`, `UnregisterConn` | the two calls of `Close` |
| `UpdateUsers`, `UpdateAliveList`, `BuildAlivePayload` | the methods of these names |
| `Reload` | `createBox`: a tracker with a counter of its own |
| `Tick` | the clock |

`activeConnByUser` and `activeConnByIP` hold ConnIDs, and `userEntries` and
`ipEntries` the keys that exist in those maps, since the code leaves empty maps
behind. A reload does not end connections here: nothing in the repository makes
the old instance's connections unregister before the new instance numbers its
own; whether sing-box's `Close` ends them is up to sing-box, and a goroutine
that is still between `Check` and `Register` is not ended by it in any case.
`overlap`, `newDevice` and `passed` are history variables, read by properties
only.

### Traffic

Bytes are followed in chunks: a chunk is what one call of a connection moved. A
counter is then the set of chunks added to it and not swapped out, and
"nothing is lost, nothing is doubled" are statements about sets. A step is one
atomic operation or one operation of the reporter on shared state:

| Actions | Code |
|---|---|
| `Transfer`, `AddToBuffer`, `SwapFull`, `AddTraffic` | a `Read` or `Write` (`ReadPacket`, `WritePacket`): move, add, swap at the threshold, credit |
| `CloseSwap`, `CloseAdd` | `Close`: upload and download are swapped, then credited. The wrapped connection is closed last, so calls may still return in between |
| `Acquire`, `CollectUp`, `CollectDown`, `Build` | `Report` under `reportMu`: `CollectTraffic` visits the users in any order, two swaps for each; the payload is merged with the backlog |
| `AttemptAcked`, `AttemptFailed` | one attempt of `doWithHeaders`; a failed one may have been applied |
| `Clear` | the branch after success, with a removal that may fail |
| `Buffered`, `Persist` | the branch after failure: `bufferPending` with `trimPending`, `persistPending`, which may fail |
| `BeginShutdown`, `Exit`, `Crash`, `Restart` | signal, end of `Shutdown`, death, `loadPending` |

`gone` and `suspect` are history variables that name the ways in which the design
admits loss (trimmed; in memory when the process ended; in a file that could
not be read) and double counting (a push applied and answered with a failure; a
file that outlived the push of its content). Each is extended only by the action
concerned. `parseUserID` is the set `Collectable`.

### Syncer

An ETag names the content it is sent with, and is modelled by that content. A
list or a config is an opaque value here, and the two hash functions are
constants, which `Reconfig` determines. sing-box instances have names from
`Boxes` and are free, built or running; `Fresh` picks a free one, and names are
reused after `Close`.

| Actions | Code |
|---|---|
| `FetchUsers`, `UpdateUsers`, `FetchConfig` | `Sync` up to the comparison of the hashes |
| `Build`, `TakeOld`, `CloseOld`, `StartNew`, `InstallNew` | `ReloadUsers` |
| `RollBack`, `StartOld`, `InstallOld` | `restorePreviousInstance` |
| `Commit` | the end of `Sync` |
| `BootConfig`, `BootUsers`, `BootEngine` | `Node.Start` |
| `BeginShutdown`, `CloseTake`, `CloseInstance`, `Exit` | `Shutdown` and `Engine.Close`, in a goroutine of their own |
| `Edit`, `Crash`, `Restart` | the panel, the process, the service |

### Ledger

The abstract specification knows five things: what has been moved, what is still
owed to the panel, what the file holds, how often the panel has booked each
chunk, and whether the process runs. Its actions are the only ways these may
change: traffic is moved once and owed from then on; the panel books a part of
what is owed and says so (`Settle`) or does not (`Misbook`); a backlog is cut,
though never below its limit; the file is replaced by owed chunks and loses none
that is owed; it is removed when nothing in it is owed; an end of the process
leaves what the file holds; a start takes the file, cut to its limit, or nothing.
`TrafficLedger` maps `Traffic` to it. A chunk is owed while any counter, report
or backlog holds it, except that from the panel's answer to `clearPending` the
payload is still in memory and owed no more.

### Reconfig

`Syncer` moves names of lists and configs; `Reconfig` gives the names their
contents and the hashes and `Buildable` their values, and assumes that they
agree, which TLC evaluates; it also assumes the shape that decoding JSON gives
(a body has the fields of `NodeConfig`, users, rules and entries are lists, an ID and
a count are integers, a short ID is a string of characters). A hash is the sequence of fields written into
SHA-256, which is taken to be injective. `PanelData` has short IDs as sequences of
character codes, since they are sorted and concatenated; every other string is a
value. `Sorted` puts each entry at its place, the number of entries that stand no later;
entries that compare as equal keep their order, where `sort.Slice` leaves it open. `Options` gives a rule a protocol, ports, "private address", domains and
suffixes, the suffixes standing for the other conditions on the destination;
`Verdict` is sing-box's rule order, modelled from the rules the code builds.

### Locks

A call is the sequence of the locks it takes and gives back, with the fields used
in between; deferred unlocks stand where they run. `configMu` is Go's RWMutex: a
writer announces itself, waits for the readers that are in, and keeps later ones
out until it unlocks. Branches that return early are steps after which a call
may return. `Snapshot` of `Limiter`, `UserSyncer` and `TrafficReporter` are
called by tests only and left out; a reload or a request that fails takes fewer of the
locks in the middle of `Sync`, one at a time as well. Shutdown may be called again,
which only adds behaviours.

### Nodes

A node is known by its place in `NodeIDs`, since an ID may stand there twice.
Engine and reporter are reduced to what the process sees of them: an engine is
up or not, and a unit of traffic, which is one user's, is recorded, pending, on
disk or the panel's. `Report` and `StartEngine` do with the file what
`core/traffic.go` does: with `DiskFaults`, a write or a removal may fail and leave
the file as it was (`traffic.go:87-89`, `100-102`), and a file may be unreadable,
or damaged and moved aside (`traffic.go:158-178`); and the backlog is cut to
`TRAFFIC_PENDING_MAX_USERS` users, those with the greatest numbers, both after a push
that failed and when a file is read (`Trimmed`, `traffic.go:229-247`). What one of
these lets go is noted in the history variable `excused`, and struck out again when a
later start reads it or a later report pushes or writes it.

`Report` is one step: `reportMu` keeps the reports of a node apart, the file is the
node's own, and a process that dies within a report leaves what it would have left
before the report or, after the push, what a failed removal leaves. The steps in
between are those of `Traffic`.

| Actions | Code |
|---|---|
| `LoadSettings` | `config.Load`, with `Settings` |
| `FetchConfig`, `FetchUsers`, `StartEngine` | `Node.Start`, with the choice of intervals, and `loadPending` with the outcomes of `Readings`; a failure begins the unwinding of `main.go:96-104` |
| `AwaitSignal`, `Signal` | the handler of `main.go:109-113`; a signal before it kills |
| `RunTickers`, `TickerReport`, `Record` | the goroutine of each node, which may get to run when the shutdown has begun; `NewTicker` panics when the interval overflows to nothing or less |
| `FinalReport`, `CloseEngine`, `Exit` | `Shutdown` of every node: all at once after a signal, one after another after a failed start |
| `Crash`, `Restart`, `Edit` | kills, the service, the operator and the panel |

A shutdown ends, here, once every node has gone through it: `shutdownTimeout`
makes a context that `Shutdown` hands on to nobody.

## 3. What is checked

### Limiter

| Run | Question | Answer |
|---|---|---|
| `LimiterSlots` | admission across a reload, with lists, limits and alive lists changing | types; until IDs repeat, every registered connection is counted (`NoLostSlot`); the device limit is exceeded only by those that registered between a Check and its Register (`DeviceOvershootNeedsOverlap`); address counts exact, no slot held by nobody, no address invented (`RefCountExact`, `NoGhostSlot`, `PayloadExact`); one bucket per user and limit (`SharedBucket`) |
| `LimiterRate` | the cap per user, rate windows, and the dropping of old ones | the cap is exceeded only by those that registered between a Check and its Register (`OvershootNeedsOverlap`); always below twice the limit over any window, if a stamp is checked within a tick (`TwoWindowsAtMost`); dropping old records changes no decision, if a stamp is checked within one window (`PruneInvisible`) |
| `LimiterPayload` | is every online address reported? | no: after a reload ConnIDs repeat |

Things the model shows and no run is spent on. Two connections that pass `Check`
before either registers exceed `MAX_CONN_PER_USER`, which `README.md:80` calls a
maximum; `OvershootNeedsOverlap` says by how much. `UserSpeedBucket` reads the
limit before the lock under which it makes the bucket, so an `UpdateUsers` in
between leaves a bucket with the old rate until the limit changes again; the
double check of `limiter.go:159` looks for a bucket and not at the limit. The
rate windows are fixed, so up to one less than twice
`MAX_NEW_CONN_PER_USER_PER_MIN` connections may pass within a minute
(`TwoWindowsAtMost` is as sharp as it can be); and a `Check` that is refused
after the user's cap was looked at leaves an empty map in `activeConnByUser`
(`userEntries`), which counts nothing and stays until a connection of the user has been
registered and closed.

Bounds: two to four connections, one or two users, zero to two addresses plus
one address that only the panel names, one or two instances, up to five ticks.
Two connections are needed for a race; four, under a cap of two, let one find what
two others have done in between (`LimiterRate`, which asks `OvershootNeedsOverlap` of
the cap per user; for the cap per address it is proved), and are needed to exceed twice a rate of two. Two users
and two addresses tell "of the same user" from "from the same address"; two
instances give the first repetition of ConnIDs, and a third gives more of the
same. The rate windows are two ticks long, so a record ages through the inside, the
end and the double of a window within five ticks. A limit that a run is not
about is set above the number of connections, or to 0 for the per-address
limits, which are 0 by default (`config/env.go:19`). Connections are
interchangeable, so they are a symmetry set; every operator treats them alike.
Deadlock is checked in every run: the node's own operations are always possible.

### Traffic

| Run | Question | Answer |
|---|---|---|
| `TrafficCrash` | failed pushes, disk faults, trimming, crashes, shutdowns | `Conserved`, `AtMostOnce`, `FileIsBacklog`; every step is one of the ledger (`KeepsBooks`) |
| `TrafficLive` | calls race with Close and with collection; does a report end, whatever the panel does, and does recorded traffic arrive if the panel accepts at last? | types; bytes are in one counter at a time (`OnePlace`); yes (`ReportEnds`, `Delivered`) |
| `TrafficResidue` | does `Close` settle everything? | no: a call that returns after the swap leaves its bytes behind |
| `TrafficShutdown` | does the final report flush everything? | no: it precedes the closing of the connections |

Bounds: two or three chunks, one or two connections of one or two users, a
threshold of one or two chunks, a backlog of one user, two or three attempts (three in the
code), up to two stops. In `TrafficLive` three chunks with a threshold of two
make one call see the buffer full while another adds to it, in two directions of
one connection. In `TrafficCrash` two users against a backlog of one make
trimming happen; two stops give a crash during the recovery from the first. The
panel's count of a chunk saturates at two, which is all that `AtMostOnce` asks
for. `TrafficCrash` uses a threshold of one, since what happens between buffer
and record is the question of `TrafficLive`, and of `NeverInTwoPlaces` for any
number of connections; its VIEW merges states that differ in `atShutdown` only, a
history variable that no guard and no property of this run reads.

### Syncer

| Run | Question | Answer |
|---|---|---|
| `Syncer` | edits, lost answers, failing starts, shutdowns at any point | `SyncerKnowsEngine`, `CacheIsTagged`, `LimiterCurrent`, `OneListener`, `NoOrphan`, `DownAfterTwoFailures` |
| | does a Sync that does nothing miss something, and does one that reloads have a reason? | it misses short IDs that read the same when run together, and nothing else (`NoticesAllButShortIDs`); it has, as long as the IDs in a list differ (`NoNeedlessReload`) |
| | what can the panel's routes lift? | neither what is rejected first nor what is done with private addresses (`SafetyFirst`); all else is the panel's (`PanelDecides`) |
| | are devices counted that the panel gives by number? | each once among those of the panel (`DevicesCounted`) |
| | does the node settle on what the panel serves? | yes, with the two exceptions below (`Settles`) |
| `ReconfigCollision` | is every change noticed? | no: `"ab","c"` and `"a","bc"` have one hash |

Bounds: three lists (two of which differ in order and in a device limit, which is
not hashed), five configs (two that differ in order and spelling, two in where the short
IDs are cut, one with other routes, one that does not build), three instance
names, since at most three exist at a time; up to two edits, two failing starts
and one stop. Two failing starts make a reload and its rollback fail; two edits
take the panel away from what is loaded and back, after both. The routes are all
pairs of five rules and of three legacy items, put in place of those of any
config that an instance runs with; the connections lie on both sides of every
protected port.

Of legacy routes the model says what the code does: a reject rule keeps its
protocols and domains and drops the rest, so that one by port alone rejects
everything; the outbound of a rule becomes the final outbound. `PanelDecides`
leaves them out. `SafetyFirst` takes no side on what ought to be done with private
addresses: it says that the panel's routes make no difference to it, and that
BitTorrent, and the protected ports of other addresses, are rejected. The comment at
`config.go:209`, "拦截本地和私有 IP" (intercept local and private IPs), disagrees with
the rule below it, which routes them directly and in front of the rejected ports;
the test `config_test.go:71-72` calls the same rule "second route to direct private
IPs" and expects what the code does. Comment and test contradict each other, so no
property here asserts either. The port of a config is cut to sixteen bits unchecked. A device known by number has a
made-up name, which never equals a real address: one that is connected here too
is counted twice.

`Settles` names two cases in which the engine does not serve the panel's
content. One is a config that cannot be built. The other is worth knowing: when
the new instance and the rollback both fail to start, the engine has no
instance, and the syncer keeps the hashes of the previous content. If the panel
then goes back to that content, the hashes are equal, `Sync` finds nothing to do, and
the node stays down until the panel changes or the process is restarted. No
comment or document says otherwise, so it is described here and not listed as
a finding.

`OneListener` is stated for the time before `Engine.Close` has run: a close
between two steps of a reload finds no instance, and the reload goes on to start one in
a process that is about to exit. `NoOrphan` holds even then.

### Locks

| Run | Question | Answer |
|---|---|---|
| `Locks` | do the goroutines of a node ever wait for each other in a circle, race for a field, or keep a call out? | no (`NoCircle`, `NoRace`, `CallsReturn`); no call returns with a lock (`TypeOK`) |

Bounds: two connections, the ticker and a shutdown. Two readers and a writer are
what an RWMutex needs for the circle of a reader, a waiting writer and a second
read; no call takes more than two locks at a time, so a circle takes at most as
many goroutines as there are. With the callers of today `BuildAlivePayload` could nest
the other way without harm, since only the ticker takes both locks; `Check`,
called by connections, could not, and that is the mutant.

### Nodes

| Run | Question | Answer |
|---|---|---|
| `Nodes` | which interval counts? | environment, file, panel, default (`PeriodsAsChosen`) |
| | does the process come back? | yes, if the settings are accepted and the intervals fit a Duration (`Recovers`) |
| | is reported traffic ever lost by the process and its nodes? | if their IDs differ, only what the last write failed for, what a node could not read, and what the bound on the backlog cut (`Durable`); an orderly end flushes what was recorded when it began, with the same exceptions (`ExitFlushes`) |
| `NodesIntervals` | are the panel's intervals preferred, as `README.md:74-75` says? | no: explicit settings win |

Bounds: three settings (two nodes with IDs and one interval from the file and a blank
in place of the other; a single node, whose ID stood second in the first settings, with
room for one user in its backlog; a refused zero), two pairs of panel intervals (one with
a value below 0, one with a 0 and one that overflows), two nodes, two units of traffic of
different users at the first place, every fault of the disk at any report and start, one
change and one stop. Two nodes are needed for one to fail after another has started, and
for one to meet the other's file; after a change of the settings a place reads and
writes the file of another ID, and a backlog is cut when it is read. One change takes place before
or after a fetch. Failed starts, which end the process in order, are not bounded: they
interrupt the recovery from the stop as often as they like, and there are restarts
without number. No settings of the run have one ID twice: what is promised excludes
them. A Duration has 8 bits and a second two ticks, so that 60 seconds fit and 100 do
not; in 64 bits it takes 9223372037 seconds. How the bytes of one node add up, and what a
crash leaves between two steps of a report, are the questions of `Traffic`.

`ExitFlushes` is about what was recorded when the end began. `TrafficShutdown`
shows what it leaves out: bytes in the buffers of open connections. Neither it nor
`Durable` is about a signal that comes before the handler is installed or during the
unwinding of a failed start (`main.go:110`): that ends the process as a kill does, and
what was recorded and not reported goes with it. `Durable` bounds the loss to that.

`PeriodsAsChosen` follows the code, in which an explicit setting wins over the panel
(`node.go:67,70`). `README.md:74-75` says the opposite, that the panel's interval is
preferred; `PanelIntervalsPreferred` states it, and `NodesIntervals` refutes it. In
addition, `README.md:81,83` gives defaults of 64 and 300 for the limits per address that
are 0 in `config/env.go`.

### Fairness

- `Traffic!Running`, in `RunSpec`: the goroutines of the reporter get to run (weak fairness of
  their steps); the ticker takes `reportMu` again and again (strong fairness,
  since Shutdown competes for it, and Go's mutex does not starve a waiter);
  `main` exits after `Shutdown`; the service is restarted (`Restart=always`,
  `install.sh:336`). Nothing is assumed of connections, which may stay open or stand
  still for ever, of crashes or of signals.
- `Traffic!PanelAccepts` says that a panel pushed to again and again accepts at
  last (strong fairness of `AttemptAcked`). Without it no delivery can be
  promised, so it is a premise of `Delivered`, and of nothing else.
- `Locks!Fairness`: strong fairness of every goroutine's next step, since it may
  wait for a mutex that others take in turn: Go's mutex hands itself to a waiter
  of one millisecond (starvation mode), and its RWMutex lets parked readers in
  before the next writer. No call need ever begin. A push, a start or the close
  of an instance under `reportMu` is a step that ends; that it does is `ReportEnds`.
- `Nodes!Fairness`: `main`, the shutdown and the goroutines of the nodes run
  (weak fairness), and a request or a start that is tried again and again succeeds
  at last (strong fairness of the three steps of a start). Stops and changes are
  bounded, so "in the end" is after the last of them.
- `Syncer!Fairness`: the ticker and boot steps run, the service restarts, and
  a panel asked again and again answers at last (strong fairness of the four
  answered requests). Failing starts are bounded by `MaxFaults`, crashes by
  `MaxStops`: "in the end" means after the last of them.

## 4. What is proved

TLAPS checks the proofs of the eight modules whose names end in `Proofs`. They
hold for every value of the constants under the assumptions the modules name:
finite sets of connections, chunks and instances, natural numbers for limits
and bounds, lists over the declared users and addresses, sentinels outside the
sets they mark, at least three instance names, and the shapes of decoded JSON.

### Limiter

| Theorem | States | Argument |
|---|---|---|
| `LimiterProofs!TypeCorrect` | `TypeOK` | inductive as it stands; one lemma per action |
| `CountsExact` | `RefCountExact` | `TypeOK /\ RefCountExact` is inductive. `Register` and `Unregister` change the set of holders by one connection and one count by one (`RegisterEffect`, `UnregisterEffect`), every other step leaves both alone (`QuietStep`) |
| `OvershootBounded`, `DeviceOvershootBounded` | `OvershootNeedsOverlap`, `DeviceOvershootNeedsOverlap` | `OvershootInv`: the indexes are finite, overlap sets contain registered connections other than the connection itself, and the bounds. Each `Register` adds at most one element to an index and exactly one new connection to the overlap of every connection that waits with the same user or address (`OneMore`); closes only remove (`SomeLess`) |
| `SlotProofs!NoSlotOutlives`, `NoSlotMissing` | `NoGhostSlot`, `NoLostSlot` | `SlotInv` adds that one counter numbers all connections until the first reload (`Numbered`): without it the `Unregister` of one connection could take the slot of another |
| `PayloadAsHeld` | `PayloadExact` | from `SlotInv`: an address has a positive count exactly when a registered connection holds it |
| `OneBucket` | `SharedBucket` | an action property: a connection takes the bucket that is in the map after the step, and only a changed limit or a user who has left takes one out |
| `PruningUnseen` | `PruneInvisible` | an action property: a record old enough to be dropped is one that `checkCPS` would start over, for every stamp that is still possible (`PruneSame`) |
| `TwoWindows` | `TwoWindowsAtMost` | `RateInv`: what has passed is the current window, the window before, and older ones (`Windowed`); each of the two holds at most the limit, and the connection that opened each is at its beginning. A span of one window meets two windows at most, and misses the opener of the first |

### Traffic

| Theorem | States | Argument |
|---|---|---|
| `TrafficProofs!TypeCorrect` | `TypeOK` | inductive as it stands |
| `NeverInTwoPlaces` | `OnePlace` | `Places /\ Phases`: pairwise disjointness chunk by chunk, and which stage of a call, of a close and of a report allows which counter to be filled. `OnePlace` alone is not inductive: a stage that should hold nothing could hold anything |
| `CountedOnce` | `AtMostOnce` | `Counts`: what is still to be pushed has been counted only if it is suspect, and what is on disk without being in the backlog likewise |
| `NothingVanishes` | `Conserved` | `Traces`: every chunk that was moved leaves a trace; each step moves it to the next place (`MemoryIs` gives membership of `Memory` place by place) |
| `FileExact` | `FileIsBacklog` | `Filed`: file and backlog agree while a report is under way, until the step that replaces both; trimming twice is trimming once (`KeptTwice`) |
| `LedgerProofs!Implementation` | `KeepsBooks` | refinement: initial states map to initial states, and each action to the action of `Ledger` its lemma names (`...Books`), or to none. It rests on `Places`, `Phases` and `Traces`, on what is in memory when the process is down (`Ended`), and on a backlog that was cut still having `maxPendingUsers` users (`KeptEnough`, by the least user left out) |

### Syncer and Reconfig

| Theorem | States | Argument |
|---|---|---|
| `SyncerProofs!TypeCorrect`, `CacheNeverLies`, `LimiterFollowsPanel` | `TypeOK`, `CacheIsTagged`, `LimiterCurrent` | conjuncts of `SyncInv`, which says at each label of `Sync` who owns which instance (`Owned`), in what stage (`Stages`), built from what (`Loaded`), what the hashes are of (`HashesKnown`) and which failures have been counted. `Fresh` is free because at most two of three instances are owned when one is made (`FreshIsFree`) |
| `SyncerAgreesWithEngine` | `SyncerKnowsEngine` | `HashesKnown`: a rollback installs just what the hashes describe, since they are committed after the reload |
| `NobodyIsForgotten`, `PortIsFree` | `NoOrphan`, `OneListener` | `Owned` and `Stages`: what runs is owned, and at each label one owner at most has a running instance |
| `TwoFailuresToGoDown` | `DownAfterTwoFailures` | `FailuresCounted` |
| `ReconfigProofs!SafetyRulesFirst` | `SafetyFirst` | the rules that are built are the safety rules, then the panel's, then Google's, whatever the form of the routes (`RulesBuilt`); the first that matches decides (`FirstDecides`), and what is not safe matches one of the first four, with the panel's routes and without (`SafetyVerdict`, `SafetyGuards`). What runs was built from a config that was served (`HoldsSomething`, with `SyncInv`) |
| `PanelRulesNext` | `PanelDecides` | what is safe passes the first four, so the least match among all rules is four behind the least match among the panel's (`PanelObeyed`) |
| `DevicesAsListed` | `DevicesCounted` | placeholders are numbered from 0, so the list and the count are in bijection (`Placeholders`); a user's last entry exists and is the one decoded (`DecodedAsListed`) |
| `ChangesAreNoticed` | `NoticesAllButShortIDs` | `HashesHeld`: from the first load on, the hashes are those of the list and config last loaded, also while `Close` empties the engine under a reload. One hash means the same users in the same order, the same routes and the same short IDs run together (`UsersTold`, `RoutesTold`, `HashesTell`), and what is built follows from these (`BuiltAlike`, `ConfigsAlike`) |
| `NoReloadForNothing` | `NoNeedlessReload` | sorting gives every entry a place of its own (`Ranks`, `SortedPlaces`); a rearrangement changes neither how many entries come before one (`FewerBefore`) nor, therefore, what is at a place (`SortedAlike`). The order of strings is irreflexive, transitive and total (`BeforeIrreflexive`, `BeforeTransitive`, `BeforeTotal`), that of users is, where the IDs differ |

### Locks and Nodes

| Theorem | States | Argument |
|---|---|---|
| `LocksProofs!TypeCorrect` | `TypeOK` | every script is balanced: at each step it takes an inner lock, or takes a lock while it holds none, or gives back what it holds, uses only fields whose lock it holds, and returns holding none. Balance passes from calls to calls made of them (`InTurn`). `LocksInv`: the locks are held by those whose place in their script says so |
| `DeadlockFree` | `NoCircle` | whoever holds an inner lock waits for nobody, so all of a circle would wait before `configMu` holding nothing, for a writer that waits for readers inside |
| `RaceFree` | `NoRace` | a use needs its lock, and two goroutines hold one lock only to read under `configMu` (`Exclusive`) |
| `NodesProofs!TypeCorrect` | `TypeOK` | `Course`: stages of the process and of its nodes |
| `TrafficKept` | `Durable` | `Backed`: as long as IDs differ, a node's file holds only its own backlog, what the panel has and what is excused, so removing or replacing it loses nothing else. A report strikes its payload out of `excused`, which must not bare the file of another node: `Homes` and `Fresh` say that a unit is in one backlog, in one file, and in the records of one node at most. With `DiskFaults` false the same theorem holds of a disk that never fails |
| `ExitKeepsTraffic` | `ExitFlushes` | `Settled`: what was recorded when the end began has been reported, or is in the records of a node that has still to report; the rest is `Durable` |
| `IntervalsAsChosen` | `PeriodsAsChosen` | the lines of the file are read one after the other: the recursive function that reads them has the value its equation says at every line, since a least line without it would follow from the one before (`MinIsLeast`, `LoopRuns`, `FileRead`). A value once there is kept, and only the first line with something to say sets one |

The strengthened invariants were model-checked before they were proved.

### Only model-checked

- Liveness (`Delivered`, `ReportEnds`, `Settles`, `CallsReturn`, `Recovers`):
  out of the prover's reach under fairness.

Every other property of a passing run is a theorem. `NoticesChanges` and the other
properties of runs that expect a violation are false, so there is nothing to prove.

## 5. What is not modelled, and why

- **SHA-256** and its cut to eight bytes: taken as injective. JSON is decoded by
  what it says, not character by character; so are dates, ports and addresses.
- **DNS options and constants of the inbound** (`singbox/config.go:280-316`):
  the same for every config.
- **The panel's behaviour** beyond answers: a 304 is sent only for a tag the node
  sent, and every content comes with a tag.
- **sing-box**: an instance is built, started and closed; starting may fail. How
  a packet buffer's length looks after it was written (`singbox/tracker.go:253`)
  depends on sing, and is taken as the length that was moved.
- **Doctor, system checks, logging, display fields, the install script** (apart
  from its restart policy): they do not act on the state the properties are about.
- **Time** in `Traffic`, `Syncer` and `Nodes`: a tick may come at any moment, so
  timeouts and back-off are abstracted, and a timeout is a failed request.
  `Nodes` has the lengths of the intervals, which no other module needs.

## 6. Plan

Done: `Limiter`, `Traffic` with `Ledger`, `Syncer` with `Reconfig`, `Locks` and
`Nodes`, with every safety and action property of a passing run proved. What could
follow is a statement of what a rule of the older form of routes keeps, beyond what
`SafetyFirst` says of it.

## 7. Running the checks

    tlasany Limiter.tla
    tlc -workers 2 -config LimiterSlots.cfg MCLimiter.tla
    tlapm LimiterProofs.tla

Each `.cfg` belongs to the MC module whose name it begins with, and
those beginning with `Reconfig` to `MCSyncer`. A run takes one or two minutes.
