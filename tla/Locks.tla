--------------------------------- MODULE Locks ----------------------------------
(***************************************************************************)
(* The locks of one node, and the calls that take them: configMu and       *)
(* stateMu of core/limiter.go, reportMu of core/traffic.go, mu of          *)
(* singbox/engine.go and of core/sync.go, activeUsersMu of                 *)
(* singbox/stats.go.  A call is the sequence of the locks it takes and     *)
(* gives back, with the fields it reads and writes in between; a deferred unlock *)
(* stands where it runs.                                                   *)
(*                                                                         *)
(* configMu is an RWMutex: a writer that waits for readers to leave keeps  *)
(* new readers out, and they come in together when it unlocks.             *)
(***************************************************************************)
EXTENDS Integers, Sequences, FiniteSets

CONSTANTS
    Conns,              \* the goroutines that serve connections
    ticker,             \* the goroutine of runTickers
    shutdown,           \* the goroutine of main that runs Shutdown
    Nobody

Goroutines == Conns \cup {ticker, shutdown}
Mutexes == {"stateMu", "reportMu", "engine.mu", "syncer.mu", "activeUsersMu"}

ASSUME Sentinel == Nobody \notin Goroutines /\ ticker # shutdown /\ {ticker, shutdown} \cap Conns = {}

--------------------------------------------------------------------------------
(* The calls. *)

\* A step takes a lock or gives one back; what is done under the lock is done
\* until the next step is taken.  After a step marked end the call may return.
Step(op, x, uses) == <<[op |-> op, on |-> x, uses |-> uses, end |-> FALSE]>>
R(field) == <<"read", field>>
W(field) == <<"write", field>>

Under(mu, uses, body) == Step("lock", mu, {}) \o body \o Step("unlock", mu, uses)
Guarded(mu, uses)     == Under(mu, uses, <<>>)
Shared(uses, body)    == Step("rlock", "configMu", {}) \o body \o Step("runlock", "configMu", uses)
MayReturn(body)       == [body EXCEPT ![Len(body)].end = TRUE]

\* core/limiter.go.  "users" stands for the fields configMu protects, "conns"
\* for those of stateMu.
UpdateUsers       == Under("configMu", {}, Guarded("stateMu", {W("conns"), W("users")}))
UpdateAliveList   == Guarded("stateMu", {W("conns")})
BuildAlivePayload == Shared({}, Guarded("stateMu", {R("users"), W("conns")}))
CheckNested ==                                      \* mutant: configMu within stateMu
    Under("stateMu", {W("conns")}, Shared({R("users")}, <<>>))
CheckKeeps ==                                       \* mutant: returns without RUnlock
    MayReturn(Step("rlock", "configMu", {})) \o Step("runlock", "configMu", {R("users")})
    \o MayReturn(Guarded("stateMu", {W("conns")}))
Check             == MayReturn(Shared({R("users")}, <<>>)) \o MayReturn(Guarded("stateMu", {W("conns")}))
Register          == Guarded("stateMu", {W("conns")})
Unregister        == Guarded("stateMu", {W("conns")})
UnderReadLock ==                                    \* mutant: the bucket is made under RLock
    Shared({R("users"), W("users")}, <<>>)
UserSpeedBucket   == MayReturn(Shared({R("users")}, <<>>)) \o Guarded("configMu", {W("users")})

\* singbox/stats.go
RegisterConn   == Guarded("activeUsersMu", {W("active")})
UnregisterConn == Guarded("activeUsersMu", {W("active")})

\* singbox/engine.go: the lock is held for the fields only, never while an
\* instance is built, started or closed.
CollectTraffic == Guarded("engine.mu", {R("engine")})
GetOnlineCount == Guarded("engine.mu", {R("engine")}) \o Guarded("activeUsersMu", {R("active")})
ReloadUsers    == Guarded("engine.mu", {W("engine")}) \o Guarded("engine.mu", {W("engine")})
EngineClose    == Guarded("engine.mu", {W("engine")})

\* core/traffic.go: the push and the file are handled under reportMu.
Report == Under("reportMu", {W("pending")}, CollectTraffic)

\* core/sync.go: Sync ends with a mark when it got no users, and with one when
\* nothing has changed.  Where a request or a reload fails, some of the locks
\* in the middle are not taken.
Mark       == Guarded("syncer.mu", {W("sync")})
ReadHashes == Guarded("syncer.mu", {R("sync")})
SyncFails  == ReadHashes \o Mark
SyncHolding ==                                      \* mutant: mu is held all along
    Under("syncer.mu", {}, UpdateUsers \o Report \o UpdateAliveList \o ReloadUsers \o Mark)
Sync ==
    ReadHashes \o UpdateUsers \o MayReturn(Mark)
    \o Report \o UpdateAliveList \o ReloadUsers \o Mark \o MayReturn(Mark) \o Mark

\* What a goroutine does from one idle moment to the next: a connection is
\* admitted or refused, or closed; a ticker fires; the node is shut down.
Script ==
    [route    |-> Check \o Register \o RegisterConn \o UserSpeedBucket,
     close    |-> Unregister \o UnregisterConn,
     failed   |-> SyncFails,
     sync     |-> Sync,
     report   |-> Report,
     alive    |-> BuildAlivePayload \o GetOnlineCount,
     shutdown |-> Report \o EngineClose]

CallsOf(g) ==
    CASE g = ticker   -> {"failed", "sync", "report", "alive"}
      [] g = shutdown -> {"shutdown"}
      [] OTHER        -> {"route", "close"}

--------------------------------------------------------------------------------

VARIABLES
    call,               \* the call each goroutine is in, or "none"
    pc,                 \* the place in its script
    owner,              \* who holds each mutex
    writer,             \* who has announced to write under configMu, or does
    readers,            \* who reads under it
    parked              \* the readers that came after the announcement

vars == <<call, pc, owner, writer, readers, parked>>

Init ==
    /\ call = [g \in Goroutines |-> "none"] /\ pc = [g \in Goroutines |-> 0]
    /\ owner = [m \in Mutexes |-> Nobody]
    /\ writer = Nobody /\ readers = {} /\ parked = {}

Here(g) == Script[call[g]][pc[g]]
At(g, op, x) == call[g] # "none" /\ Here(g).op = op /\ Here(g).on = x

\* The goroutines of S go on to their next step, or return: those at the end
\* of their script, and any of those that may.
Advance(S) ==
    \E early \in SUBSET {g \in S : Here(g).end} :
        LET Returns(g) == g \in early \/ (g \in S /\ pc[g] = Len(Script[call[g]])) IN
        /\ call' = [g \in Goroutines |-> IF Returns(g) THEN "none" ELSE call[g]]
        /\ pc' = [g \in Goroutines |->
                     IF Returns(g) THEN 0 ELSE IF g \in S THEN pc[g] + 1 ELSE pc[g]]

Begin(g, c) ==
    /\ call[g] = "none" /\ c \in CallsOf(g)
    /\ call' = [call EXCEPT ![g] = c] /\ pc' = [pc EXCEPT ![g] = 1]
    /\ UNCHANGED <<owner, writer, readers, parked>>

Lock(g, m) ==
    /\ At(g, "lock", m) /\ owner[m] = Nobody
    /\ owner' = [owner EXCEPT ![m] = g]
    /\ Advance({g})
    /\ UNCHANGED <<writer, readers, parked>>

Unlock(g, m) ==
    /\ At(g, "unlock", m)
    /\ owner' = [owner EXCEPT ![m] = Nobody]
    /\ Advance({g})
    /\ UNCHANGED <<writer, readers, parked>>

\* RWMutex.Lock: one writer at a time announces itself, then waits for the
\* readers that are in.
Announce(g) ==
    /\ At(g, "lock", "configMu") /\ writer = Nobody
    /\ writer' = g
    /\ UNCHANGED <<call, pc, owner, readers, parked>>

WriteLock(g) ==
    /\ At(g, "lock", "configMu") /\ writer = g /\ readers = {}
    /\ Advance({g})
    /\ UNCHANGED <<owner, writer, readers, parked>>

\* RWMutex.Unlock lets all parked readers in, and then another writer announce itself.
WriteUnlock(g) ==
    /\ At(g, "unlock", "configMu")
    /\ writer' = Nobody /\ readers' = parked /\ parked' = {}
    /\ Advance({g} \cup parked)
    /\ UNCHANGED owner

ReadLock(g) ==
    /\ At(g, "rlock", "configMu") /\ g \notin parked
    /\ IF writer = Nobody
       THEN readers' = readers \cup {g} /\ Advance({g}) /\ UNCHANGED parked
       ELSE parked' = parked \cup {g} /\ UNCHANGED <<readers, call, pc>>
    /\ UNCHANGED <<owner, writer>>

ReadUnlock(g) ==
    /\ At(g, "runlock", "configMu")
    /\ readers' = readers \ {g}
    /\ Advance({g})
    /\ UNCHANGED <<owner, writer, parked>>

Proceed(g) ==
    \/ \E m \in Mutexes : Lock(g, m) \/ Unlock(g, m)
    \/ Announce(g) \/ WriteLock(g) \/ WriteUnlock(g) \/ ReadLock(g) \/ ReadUnlock(g)

Next == \E g \in Goroutines : Proceed(g) \/ \E c \in CallsOf(g) : Begin(g, c)

\* Go runs every goroutine, and hands a mutex to one that has waited long
\* enough (sync.Mutex in its starvation mode).  Nobody has to make a call.
Fairness == \A g \in Goroutines : SF_vars(Proceed(g))

Spec == Init /\ [][Next]_vars /\ Fairness

--------------------------------------------------------------------------------
(* Properties. *)

\* The type of every variable; locks are held, and waited for, within calls
\* only: no way out of a call keeps one.
TypeOK ==
    LET Calling == {g \in Goroutines : call[g] # "none"} IN
    /\ call \in [Goroutines -> DOMAIN Script \cup {"none"}]
    /\ pc \in [Goroutines -> Nat]
    /\ \A g \in Calling : call[g] \in CallsOf(g) /\ pc[g] \in 1..Len(Script[call[g]])
    /\ owner \in [Mutexes -> Calling \cup {Nobody}]
    /\ writer \in Calling \cup {Nobody}
    /\ readers \subseteq Calling /\ parked \subseteq Calling

\* Whom a goroutine waits for.
WaitsFor(g) ==
    IF call[g] = "none" THEN {}
    ELSE CASE Here(g).op = "lock" /\ Here(g).on # "configMu" -> {owner[Here(g).on]} \ {Nobody}
           [] Here(g).op = "lock" /\ Here(g).on = "configMu" ->
                  IF writer = g THEN readers ELSE {writer} \ {Nobody}
           [] Here(g).op = "rlock" -> {writer} \ {Nobody}
           [] OTHER -> {}

\* core/limiter.go:30: no goroutines wait for one another in a circle, whoever
\* holds which locks and whichever writer has announced itself.
NoCircle ==
    ~ \E S \in (SUBSET Goroutines) \ {{}} : \A g \in S : WaitsFor(g) \cap S # {}

\* What the comments on the fields promise: nobody writes a field while another
\* goroutine reads or writes it (the atomic counters are not among these fields).
NoRace ==
    \A g, h \in Goroutines :
        g # h /\ call[g] # "none" /\ call[h] # "none" =>
            \A use \in Here(g).uses :
                use[1] = "write" => {R(use[2]), W(use[2])} \cap Here(h).uses = {}

\* Every call returns, however many others keep coming: an admission is not
\* kept out by updates, and an update not by admissions.
CallsReturn == \A g \in Goroutines : call[g] # "none" ~> call[g] = "none"
================================================================================
