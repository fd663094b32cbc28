--------------------------------- MODULE Nodes ---------------------------------
(***************************************************************************)
(* The process of main.go and the nodes in it: from the settings to the    *)
(* start of one node after another, their tickers, the shutdown of all of  *)
(* them after a signal or after a failed start, and the service that       *)
(* starts the process again.                                               *)
(*                                                                         *)
(* A node is known by its place in NodeIDs; its ID may stand there twice.  *)
(* Engine, reporter and limiter have modules of their own: here an engine  *)
(* is up or not, and traffic is a set of units, recorded by a node until a *)
(* Report gives it to the panel or keeps it in the backlog and on disk.    *)
(* The disk may fail a write, a removal or a read, and damage a file.      *)
(***************************************************************************)
EXTENDS Settings, FiniteSets

CONSTANTS
    Worlds,             \* environments and file lines the operator may set up
    Offers,             \* pull and push intervals the panel may offer
    Units,              \* units of traffic
    PlaceOf,            \* the node each of them goes through, by its place
    UserOf,             \* the user each of them is counted for
    DiskFaults,         \* whether the disk may fail
    Second, WordSize,   \* a second in ticks of Duration, and its 2^64
    MaxNodes,           \* bound on the places in NodeIDs
    MaxEdits,           \* bound on changes by the operator and the panel
    MaxStops            \* bound on signals and crashes

Nothing == [accepted |-> FALSE, NodeIDs |-> <<>>]

ASSUME WorldsOK == \A w \in Worlds : DOMAIN w.env = Keys /\ w.lines \in Seq(ToSet(w.lines))
ASSUME OffersOK == Offers \subseteq [pull : Int, push : Int] /\ Offers # {}
ASSUME WidthOK == Second \in Nat \ {0} /\ WordSize \in Nat \ {0} /\ WordSize % 2 = 0
ASSUME NodeBounds == MaxNodes \in Nat /\ MaxEdits \in Nat /\ MaxStops \in Nat /\ IsFiniteSet(Units)
ASSUME PlaceOK == PlaceOf \in [Units -> 1..MaxNodes] /\ UserOf \in [Units -> Nat \ {0}]
ASSUME FaultsOK == DiskFaults \in BOOLEAN

VARIABLES
    world,              \* the environment and the file, as they are
    offer,              \* what the panel answers
    edits,
    booted, cfg,        \* the world Load read last, and the Config it made of it
    proc,               \* where main is
    phase,              \* how far each node has come, by its place
    offered,            \* the intervals in the config each node fetched
    interval,           \* its cfg.SyncInterval and cfg.ReportInterval
    ticking,            \* nodes whose tickers run
    recorded, pending,  \* traffic in each node's records and its backlog
    files,              \* the state files, as pairs of name and unit
    credited,           \* the units the panel has been given
    stops,
    shared,             \* history: two nodes have had one ID
    reported,           \* history: the units that went through a Report
    excused,            \* history: those the disk or the bound on the backlog let go
    atCancel            \* history: the traffic there was at an orderly end

panelVars == <<world, offer, edits>>
bootVars  == <<booted, cfg, shared>>
startVars == <<offered, interval>>
dataVars  == <<recorded, pending>>
keptVars  == <<files, credited, reported, excused>>
vars == <<panelVars, bootVars, proc, phase, startVars, ticking, dataVars, keptVars,
          stops, atCancel>>

Places == DOMAIN cfg.NodeIDs
ID(p)  == cfg.NodeIDs[p]
Alive  == proc # "down"
Started == {p \in Places : phase[p] \in {"up", "flushed", "closed"}}

NoNodes == <<>>

Init ==
    /\ world \in Worlds /\ offer \in Offers /\ edits = 0
    /\ booted = world /\ cfg = Nothing /\ proc = "launching"
    /\ phase = NoNodes /\ offered = NoNodes /\ interval = NoNodes /\ ticking = {}
    /\ recorded = NoNodes /\ pending = NoNodes
    /\ files = {} /\ credited = {} /\ stops = 0
    /\ shared = FALSE /\ reported = {} /\ excused = {} /\ atCancel = {}

--------------------------------------------------------------------------------
(* main up to the signal handler. *)

\* The process ends: what it had in memory goes.
Die ==
    /\ proc' = "down" /\ cfg' = Nothing
    /\ phase' = NoNodes /\ offered' = NoNodes /\ interval' = NoNodes /\ ticking' = {}
    /\ recorded' = NoNodes /\ pending' = NoNodes
    /\ booted' = world
    /\ UNCHANGED <<panelVars, shared, keptVars>>

\* An end that nothing was done for.
Abort == Die /\ atCancel' = {}

LoadSettings ==
    /\ proc = "launching"
    /\ LET c == Load(world.env, world.lines) IN
       IF ~c.accepted THEN Abort
       ELSE LET All(x) == [p \in DOMAIN c.NodeIDs |-> x] IN
            /\ booted' = world /\ cfg' = c /\ proc' = "starting"
            /\ shared' = (shared \/ ~IsInjective(c.NodeIDs))
            /\ phase' = All("new") /\ ticking' = {}
            /\ interval' = All([sync |-> c.SyncInterval, report |-> c.ReportInterval])
            /\ offered' = All([pull |-> 0, push |-> 0])
            /\ recorded' = All({}) /\ pending' = All({})
            /\ UNCHANGED <<panelVars, keptVars, atCancel>>
    /\ UNCHANGED stops

\* The start that failed ends the process, after an orderly shutdown of the
\* nodes that had been started.
GiveUp ==
    /\ proc' = "unwinding"
    /\ atCancel' = UNION {recorded[p] \cup pending[p] : p \in Places}
    /\ UNCHANGED <<panelVars, bootVars, phase, startVars, ticking, dataVars, keptVars>>

\* The nodes are started in turn.
Turn(p) == proc = "starting" /\ p = Cardinality(Started) + 1

\* Node.Start: the config, and the intervals nobody has chosen.
PreferAny(explicit, own, panels) == IF ~explicit THEN panels ELSE own       \* mutant: 0 as well
Prefer(explicit, own, panels) == IF panels > 0 /\ ~explicit THEN panels ELSE own

FetchConfig(p, ok) ==
    /\ Turn(p) /\ phase[p] = "new"
    /\ IF ~ok THEN GiveUp ELSE
       /\ phase' = [phase EXCEPT ![p] = "configured"]
       /\ offered' = [offered EXCEPT ![p] = offer]
       /\ interval' = [interval EXCEPT ![p] =
              [sync   |-> Prefer(cfg.SyncIntervalExplicit, cfg.SyncInterval, offer.pull),
               report |-> Prefer(cfg.ReportIntervalExplicit, cfg.ReportInterval, offer.push)]]
       /\ UNCHANGED <<panelVars, bootVars, proc, ticking, dataVars, keptVars, atCancel>>
    /\ UNCHANGED stops

\* The users; the alive list may fail without harm.
FetchUsers(p, ok) ==
    /\ Turn(p) /\ phase[p] = "configured"
    /\ IF ~ok THEN GiveUp ELSE
       /\ phase' = [phase EXCEPT ![p] = "listed"]
       /\ UNCHANGED <<panelVars, bootVars, proc, startVars, ticking, dataVars, keptVars, atCancel>>
    /\ UNCHANGED stops

\* specializeTrafficStateFile
OneFile(path, id) == <<path, 0>>            \* mutant: the path as it was configured
StateFile(path, id) == <<path, id>>
FileOf(p) == StateFile(cfg.TrafficStateFile, ID(p))
Saved(name) == {r[2] : r \in {f \in files : f[1] = name}}

Replaced(name, S) == {f \in files : f[1] # name} \cup {<<name, k>> : k \in S}

\* trimPending: the backlog keeps the users with the greatest numbers.
Trimmed(S) ==
    LET users == {UserOf[k] : k \in S}
        above(k) == {u \in users : u > UserOf[k]}
    IN  {k \in S : Cardinality(above(k)) < cfg.TrafficPendingMaxUsers}

\* Engine.Start, and a reporter that begins with the backlog on disk.  A file
\* that cannot be read stays as it is; one that cannot be decoded is moved
\* aside, unless that fails as well.
Readings == {"read", "unreadable", "damaged"}

StartEngine(p, ok, reading) ==
    /\ Turn(p) /\ phase[p] = "listed"
    /\ IF ~ok THEN GiveUp ELSE
       LET saved == Saved(FileOf(p))
           kept  == IF reading = "read" THEN Trimmed(saved) ELSE {}
       IN
       /\ reading # "read" => DiskFaults /\ saved # {}
       /\ phase' = [phase EXCEPT ![p] = "up"]
       /\ pending' = [pending EXCEPT ![p] = kept]
       /\ files' = IF reading = "damaged" THEN Replaced(FileOf(p), {}) ELSE files
       /\ excused' = (excused \ kept) \cup (saved \ kept)
       /\ UNCHANGED <<panelVars, bootVars, proc, startVars, ticking, recorded, credited, reported,
                      atCancel>>
    /\ UNCHANGED stops

\* All are started: from here on a signal is waited for.
AwaitSignal ==
    /\ proc = "starting" /\ Started = Places
    /\ proc' = "running"
    /\ UNCHANGED <<panelVars, bootVars, phase, startVars, ticking, dataVars, keptVars,
                   stops, atCancel>>

--------------------------------------------------------------------------------
(* The goroutine of each node. *)

\* time.Duration(seconds) * time.Second, in a signed word.
Duration(seconds) ==
    LET d == (seconds * Second) % WordSize IN
    IF d >= WordSize \div 2 THEN d - WordSize ELSE d
Fits(seconds) == seconds * Second < WordSize \div 2

\* NewTicker panics unless the duration is positive, and takes everything down.
\* The goroutine may come to it when the shutdown has begun.
RunTickers(p) ==
    /\ Alive /\ p \in Started /\ p \notin ticking
    /\ IF Duration(interval[p].sync) > 0 /\ Duration(interval[p].report) > 0
       THEN /\ ticking' = ticking \cup {p}
            /\ UNCHANGED <<panelVars, bootVars, proc, phase, startVars, dataVars, keptVars, atCancel>>
       ELSE Abort
    /\ UNCHANGED stops

\* A piece of traffic of the node, counted once its connection settles it.
Record(p, k) ==
    /\ Alive /\ p \in Places /\ PlaceOf[k] = p /\ phase[p] \in {"up", "flushed"}
    /\ k \notin reported \cup recorded[p]
    /\ recorded' = [recorded EXCEPT ![p] = @ \cup {k}]
    /\ UNCHANGED <<panelVars, bootVars, proc, phase, startVars, ticking, pending, keptVars,
                   stops, atCancel>>

\* Report, with its push and its file.  Without a payload it does neither.
\* After a push that failed, the backlog is trimmed and the file replaced by it;
\* after one that succeeded, the file is removed.  Either may fail: then the
\* file stays as it was.
\*
\* reportMu keeps the reports of a node apart, and no other node with an ID of
\* its own has this file.  A process that dies within a Report leaves what it
\* would have left before it, or, after the push, what a removal that failed
\* would: so Report is one step.
Report(p, ok, filed) ==
    LET payload == pending[p] \cup recorded[p]
        left    == IF ok THEN {} ELSE Trimmed(payload)
        safe    == IF ok THEN payload ELSE IF filed THEN left ELSE {}
    IN
    /\ ~filed => DiskFaults /\ payload # {}
    /\ recorded' = [recorded EXCEPT ![p] = {}]
    /\ pending' = [pending EXCEPT ![p] = left]
    /\ credited' = IF ok THEN credited \cup payload ELSE credited
    /\ files' = IF filed /\ payload # {} THEN Replaced(FileOf(p), left) ELSE files
    /\ reported' = reported \cup payload
    /\ excused' = (excused \ payload) \cup (payload \ safe)

\* The reports of the ticker.  Its context is looked at together with the
\* ticker, so that one may still start after the context was cancelled; nobody
\* waits for the goroutine to leave.
TickerReport(p, ok, filed) ==
    /\ Alive /\ p \in ticking
    /\ Report(p, ok, filed)
    /\ UNCHANGED <<panelVars, bootVars, proc, phase, startVars, ticking, stops, atCancel>>

--------------------------------------------------------------------------------
(* The end of the process, and the service around it. *)

Ending == {"stopping", "unwinding"}

\* Whose Shutdown runs: after a signal that of every node, each in a goroutine
\* of its own; after a failed start that of one node after another.
ShutsDown(p) ==
    /\ p \in Started
    /\ \/ proc = "stopping"
       \/ proc = "unwinding" /\ \A q \in Started : q < p => phase[q] = "closed"

\* Node.Shutdown: the last report,
FinalReport(p, ok, filed) ==
    /\ ShutsDown(p) /\ phase[p] = "up"
    /\ Report(p, ok, filed)
    /\ phase' = [phase EXCEPT ![p] = "flushed"]
    /\ UNCHANGED <<panelVars, bootVars, proc, startVars, ticking, stops, atCancel>>

\* then Engine.Close.
CloseEngine(p) ==
    /\ ShutsDown(p) /\ phase[p] = "flushed"
    /\ phase' = [phase EXCEPT ![p] = "closed"]
    /\ UNCHANGED <<panelVars, bootVars, proc, startVars, ticking, dataVars, keptVars,
                   stops, atCancel>>

\* main waits for all of them.
OneClosed == Started = {} \/ \E p \in Started : phase[p] = "closed"     \* mutant: for one
AllClosed == \A p \in Started : phase[p] = "closed"

Exit ==
    /\ proc \in Ending /\ AllClosed
    /\ Die
    /\ UNCHANGED <<stops, atCancel>>

\* A signal begins the shutdown.  Before there is a handler it kills, and while
\* the shutdown runs it does nothing.
Signal ==
    /\ stops < MaxStops /\ stops' = stops + 1
    /\ \/ /\ proc = "running" /\ proc' = "stopping"
          /\ atCancel' = UNION {recorded[p] \cup pending[p] : p \in Places}
          /\ UNCHANGED <<panelVars, bootVars, phase, startVars, ticking, dataVars, keptVars>>
       \/ proc \in {"launching", "starting", "unwinding"} /\ Abort

Crash ==
    /\ Alive /\ stops < MaxStops /\ stops' = stops + 1
    /\ Abort

\* Restart=always
Restart ==
    /\ proc = "down" /\ proc' = "launching" /\ atCancel' = {}
    /\ UNCHANGED <<panelVars, bootVars, phase, startVars, ticking, dataVars, keptVars, stops>>

\* The operator changes the settings, the panel its intervals.
Edit ==
    /\ edits < MaxEdits /\ edits' = edits + 1
    /\ \/ world' \in Worlds \ {world} /\ UNCHANGED offer
       \/ offer' \in Offers \ {offer} /\ UNCHANGED world
    /\ UNCHANGED <<bootVars, proc, phase, startVars, ticking, dataVars, keptVars, stops, atCancel>>

Launch ==
    \/ LoadSettings \/ AwaitSignal \/ Restart
    \/ \E p \in Places, ok \in BOOLEAN :
           \/ FetchConfig(p, ok) \/ FetchUsers(p, ok)
           \/ \E reading \in Readings : StartEngine(p, ok, reading)

Shutdown ==
    \/ \E p \in Places : CloseEngine(p) \/ \E ok, filed \in BOOLEAN : FinalReport(p, ok, filed)
    \/ Exit

Next ==
    \/ Launch \/ Shutdown \/ Signal \/ Crash \/ Edit
    \/ \E p \in Places :
           \/ RunTickers(p)
           \/ \E k \in Units : Record(p, k)
           \/ \E ok, filed \in BOOLEAN : TickerReport(p, ok, filed)

Spec == Init /\ [][Next]_vars

AllPlaces == 1..MaxNodes

\* Goroutines get to run, the service restarts the process, and a request or a
\* start that is tried again and again succeeds at last.
Fairness ==
    /\ WF_vars(Launch) /\ WF_vars(Shutdown)
    /\ \A p \in AllPlaces :
        /\ WF_vars(p \in Places /\ RunTickers(p))
        /\ SF_vars(p \in Places /\ FetchConfig(p, TRUE))
        /\ SF_vars(p \in Places /\ FetchUsers(p, TRUE))
        /\ SF_vars(p \in Places /\ StartEngine(p, TRUE, "read"))

FairSpec == Spec /\ Fairness

--------------------------------------------------------------------------------
(* Properties. *)

\* The type of every variable, and what the place of main says of the nodes:
\* they start in turn, and none is shut down before the end.
TypeOK ==
    /\ world \in Worlds /\ booted \in Worlds /\ offer \in Offers /\ edits \in 0..MaxEdits
    /\ proc \in {"launching", "starting", "running", "stopping", "unwinding", "down"}
    /\ cfg.accepted <=> proc \in {"starting", "running", "stopping", "unwinding"}
    /\ \A D \in {DOMAIN phase, DOMAIN interval, DOMAIN recorded, DOMAIN pending, DOMAIN offered} :
           D = Places
    /\ \A p \in Places :
        /\ phase[p] \in {"new", "configured", "listed", "up", "flushed", "closed"}
        /\ phase[p] \in {"configured", "listed"} => p = Cardinality(Started) + 1
        /\ phase[p] \in {"flushed", "closed"} => proc \in Ending
        /\ recorded[p] \subseteq Units /\ pending[p] \subseteq Units
        /\ interval[p].sync > 0 /\ interval[p].report > 0
    /\ ticking \subseteq Started
    /\ proc = "running" => Started = Places
    /\ credited \subseteq Units /\ reported \subseteq Units /\ excused \subseteq Units
    /\ atCancel \subseteq Units /\ stops \in 0..MaxStops /\ shared \in BOOLEAN

OnDisk == {f[2] : f \in files}

\* Traffic that went through a report is the panel's or on disk, through
\* failed starts, kills, changes of the settings, and whatever the reports of
\* the other nodes do to the files: unless two nodes have had one ID.  Excused
\* is only what the last write of its file failed for, what the bound on the
\* backlog dropped, and what was in a file that its node could not read; and a
\* later report or start that has it in hand answers for it again.
Durable == ~shared => reported \subseteq credited \cup OnDisk \cup excused

\* A process that came to an orderly end, after a signal or because a node did
\* not start, has left nothing behind of what its nodes had recorded when the
\* end began, with the same exceptions.
ExitFlushes == proc = "down" /\ ~shared => atCancel \subseteq credited \cup OnDisk \cup excused

\* What was said about an interval: in the environment, or else in the first
\* line of the file that gives it a value.
Said(key) ==
    LET lines == booted.lines
        given == {i \in DOMAIN lines : lines[i].key = key /\ Unquoted(lines[i]) # Empty}
    IN  IF booted.env[key] # Empty \/ given = {} THEN booted.env[key]
        ELSE Unquoted(lines[Min(given)])
Chosen(key, panels) ==
    IF Said(key) \notin {Empty, Blank} THEN Said(key)[2]
    ELSE IF panels > 0 THEN panels ELSE 60

\* Every node that has its config lives by the intervals the operator gave, or
\* else by those the panel gave when it started, or else by the default.  That
\* is the order the code goes by; README.md has another, stated below.
PeriodsAsChosen ==
    \A p \in Places : phase[p] # "new" =>
        /\ interval[p].sync = Chosen("SYNC_INTERVAL", offered[p].pull)
        /\ interval[p].report = Chosen("REPORT_INTERVAL", offered[p].push)

\* README.md says of both intervals that the panel's is preferred: a node that
\* was offered one lives by it.  The code prefers what the operator gave.
PanelIntervalsPreferred ==
    \A p \in Places : phase[p] # "new" =>
        /\ offered[p].pull > 0 => interval[p].sync = offered[p].pull
        /\ offered[p].push > 0 => interval[p].report = offered[p].push

\* As long as the settings are accepted, and every interval in them and on the
\* panel fits a Duration, the process comes back with all its nodes, whatever
\* has failed or been killed.
Fitting ==
    LET c == Load(world.env, world.lines) IN
    /\ c.accepted
    /\ \A s \in {c.SyncInterval, c.ReportInterval, offer.pull, offer.push} : Fits(s)
Recovers == <>[]Fitting => <>[](proc = "running" /\ ticking = Places)
================================================================================
