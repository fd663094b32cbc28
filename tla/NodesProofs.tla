------------------------------ MODULE NodesProofs -------------------------------
(***************************************************************************)
(* Theorems about the process and its nodes, for any settings, offers of   *)
(* the panel, units of traffic, and bounds.                                *)
(***************************************************************************)
EXTENDS Nodes, FiniteSetTheorems, WellFoundedInduction, TLAPS

--------------------------------------------------------------------------------
(* The inductive invariant. *)

Live == {"up", "flushed", "closed"}

\* The nodes are those of the Config, and nothing is recorded before a node is up.
Shape ==
    /\ DOMAIN phase = Places /\ DOMAIN interval = Places /\ DOMAIN offered = Places
    /\ DOMAIN recorded = Places /\ DOMAIN pending = Places
    /\ \A p \in Places :
        /\ phase[p] \in {"new", "configured", "listed"} \cup Live
        /\ phase[p] \notin Live => recorded[p] = {} /\ pending[p] = {}
        /\ phase[p] \in {"flushed", "closed"} => proc \in Ending

\* What is in the backlog of a node or in a file has been through a report.
Passed ==
    /\ \A p \in Places : pending[p] \subseteq reported
    /\ \A f \in files : f[2] \in reported

\* A unit is recorded at its own place, and not again once it was reported.
Fresh ==
    \A p \in Places :
        /\ recorded[p] \cap reported = {}
        /\ \A k \in recorded[p] : PlaceOf[k] = p

\* As long as no two nodes have shared an ID, a unit has one home: it is in one
\* backlog, in one file, and in no other file than that of the node whose backlog
\* it is in.
Homes ==
    ~shared =>
        /\ \A p, q \in Places : ID(p) = ID(q) => p = q
        /\ \A f, g \in files : f[2] = g[2] => f[1] = g[1]
        /\ \A p \in Places, f \in files : f[2] \in pending[p] => f[1] = FileOf(p)
        /\ \A p, q \in Places : \A k \in pending[p] : k \in pending[q] => p = q

\* As long as no two nodes have shared an ID, the file of a node holds nothing
\* but its backlog, what the panel has been given, and what was let go.
Backed ==
    ~shared =>
        \A p \in Places, f \in files :
            phase[p] \in Live /\ f[1] = FileOf(p) => f[2] \in pending[p] \cup credited \cup excused

\* What there was when an orderly end began has been reported, or is in the
\* records of a node that has still to report.
Settled ==
    /\ proc \in Ending =>
           \A k \in atCancel : k \in reported \/ \E p \in Places : phase[p] = "up" /\ k \in recorded[p]
    /\ proc = "down" => atCancel \subseteq reported

DataInv == Shape /\ Passed /\ Fresh /\ Homes /\ Backed /\ Settled /\ Durable

\* main, the settings and the tickers.
Course ==
    /\ world \in Worlds /\ booted \in Worlds /\ offer \in Offers /\ edits \in 0..MaxEdits
    /\ proc \in {"launching", "starting", "running", "stopping", "unwinding", "down"}
    /\ cfg.accepted <=> proc \in {"starting", "running", "stopping", "unwinding"}
    /\ cfg.accepted => cfg.SyncInterval > 0 /\ cfg.ReportInterval > 0
    /\ ~cfg.accepted => cfg = Nothing
    /\ \A p \in Places :
        /\ phase[p] \in {"configured", "listed"} => p = Cardinality(Started) + 1
        /\ recorded[p] \subseteq Units /\ pending[p] \subseteq Units
        /\ interval[p].sync > 0 /\ interval[p].report > 0
    /\ ticking \subseteq Started
    /\ proc = "running" => Started = Places
    /\ credited \subseteq Units /\ reported \subseteq Units /\ excused \subseteq Units
    /\ atCancel \subseteq Units /\ stops \in 0..MaxStops /\ shared \in BOOLEAN

NodesInv == Course /\ DataInv

--------------------------------------------------------------------------------
(* Traffic: what a step may do to it. *)

LEMMA InitData == Init => DataInv
<1> SUFFICES ASSUME Init PROVE DataInv
  OBVIOUS
<1>1. Places = {} /\ DOMAIN NoNodes = {}
  BY DEF Init, Places, Nothing, NoNodes
<1>2. Shape
  BY <1>1 DEF Init, Shape
<1>3. Passed /\ Fresh /\ Settled /\ Durable
  BY <1>1 DEF Init, Passed, Fresh, Settled, Durable, Ending
<1>4. Homes /\ Backed
  BY <1>1 DEF Init, Homes, Backed
<1> QED BY <1>2, <1>3, <1>4 DEF DataInv

\* The steps that leave the traffic, the files and the books of the panel alone.
LEMMA SameData ==
    ASSUME DataInv,
           UNCHANGED <<cfg, shared, recorded, pending, files, credited, reported, excused>>,
           DOMAIN phase' = Places, DOMAIN interval' = Places, DOMAIN offered' = Places,
           \A p \in Places : /\ phase'[p] \in {"new", "configured", "listed"} \cup Live
                             /\ phase'[p] \in Live <=> phase[p] \in Live
                             /\ phase'[p] \in {"flushed", "closed"} => proc' \in Ending,
           proc' \in Ending => /\ proc \in Ending /\ atCancel' = atCancel
                               /\ \A p \in Places : phase[p] = "up" => phase'[p] = "up",
           proc' = "down" => proc = "down" /\ atCancel' = atCancel
    PROVE  DataInv'
<1>1. Places' = Places /\ \A p : ID(p)' = ID(p) /\ FileOf(p)' = FileOf(p)
  BY DEF Places, ID, FileOf
<1>2. Shape'
  BY <1>1 DEF DataInv, Shape
<1>3. Passed' /\ Fresh'
  BY <1>1 DEF DataInv, Passed, Fresh
<1>4. Homes' /\ Backed'
  BY <1>1 DEF DataInv, Homes, Backed
<1>5. Settled'
  BY <1>1 DEF DataInv, Settled
<1>6. Durable'
  BY DEF DataInv, Durable, OnDisk
<1> QED BY <1>2, <1>3, <1>4, <1>5, <1>6 DEF DataInv

\* The process ends: what was recorded goes, what is on disk and in the panel's
\* books stays.
LEMMA DieData ==
    ASSUME DataInv, Die, atCancel' \subseteq reported
    PROVE  DataInv'
<1>1. /\ proc' = "down" /\ Places' = {} /\ UNCHANGED <<shared, files, credited, reported, excused>>
      /\ DOMAIN phase' = {} /\ DOMAIN interval' = {} /\ DOMAIN offered' = {}
      /\ DOMAIN recorded' = {} /\ DOMAIN pending' = {}
  BY DEF Die, Nothing, NoNodes, Places, keptVars
<1>2. Shape'
  BY <1>1 DEF Shape
<1>3. Passed' /\ Fresh' /\ Homes' /\ Backed'
  BY <1>1 DEF DataInv, Passed, Fresh, Homes, Backed
<1>4. Settled'
  BY <1>1 DEF Settled, Ending
<1>5. Durable'
  BY <1>1 DEF DataInv, Durable, OnDisk
<1> QED BY <1>2, <1>3, <1>4, <1>5 DEF DataInv

LEMMA AbortData ==
    ASSUME DataInv, Abort
    PROVE  DataInv'
BY DieData DEF Abort

\* A fresh process: no node is up, nothing is in memory.
LEMMA LoadData ==
    ASSUME DataInv, LoadSettings
    PROVE  DataInv'
<1> DEFINE c == Load(world.env, world.lines)
           All(x) == [p \in DOMAIN c.NodeIDs |-> x]
<1>1. CASE ~c.accepted
  BY <1>1, AbortData DEF LoadSettings
<1>2. CASE c.accepted
  <2>1. /\ proc = "launching" /\ proc' = "starting" /\ cfg' = c
        /\ shared' = (shared \/ ~IsInjective(c.NodeIDs))
        /\ phase' = All("new") /\ recorded' = All({}) /\ pending' = All({})
        /\ interval' = All([sync |-> c.SyncInterval, report |-> c.ReportInterval])
        /\ offered' = All([pull |-> 0, push |-> 0])
        /\ UNCHANGED <<files, credited, reported, excused, atCancel>>
    BY <1>2 DEF LoadSettings, keptVars
  <2>2. Places' = DOMAIN c.NodeIDs
    BY <2>1 DEF Places
  <2> HIDE DEF c
  <2>3. Shape'
    BY <2>1, <2>2 DEF Shape, Live
  <2>4. Passed' /\ Fresh'
    BY <2>1, <2>2 DEF DataInv, Passed, Fresh
  <2>5. Homes' /\ Backed'
    <3>1. \A p \in Places' : phase'[p] \notin Live /\ pending'[p] = {}
      BY <2>1, <2>2 DEF Live
    <3>2. ~shared' => \A p, q \in Places' : ID(p)' = ID(q)' => p = q
      BY <2>1, <2>2 DEF ID, IsInjective
    <3>3. ~shared' => \A f, g \in files' : f[2] = g[2] => f[1] = g[1]
      BY <2>1 DEF DataInv, Homes
    <3> QED BY <3>1, <3>2, <3>3 DEF Homes, Backed
  <2>6. Settled'
    BY <2>1 DEF Settled, Ending
  <2>7. Durable'
    BY <2>1 DEF DataInv, Durable, OnDisk
  <2> QED BY <2>3, <2>4, <2>5, <2>6, <2>7 DEF DataInv
<1> QED BY <1>1, <1>2

\* The end begins: from a start that failed or a signal.
LEMMA EndData ==
    ASSUME DataInv, proc \in {"starting", "running"}, proc' \in Ending,
           atCancel' = UNION {recorded[p] \cup pending[p] : p \in Places},
           UNCHANGED <<cfg, shared, phase, interval, offered, recorded, pending,
                       files, credited, reported, excused>>
    PROVE  DataInv'
<1>1. Places' = Places /\ \A p : ID(p)' = ID(p) /\ FileOf(p)' = FileOf(p)
  BY DEF Places, ID, FileOf
<1>2. Shape'
  BY <1>1 DEF DataInv, Shape
<1>3. Passed' /\ Fresh' /\ Homes' /\ Backed'
  BY <1>1 DEF DataInv, Passed, Fresh, Homes, Backed
<1>4. Settled'
  <2>1. ASSUME NEW k \in atCancel'
        PROVE  k \in reported \/ \E p \in Places : phase[p] = "up" /\ k \in recorded[p]
    <3>1. PICK p \in Places : k \in recorded[p] \cup pending[p]
      BY <2>1
    <3>2. phase[p] = "up" \/ recorded[p] = {}
      BY DEF DataInv, Shape, Live, Ending
    <3> QED BY <3>1, <3>2 DEF DataInv, Passed
  <2> QED BY <1>1, <2>1 DEF Settled, Ending
<1>5. Durable'
  BY DEF DataInv, Durable, OnDisk
<1> QED BY <1>2, <1>3, <1>4, <1>5 DEF DataInv

\* A step of a start.
LEMMA FetchData ==
    ASSUME DataInv, NEW p \in Places, NEW ok \in BOOLEAN, FetchConfig(p, ok) \/ FetchUsers(p, ok)
    PROVE  DataInv'
<1>1. proc = "starting" /\ phase[p] \in {"new", "configured"}
  BY DEF FetchConfig, FetchUsers, Turn
<1>2. CASE ~ok
  <2>1. GiveUp
    BY <1>2 DEF FetchConfig, FetchUsers
  <2> QED BY <1>1, <2>1, EndData DEF GiveUp, Ending, bootVars, startVars, dataVars, keptVars
<1>3. CASE ok
  <2>1. /\ phase' \in {[phase EXCEPT ![p] = "configured"], [phase EXCEPT ![p] = "listed"]}
        /\ DOMAIN interval' = DOMAIN interval /\ DOMAIN offered' = DOMAIN offered
        /\ UNCHANGED <<cfg, shared, recorded, pending, files, credited, reported, excused, proc>>
    BY <1>3 DEF FetchConfig, FetchUsers, bootVars, startVars, dataVars, keptVars
  <2>2. DOMAIN phase = Places /\ DOMAIN interval = Places /\ DOMAIN offered = Places
    BY DEF DataInv, Shape
  <2>3. /\ DOMAIN phase' = Places /\ phase'[p] \in {"configured", "listed"}
        /\ \A q \in Places : q # p => phase'[q] = phase[q]
    BY <2>1, <2>2
  <2>4. \A q \in Places : /\ phase'[q] \in {"new", "configured", "listed"} \cup Live
                          /\ phase'[q] \in Live <=> phase[q] \in Live
                          /\ phase'[q] \in {"flushed", "closed"} => proc' \in Ending
    BY <1>1, <2>1, <2>3 DEF DataInv, Shape, Live
  <2>5. proc' \notin Ending /\ proc' # "down"
    BY <1>1, <2>1 DEF Ending
  <2> QED BY <2>1, <2>2, <2>3, <2>4, <2>5, SameData
<1> QED BY <1>2, <1>3

\* A node begins with what it could read of the backlog on disk under its name,
\* up to the bound; the rest of that file, and of no other, is let go.
LEMMA StartData ==
    ASSUME DataInv, NEW p \in Places, NEW ok \in BOOLEAN, NEW reading,
           StartEngine(p, ok, reading)
    PROVE  DataInv'
<1>1. proc = "starting" /\ phase[p] = "listed"
  BY DEF StartEngine, Turn
<1>2. CASE ~ok
  <2>1. GiveUp
    BY <1>2 DEF StartEngine
  <2> QED BY <1>1, <2>1, EndData DEF GiveUp, Ending, bootVars, startVars, dataVars, keptVars
<1>3. CASE ok
  <2> DEFINE name == FileOf(p)
             saved == Saved(name)
             kept == IF reading = "read" THEN Trimmed(saved) ELSE {}
  <2>1. /\ phase' = [phase EXCEPT ![p] = "up"] /\ pending' = [pending EXCEPT ![p] = kept]
        /\ files' = IF reading = "damaged" THEN Replaced(name, {}) ELSE files
        /\ excused' = (excused \ kept) \cup (saved \ kept)
        /\ UNCHANGED <<cfg, shared, recorded, interval, offered, credited, reported, proc>>
    BY <1>3 DEF StartEngine, bootVars, startVars
  <2>2. Places' = Places /\ \A q : ID(q)' = ID(q) /\ FileOf(q)' = FileOf(q)
    BY <2>1 DEF Places, ID, FileOf
  <2>3. DOMAIN phase = Places /\ DOMAIN pending = Places
    BY DEF DataInv, Shape
  <2>4. kept \subseteq saved
    BY DEF Trimmed
  <2>5. \A k : k \in saved <=> \E f \in files : f[1] = name /\ f[2] = k
    BY DEF Saved
  <2>6. /\ files' \subseteq files
        /\ \A f \in files : f \in files' \/ (f[1] = name /\ kept = {})
    BY <2>1 DEF Replaced
  <2> HIDE DEF name, saved, kept
  <2>7. /\ DOMAIN phase' = Places /\ DOMAIN pending' = Places /\ phase'[p] = "up"
        /\ pending'[p] = kept
        /\ \A q \in Places : q # p => phase'[q] = phase[q] /\ pending'[q] = pending[q]
    BY <2>1, <2>3
  <2>8. Shape'
    BY <1>1, <2>1, <2>2, <2>7 DEF DataInv, Shape, Live, Ending
  <2>9. Passed' /\ Fresh'
    <3>1. \A q \in Places : pending'[q] \subseteq reported
      BY <2>4, <2>5, <2>7 DEF DataInv, Passed
    <3>2. \A f \in files' : f[2] \in reported
      BY <2>6 DEF DataInv, Passed
    <3> QED BY <2>1, <2>2, <3>1, <3>2 DEF DataInv, Passed, Fresh
  <2>10. Homes'
    <3> SUFFICES ASSUME ~shared PROVE Homes'
      BY <2>1 DEF Homes
    <3>1. \A q, r \in Places : ID(q) = ID(r) => q = r
      BY DEF DataInv, Homes
    <3>2. \A f, g \in files' : f[2] = g[2] => f[1] = g[1]
      BY <2>6 DEF DataInv, Homes
    <3>3. \A f \in files : f[2] \in kept => f[1] = name
      BY <2>4, <2>5 DEF DataInv, Homes
    <3>4. \A q \in Places, f \in files' : f[2] \in pending'[q] => f[1] = FileOf(q)
      BY <2>6, <2>7, <3>3 DEF DataInv, Homes, name
    <3>5. ASSUME NEW q \in Places, q # p, NEW k \in kept, k \in pending[q] PROVE FALSE
      <4>1. PICK f \in files : f[1] = name /\ f[2] = k
        BY <2>4, <2>5, <3>5
      <4>2. FileOf(q) = FileOf(p)
        BY <3>5, <4>1 DEF DataInv, Homes, name
      <4> QED BY <3>1, <3>5, <4>2 DEF FileOf, StateFile
    <3>6. \A q, r \in Places : \A k \in pending'[q] : k \in pending'[r] => q = r
      BY <2>7, <3>5 DEF DataInv, Homes
    <3> QED BY <2>1, <2>2, <3>1, <3>2, <3>4, <3>6 DEF Homes
  <2>11. Backed'
    <3> SUFFICES ASSUME ~shared, NEW q \in Places, NEW f \in files',
                        phase'[q] \in Live, f[1] = FileOf(q)
                 PROVE  f[2] \in pending'[q] \cup credited \cup excused'
      BY <2>1, <2>2 DEF Backed
    <3>1. CASE q = p
      BY <2>1, <2>5, <2>6, <2>7, <3>1 DEF name
    <3>2. CASE q # p
      <4>1. f[2] \in pending[q] \cup credited \cup excused
        BY <2>6, <2>7, <3>2 DEF DataInv, Backed
      <4>2. f[2] \notin saved
        <5>1. f[2] \in saved => FileOf(q) = FileOf(p)
          BY <2>5, <2>6 DEF DataInv, Homes, name
        <5> QED BY <3>2, <5>1 DEF DataInv, Homes, FileOf, StateFile
      <4> QED BY <2>1, <2>4, <2>7, <3>2, <4>1, <4>2
    <3> QED BY <3>1, <3>2
  <2>12. Settled'
    BY <1>1, <2>1 DEF Settled, Ending
  <2>13. Durable'
    <3> SUFFICES ASSUME ~shared, NEW k \in reported PROVE k \in credited \cup OnDisk' \cup excused'
      BY <2>1 DEF Durable
    <3>1. CASE k \in saved
      <4>1. CASE k \in kept
        BY <2>5, <2>6, <3>1, <4>1 DEF OnDisk
      <4> QED BY <2>1, <3>1, <4>1
    <3>2. CASE k \notin saved
      <4>1. k \in credited \cup OnDisk \cup excused
        BY DEF DataInv, Durable
      <4>2. k \in OnDisk => k \in OnDisk'
        BY <2>5, <2>6, <3>2 DEF OnDisk
      <4> QED BY <2>1, <2>4, <3>2, <4>1, <4>2
    <3> QED BY <3>1, <3>2
  <2> QED BY <2>8, <2>9, <2>10, <2>11, <2>12, <2>13 DEF DataInv
<1> QED BY <1>2, <1>3

\* A unit of traffic comes to a node that is up, or has reported for the last time.
LEMMA RecordData ==
    ASSUME DataInv, NEW p \in Places, NEW k \in Units, Record(p, k)
    PROVE  DataInv'
<1>1. /\ recorded' = [recorded EXCEPT ![p] = @ \cup {k}] /\ phase[p] \in {"up", "flushed"}
      /\ UNCHANGED <<cfg, shared, proc, phase, interval, offered, pending, files, credited,
                     reported, excused, atCancel>>
  BY DEF Record, bootVars, startVars, keptVars
<1>2. Places' = Places /\ \A q : ID(q)' = ID(q) /\ FileOf(q)' = FileOf(q)
  BY <1>1 DEF Places, ID, FileOf
<1>3. DOMAIN recorded = Places
  BY DEF DataInv, Shape
<1>4. /\ DOMAIN recorded' = Places /\ recorded'[p] = recorded[p] \cup {k}
      /\ \A q \in Places : q # p => recorded'[q] = recorded[q]
  BY <1>1, <1>3
<1>5. Shape'
  BY <1>1, <1>2, <1>4 DEF DataInv, Shape, Live
<1>6. Passed' /\ Homes' /\ Backed'
  BY <1>1, <1>2 DEF DataInv, Passed, Homes, Backed
<1>7. Fresh'
  <2>1. PlaceOf[k] = p /\ k \notin reported
    BY DEF Record
  <2> QED BY <1>1, <1>2, <1>4, <2>1 DEF DataInv, Fresh
<1>8. Settled'
  BY <1>1, <1>2, <1>4 DEF DataInv, Settled
<1>9. Durable'
  BY <1>1 DEF DataInv, Durable, OnDisk
<1> QED BY <1>5, <1>6, <1>7, <1>8, <1>9 DEF DataInv

\* A report of a live node, by its ticker or by Shutdown: its file is replaced
\* or stays, and what it held is in the payload, the panel's, or was let go.
LEMMA ReportData ==
    ASSUME DataInv, NEW p \in Places, NEW ok \in BOOLEAN, NEW filed \in BOOLEAN,
           phase[p] \in Live, Report(p, ok, filed),
           UNCHANGED <<cfg, shared, proc, interval, offered, atCancel>>,
           phase' = phase \/ (proc \in Ending /\ phase' = [phase EXCEPT ![p] = "flushed"])
    PROVE  DataInv'
<1> DEFINE payload == pending[p] \cup recorded[p]
           name == FileOf(p)
           left == IF ok THEN {} ELSE Trimmed(payload)
           safe == IF ok THEN payload ELSE IF filed THEN left ELSE {}
<1>1. Places' = Places /\ \A q : ID(q)' = ID(q) /\ FileOf(q)' = FileOf(q)
  BY DEF Places, ID, FileOf
<1>2. DOMAIN recorded = Places /\ DOMAIN pending = Places /\ DOMAIN phase = Places
  BY DEF DataInv, Shape
<1>3. /\ DOMAIN recorded' = Places /\ DOMAIN pending' = Places
      /\ recorded'[p] = {} /\ pending'[p] = left
      /\ \A q \in Places : q # p => recorded'[q] = recorded[q] /\ pending'[q] = pending[q]
      /\ credited' = (IF ok THEN credited \cup payload ELSE credited)
      /\ reported' = reported \cup payload
      /\ excused' = (excused \ payload) \cup (payload \ safe)
      /\ files' = IF filed /\ payload # {} THEN Replaced(name, left) ELSE files
  BY <1>2 DEF Report
<1>4. /\ DOMAIN phase' = Places /\ phase'[p] \in Live
      /\ phase'[p] \in {"flushed", "closed"} => proc \in Ending
      /\ \A q \in Places : q # p => phase'[q] = phase[q]
  BY <1>2 DEF Live, DataInv, Shape
<1>5. left \subseteq payload
  BY DEF Trimmed
<1>6. /\ \A f \in files : f \in files' \/ f[1] = name
      /\ \A f \in files' : f \in files \/ (f[1] = name /\ f[2] \in left)
      /\ filed /\ payload # {} => \A f \in files' : f[1] = name => f[2] \in left
      /\ ~filed \/ payload = {} => files' = files
  BY <1>3 DEF Replaced
<1>7. filed => \A k \in left : \E f \in files' : f[1] = name /\ f[2] = k
  <2> SUFFICES ASSUME filed, NEW k \in left
               PROVE  \E f \in files' : f[1] = name /\ f[2] = k
    OBVIOUS
  <2>1. files' = Replaced(name, left)
    BY <1>3, <1>5
  <2>2. <<name, k>> \in files'
    BY <2>1 DEF Replaced
  <2> QED BY <2>2
<1> HIDE DEF left
<1>8. \A k \in payload : k \in credited' \/ k \in excused' \/ (filed /\ k \in left)
  BY <1>3
<1>9. ok => left = {}
  BY DEF left
<1>10. \A k : k \notin payload /\ k \in excused => k \in excused'
  BY <1>3
<1>11. /\ \A k \in payload : k \in reported => k \in pending[p]
       /\ \A q \in Places, k \in payload : q # p => k \notin recorded[q]
  BY DEF DataInv, Fresh, Passed
<1> HIDE DEF payload, name, safe
<1>12. Shape'
  BY <1>1, <1>2, <1>3, <1>4 DEF DataInv, Shape, Live
<1>13. Passed'
  <2>1. \A q \in Places : pending'[q] \subseteq reported'
    BY <1>3, <1>5 DEF DataInv, Passed
  <2>2. \A f \in files' : f[2] \in reported'
    BY <1>3, <1>5, <1>6 DEF DataInv, Passed
  <2> QED BY <1>1, <2>1, <2>2 DEF Passed
<1>14. Fresh'
  <2> SUFFICES ASSUME NEW q \in Places
               PROVE  recorded'[q] \cap reported' = {} /\ \A k \in recorded'[q] : PlaceOf[k] = q
    BY <1>1 DEF Fresh
  <2>1. CASE q = p
    BY <1>3, <2>1
  <2>2. CASE q # p
    BY <1>3, <1>11, <2>2 DEF DataInv, Fresh
  <2> QED BY <2>1, <2>2
<1>15. \A f \in files : ~shared /\ f[2] \in payload => f[1] = name
  BY <1>11 DEF DataInv, Homes, Passed, name
<1>16. Homes'
  <2> SUFFICES ASSUME ~shared PROVE Homes'
    BY DEF Homes
  <2>1. \A q, r \in Places : ID(q) = ID(r) => q = r
    BY DEF DataInv, Homes
  <2>2. \A f, g \in files' : f[2] = g[2] => f[1] = g[1]
    BY <1>5, <1>6, <1>15 DEF DataInv, Homes
  <2>3. ASSUME NEW q \in Places, q # p, NEW k \in payload PROVE k \notin pending[q]
    BY <1>11, <2>3 DEF DataInv, Homes, Passed
  <2>4. ASSUME NEW q \in Places, NEW f \in files', f[2] \in pending'[q] PROVE f[1] = FileOf(q)
    <3>1. CASE q = p
      BY <1>3, <1>5, <1>6, <1>15, <2>4, <3>1 DEF name
    <3>2. CASE q # p
      <4>1. f[2] \in pending[q] /\ f \in files
        BY <1>3, <1>5, <1>6, <2>3, <2>4, <3>2
      <4> QED BY <4>1 DEF DataInv, Homes
    <3> QED BY <3>1, <3>2
  <2>5. \A q, r \in Places : \A k \in pending'[q] : k \in pending'[r] => q = r
    BY <1>3, <1>5, <2>3 DEF DataInv, Homes
  <2> QED BY <1>1, <2>1, <2>2, <2>4, <2>5 DEF Homes
<1>17. Backed'
  <2> SUFFICES ASSUME ~shared, NEW q \in Places, NEW f \in files',
                      phase'[q] \in Live, f[1] = FileOf(q)
               PROVE  f[2] \in pending'[q] \cup credited' \cup excused'
    BY <1>1 DEF Backed
  <2>1. CASE f[2] \in left /\ f[1] = name
    <3>1. FileOf(q) # FileOf(p) \/ q = p
      BY DEF DataInv, Homes, FileOf, StateFile
    <3> QED BY <1>3, <2>1, <3>1 DEF name
  <2>2. CASE f \in files /\ f[2] \notin left
    <3>1. f[2] \in pending[q] \cup credited \cup excused
      BY <1>4, <2>2 DEF DataInv, Backed
    <3>2. CASE q = p
      <4>1. f[2] \in payload => f[2] \in credited' \cup excused'
        BY <1>8, <2>2
      <4>2. pending[p] \subseteq payload
        BY DEF payload
      <4> QED BY <1>3, <1>10, <3>1, <3>2, <4>1, <4>2
    <3>3. CASE q # p
      <4>1. f[2] \notin payload
        BY <1>15, <2>2, <3>3 DEF DataInv, Homes, FileOf, StateFile, name
      <4> QED BY <1>3, <1>10, <3>1, <3>3, <4>1
    <3> QED BY <3>2, <3>3
  <2>3. CASE f \in files /\ f[2] \in left
    BY <1>5, <1>15, <2>1, <2>3
  <2> QED BY <1>6, <2>1, <2>2, <2>3
<1>18. Settled'
  <2>1. ASSUME proc \in Ending, NEW k \in atCancel
        PROVE  k \in reported' \/ \E q \in Places : phase'[q] = "up" /\ k \in recorded'[q]
    <3>1. CASE k \in reported
      BY <1>3, <3>1
    <3>2. ASSUME NEW q \in Places, phase[q] = "up", k \in recorded[q]
          PROVE  k \in reported' \/ \E r \in Places : phase'[r] = "up" /\ k \in recorded'[r]
      <4>1. CASE q = p
        BY <1>3, <3>2, <4>1 DEF payload
      <4>2. CASE q # p
        BY <1>3, <1>4, <3>2, <4>2
      <4> QED BY <4>1, <4>2
    <3> QED BY <2>1, <3>1, <3>2 DEF DataInv, Settled
  <2>2. proc = "down" => atCancel \subseteq reported'
    BY <1>3 DEF DataInv, Settled
  <2> QED BY <1>1, <2>1, <2>2 DEF Settled
<1>19. Durable'
  <2> SUFFICES ASSUME ~shared, NEW k \in reported'
               PROVE  k \in credited' \cup OnDisk' \cup excused'
    BY DEF Durable
  <2>1. CASE k \in payload
    BY <1>7, <1>8, <2>1 DEF OnDisk
  <2>2. CASE k \notin payload
    <3>1. k \in credited \cup OnDisk \cup excused
      BY <1>3, <2>2 DEF DataInv, Durable
    <3>2. CASE k \in OnDisk
      <4>1. PICK f \in files : f[2] = k
        BY <3>2 DEF OnDisk
      <4>2. CASE f \in files'
        BY <4>1, <4>2 DEF OnDisk
      <4>3. CASE f[1] = name
        <5>1. f[2] \in pending[p] \cup credited \cup excused
          BY <4>3 DEF DataInv, Backed, name
        <5>2. k \notin pending[p]
          BY <2>2 DEF payload
        <5> QED BY <1>3, <1>10, <2>2, <4>1, <5>1, <5>2
      <4> QED BY <1>6, <4>2, <4>3
    <3> QED BY <1>3, <1>10, <2>2, <3>1, <3>2
  <2> QED BY <2>1, <2>2
<1> QED BY <1>12, <1>13, <1>14, <1>16, <1>17, <1>18, <1>19 DEF DataInv

\* The steps of main that leave the traffic alone.
LEMMA MainData ==
    ASSUME DataInv, AwaitSignal \/ Restart \/ Edit
    PROVE  DataInv'
<1> USE DEF DataInv, Shape
<1>1. CASE AwaitSignal
  BY <1>1, SameData DEF AwaitSignal, bootVars, startVars, dataVars, keptVars, Ending
<1>2. CASE Restart
  BY <1>2, SameData DEF Restart, bootVars, startVars, dataVars, keptVars, Ending
<1>3. CASE Edit
  BY <1>3, SameData DEF Edit, bootVars, startVars, dataVars, keptVars
<1> QED BY <1>1, <1>2, <1>3

\* A node is closed after it has reported for the last time.
LEMMA CloseData ==
    ASSUME DataInv, NEW p \in Places, CloseEngine(p)
    PROVE  DataInv'
<1>1. /\ phase[p] = "flushed" /\ phase' = [phase EXCEPT ![p] = "closed"]
      /\ UNCHANGED <<cfg, shared, interval, offered, recorded, pending, files, credited,
                     reported, excused, proc, atCancel>>
  BY DEF CloseEngine, bootVars, startVars, dataVars, keptVars
<1>2. DOMAIN phase = Places
  BY DEF DataInv, Shape
<1>3. /\ DOMAIN phase' = Places /\ phase'[p] = "closed"
      /\ \A q \in Places : q # p => phase'[q] = phase[q]
  BY <1>1, <1>2
<1>4. \A q \in Places : /\ phase'[q] \in {"new", "configured", "listed"} \cup Live
                        /\ phase'[q] \in Live <=> phase[q] \in Live
                        /\ phase'[q] \in {"flushed", "closed"} => proc' \in Ending
                        /\ phase[q] = "up" => phase'[q] = "up"
  BY <1>1, <1>3 DEF DataInv, Shape, Live
<1>5. DOMAIN interval' = Places /\ DOMAIN offered' = Places
  BY <1>1 DEF DataInv, Shape
<1> QED BY <1>1, <1>3, <1>4, <1>5, SameData

\* main leaves when all its nodes are closed: none has a record to report.
LEMMA ExitData ==
    ASSUME DataInv, Exit
    PROVE  DataInv'
<1>1. \A p \in Places : phase[p] # "up"
  BY DEF Exit, AllClosed, Started
<1>2. atCancel' \subseteq reported
  BY <1>1 DEF Exit, DataInv, Settled
<1> QED BY <1>2, DieData DEF Exit

LEMMA SignalData ==
    ASSUME DataInv, Signal
    PROVE  DataInv'
<1>1. CASE Abort
  BY <1>1, AbortData
<1>2. CASE proc = "running" /\ ~Abort
  BY <1>2, EndData DEF Signal, Ending, bootVars, startVars, dataVars, keptVars
<1> QED BY <1>1, <1>2 DEF Signal

LEMMA NextData ==
    ASSUME Course, DataInv, [Next]_vars
    PROVE  DataInv'
<1>1. CASE LoadSettings
  BY <1>1, LoadData
<1>2. CASE AwaitSignal \/ Restart \/ Edit
  BY <1>2, MainData
<1>3. ASSUME NEW p \in Places, NEW ok \in BOOLEAN, FetchConfig(p, ok) \/ FetchUsers(p, ok)
      PROVE  DataInv'
  BY <1>3, FetchData
<1>4. ASSUME NEW p \in Places, NEW ok \in BOOLEAN, NEW reading \in Readings,
             StartEngine(p, ok, reading)
      PROVE  DataInv'
  BY <1>4, StartData
<1>5. ASSUME NEW p \in Places, CloseEngine(p)
      PROVE  DataInv'
  BY <1>5, CloseData
<1>6. ASSUME NEW p \in Places, NEW ok \in BOOLEAN, NEW filed \in BOOLEAN,
             FinalReport(p, ok, filed)
      PROVE  DataInv'
  <2>1. /\ phase[p] \in Live /\ proc \in Ending /\ Report(p, ok, filed)
        /\ phase' = [phase EXCEPT ![p] = "flushed"]
        /\ UNCHANGED <<cfg, shared, proc, interval, offered, atCancel>>
    BY <1>6 DEF FinalReport, ShutsDown, Live, Ending, bootVars, startVars
  <2> QED BY <2>1, ReportData
<1>7. CASE Exit
  BY <1>7, ExitData
<1>8. CASE Signal
  BY <1>8, SignalData
<1>9. CASE Crash
  BY <1>9, AbortData DEF Crash
<1>10. ASSUME NEW p \in Places, RunTickers(p)
       PROVE  DataInv'
  <2>1. CASE Abort
    BY <2>1, AbortData
  <2>2. CASE ~Abort
    <3>1. UNCHANGED <<cfg, shared, proc, phase, interval, offered, recorded, pending, files,
                      credited, reported, excused, atCancel>>
      BY <1>10, <2>2 DEF RunTickers, bootVars, startVars, dataVars, keptVars
    <3> QED BY <3>1, SameData DEF DataInv, Shape
  <2> QED BY <2>1, <2>2
<1>11. ASSUME NEW p \in Places, NEW k \in Units, Record(p, k)
       PROVE  DataInv'
  BY <1>11, RecordData
<1>12. ASSUME NEW p \in Places, NEW ok \in BOOLEAN, NEW filed \in BOOLEAN,
              TickerReport(p, ok, filed)
       PROVE  DataInv'
  <2>1. /\ phase[p] \in Live /\ Report(p, ok, filed) /\ phase' = phase
        /\ UNCHANGED <<cfg, shared, proc, interval, offered, atCancel>>
    BY <1>12 DEF TickerReport, Course, Started, Live, bootVars, startVars
  <2> QED BY <2>1, ReportData
<1>13. CASE UNCHANGED vars
  <2>1. UNCHANGED <<cfg, shared, proc, phase, interval, offered, recorded, pending, files,
                    credited, reported, excused, atCancel>>
    BY <1>13 DEF vars, bootVars, startVars, dataVars, keptVars
  <2> QED BY <2>1, SameData DEF DataInv, Shape
<1> QED BY <1>1, <1>2, <1>3, <1>4, <1>5, <1>6, <1>7, <1>8, <1>9, <1>10, <1>11, <1>12, <1>13
        DEF Next, Launch, Shutdown

--------------------------------------------------------------------------------
(* main and the settings. *)

\* The intervals of a Config are positive: by default, or because no other was
\* accepted.
LEMMA LoadedIntervals ==
    ASSUME NEW env, NEW lines, Load(env, lines).accepted
    PROVE  Load(env, lines).SyncInterval > 0 /\ Load(env, lines).ReportInterval > 0
<1> DEFINE e == Environment(env, lines)
<1>1. Acceptable(e)
  BY DEF Load, Refused
<1> HIDE DEF e
<1>2. \A key \in {"SYNC_INTERVAL", "REPORT_INTERVAL"} : ValueOf(e, key) > 0
  <2> TAKE key \in {"SYNC_INTERVAL", "REPORT_INTERVAL"}
  <2>1. Given(e, key) => Raw(e, key) > 0
    BY <1>1 DEF Acceptable, PositiveKeys, PositiveIfGiven
  <2>2. Default("SYNC_INTERVAL") = 60 /\ Default("REPORT_INTERVAL") = 60
    BY DEF Default
  <2> QED BY <2>1, <2>2 DEF ValueOf
<1> QED BY <1>1, <1>2 DEF Load, e

LEMMA InitCourse == Init => Course
<1> SUFFICES ASSUME Init PROVE Course
  OBVIOUS
<1>1. Places = {} /\ ~cfg.accepted
  BY DEF Init, Places, Nothing
<1>2. /\ world \in Worlds /\ booted \in Worlds /\ offer \in Offers
      /\ proc = "launching" /\ cfg = Nothing /\ ticking = {} /\ shared \in BOOLEAN
      /\ credited = {} /\ reported = {} /\ excused = {} /\ atCancel = {}
  BY DEF Init
<1>3. edits \in 0..MaxEdits /\ stops \in 0..MaxStops
  BY NodeBounds DEF Init
<1> QED BY <1>1, <1>2, <1>3 DEF Course

\* A fresh memory is a good one.
LEMMA DieCourse ==
    ASSUME Course, DataInv, Die, stops' \in 0..MaxStops, atCancel' \subseteq Units
    PROVE  Course'
<1>1. /\ proc' = "down" /\ cfg' = Nothing /\ Places' = {} /\ ticking' = {} /\ booted' = world
      /\ UNCHANGED <<panelVars, shared, keptVars>>
  BY DEF Die, Nothing, Places
<1> QED BY <1>1 DEF Course, Nothing, panelVars, keptVars

LEMMA LoadCourse ==
    ASSUME Course, DataInv, LoadSettings
    PROVE  Course'
<1> DEFINE c == Load(world.env, world.lines)
<1>1. CASE ~c.accepted
  BY <1>1, DieCourse DEF LoadSettings, Abort, Course
<1>2. CASE c.accepted
  <2>1. c.SyncInterval > 0 /\ c.ReportInterval > 0
    BY <1>2, LoadedIntervals
  <2>2. c.accepted <=> TRUE
    BY <1>2
  <2> DEFINE All(x) == [p \in DOMAIN c.NodeIDs |-> x]
  <2>3. /\ proc' = "starting" /\ cfg' = c /\ booted' = world
        /\ phase' = All("new") /\ recorded' = All({}) /\ pending' = All({}) /\ ticking' = {}
        /\ interval' = All([sync |-> c.SyncInterval, report |-> c.ReportInterval])
        /\ shared' = (shared \/ ~IsInjective(c.NodeIDs))
        /\ UNCHANGED <<panelVars, keptVars, atCancel, stops>>
    BY <1>2 DEF LoadSettings
  <2>4. Places' = DOMAIN c.NodeIDs
    BY <2>3 DEF Places
  <2> HIDE DEF c
  <2>5. \A p \in Places' : /\ phase'[p] = "new" /\ recorded'[p] = {} /\ pending'[p] = {}
                           /\ interval'[p].sync = c.SyncInterval
                           /\ interval'[p].report = c.ReportInterval
    BY <2>3, <2>4
  <2>6. shared' \in BOOLEAN
    BY <2>3 DEF Course
  <2> QED BY <1>2, <2>1, <2>3, <2>5, <2>6 DEF Course, panelVars, keptVars
<1> QED BY <1>1, <1>2

\* A node that starts was the one in turn: the others that have begun are up.
LEMMA StartCourse ==
    ASSUME Course, DataInv, NEW p \in Places, NEW ok \in BOOLEAN,
           NEW reading, FetchConfig(p, ok) \/ FetchUsers(p, ok) \/ StartEngine(p, ok, reading)
    PROVE  Course'
<1>1. /\ proc = "starting" /\ p = Cardinality(Started) + 1
      /\ phase[p] \in {"new", "configured", "listed"}
      /\ DOMAIN phase = Places /\ DOMAIN interval = Places /\ DOMAIN pending = Places
  BY DEF FetchConfig, FetchUsers, StartEngine, Turn, DataInv, Shape
<1>2. CASE ~ok
  <2>1. GiveUp /\ UNCHANGED stops
    BY <1>2 DEF FetchConfig, FetchUsers, StartEngine
  <2>2. Places' = Places /\ Started' = Started /\ atCancel' \subseteq Units
    BY <2>1 DEF GiveUp, Places, Started, Course, bootVars
  <2> QED BY <1>1, <2>1, <2>2
          DEF GiveUp, Course, panelVars, bootVars, startVars, dataVars, keptVars
<1>3. CASE ok /\ (FetchConfig(p, ok) \/ FetchUsers(p, ok))
  <2>1. /\ phase' \in {[phase EXCEPT ![p] = "configured"], [phase EXCEPT ![p] = "listed"]}
        /\ UNCHANGED <<panelVars, bootVars, proc, ticking, dataVars, keptVars, stops, atCancel>>
    BY <1>3 DEF FetchConfig, FetchUsers
  <2>2. Places' = Places
    BY <2>1 DEF Places, bootVars
  <2>3. /\ phase'[p] \in {"configured", "listed"}
        /\ \A q \in Places : q # p => phase'[q] = phase[q]
    BY <1>1, <2>1
  <2>4. Started' = Started
    BY <1>1, <2>2, <2>3 DEF Started
  <2>5. \A q \in Places : interval'[q].sync > 0 /\ interval'[q].report > 0
    <3>1. CASE interval' = interval
      BY <3>1 DEF Course
    <3>2. CASE FetchConfig(p, ok)
      <4>1. /\ offer.pull \in Int /\ offer.push \in Int
            /\ cfg.SyncInterval > 0 /\ cfg.ReportInterval > 0
        BY <1>1, OffersOK DEF Course
      <4> DEFINE own == [sync   |-> Prefer(cfg.SyncIntervalExplicit, cfg.SyncInterval, offer.pull),
                         report |-> Prefer(cfg.ReportIntervalExplicit, cfg.ReportInterval, offer.push)]
      <4>2. own.sync > 0 /\ own.report > 0
        BY <4>1 DEF Prefer
      <4>3. interval' = [interval EXCEPT ![p] = own]
        BY <1>3, <3>2 DEF FetchConfig
      <4> HIDE DEF own
      <4>4. interval'[p] = own /\ \A q \in Places : q # p => interval'[q] = interval[q]
        BY <1>1, <4>3
      <4> QED BY <4>2, <4>4 DEF Course
    <3> QED BY <1>3, <3>1, <3>2 DEF FetchUsers, startVars
  <2> QED BY <1>1, <2>1, <2>2, <2>3, <2>4, <2>5
          DEF Course, panelVars, bootVars, dataVars, keptVars
<1>4. CASE ok /\ StartEngine(p, ok, reading)
  <2> DEFINE kept == IF reading = "read" THEN Trimmed(Saved(FileOf(p))) ELSE {}
  <2>1. /\ phase' = [phase EXCEPT ![p] = "up"] /\ pending' = [pending EXCEPT ![p] = kept]
        /\ excused' \subseteq excused \cup Saved(FileOf(p))
        /\ UNCHANGED <<panelVars, bootVars, proc, startVars, ticking, recorded, credited, reported,
                       stops, atCancel>>
    BY <1>4 DEF StartEngine
  <2>2. Places' = Places
    BY <2>1 DEF Places, bootVars
  <2> HIDE DEF kept
  <2>3. /\ phase'[p] = "up" /\ pending'[p] = kept
        /\ \A q \in Places : q # p => phase'[q] = phase[q] /\ pending'[q] = pending[q]
    BY <1>1, <2>1
  <2>4. Started \subseteq Started'
    BY <2>2, <2>3 DEF Started
  <2>5. \A q \in Places : phase'[q] \notin {"configured", "listed"}
    BY <1>1, <2>3 DEF Course
  <2>6. Saved(FileOf(p)) \subseteq Units
    BY DEF Saved, DataInv, Passed, Course
  <2>7. kept \subseteq Units /\ excused' \subseteq Units
    BY <2>1, <2>6 DEF kept, Trimmed, Course
  <2> QED BY <1>1, <2>1, <2>2, <2>3, <2>4, <2>5, <2>7
          DEF Course, panelVars, bootVars, startVars
<1> QED BY <1>2, <1>3, <1>4

\* A report moves the units that were recorded.
LEMMA ReportCourse ==
    ASSUME Course, DataInv, NEW p \in Places, NEW ok \in BOOLEAN, NEW filed \in BOOLEAN,
           Report(p, ok, filed)
    PROVE  /\ \A q \in Places : recorded'[q] \subseteq Units /\ pending'[q] \subseteq Units
           /\ credited' \subseteq Units /\ reported' \subseteq Units /\ excused' \subseteq Units
<1> DEFINE payload == pending[p] \cup recorded[p]
<1>1. DOMAIN recorded = Places /\ DOMAIN pending = Places
  BY DEF DataInv, Shape
<1>2. payload \subseteq Units
  BY DEF Course
<1>3. /\ recorded'[p] = {} /\ pending'[p] \subseteq payload
      /\ \A q \in Places : q # p => recorded'[q] = recorded[q] /\ pending'[q] = pending[q]
      /\ credited' \subseteq credited \cup payload /\ reported' = reported \cup payload
      /\ excused' \subseteq excused \cup payload
  BY <1>1 DEF Report, Trimmed
<1> QED BY <1>2, <1>3 DEF Course

\* The steps of the nodes that run: none changes the place of another.
LEMMA NodeCourse ==
    ASSUME Course, DataInv, NEW p \in Places,
           \/ RunTickers(p) \/ CloseEngine(p)
           \/ \E k \in Units : Record(p, k)
           \/ \E ok, filed \in BOOLEAN : TickerReport(p, ok, filed) \/ FinalReport(p, ok, filed)
    PROVE  Course'
<1> USE DEF panelVars, bootVars, startVars, dataVars, keptVars
<1>1. DOMAIN recorded = Places /\ DOMAIN phase = Places
  BY DEF DataInv, Shape
<1>2. CASE RunTickers(p)
  <2>1. CASE Abort
    BY <1>2, <2>1, DieCourse DEF RunTickers, Abort, Course
  <2>2. CASE ~Abort
    <3>1. /\ ticking' = ticking \cup {p} /\ p \in Started
          /\ UNCHANGED <<panelVars, bootVars, proc, phase, startVars, dataVars, keptVars, stops,
                         atCancel>>
      BY <1>2, <2>2 DEF RunTickers
    <3>2. Places' = Places /\ Started' = Started
      BY <3>1 DEF Places, Started
    <3> QED BY <3>1, <3>2 DEF Course
  <2> QED BY <2>1, <2>2
<1>3. CASE \E k \in Units : Record(p, k)
  <2>1. PICK k \in Units : Record(p, k)
    BY <1>3
  <2>2. /\ recorded' = [recorded EXCEPT ![p] = @ \cup {k}]
        /\ UNCHANGED <<panelVars, bootVars, proc, phase, startVars, ticking, pending, keptVars,
                       stops, atCancel>>
    BY <2>1 DEF Record
  <2>3. Places' = Places /\ Started' = Started
    BY <2>2 DEF Places, Started
  <2>4. \A q \in Places : recorded'[q] \subseteq Units
    BY <1>1, <2>2 DEF Course
  <2> QED BY <2>2, <2>3, <2>4 DEF Course
<1>4. CASE \E ok, filed \in BOOLEAN : TickerReport(p, ok, filed)
  <2>1. PICK ok \in BOOLEAN, filed \in BOOLEAN : TickerReport(p, ok, filed)
    BY <1>4
  <2>2. /\ Report(p, ok, filed)
        /\ UNCHANGED <<panelVars, bootVars, proc, phase, startVars, ticking, stops, atCancel>>
    BY <2>1 DEF TickerReport
  <2>3. Places' = Places /\ Started' = Started
    BY <2>2 DEF Places, Started
  <2>4. /\ \A q \in Places : recorded'[q] \subseteq Units /\ pending'[q] \subseteq Units
        /\ credited' \subseteq Units /\ reported' \subseteq Units /\ excused' \subseteq Units
    BY <2>2, ReportCourse
  <2> QED BY <2>2, <2>3, <2>4 DEF Course
<1>5. CASE CloseEngine(p) \/ \E ok, filed \in BOOLEAN : FinalReport(p, ok, filed)
  <2>1. /\ p \in Started /\ proc \in Ending
        /\ phase' \in {[phase EXCEPT ![p] = "flushed"], [phase EXCEPT ![p] = "closed"]}
        /\ UNCHANGED <<panelVars, bootVars, proc, startVars, ticking, stops, atCancel>>
    BY <1>5 DEF CloseEngine, FinalReport, ShutsDown, Ending
  <2>2. Places' = Places
    BY <2>1 DEF Places
  <2>3. phase'[p] \in {"flushed", "closed"} /\ \A q \in Places : q # p => phase'[q] = phase[q]
    BY <1>1, <2>1
  <2>4. Started' = Started
    BY <2>1, <2>2, <2>3 DEF Started
  <2>5. /\ \A q \in Places : recorded'[q] \subseteq Units /\ pending'[q] \subseteq Units
        /\ credited' \subseteq Units /\ reported' \subseteq Units /\ excused' \subseteq Units
    <3>1. CASE CloseEngine(p)
      BY <3>1 DEF CloseEngine, Course
    <3>2. CASE \E ok, filed \in BOOLEAN : FinalReport(p, ok, filed)
      BY <3>2, ReportCourse DEF FinalReport
    <3> QED BY <1>5, <3>1, <3>2
  <2> QED BY <2>1, <2>2, <2>3, <2>4, <2>5 DEF Course, Ending
<1> QED BY <1>2, <1>3, <1>4, <1>5

\* main, its signals, and the world around it.
LEMMA MainCourse ==
    ASSUME Course, DataInv,
           AwaitSignal \/ Restart \/ Exit \/ Signal \/ Crash \/ Edit \/ UNCHANGED vars
    PROVE  Course'
<1> USE DEF panelVars, bootVars, startVars, dataVars, keptVars
<1>1. CASE AwaitSignal \/ Restart \/ Edit \/ UNCHANGED vars
  <2>1. /\ UNCHANGED <<bootVars, phase, startVars, ticking, dataVars, keptVars, stops>>
        /\ atCancel' \in {atCancel, {}}
    BY <1>1 DEF AwaitSignal, Restart, Edit, vars
  <2>2. Places' = Places /\ Started' = Started
    BY <2>1 DEF Places, Started
  <2>3. CASE AwaitSignal
    BY <2>1, <2>2, <2>3 DEF AwaitSignal, Course
  <2>4. CASE Restart
    BY <2>1, <2>2, <2>4 DEF Restart, Course
  <2>5. CASE Edit
    <3>1. world' \in Worlds /\ offer' \in Offers /\ edits' \in 0..MaxEdits /\ proc' = proc
      BY <2>5, NodeBounds DEF Edit, Course
    <3> QED BY <2>1, <2>2, <3>1 DEF Course
  <2>6. CASE UNCHANGED vars
    BY <2>1, <2>2, <2>6 DEF vars, Course
  <2> QED BY <1>1, <2>3, <2>4, <2>5, <2>6
<1>2. CASE Exit \/ Signal \/ Crash
  <2>1. stops' \in 0..MaxStops
    BY <1>2, NodeBounds DEF Exit, Signal, Crash, Course
  <2>2. CASE Die
    <3>1. atCancel' \subseteq Units
      BY <1>2, <2>2 DEF Exit, Signal, Crash, Abort, Course, Die
    <3> QED BY <2>1, <2>2, <3>1, DieCourse
  <2>3. CASE ~Die
    <3>1. /\ proc = "running" /\ proc' = "stopping"
          /\ atCancel' = UNION {recorded[p] \cup pending[p] : p \in Places}
          /\ UNCHANGED <<panelVars, bootVars, phase, startVars, ticking, dataVars, keptVars>>
      BY <1>2, <2>3 DEF Exit, Signal, Crash, Abort
    <3>2. Places' = Places /\ Started' = Started
      BY <3>1 DEF Places, Started
    <3>3. atCancel' \subseteq Units
      BY <3>1 DEF Course
    <3> QED BY <2>1, <3>1, <3>2, <3>3 DEF Course
  <2> QED BY <2>2, <2>3
<1> QED BY <1>1, <1>2

LEMMA NextCourse ==
    ASSUME Course, DataInv, [Next]_vars
    PROVE  Course'
BY LoadCourse, StartCourse, NodeCourse, MainCourse DEF Next, Launch, Shutdown

--------------------------------------------------------------------------------
(* The intervals.  What the loop over the lines of the file leaves in the  *)
(* environment is shown by induction on the number of lines read: the      *)
(* least number at which a claim fails cannot be.                          *)

\* The least of some indices is one of them and not above any.
LEMMA MinIsLeast ==
    ASSUME NEW I \in SUBSET Nat, I # {}
    PROVE  Min(I) \in I /\ \A j \in I : Min(I) <= j
<1> DEFINE A == {0..i : i \in I}
<1>1. A # {} /\ A \subseteq FiniteSubsetsOf(Nat)
  <2> SUFFICES ASSUME NEW i \in I PROVE 0..i \in FiniteSubsetsOf(Nat)
    OBVIOUS
  <2>1. IsFiniteSet(0..i)
    BY FS_Interval
  <2> QED BY <2>1 DEF FiniteSubsetsOf
<1>2. IsWellFoundedOn(StrictSubsetOrdering(Nat), FiniteSubsetsOf(Nat))
  BY FS_StrictSubsetOrderingWellFounded
<1> HIDE DEF A
<1>3. PICK X \in A : \A Y \in A : ~(<<Y, X>> \in StrictSubsetOrdering(Nat))
  BY <1>1, <1>2, WFMin
<1> USE DEF A
<1>4. PICK m \in I : X = 0..m
  OBVIOUS
<1>5. ASSUME NEW j \in I PROVE m <= j
  <2>1. 0..j \in A /\ 0..j \in SUBSET Nat /\ 0..m \in SUBSET Nat
    OBVIOUS
  <2>2. ~(0..j \subseteq 0..m /\ 0..j # 0..m)
    BY <1>3, <1>4, <2>1 DEF StrictSubsetOrdering
  <2>3. m \in 0..m /\ m \in Nat /\ j \in Nat
    OBVIOUS
  <2> QED BY <2>2, <2>3
<1> QED BY <1>5 DEF Min

\* A set of numbers that has 0, and n + 1 with every n up to a bound, has all of
\* them up to the bound.
LEMMA UpTo ==
    ASSUME NEW N \in Nat, NEW S, 0 \in S, \A n \in 0..N : n \in S /\ n < N => n + 1 \in S
    PROVE  0..N \subseteq S
<1> DEFINE bad == {n \in 0..N : n \notin S}
<1>1. CASE bad = {}
  BY <1>1
<1>2. CASE bad # {}
  <2>1. bad \in SUBSET Nat
    OBVIOUS
  <2> DEFINE m == Min(bad)
  <2>2. m \in bad /\ \A j \in bad : m <= j
    BY <1>2, <2>1, MinIsLeast
  <2> HIDE DEF m
  <2>3. m \in 0..N /\ m \notin S
    BY <2>2
  <2>4. m - 1 \in 0..N /\ m - 1 < N /\ (m - 1) + 1 = m /\ ~(m <= m - 1)
    BY <2>3
  <2>5. m - 1 \in S
    BY <2>2, <2>4
  <2> QED BY <2>3, <2>4, <2>5
<1> QED BY <1>1, <1>2

\* What has been set once so many lines have been read.
Reading(env, lines, g, n) ==
    g = [m \in 0..n |-> IF m = 0 THEN env ELSE SetIfEmpty(g[m - 1], lines[m])]

\* The loop over the lines does what it says.
LEMMA LoopRuns ==
    ASSUME NEW env, NEW lines, Len(lines) \in Nat
    PROVE  \E g : Reading(env, lines, g, Len(lines)) /\ Environment(env, lines) = g[Len(lines)]
<1> DEFINE N == Len(lines)
           S == {n \in 0..N : \E g : Reading(env, lines, g, n)}
<1>1. 0 \in S
  <2>1. Reading(env, lines, [m \in 0..0 |-> env], 0)
    BY DEF Reading
  <2> QED BY <2>1
<1>2. ASSUME NEW n \in 0..N, n \in S, n < N PROVE n + 1 \in S
  <2>1. PICK g : Reading(env, lines, g, n)
    BY <1>2
  <2> DEFINE h == [m \in 0..(n + 1) |-> IF m = n + 1 THEN SetIfEmpty(g[n], lines[n + 1]) ELSE g[m]]
  <2>2. ASSUME NEW m \in 0..(n + 1)
        PROVE  h[m] = IF m = 0 THEN env ELSE SetIfEmpty(h[m - 1], lines[m])
    <3>1. CASE m = n + 1
      <4>1. m - 1 = n /\ n \in 0..(n + 1) /\ n # n + 1 /\ m # 0
        BY <3>1
      <4>2. h[m] = SetIfEmpty(g[n], lines[n + 1]) /\ h[m - 1] = g[n]
        BY <3>1, <4>1
      <4> QED BY <3>1, <4>1, <4>2
    <3>2. CASE m # n + 1
      <4>1. m \in 0..n /\ h[m] = g[m]
        BY <3>2
      <4>2. g[m] = IF m = 0 THEN env ELSE SetIfEmpty(g[m - 1], lines[m])
        BY <2>1, <4>1 DEF Reading
      <4>3. m # 0 => h[m - 1] = g[m - 1]
        BY <4>1
      <4> QED BY <4>1, <4>2, <4>3
    <3> QED BY <3>1, <3>2
  <2>3. Reading(env, lines, h, n + 1)
    <3>1. h = [m \in 0..(n + 1) |-> h[m]]
      OBVIOUS
    <3> HIDE DEF h
    <3> QED BY <2>2, <3>1 DEF Reading
  <2> QED BY <1>2, <2>3
<1>3. N \in S
  <2>1. N \in Nat /\ \A n \in 0..N : n \in S /\ n < N => n + 1 \in S
    BY <1>2
  <2> HIDE DEF S, N
  <2>2. 0..N \subseteq S
    BY <1>1, <2>1, UpTo
  <2> QED BY <2>1, <2>2
<1>4. PICK g : Reading(env, lines, g, N)
  BY <1>3
<1> DEFINE after == CHOOSE f : f = [n \in 0..N |-> IF n = 0 THEN env
                                                   ELSE SetIfEmpty(f[n - 1], lines[n])]
<1>5. Reading(env, lines, after, N)
  BY <1>4 DEF Reading
<1>6. Environment(env, lines) = after[N]
  BY DEF Environment
<1> QED BY <1>5, <1>6

\* Where the lines of the file give a key a value.
Giving(lines, key) == {i \in DOMAIN lines : lines[i].key = key /\ Unquoted(lines[i]) # Empty}

\* What a key has once so many lines have been read.
Has(env, lines, key, n, v) ==
    \/ env[key] # Empty /\ v = env[key]
    \/ env[key] = Empty /\ v = Empty /\ \A i \in Giving(lines, key) : ~(i <= n)
    \/ /\ env[key] = Empty
       /\ \E i \in Giving(lines, key) :
              i <= n /\ (\A j \in Giving(lines, key) : i <= j) /\ v = Unquoted(lines[i])

\* A line gives a key its value if nothing has yet.
LEMMA LineRead ==
    ASSUME NEW env, NEW lines, Len(lines) \in Nat, DOMAIN lines = 1..Len(lines), NEW key,
           NEW n \in 1..Len(lines), NEW now, key \in DOMAIN now,
           Has(env, lines, key, n - 1, now[key])
    PROVE  /\ DOMAIN SetIfEmpty(now, lines[n]) = DOMAIN now
           /\ Has(env, lines, key, n, SetIfEmpty(now, lines[n])[key])
<1> DEFINE G == Giving(lines, key)
           next == SetIfEmpty(now, lines[n])
<1>1. DOMAIN next = DOMAIN now
  BY DEF SetIfEmpty
<1>2. G \subseteq 1..Len(lines)
  BY DEF Giving
<1>3. n \in G <=> lines[n].key = key /\ Unquoted(lines[n]) # Empty
  BY DEF Giving
<1>4. next[key] = IF now[lines[n].key] = Empty /\ lines[n].key = key THEN Unquoted(lines[n])
                  ELSE now[key]
  BY DEF SetIfEmpty
<1> HIDE DEF G, next
<1>5. CASE env[key] # Empty
  <2>1. now[key] = env[key]
    BY <1>5 DEF Has
  <2>2. next[key] = env[key]
    BY <1>4, <1>5, <2>1
  <2> QED BY <1>1, <1>5, <2>2 DEF Has, next
<1>6. CASE env[key] = Empty /\ now[key] = Empty /\ \A i \in G : ~(i <= n - 1)
  <2>1. CASE n \in G
    <3>1. next[key] = Unquoted(lines[n])
      BY <1>3, <1>4, <1>6, <2>1
    <3>2. \A j \in G : n <= j
      BY <1>2, <1>6
    <3>3. n \in G /\ n <= n
      BY <2>1
    <3> QED BY <1>1, <1>6, <3>1, <3>2, <3>3 DEF Has, next, G
  <2>2. CASE n \notin G
    <3>1. next[key] = Empty
      BY <1>3, <1>4, <1>6, <2>2
    <3>2. \A i \in G : ~(i <= n)
      BY <1>2, <1>6, <2>2
    <3> QED BY <1>1, <1>6, <3>1, <3>2 DEF Has, next, G
  <2> QED BY <2>1, <2>2
<1>7. ASSUME NEW i \in G, i <= n - 1, \A j \in G : i <= j, now[key] = Unquoted(lines[i]),
             env[key] = Empty
      PROVE  Has(env, lines, key, n, next[key])
  <2>1. now[key] # Empty
    BY <1>7 DEF G, Giving
  <2>2. next[key] = now[key]
    BY <1>4, <2>1
  <2>3. i <= n
    BY <1>2, <1>7
  <2> QED BY <1>7, <2>2, <2>3 DEF Has, G
<1> QED BY <1>1, <1>5, <1>6, <1>7 DEF Has, next, G

\* What the environment has of a key once the file has been read.
LEMMA FileRead ==
    ASSUME NEW w \in Worlds, NEW key \in Keys
    PROVE  Environment(w.env, w.lines)[key] =
               IF w.env[key] # Empty \/ Giving(w.lines, key) = {} THEN w.env[key]
               ELSE Unquoted(w.lines[Min(Giving(w.lines, key))])
<1> DEFINE env == w.env
           lines == w.lines
           N == Len(lines)
           G == Giving(lines, key)
<1>1. DOMAIN env = Keys /\ N \in Nat /\ DOMAIN lines = 1..N
  BY WorldsOK
<1>2. PICK g : Reading(env, lines, g, N) /\ Environment(env, lines) = g[N]
  BY <1>1, LoopRuns
<1> HIDE DEF env, lines
<1>3. \A m \in 0..N : g[m] = IF m = 0 THEN env ELSE SetIfEmpty(g[m - 1], lines[m])
  BY <1>2 DEF Reading
<1>4. G \in SUBSET Nat /\ G \subseteq 1..N
  BY <1>1 DEF Giving
<1> DEFINE S == {n \in 0..N : DOMAIN g[n] = Keys /\ Has(env, lines, key, n, g[n][key])}
<1>5. 0 \in S
  <2>1. g[0] = env /\ 0 \in 0..N
    BY <1>1, <1>3
  <2>2. \A i \in G : ~(i <= 0)
    BY <1>1, <1>4
  <2> HIDE DEF N
  <2>3. Has(env, lines, key, 0, env[key])
    BY <2>2 DEF Has
  <2> QED BY <1>1, <2>1, <2>3
<1>6. ASSUME NEW n \in 0..N, n \in S, n < N PROVE n + 1 \in S
  <2> DEFINE k == n + 1
  <2>1. k \in 1..N /\ k \in 0..N /\ k - 1 = n /\ k # 0
    BY <1>1, <1>6
  <2>2. g[k] = SetIfEmpty(g[n], lines[k])
    BY <1>3, <2>1
  <2> DEFINE now == g[n]
  <2>3. DOMAIN now = Keys /\ Has(env, lines, key, k - 1, now[key])
    BY <1>6, <2>1
  <2> HIDE DEF k, now
  <2>4. DOMAIN SetIfEmpty(now, lines[k]) = Keys /\ Has(env, lines, key, k, SetIfEmpty(now, lines[k])[key])
    BY <1>1, <2>1, <2>3, LineRead
  <2>5. DOMAIN g[k] = Keys /\ Has(env, lines, key, k, g[k][key])
    BY <2>2, <2>4 DEF now
  <2> QED BY <2>1, <2>5 DEF k
<1>7. Has(env, lines, key, N, g[N][key])
  <2>1. \A n \in 0..N : n \in S /\ n < N => n + 1 \in S
    BY <1>6
  <2> HIDE DEF S, N
  <2>2. 0..N \subseteq S
    BY <1>1, <1>5, <2>1, UpTo
  <2>3. N \in S
    BY <1>1, <2>2
  <2> QED BY <2>3 DEF S
<1>8. \A i \in G : i <= N
  BY <1>1, <1>4
<1> HIDE DEF N
<1>9. CASE env[key] # Empty \/ G = {}
  BY <1>2, <1>7, <1>9 DEF Has, env, lines
<1>10. CASE env[key] = Empty /\ G # {}
  <2>1. Min(G) \in G /\ \A j \in G : Min(G) <= j
    BY <1>4, <1>10, MinIsLeast
  <2>2. PICK i \in G : (\A j \in G : i <= j) /\ g[N][key] = Unquoted(lines[i])
    BY <1>7, <1>8, <1>10 DEF Has
  <2>3. i = Min(G)
    <3>1. i <= Min(G) /\ Min(G) <= i /\ i \in Nat /\ Min(G) \in Nat
      BY <1>4, <2>1, <2>2
    <3> QED BY <3>1
  <2> QED BY <1>2, <1>10, <2>2, <2>3 DEF env, lines
<1> QED BY <1>9, <1>10

\* The Config is that of the world it was read from, and the intervals are those
\* that were chosen.
Chose ==
    /\ cfg.accepted => cfg = Load(booted.env, booted.lines)
    /\ PeriodsAsChosen

\* What a node takes when its config arrives.
LEMMA Prefers ==
    ASSUME booted \in Worlds, cfg.accepted, cfg = Load(booted.env, booted.lines), NEW panels
    PROVE  /\ Prefer(cfg.SyncIntervalExplicit, cfg.SyncInterval, panels)
                  = Chosen("SYNC_INTERVAL", panels)
           /\ Prefer(cfg.ReportIntervalExplicit, cfg.ReportInterval, panels)
                  = Chosen("REPORT_INTERVAL", panels)
<1> DEFINE e == Environment(booted.env, booted.lines)
<1>1. ASSUME NEW key \in Keys PROVE e[key] = Said(key)
  <2>1. Said(key) = IF booted.env[key] # Empty \/ Giving(booted.lines, key) = {}
                    THEN booted.env[key]
                    ELSE Unquoted(booted.lines[Min(Giving(booted.lines, key))])
    BY DEF Said, Giving
  <2> QED BY <2>1, FileRead
<1>2. Acceptable(e)
  BY DEF Load, Refused
<1> HIDE DEF e
<1>3. /\ cfg.SyncIntervalExplicit = Given(e, "SYNC_INTERVAL")
      /\ cfg.SyncInterval = ValueOf(e, "SYNC_INTERVAL")
      /\ cfg.ReportIntervalExplicit = Given(e, "REPORT_INTERVAL")
      /\ cfg.ReportInterval = ValueOf(e, "REPORT_INTERVAL")
  BY <1>2 DEF Load, e
<1>4. ASSUME NEW key \in {"SYNC_INTERVAL", "REPORT_INTERVAL"}
      PROVE  Prefer(Given(e, key), ValueOf(e, key), panels) = Chosen(key, panels)
  <2>1. e[key] = Said(key)
    BY <1>1 DEF Keys, PositiveKeys
  <2>2. Default("SYNC_INTERVAL") = 60 /\ Default("REPORT_INTERVAL") = 60
    BY DEF Default
  <2> QED BY <2>1, <2>2 DEF Prefer, Given, ValueOf, Raw, Chosen
<1> QED BY <1>3, <1>4

\* Nothing but FetchConfig changes what a node has that is no longer new.
LEMMA KeepsChoice ==
    ASSUME Chose, UNCHANGED <<bootVars, startVars>>,
           \A p \in Places : phase'[p] # "new" => phase[p] # "new"
    PROVE  Chose'
<1>1. Places' = Places /\ \A key, panels : Chosen(key, panels)' = Chosen(key, panels)
  BY DEF bootVars, Places, Chosen, Said
<1> QED BY <1>1 DEF Chose, PeriodsAsChosen, bootVars, startVars

LEMMA InitChose == Init => Chose
<1> SUFFICES ASSUME Init PROVE Chose
  OBVIOUS
<1>1. Places = {} /\ ~cfg.accepted
  BY DEF Init, Places, Nothing
<1> QED BY <1>1 DEF Chose, PeriodsAsChosen

\* Without a Config there are no nodes.
LEMMA DieChose ==
    ASSUME Die
    PROVE  Chose'
<1>1. Places' = {} /\ ~cfg'.accepted
  BY DEF Die, Places, Nothing
<1> QED BY <1>1 DEF Chose, PeriodsAsChosen

\* The Config is made of the world as it is; every node is new.
LEMMA LoadChose ==
    ASSUME LoadSettings
    PROVE  Chose'
<1> DEFINE c == Load(world.env, world.lines)
<1>1. CASE ~c.accepted
  BY <1>1, DieChose DEF LoadSettings, Abort
<1>2. CASE c.accepted
  <2>1. booted' = world /\ cfg' = c /\ phase' = [p \in DOMAIN c.NodeIDs |-> "new"]
    BY <1>2 DEF LoadSettings
  <2>2. cfg' = Load(booted.env, booted.lines)'
    BY <2>1
  <2>3. Places' = DOMAIN c.NodeIDs
    BY <2>1 DEF Places
  <2> HIDE DEF c
  <2>4. \A p \in Places' : phase'[p] = "new"
    BY <2>1, <2>3
  <2> QED BY <2>2, <2>4 DEF Chose, PeriodsAsChosen
<1> QED BY <1>1, <1>2

\* A node with its config lives by the intervals that were chosen.
LEMMA FetchChose ==
    ASSUME Course, DataInv, Chose, NEW p \in Places, FetchConfig(p, TRUE)
    PROVE  Chose'
<1> DEFINE own == [sync   |-> Prefer(cfg.SyncIntervalExplicit, cfg.SyncInterval, offer.pull),
                   report |-> Prefer(cfg.ReportIntervalExplicit, cfg.ReportInterval, offer.push)]
<1>1. /\ DOMAIN phase = Places /\ DOMAIN interval = Places /\ DOMAIN offered = Places
      /\ booted \in Worlds /\ cfg.accepted /\ cfg = Load(booted.env, booted.lines)
  BY DEF DataInv, Shape, Course, Chose, FetchConfig, Turn
<1>2. /\ phase' = [phase EXCEPT ![p] = "configured"] /\ offered' = [offered EXCEPT ![p] = offer]
      /\ interval' = [interval EXCEPT ![p] = own] /\ UNCHANGED bootVars
  BY DEF FetchConfig
<1>3. /\ own.sync = Chosen("SYNC_INTERVAL", offer.pull)
      /\ own.report = Chosen("REPORT_INTERVAL", offer.push)
  BY <1>1, Prefers
<1> HIDE DEF own
<1>4. /\ interval'[p] = own /\ offered'[p] = offer
      /\ \A q \in Places : q # p => /\ interval'[q] = interval[q] /\ offered'[q] = offered[q]
                                    /\ phase'[q] = phase[q]
  BY <1>1, <1>2
<1>5. /\ Places' = Places /\ \A key, panels : Chosen(key, panels)' = Chosen(key, panels)
      /\ UNCHANGED <<cfg, booted>>
  BY <1>2 DEF bootVars, Places, Chosen, Said
<1>6. ASSUME NEW q \in Places, phase'[q] # "new"
      PROVE  /\ interval'[q].sync = Chosen("SYNC_INTERVAL", offered'[q].pull)
             /\ interval'[q].report = Chosen("REPORT_INTERVAL", offered'[q].push)
  <2>1. CASE q = p
    BY <1>3, <1>4, <2>1
  <2>2. CASE q # p
    BY <1>4, <1>6, <2>2 DEF Chose, PeriodsAsChosen
  <2> QED BY <2>1, <2>2
<1>7. PeriodsAsChosen'
  BY <1>5, <1>6 DEF PeriodsAsChosen
<1> QED BY <1>5, <1>7 DEF Chose

LEMMA NextChose ==
    ASSUME Course, DataInv, Chose, [Next]_vars
    PROVE  Chose'
<1>1. CASE Die \/ LoadSettings
  BY <1>1, DieChose, LoadChose
<1>2. ASSUME NEW p \in Places, FetchConfig(p, TRUE) PROVE Chose'
  BY <1>2, FetchChose
<1>3. CASE GiveUp \/ AwaitSignal \/ Restart \/ Edit \/ UNCHANGED vars
  BY <1>3, KeepsChoice DEF GiveUp, AwaitSignal, Restart, Edit, vars
<1>4. ASSUME NEW p \in Places, NEW ok \in BOOLEAN, NEW reading,
             FetchConfig(p, ok) \/ FetchUsers(p, ok) \/ StartEngine(p, ok, reading)
      PROVE  Chose'
  <2>1. CASE ~ok
    BY <1>3, <1>4, <2>1 DEF FetchConfig, FetchUsers, StartEngine
  <2>2. CASE ok /\ FetchConfig(p, ok)
    BY <1>2, <2>2
  <2>3. CASE ok /\ (FetchUsers(p, ok) \/ StartEngine(p, ok, reading))
    <3>1. UNCHANGED <<bootVars, startVars>>
      BY <2>3 DEF FetchUsers, StartEngine
    <3>2. phase[p] # "new" /\ \E s : phase' = [phase EXCEPT ![p] = s]
      BY <2>3 DEF FetchUsers, StartEngine
    <3>3. \A q \in Places : phase'[q] # "new" => phase[q] # "new"
      BY <3>2 DEF DataInv, Shape
    <3> QED BY <3>1, <3>3, KeepsChoice
  <2> QED BY <1>4, <2>1, <2>2, <2>3
<1>5. ASSUME NEW p \in Places,
             CloseEngine(p) \/ \E ok, filed \in BOOLEAN : FinalReport(p, ok, filed)
      PROVE  Chose'
  <2>1. UNCHANGED <<bootVars, startVars>>
    BY <1>5 DEF CloseEngine, FinalReport
  <2>2. phase[p] # "new" /\ \E s : phase' = [phase EXCEPT ![p] = s]
    BY <1>5 DEF CloseEngine, FinalReport
  <2>3. \A q \in Places : phase'[q] # "new" => phase[q] # "new"
    BY <2>2 DEF DataInv, Shape
  <2> QED BY <2>1, <2>3, KeepsChoice
<1>6. CASE Exit \/ Crash
  BY <1>1, <1>6 DEF Exit, Crash, Abort
<1>7. CASE Signal
  <2>1. Die \/ UNCHANGED <<bootVars, startVars, phase>>
    BY <1>7 DEF Signal, Abort
  <2> QED BY <1>1, <2>1, KeepsChoice
<1>8. ASSUME NEW p \in Places, RunTickers(p) PROVE Chose'
  <2>1. Die \/ UNCHANGED <<bootVars, startVars, phase>>
    BY <1>8 DEF RunTickers, Abort
  <2> QED BY <1>1, <2>1, KeepsChoice
<1>9. ASSUME NEW p \in Places,
             \/ \E k \in Units : Record(p, k)
             \/ \E ok, filed \in BOOLEAN : TickerReport(p, ok, filed)
      PROVE  Chose'
  <2>1. UNCHANGED <<bootVars, startVars, phase>>
    BY <1>9 DEF Record, TickerReport
  <2> QED BY <2>1, KeepsChoice
<1>10. CASE Launch
  BY <1>1, <1>3, <1>4, <1>10 DEF Launch
<1>11. CASE Shutdown
  BY <1>5, <1>6, <1>11 DEF Shutdown
<1> QED BY <1>3, <1>6, <1>7, <1>8, <1>9, <1>10, <1>11 DEF Next

--------------------------------------------------------------------------------
(* The theorems. *)

\* The inductive invariant: the place of main says how far the nodes are, and
\* what each node, its file and the panel hold of the traffic.
THEOREM Invariance == Spec => []NodesInv
<1>1. Init => NodesInv
  BY InitCourse, InitData DEF NodesInv
<1>2. NodesInv /\ [Next]_vars => NodesInv'
  BY NextCourse, NextData DEF NodesInv
<1> QED BY <1>1, <1>2, PTL DEF Spec

\* Every variable keeps its type; the nodes start one after another, every
\* interval a ticker is made of was positive, and no node is shut down before
\* the end of the process (main.run, Node.Start, Node.Shutdown).
THEOREM TypeCorrect == Spec => []TypeOK
<1>1. NodesInv => TypeOK
  BY DEF NodesInv, Course, DataInv, Shape, Live, TypeOK
<1> QED BY <1>1, Invariance, PTL

\* Traffic that went through a report is the panel's or on disk, through failed
\* starts, kills, restarts and changes of the settings, as long as no two nodes
\* have had one ID, but for what the last write failed for, the bound on the
\* backlog dropped, or a node could not read when it started
\* (specializeTrafficStateFile, TrafficReporter.Report, loadPending, trimPending).
THEOREM TrafficKept == Spec => []Durable
<1>1. NodesInv => Durable
  BY DEF NodesInv, DataInv
<1> QED BY <1>1, Invariance, PTL

\* A process that came to an orderly end has left nothing behind of what its
\* nodes had recorded when the end began, with the same exceptions (main.run,
\* Node.Shutdown, TrafficReporter.Report).
THEOREM ExitKeepsTraffic == Spec => []ExitFlushes
<1>1. NodesInv => ExitFlushes
  BY DEF NodesInv, DataInv, Settled, Durable, ExitFlushes
<1> QED BY <1>1, Invariance, PTL

\* Every node that has its config lives by the intervals the operator gave, in
\* the environment or else in the first line of the file that says something, or
\* else by those the panel gave when it started, or else by the default
\* (tryLoadEnvFile, loadOptionalPositiveIntEnv, Node.Start).
THEOREM IntervalsAsChosen == Spec => []PeriodsAsChosen
<1>1. Init => NodesInv /\ Chose
  BY InitCourse, InitData, InitChose DEF NodesInv
<1>2. NodesInv /\ Chose /\ [Next]_vars => NodesInv' /\ Chose'
  BY NextCourse, NextData, NextChose DEF NodesInv
<1>3. Chose => PeriodsAsChosen
  BY DEF Chose
<1> QED BY <1>1, <1>2, <1>3, PTL DEF Spec
================================================================================
