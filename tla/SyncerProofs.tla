------------------------------ MODULE SyncerProofs ------------------------------
(***************************************************************************)
(* Theorems about Syncer, for every set of user lists, configs and         *)
(* instances, whatever the hashes confuse, the panel answers and fails to  *)
(* start, and wherever a shutdown or a crash meets a reload.               *)
(*                                                                         *)
(* None of the properties is inductive by itself: they rest on who holds   *)
(* which instance at each label of Sync, said by SyncInv below.            *)
(***************************************************************************)
EXTENDS Syncer, FiniteSetTheorems, TLAPS

--------------------------------------------------------------------------------
(* The inductive invariant. *)

\* From the moment the old instance is taken out to the moment one is recorded.
Reloading == spc \in {"taken", "closed", "started", "rolling back", "rebuilt", "restored"}

\* newInstance was made by Build, or by RollBack, and nobody has recorded it.
NewInHand == spc \in {"built", "taken", "closed", "started"}
OldInHand == spc \in {"rebuilt", "restored"}
InHand == NewInHand \/ OldInHand

\* The process is down only between two runs, and Close has an instance only
\* while it closes.
Lives ==
    /\ life = "down" => spc = "start"
    /\ Booting => life \in {"up", "down"}
    /\ closing # Nil => life = "closing"

\* The list in hand is the one the cache was given.
ListInHand ==
    /\ spc = "users" => newUsers = users
    /\ spc = "boot engine" => userByName = users

\* Every instance that exists is somebody's, and nobody's is another's.
Owned ==
    /\ \A b \in Boxes : state[b] # "free" =>
          \/ b = instance \/ b = closing
          \/ b = oldInstance /\ spc = "taken"
          \/ b = newInstance /\ InHand
    /\ Booting \/ Reloading => instance = Nil
    /\ closing # Nil => closing # instance
    /\ spc = "taken" /\ closing # Nil => closing # oldInstance
    /\ InHand => newInstance # closing

\* Each is in the stage its owner takes it to be in.
Stages ==
    /\ instance # Nil => state[instance] = "running"
    /\ closing # Nil => state[closing] = "running"
    /\ spc = "taken" /\ oldInstance # Nil => state[oldInstance] = "running"
    /\ InHand => newInstance \in Boxes
    /\ spc \in {"started", "restored"} => state[newInstance] = "running"
    /\ spc \in {"built", "taken", "closed", "rebuilt"} => state[newInstance] = "built"

\* Each holds what its owner says it was built from, which can be built.
Loaded ==
    /\ instance # Nil => content[instance] = [users |-> engineUsers, config |-> currentConfig]
    /\ NewInHand => content[newInstance] = [users |-> newUsers, config |-> newConfig]
    /\ OldInHand => content[newInstance] = [users |-> oldUsers, config |-> oldConfig]
    /\ NewInHand \/ spc = "installed" => newConfig \in Buildable
    /\ OldInHand => oldConfig \in Buildable
    /\ currentConfig # Nil => currentConfig \in Buildable
    /\ oldConfig # Nil => oldConfig \in Buildable
    /\ engineUsers = Nil <=> currentConfig = Nil
    /\ oldUsers = Nil <=> oldConfig = Nil
    /\ instance # Nil => currentConfig # Nil
    /\ oldInstance # Nil => oldConfig # Nil

\* The hashes are those of what the engine holds, except between InstallNew
\* and Commit, and a rollback goes back to just that.
HashesKnown ==
    ~Booting /\ life # "closing" =>
        /\ engineUsers # Nil
        /\ spc # "installed" => /\ UserHash[engineUsers] = currentUserHash
                                /\ ConfigHash[currentConfig] = currentConfigHash
        /\ spc = "installed" => /\ engineUsers = newUsers /\ currentConfig = newConfig
                                /\ instance = newInstance /\ newInstance # Nil
        /\ Reloading => oldUsers = engineUsers /\ oldConfig = currentConfig

\* The starts that have failed when an instance was there and none is left.
FailuresCounted ==
    /\ spc \in {"rolling back", "rebuilt"} => failures >= 1
    /\ life # "closing" /\ ~Booting /\ ~Reloading /\ instance = Nil /\ oldInstance # Nil =>
          failures >= 2

SyncInv ==
    /\ TypeOK /\ CacheIsTagged /\ LimiterCurrent
    /\ Lives /\ ListInHand /\ Owned /\ Stages /\ Loaded /\ HashesKnown /\ FailuresCounted

--------------------------------------------------------------------------------
(* Lemmas. *)

\* createBox always has an instance of its own to give: outside a reload at
\* most the engine's and the one Close has exist.
LEMMA FreshIsFree ==
    ASSUME TypeOK, Owned, spc # "taken", ~InHand
    PROVE  Fresh \in Boxes /\ state[Fresh] = "free"
<1>1. \E b \in Boxes : state[b] = "free"
  <2> SUFFICES ASSUME \A b \in Boxes : state[b] # "free" PROVE FALSE
    OBVIOUS
  <2>1. Boxes \subseteq {instance} \cup {closing}
    BY DEF Owned
  <2>2. IsFiniteSet({instance}) /\ Cardinality({instance}) = 1
    BY FS_Singleton
  <2>3. /\ IsFiniteSet({instance} \cup {closing})
        /\ Cardinality({instance} \cup {closing}) \in {1, 2}
    BY <2>2, FS_AddElement
  <2>4. Cardinality(Boxes) <= Cardinality({instance} \cup {closing})
    BY <2>1, <2>3, FS_Subset
  <2>5. Cardinality(Boxes) \in Nat /\ Cardinality(Boxes) >= 3
    BY BoxesSuffice, FS_CardinalityType
  <2> QED BY <2>3, <2>4, <2>5
<1> QED BY <1>1 DEF Fresh

\* Whatever the process was doing when it ended, it starts again from nothing.
LEMMA DieForgets ==
    ASSUME Die
    PROVE  /\ CacheIsTagged' /\ LimiterCurrent' /\ Lives' /\ ListInHand' /\ Owned' /\ Stages'
           /\ Loaded' /\ HashesKnown' /\ FailuresCounted'
<1> USE DEF Die, Booting, Reloading, NewInHand, OldInHand, InHand
<1>1. CacheIsTagged' /\ LimiterCurrent' /\ Lives' /\ ListInHand'
  BY DEF CacheIsTagged, LimiterCurrent, Lives, ListInHand
<1>2. Owned' /\ Stages'
  BY DEF Owned, Stages
<1>3. Loaded' /\ HashesKnown' /\ FailuresCounted'
  BY NilIsNothing DEF Loaded, HashesKnown, FailuresCounted
<1> QED BY <1>1, <1>2, <1>3

\* The types in three parts: the panel and the counters, the instances, the data.
EnvTypes ==
    /\ panelUsers \in UserLists /\ panelConfig \in Configs
    /\ edits \in 0..MaxEdits /\ faults \in 0..MaxFaults /\ stops \in 0..MaxStops
    /\ failures \in Nat
BoxTypes ==
    /\ newInstance \in Boxes \cup {Nil} /\ oldInstance \in Boxes \cup {Nil}
    /\ instance \in Boxes \cup {Nil} /\ closing \in Boxes \cup {Nil}
    /\ state \in [Boxes -> {"free", "built", "running"}]
    /\ content \in [Boxes -> Contents \cup {Nil}]
DataTypes ==
    /\ users \in UserLists \cup {Nil} /\ userETag \in UserLists \cup {Nil}
    /\ config \in Configs \cup {Nil} /\ configETag \in Configs \cup {Nil}
    /\ userByName \in UserLists \cup {Nil}
    /\ spc \in SPCs
    /\ newUsers \in UserLists \cup (IF spc \in {"start", "boot users", "idle"} THEN {Nil} ELSE {})
    /\ newConfig \in Configs \cup (IF spc \in {"start", "idle", "users", "limited"} THEN {Nil} ELSE {})
    /\ nodeConfig \in Configs \cup (IF Booting THEN {Nil} ELSE {})
    /\ oldUsers \in UserLists \cup {Nil} /\ oldConfig \in Configs \cup {Nil}
    /\ engineUsers \in UserLists \cup {Nil} /\ currentConfig \in Configs \cup {Nil}
    /\ life \in {"up", "stopping", "closing", "down"}

\* They are the types.
LEMMA TypeParts == TypeOK <=> EnvTypes /\ BoxTypes /\ DataTypes
BY DEF TypeOK, EnvTypes, BoxTypes, DataTypes

\* The types of the data are those of its values, and what each step needs.
ValueTypes ==
    /\ users \in UserLists \cup {Nil} /\ userETag \in UserLists \cup {Nil}
    /\ config \in Configs \cup {Nil} /\ configETag \in Configs \cup {Nil}
    /\ userByName \in UserLists \cup {Nil}
    /\ newUsers \in UserLists \cup {Nil} /\ newConfig \in Configs \cup {Nil}
    /\ nodeConfig \in Configs \cup {Nil}
    /\ oldUsers \in UserLists \cup {Nil} /\ oldConfig \in Configs \cup {Nil}
    /\ engineUsers \in UserLists \cup {Nil} /\ currentConfig \in Configs \cup {Nil}
PlaceTypes == spc \in SPCs /\ life \in {"up", "stopping", "closing", "down"}
Needs ==
    /\ spc \notin {"start", "boot users", "idle"} => newUsers # Nil
    /\ spc \notin {"start", "idle", "users", "limited"} => newConfig # Nil
    /\ ~Booting => nodeConfig # Nil

LEMMA DataParts == DataTypes <=> ValueTypes /\ PlaceTypes /\ Needs
<1>1. Nil \notin UserLists /\ Nil \notin Configs
  BY NilIsNothing
<1>2. newUsers \in UserLists \cup (IF spc \in {"start", "boot users", "idle"} THEN {Nil} ELSE {})
      <=> /\ newUsers \in UserLists \cup {Nil}
          /\ spc \notin {"start", "boot users", "idle"} => newUsers # Nil
  BY <1>1
<1>3. newConfig \in Configs \cup (IF spc \in {"start", "idle", "users", "limited"} THEN {Nil} ELSE {})
      <=> /\ newConfig \in Configs \cup {Nil}
          /\ spc \notin {"start", "idle", "users", "limited"} => newConfig # Nil
  BY <1>1
<1>4. nodeConfig \in Configs \cup (IF Booting THEN {Nil} ELSE {})
      <=> nodeConfig \in Configs \cup {Nil} /\ (~Booting => nodeConfig # Nil)
  BY <1>1
<1> QED BY <1>2, <1>3, <1>4, Zenon DEF DataTypes, ValueTypes, PlaceTypes, Needs

\* A step that leaves alone what they are about keeps the types of the data.
LEMMA DataFrame ==
    ASSUME DataTypes, life' \in {"up", "stopping", "closing", "down"},
           UNCHANGED <<clientVars, userByName, hashVars, spc, localVars>>,
           engineUsers' \in {engineUsers, Nil}, currentConfig' \in {currentConfig, Nil}
    PROVE  DataTypes'
<1>1. ValueTypes /\ PlaceTypes /\ Needs
  BY DataParts
<1>2. UNCHANGED <<users, userETag, config, configETag, userByName, newUsers, newConfig, nodeConfig,
                  oldUsers, oldConfig, spc>>
  BY DEF clientVars, hashVars, localVars
<1>3. ValueTypes'
  BY <1>1, <1>2 DEF ValueTypes
<1>4. PlaceTypes'
  BY <1>1, <1>2 DEF PlaceTypes
<1>5. Needs'
  BY <1>1, <1>2 DEF Needs, Booting
<1>6. (ValueTypes /\ PlaceTypes /\ Needs => DataTypes)'
  BY DataParts, PTL
<1> QED BY <1>3, <1>4, <1>5, <1>6

\* A counter below its bound may go up by one.
LEMMA CountsUp ==
    /\ \A n \in 0..MaxEdits : n < MaxEdits => n + 1 \in 0..MaxEdits
    /\ \A n \in 0..MaxFaults : n < MaxFaults => n + 1 \in 0..MaxFaults
    /\ \A n \in 0..MaxStops : n < MaxStops => n + 1 \in 0..MaxStops
    /\ 0 \in Nat /\ \A n \in Nat : n + 1 \in Nat /\ n + 1 >= 1
BY SyncBounds

\* The end of the process keeps the types.
LEMMA DieTyped ==
    ASSUME TypeOK, Die, UNCHANGED panelVars, faults' \in 0..MaxFaults, stops' \in 0..MaxStops,
           edits' \in 0..MaxEdits
    PROVE  EnvTypes' /\ BoxTypes' /\ DataTypes'
<1>1. EnvTypes'
  BY DEF Die, EnvTypes, TypeOK, panelVars
<1>2. BoxTypes'
  BY DEF Die, BoxTypes
<1>3. DataTypes'
  BY DEF Die, TypeOK, DataTypes, panelVars, SPCs, Booting
<1> QED BY <1>1, <1>2, <1>3

\* The steps that end the process: the last of a shutdown, a crash, and a start
\* that fails.
Ends ==
    \/ Exit \/ Crash
    \/ \E answer \in Answers : ~OK(answer) /\ (BootConfig(answer) \/ BootUsers(answer))
    \/ \E ok \in BOOLEAN : ~(ok /\ newConfig \in Buildable) /\ BootEngine(ok)

\* Whatever ends the process keeps the invariant.
LEMMA EndsInv ==
    ASSUME SyncInv, Ends
    PROVE  SyncInv'
<1>1. Die /\ UNCHANGED panelVars /\ faults' \in 0..MaxFaults /\ stops' \in 0..MaxStops
  <2>1. CASE Exit
    BY <2>1 DEF Exit, SyncInv, TypeOK
  <2>2. CASE Crash
    BY <2>2, CountsUp DEF Crash, SyncInv, TypeOK
  <2>3. ASSUME NEW a \in Answers, ~OK(a), BootConfig(a) \/ BootUsers(a)
        PROVE  Die /\ UNCHANGED panelVars /\ faults' = faults /\ stops' = stops
    BY <2>3 DEF BootConfig, BootUsers
  <2>4. ASSUME NEW ok \in BOOLEAN, ~(ok /\ newConfig \in Buildable), BootEngine(ok)
        PROVE  /\ Die /\ UNCHANGED panelVars /\ stops' = stops
               /\ \/ faults' = faults
                  \/ faults < MaxFaults /\ faults' = faults + 1
    <3>1. faults \in 0..MaxFaults
      BY DEF SyncInv, TypeOK
    <3>2. CASE newConfig \in Buildable
      BY <3>1, <3>2, <2>4 DEF BootEngine
    <3>3. CASE newConfig \notin Buildable
      <4>1. UNCHANGED panelVars /\ stops' = stops /\ faults' = faults
        BY <3>1, <3>3, <2>4 DEF BootEngine
      <4>2. Die
        BY <3>3, <2>4 DEF BootEngine
      <4> QED BY <4>1, <4>2
    <3> QED BY <3>2, <3>3
  <2> QED BY <2>1, <2>2, <2>3, <2>4, CountsUp DEF Ends, SyncInv, TypeOK
<1>2. edits' \in 0..MaxEdits
  BY <1>1 DEF SyncInv, TypeOK, panelVars
<1>3. EnvTypes' /\ BoxTypes' /\ DataTypes'
  BY <1>1, <1>2, DieTyped DEF SyncInv
<1>4. TypeOK'
  BY <1>3 DEF TypeOK, EnvTypes, BoxTypes, DataTypes
<1> QED BY <1>1, <1>4, DieForgets DEF SyncInv

\* What createBox does: one instance more, and it was nobody's.
Made(l, c, stage) ==
    /\ Fresh \in Boxes /\ Fresh # Nil /\ Fresh # instance /\ Fresh # closing
    /\ state' \in [Boxes -> {"free", "built", "running"}]
    /\ content' \in [Boxes -> Contents \cup {Nil}]
    /\ state'[Fresh] = stage /\ content'[Fresh] = [users |-> l, config |-> c]
    /\ \A b \in Boxes \ {Fresh} : state'[b] = state[b] /\ content'[b] = content[b]

\* It does that for whatever list and config it is called with.
LEMMA CreateEffect ==
    ASSUME SyncInv, spc # "taken", ~InHand, NEW l \in UserLists, NEW c \in Configs,
           NEW stage \in {"built", "running"}, Create(l, c, stage)
    PROVE  Made(l, c, stage)
<1>1. Fresh \in Boxes /\ state[Fresh] = "free"
  BY FreshIsFree DEF SyncInv
<1>2. Fresh # instance /\ Fresh # closing
  BY <1>1, NilIsNothing DEF SyncInv, Stages
<1>3. [users |-> l, config |-> c] \in Contents
  BY DEF Contents
<1> HIDE DEF Fresh
<1> QED BY <1>1, <1>2, <1>3, NilIsNothing DEF SyncInv, TypeOK, Create, Made

\* It is called by a reload, by a rollback, which has a list and a config that
\* can be built, and by the start of the engine.
LEMMA Makes ==
    ASSUME SyncInv
    PROVE  /\ Build /\ newConfig \in Buildable => Made(newUsers, newConfig, "built")
           /\ RollBack /\ oldConfig \in Buildable => Made(oldUsers, oldConfig, "built")
           /\ \A ok \in BOOLEAN : BootEngine(ok) /\ ok /\ newConfig \in Buildable =>
                 Made(newUsers, newConfig, "running")
<1> USE SomeBuildable DEF InHand, NewInHand, OldInHand
<1>1. ASSUME Build, newConfig \in Buildable PROVE Made(newUsers, newConfig, "built")
  <2>1. newUsers \in UserLists
    BY <1>1 DEF SyncInv, TypeOK, Build
  <2> QED BY <1>1, <2>1, CreateEffect DEF Build
<1>2. ASSUME RollBack, oldConfig \in Buildable PROVE Made(oldUsers, oldConfig, "built")
  <2>1. oldUsers \in UserLists
    BY <1>2, NilIsNothing DEF SyncInv, TypeOK, Loaded
  <2> QED BY <1>2, <2>1, CreateEffect DEF RollBack
<1>3. ASSUME NEW ok \in BOOLEAN, BootEngine(ok), ok, newConfig \in Buildable
      PROVE  Made(newUsers, newConfig, "running")
  <2>1. newUsers \in UserLists
    BY <1>3 DEF SyncInv, TypeOK, BootEngine
  <2> QED BY <1>3, <2>1, CreateEffect DEF BootEngine
<1> QED BY <1>1, <1>2, <1>3

\* The first start begins from nothing too.
LEMMA InitInv == Init => SyncInv
<1> SUFFICES ASSUME Init PROVE SyncInv
  OBVIOUS
<1> USE DEF Init, Booting, Reloading, NewInHand, OldInHand, InHand
<1>1. TypeOK
  BY SyncBounds DEF TypeOK, SPCs
<1>2. CacheIsTagged /\ LimiterCurrent /\ Lives /\ ListInHand
  BY DEF CacheIsTagged, LimiterCurrent, Lives, ListInHand
<1>3. Owned /\ Stages
  BY DEF Owned, Stages
<1>4. Loaded /\ HashesKnown /\ FailuresCounted
  BY NilIsNothing DEF Loaded, HashesKnown, FailuresCounted
<1> QED BY <1>1, <1>2, <1>3, <1>4 DEF SyncInv

\* The panel serves lists and configs, and the counters stay within their bounds.
LEMMA EnvTypesNext ==
    ASSUME SyncInv, Next, ~Ends
    PROVE  EnvTypes'
<1> USE TypeParts, CountsUp DEF SyncInv, EnvTypes, panelVars, clientVars, hashVars, localVars,
   engineVars, boxVars, lifeVars, Booting, Reloading, NewInHand, OldInHand, InHand
<1>1. CASE Edit
  BY <1>1 DEF Edit
<1>2. ASSUME NEW a \in Answers, FetchUsers(a) PROVE EnvTypes'
  BY <1>2 DEF FetchUsers, GetUsers, Cached, TagAfter, NotModified, OK
<1>3. ASSUME NEW a \in Answers, FetchConfig(a) PROVE EnvTypes'
  BY <1>3 DEF FetchConfig, GetNodeConfig, Cached, TagAfter, NotModified, OK, Unchanged
<1>4. CASE UpdateUsers
  BY <1>4 DEF UpdateUsers, Limits
<1>5. CASE Build
  BY <1>5 DEF Build, ReloadGoesOn, ReloadFailed
<1>6. CASE TakeOld
  BY <1>6 DEF TakeOld
<1>7. CASE CloseOld
  BY <1>7 DEF CloseOld, DropOld, Close
<1>8. ASSUME NEW ok \in BOOLEAN, StartNew(ok) PROVE EnvTypes'
  BY <1>8 DEF StartNew, StartBox, Close
<1>9. CASE RollBack
  BY <1>9 DEF RollBack, ReloadGoesOn, ReloadFailed
<1>10. ASSUME NEW ok \in BOOLEAN, StartOld(ok) PROVE EnvTypes'
  BY <1>10 DEF StartOld, StartBox, Close, ReloadGoesOn, ReloadFailed
<1>11. CASE InstallOld
  BY <1>11 DEF InstallOld, Install, Started, ReloadFailed
<1>12. CASE InstallNew
  BY <1>12 DEF InstallNew, Install, Started
<1>13. CASE Commit
  BY <1>13 DEF Commit
<1>14. ASSUME NEW a \in Answers, BootConfig(a) PROVE EnvTypes'
  BY <1>14 DEF Ends, BootConfig, GetNodeConfig, Cached, TagAfter, NotModified, OK
<1>15. ASSUME NEW a \in Answers, BootUsers(a) PROVE EnvTypes'
  BY <1>15 DEF Ends, BootUsers, GetUsers, Cached, TagAfter, NotModified, OK, Limits
<1>16. ASSUME NEW ok \in BOOLEAN, BootEngine(ok) PROVE EnvTypes'
  <2>1. ok /\ newConfig \in Buildable
    BY <1>16 DEF Ends
  <2> QED BY <2>1, <1>16, Makes DEF Made, BootEngine
<1>17. CASE BeginShutdown
  BY <1>17 DEF BeginShutdown
<1>18. CASE CloseTake
  BY <1>18 DEF CloseTake
<1>19. CASE CloseInstance
  BY <1>19 DEF CloseInstance, Close
<1>20. CASE Restart
  BY <1>20 DEF Restart
<1>21. ~Exit /\ ~Crash
  BY DEF Ends
<1> QED BY <1>1, <1>2, <1>3, <1>4, <1>5, <1>6, <1>7, <1>8, <1>9, <1>10, <1>11, <1>12, <1>13,
   <1>14, <1>15, <1>16, <1>17, <1>18, <1>19, <1>20, <1>21 DEF Next, Sync, Boot, Life

\* The names of instances stay what they are.
LEMMA BoxTypesNext ==
    ASSUME SyncInv, Next, ~Ends
    PROVE  BoxTypes'
<1> USE TypeParts, SomeBuildable, NilIsNothing DEF SyncInv, BoxTypes, DataTypes, Contents,
   Owned, Loaded, Stages, panelVars, clientVars, hashVars, localVars, engineVars, boxVars,
   lifeVars, Booting, Reloading, NewInHand, OldInHand, InHand
<1>1. CASE Edit
  BY <1>1 DEF Edit
<1>2. ASSUME NEW a \in Answers, FetchUsers(a) PROVE BoxTypes'
  BY <1>2 DEF FetchUsers, GetUsers, Cached, TagAfter, NotModified, OK
<1>3. ASSUME NEW a \in Answers, FetchConfig(a) PROVE BoxTypes'
  BY <1>3 DEF FetchConfig, GetNodeConfig, Cached, TagAfter, NotModified, OK, Unchanged
<1>4. CASE UpdateUsers
  BY <1>4 DEF UpdateUsers, Limits
<1>5. CASE Build
  <2>1. CASE newConfig \in Buildable
    BY <2>1, <1>5, Makes DEF Made, Build, ReloadGoesOn, ReloadFailed
  <2>2. CASE newConfig \notin Buildable
    BY <2>2, <1>5 DEF Build, ReloadGoesOn, ReloadFailed
  <2> QED BY <2>1, <2>2
<1>6. CASE TakeOld
  BY <1>6 DEF TakeOld
<1>7. CASE CloseOld
  BY <1>7 DEF CloseOld, DropOld, Close
<1>8. ASSUME NEW ok \in BOOLEAN, StartNew(ok) PROVE BoxTypes'
  <2>1. CASE ok
    BY <2>1, <1>8 DEF StartNew, StartBox, Close
  <2>2. CASE ~ok
    BY <2>2, <1>8 DEF StartNew, StartBox, Close
  <2> QED BY <2>1, <2>2
<1>9. CASE RollBack
  <2>1. CASE oldConfig \in Buildable
    BY <2>1, <1>9, Makes DEF Made, RollBack, ReloadGoesOn, ReloadFailed
  <2>2. CASE oldConfig \notin Buildable
    BY <2>2, <1>9 DEF RollBack, ReloadGoesOn, ReloadFailed
  <2> QED BY <2>1, <2>2
<1>10. ASSUME NEW ok \in BOOLEAN, StartOld(ok) PROVE BoxTypes'
  <2>1. CASE ok
    BY <2>1, <1>10 DEF StartOld, StartBox, Close, ReloadGoesOn, ReloadFailed
  <2>2. CASE ~ok
    BY <2>2, <1>10 DEF StartOld, StartBox, Close, ReloadGoesOn, ReloadFailed
  <2> QED BY <2>1, <2>2
<1>11. CASE InstallOld
  BY <1>11 DEF InstallOld, Install, Started, ReloadFailed
<1>12. CASE InstallNew
  BY <1>12 DEF InstallNew, Install, Started
<1>13. CASE Commit
  BY <1>13 DEF Commit
<1>14. ASSUME NEW a \in Answers, BootConfig(a) PROVE BoxTypes'
  BY <1>14 DEF Ends, BootConfig, GetNodeConfig, Cached, TagAfter, NotModified, OK
<1>15. ASSUME NEW a \in Answers, BootUsers(a) PROVE BoxTypes'
  BY <1>15 DEF Ends, BootUsers, GetUsers, Cached, TagAfter, NotModified, OK, Limits
<1>16. ASSUME NEW ok \in BOOLEAN, BootEngine(ok) PROVE BoxTypes'
  <2>1. ok /\ newConfig \in Buildable
    BY <1>16 DEF Ends
  <2> QED BY <2>1, <1>16, Makes DEF Made, BootEngine
<1>17. CASE BeginShutdown
  BY <1>17 DEF BeginShutdown
<1>18. CASE CloseTake
  BY <1>18 DEF CloseTake
<1>19. CASE CloseInstance
  BY <1>19 DEF CloseInstance, Close
<1>20. CASE Restart
  BY <1>20 DEF Restart
<1>21. ~Exit /\ ~Crash
  BY DEF Ends
<1> QED BY <1>1, <1>2, <1>3, <1>4, <1>5, <1>6, <1>7, <1>8, <1>9, <1>10, <1>11, <1>12, <1>13,
   <1>14, <1>15, <1>16, <1>17, <1>18, <1>19, <1>20, <1>21 DEF Next, Sync, Boot, Life

\* What the client answers with: a 304 finds the list it stands for.
LEMMA UsersAnswered ==
    ASSUME NEW a \in Answers, GetUsers(a), TypeOK, CacheIsTagged
    PROVE  /\ users' \in UserLists \cup {Nil} /\ userETag' \in UserLists \cup {Nil}
           /\ OK(a) => users' \in UserLists /\ users' # Nil
           /\ UNCHANGED <<config, configETag>>
<1>1. /\ users \in UserLists \cup {Nil} /\ userETag \in UserLists \cup {Nil}
      /\ panelUsers \in UserLists /\ panelUsers # Nil /\ (userETag # Nil => users = userETag)
  BY NilIsNothing DEF TypeOK, CacheIsTagged
<1> QED BY <1>1 DEF GetUsers, Cached, TagAfter, NotModified, OK

LEMMA ConfigAnswered ==
    ASSUME NEW a \in Answers, GetNodeConfig(a), TypeOK, CacheIsTagged
    PROVE  /\ config' \in Configs \cup {Nil} /\ configETag' \in Configs \cup {Nil}
           /\ OK(a) => config' \in Configs /\ config' # Nil
           /\ UNCHANGED <<users, userETag>>
<1>1. /\ config \in Configs \cup {Nil} /\ configETag \in Configs \cup {Nil}
      /\ panelConfig \in Configs /\ panelConfig # Nil /\ (configETag # Nil => config = configETag)
  BY NilIsNothing DEF TypeOK, CacheIsTagged
<1> QED BY <1>1 DEF GetNodeConfig, Cached, TagAfter, NotModified, OK

\* A step between two places of the reload moves no data the types are about,
\* or keeps what the engine holds as the old content.
LEMMA PlaceMoves ==
    ASSUME DataTypes, UNCHANGED <<clientVars, userByName, hashVars, newUsers, newConfig, life>>,
           oldUsers' \in {oldUsers, engineUsers}, oldConfig' \in {oldConfig, currentConfig},
           engineUsers' \in {engineUsers, oldUsers, newUsers},
           currentConfig' \in {currentConfig, oldConfig, newConfig},
           spc \notin {"start", "boot users", "idle", "users", "limited"}, ~Booting,
           spc' \in SPCs, spc' \in {"start", "boot users", "boot engine"} => FALSE
    PROVE  DataTypes'
<1>1. ValueTypes /\ PlaceTypes /\ Needs
  BY DataParts
<1>2. UNCHANGED <<users, userETag, config, configETag, userByName, newUsers, newConfig, nodeConfig,
                  life>>
  BY DEF clientVars, hashVars
<1>3. ValueTypes'
  <2>1. oldUsers' \in UserLists \cup {Nil} /\ oldConfig' \in Configs \cup {Nil}
    BY <1>1 DEF ValueTypes
  <2>2. engineUsers' \in UserLists \cup {Nil} /\ currentConfig' \in Configs \cup {Nil}
    BY <1>1 DEF ValueTypes
  <2> QED BY <1>1, <1>2, <2>1, <2>2 DEF ValueTypes
<1>4. PlaceTypes'
  BY <1>1, <1>2 DEF PlaceTypes
<1>5. newUsers # Nil /\ newConfig # Nil /\ nodeConfig # Nil
  BY <1>1 DEF Needs
<1>6. Needs'
  BY <1>2, <1>5 DEF Needs
<1>7. (ValueTypes /\ PlaceTypes /\ Needs => DataTypes)'
  BY DataParts, PTL
<1> QED BY <1>3, <1>4, <1>6, <1>7

\* What a step needs is there when it runs: the list and the config in hand,
\* and, for a rollback, the content to go back to.
LEMMA DataTypesNext ==
    ASSUME SyncInv, Next, ~Ends
    PROVE  DataTypes'
<1>0. TypeOK /\ CacheIsTagged /\ DataTypes /\ ValueTypes /\ PlaceTypes /\ Needs
  BY TypeParts, DataParts DEF SyncInv
<1>p. (ValueTypes /\ PlaceTypes /\ Needs => DataTypes)'
  BY DataParts, PTL
<1>e. PlaceTypes => life \in {"up", "stopping", "closing", "down"}
  BY DEF PlaceTypes
<1>1. CASE Edit
  <2>1. UNCHANGED <<clientVars, userByName, hashVars, spc, localVars, engineVars, lifeVars>>
    BY <1>1 DEF Edit
  <2>2. UNCHANGED <<engineUsers, currentConfig, life>>
    BY <2>1 DEF engineVars, lifeVars
  <2> QED BY <1>0, <1>e, <2>1, <2>2, DataFrame
<1>2. ASSUME NEW a \in Answers, FetchUsers(a) PROVE DataTypes'
  <2>1. /\ GetUsers(a) /\ spc = "idle"
        /\ UNCHANGED <<userByName, hashVars, newConfig, oldUsers, oldConfig, engineVars, lifeVars>>
        /\ IF OK(a) THEN spc' = "users" /\ newUsers' = users' ELSE UNCHANGED <<spc, newUsers>>
    BY <1>2 DEF FetchUsers
  <2>2. UNCHANGED <<userByName, nodeConfig, newConfig, oldUsers, oldConfig, engineUsers,
                    currentConfig, life>>
    BY <2>1 DEF hashVars, engineVars, lifeVars
  <2>3. /\ users' \in UserLists \cup {Nil} /\ userETag' \in UserLists \cup {Nil}
        /\ OK(a) => users' \in UserLists /\ users' # Nil
        /\ UNCHANGED <<config, configETag>>
    BY <1>0, <2>1, UsersAnswered
  <2>4. ValueTypes'
    BY <1>0, <2>1, <2>2, <2>3 DEF ValueTypes
  <2>5. PlaceTypes'
    BY <1>0, <2>1, <2>2 DEF PlaceTypes, SPCs
  <2>6. Needs'
    BY <1>0, <2>1, <2>2, <2>3 DEF Needs, Booting
  <2> QED BY <1>p, <2>4, <2>5, <2>6
<1>3. ASSUME NEW a \in Answers, FetchConfig(a) PROVE DataTypes'
  <2>1. /\ GetNodeConfig(a) /\ spc = "limited"
        /\ UNCHANGED <<userByName, hashVars, newUsers, oldUsers, oldConfig, engineVars, lifeVars>>
        /\ newConfig' = IF OK(a) THEN config' ELSE nodeConfig
        /\ spc' \in {"idle", "changed"}
    BY <1>3 DEF FetchConfig
  <2>2. UNCHANGED <<userByName, nodeConfig, newUsers, oldUsers, oldConfig, engineUsers,
                    currentConfig, life>>
    BY <2>1 DEF hashVars, engineVars, lifeVars
  <2>3. /\ config' \in Configs \cup {Nil} /\ configETag' \in Configs \cup {Nil}
        /\ OK(a) => config' \in Configs /\ config' # Nil
        /\ UNCHANGED <<users, userETag>>
    BY <1>0, <2>1, ConfigAnswered
  <2>4. ValueTypes'
    BY <1>0, <2>1, <2>2, <2>3 DEF ValueTypes
  <2>5. PlaceTypes'
    BY <1>0, <2>1, <2>2 DEF PlaceTypes, SPCs
  <2>6. newUsers # Nil /\ nodeConfig # Nil
    BY <1>0, <2>1 DEF Needs, Booting
  <2>7. Needs'
    BY <2>1, <2>2, <2>3, <2>6 DEF Needs, Booting
  <2> QED BY <1>p, <2>4, <2>5, <2>7
<1>4. CASE UpdateUsers
  <2>1. /\ userByName' = newUsers /\ spc = "users" /\ spc' = "limited"
        /\ UNCHANGED <<clientVars, hashVars, localVars, engineVars, lifeVars>>
    BY <1>4 DEF UpdateUsers, Limits
  <2>2. UNCHANGED <<users, userETag, config, configETag, nodeConfig, newUsers, newConfig, oldUsers,
                    oldConfig, engineUsers, currentConfig, life>>
    BY <2>1 DEF clientVars, hashVars, localVars, engineVars, lifeVars
  <2>3. ValueTypes'
    BY <1>0, <2>1, <2>2 DEF ValueTypes
  <2>4. PlaceTypes'
    BY <1>0, <2>1, <2>2 DEF PlaceTypes, SPCs
  <2>5. Needs'
    BY <1>0, <2>1, <2>2 DEF Needs, Booting
  <2> QED BY <1>p, <2>3, <2>4, <2>5
<1>5. CASE Build
  <2>1. /\ spc = "changed" /\ spc' \in {"built", "idle"}
        /\ UNCHANGED <<clientVars, userByName, hashVars, newUsers, newConfig, life>>
    BY <1>5 DEF Build, ReloadGoesOn, ReloadFailed, lifeVars
  <2>2. UNCHANGED <<oldUsers, oldConfig>>
    BY <1>5 DEF Build
  <2>3. UNCHANGED <<engineUsers, currentConfig>>
    BY <1>5 DEF Build, engineVars
  <2> QED BY <1>0, <2>1, <2>2, <2>3, PlaceMoves DEF SPCs, Booting
<1>6. CASE TakeOld
  <2>1. /\ spc = "built" /\ spc' \in {"taken"}
        /\ UNCHANGED <<clientVars, userByName, hashVars, newUsers, newConfig, life>>
    BY <1>6 DEF TakeOld, lifeVars
  <2>2. oldUsers' = engineUsers /\ oldConfig' = currentConfig
    BY <1>6 DEF TakeOld
  <2>3. UNCHANGED <<engineUsers, currentConfig>>
    BY <1>6 DEF TakeOld
  <2> QED BY <1>0, <2>1, <2>2, <2>3, PlaceMoves DEF SPCs, Booting
<1>7. CASE CloseOld
  <2>1. /\ spc = "taken" /\ spc' \in {"closed"}
        /\ UNCHANGED <<clientVars, userByName, hashVars, newUsers, newConfig, life>>
    BY <1>7 DEF CloseOld, localVars, lifeVars
  <2>2. UNCHANGED <<oldUsers, oldConfig>>
    BY <1>7 DEF CloseOld, localVars
  <2>3. UNCHANGED <<engineUsers, currentConfig>>
    BY <1>7 DEF CloseOld, engineVars
  <2> QED BY <1>0, <2>1, <2>2, <2>3, PlaceMoves DEF SPCs, Booting
<1>8. ASSUME NEW ok \in BOOLEAN, StartNew(ok) PROVE DataTypes'
  <2>1. /\ spc = "closed" /\ spc' \in {"started", "rolling back"}
        /\ UNCHANGED <<clientVars, userByName, hashVars, newUsers, newConfig, life>>
    BY <1>8 DEF StartNew, localVars, lifeVars
  <2>2. UNCHANGED <<oldUsers, oldConfig>>
    BY <1>8 DEF StartNew, localVars
  <2>3. UNCHANGED <<engineUsers, currentConfig>>
    BY <1>8 DEF StartNew, engineVars
  <2> QED BY <1>0, <2>1, <2>2, <2>3, PlaceMoves DEF SPCs, Booting
<1>9. CASE RollBack
  <2>1. /\ spc = "rolling back" /\ spc' \in {"rebuilt", "idle"}
        /\ UNCHANGED <<clientVars, userByName, hashVars, newUsers, newConfig, life>>
    BY <1>9 DEF RollBack, ReloadGoesOn, ReloadFailed, lifeVars
  <2>2. UNCHANGED <<oldUsers, oldConfig>>
    BY <1>9 DEF RollBack
  <2>3. UNCHANGED <<engineUsers, currentConfig>>
    BY <1>9 DEF RollBack, engineVars
  <2> QED BY <1>0, <2>1, <2>2, <2>3, PlaceMoves DEF SPCs, Booting
<1>10. ASSUME NEW ok \in BOOLEAN, StartOld(ok) PROVE DataTypes'
  <2>1. /\ spc = "rebuilt" /\ spc' \in {"restored", "idle"}
        /\ UNCHANGED <<clientVars, userByName, hashVars, newUsers, newConfig, life>>
    BY <1>10 DEF StartOld, ReloadGoesOn, ReloadFailed, localVars, lifeVars
  <2>2. UNCHANGED <<oldUsers, oldConfig>>
    BY <1>10 DEF StartOld, localVars
  <2>3. UNCHANGED <<engineUsers, currentConfig>>
    BY <1>10 DEF StartOld, engineVars
  <2> QED BY <1>0, <2>1, <2>2, <2>3, PlaceMoves DEF SPCs, Booting
<1>11. CASE InstallOld
  <2>1. /\ spc = "restored" /\ spc' \in {"idle"}
        /\ UNCHANGED <<clientVars, userByName, hashVars, newUsers, newConfig, life>>
    BY <1>11 DEF InstallOld, ReloadFailed, localVars, lifeVars
  <2>2. UNCHANGED <<oldUsers, oldConfig>>
    BY <1>11 DEF InstallOld, localVars
  <2>3. engineUsers' = oldUsers /\ currentConfig' = oldConfig
    BY <1>11 DEF InstallOld, Install
  <2> QED BY <1>0, <2>1, <2>2, <2>3, PlaceMoves DEF SPCs, Booting
<1>12. CASE InstallNew
  <2>1. /\ spc = "started" /\ spc' \in {"installed"}
        /\ UNCHANGED <<clientVars, userByName, hashVars, newUsers, newConfig, life>>
    BY <1>12 DEF InstallNew, localVars, lifeVars
  <2>2. UNCHANGED <<oldUsers, oldConfig>>
    BY <1>12 DEF InstallNew, localVars
  <2>3. engineUsers' = newUsers /\ currentConfig' = newConfig
    BY <1>12 DEF InstallNew, Install
  <2> QED BY <1>0, <2>1, <2>2, <2>3, PlaceMoves DEF SPCs, Booting
<1>13. CASE Commit
  <2>1. /\ spc = "installed" /\ spc' = "idle" /\ nodeConfig' = newConfig
        /\ UNCHANGED <<clientVars, userByName, localVars, engineVars, lifeVars>>
    BY <1>13 DEF Commit
  <2>2. UNCHANGED <<users, userETag, config, configETag, userByName, newUsers, newConfig, oldUsers,
                    oldConfig, engineUsers, currentConfig, life>>
    BY <2>1 DEF clientVars, localVars, engineVars, lifeVars
  <2>3. ValueTypes'
    BY <1>0, <2>1, <2>2 DEF ValueTypes
  <2>4. PlaceTypes'
    BY <1>0, <2>1, <2>2 DEF PlaceTypes, SPCs
  <2>5. newConfig # Nil
    BY <1>0, <2>1 DEF Needs
  <2>6. Needs'
    BY <2>1, <2>5 DEF Needs
  <2> QED BY <1>p, <2>3, <2>4, <2>6
<1>14. ASSUME NEW a \in Answers, BootConfig(a) PROVE DataTypes'
  <2>0. OK(a)
    BY <1>14 DEF Ends
  <2>1. /\ GetNodeConfig(a) /\ newConfig' = config' /\ spc' = "boot users"
        /\ UNCHANGED <<userByName, hashVars, newUsers, oldUsers, oldConfig, engineVars, life>>
    BY <1>14, <2>0 DEF BootConfig
  <2>2. UNCHANGED <<userByName, nodeConfig, newUsers, oldUsers, oldConfig, engineUsers,
                    currentConfig, life>>
    BY <2>1 DEF hashVars, engineVars
  <2>3. /\ config' \in Configs \cup {Nil} /\ configETag' \in Configs \cup {Nil}
        /\ config' \in Configs /\ config' # Nil
        /\ UNCHANGED <<users, userETag>>
    BY <1>0, <2>0, <2>1, ConfigAnswered
  <2>4. ValueTypes'
    BY <1>0, <2>1, <2>2, <2>3 DEF ValueTypes
  <2>5. PlaceTypes'
    BY <1>0, <2>1, <2>2 DEF PlaceTypes, SPCs
  <2>6. Needs'
    BY <2>1, <2>3 DEF Needs, Booting
  <2> QED BY <1>p, <2>4, <2>5, <2>6
<1>15. ASSUME NEW a \in Answers, BootUsers(a) PROVE DataTypes'
  <2>0. OK(a)
    BY <1>15 DEF Ends
  <2>1. /\ GetUsers(a) /\ newUsers' = users' /\ userByName' = users'
        /\ spc = "boot users" /\ spc' = "boot engine"
        /\ UNCHANGED <<hashVars, newConfig, oldUsers, oldConfig, engineVars, life>>
    BY <1>15, <2>0 DEF BootUsers, Limits
  <2>2. UNCHANGED <<nodeConfig, newConfig, oldUsers, oldConfig, engineUsers, currentConfig, life>>
    BY <2>1 DEF hashVars, engineVars
  <2>3. /\ users' \in UserLists \cup {Nil} /\ userETag' \in UserLists \cup {Nil}
        /\ users' \in UserLists /\ users' # Nil
        /\ UNCHANGED <<config, configETag>>
    BY <1>0, <2>0, <2>1, UsersAnswered
  <2>4. ValueTypes'
    BY <1>0, <2>1, <2>2, <2>3 DEF ValueTypes
  <2>5. PlaceTypes'
    BY <1>0, <2>1, <2>2 DEF PlaceTypes, SPCs
  <2>6. newConfig # Nil
    BY <1>0, <2>1 DEF Needs
  <2>7. Needs'
    BY <2>1, <2>2, <2>3, <2>6 DEF Needs, Booting
  <2> QED BY <1>p, <2>4, <2>5, <2>7
<1>16. ASSUME NEW ok \in BOOLEAN, BootEngine(ok) PROVE DataTypes'
  <2>0. ok /\ newConfig \in Buildable
    BY <1>16 DEF Ends
  <2>1. /\ engineUsers' = newUsers /\ currentConfig' = newConfig /\ nodeConfig' = newConfig
        /\ spc = "boot engine" /\ spc' = "idle"
        /\ UNCHANGED <<clientVars, userByName, localVars, life>>
    BY <1>16, <2>0 DEF BootEngine
  <2>2. UNCHANGED <<users, userETag, config, configETag, userByName, newUsers, newConfig, oldUsers,
                    oldConfig, life>>
    BY <2>1 DEF clientVars, localVars
  <2>3. ValueTypes'
    BY <1>0, <2>1, <2>2 DEF ValueTypes
  <2>4. PlaceTypes'
    BY <1>0, <2>1, <2>2 DEF PlaceTypes, SPCs
  <2>5. newConfig # Nil
    BY <1>0, <2>1 DEF Needs
  <2>6. Needs'
    BY <2>1, <2>5 DEF Needs
  <2> QED BY <1>p, <2>3, <2>4, <2>6
<1>17. CASE BeginShutdown
  <2>1. UNCHANGED <<clientVars, userByName, hashVars, spc, localVars>>
    BY <1>17 DEF BeginShutdown
  <2>2. UNCHANGED <<engineUsers, currentConfig>>
    BY <1>17 DEF BeginShutdown, engineVars
  <2>3. life' \in {"up", "stopping", "closing", "down"}
    BY <1>0, <1>e, <1>17 DEF BeginShutdown
  <2> QED BY <1>0, <2>1, <2>2, <2>3, DataFrame
<1>18. CASE CloseTake
  <2>1. UNCHANGED <<clientVars, userByName, hashVars, spc, localVars>>
    BY <1>18 DEF CloseTake
  <2>2. engineUsers' = Nil /\ currentConfig' = Nil
    BY <1>18 DEF CloseTake
  <2>3. life' \in {"up", "stopping", "closing", "down"}
    BY <1>0, <1>e, <1>18 DEF CloseTake
  <2> QED BY <1>0, <2>1, <2>2, <2>3, DataFrame
<1>19. CASE CloseInstance
  <2>1. UNCHANGED <<clientVars, userByName, hashVars, spc, localVars>>
    BY <1>19 DEF CloseInstance
  <2>2. UNCHANGED <<engineUsers, currentConfig>>
    BY <1>19 DEF CloseInstance, engineVars
  <2>3. life' \in {"up", "stopping", "closing", "down"}
    BY <1>0, <1>e, <1>19 DEF CloseInstance
  <2> QED BY <1>0, <2>1, <2>2, <2>3, DataFrame
<1>20. CASE Restart
  <2>1. UNCHANGED <<clientVars, userByName, hashVars, spc, localVars>>
    BY <1>20 DEF Restart
  <2>2. UNCHANGED <<engineUsers, currentConfig>>
    BY <1>20 DEF Restart, engineVars
  <2>3. life' \in {"up", "stopping", "closing", "down"}
    BY <1>0, <1>e, <1>20 DEF Restart
  <2> QED BY <1>0, <2>1, <2>2, <2>3, DataFrame
<1>21. ~Exit /\ ~Crash
  BY DEF Ends
<1> QED BY <1>1, <1>2, <1>3, <1>4, <1>5, <1>6, <1>7, <1>8, <1>9, <1>10, <1>11, <1>12, <1>13,
   <1>14, <1>15, <1>16, <1>17, <1>18, <1>19, <1>20, <1>21 DEF Next, Sync, Boot, Life

\* The cache, its tags, and the limiter's list.
LEMMA CacheNext ==
    ASSUME SyncInv, Next, ~Ends
    PROVE  (CacheIsTagged /\ LimiterCurrent /\ ListInHand)'
<1> USE DEF SyncInv, TypeOK, CacheIsTagged, LimiterCurrent, ListInHand, Lives, panelVars,
   clientVars, hashVars, localVars, engineVars, boxVars, lifeVars, Booting, Reloading,
   NewInHand, OldInHand, InHand
<1>1. CASE Edit
  BY <1>1 DEF Edit
<1>2. ASSUME NEW a \in Answers, FetchUsers(a) PROVE (CacheIsTagged /\ LimiterCurrent /\
   ListInHand)'
  BY <1>2 DEF FetchUsers, GetUsers, Cached, TagAfter, NotModified, OK
<1>3. ASSUME NEW a \in Answers, FetchConfig(a) PROVE (CacheIsTagged /\ LimiterCurrent /\
   ListInHand)'
  BY <1>3 DEF FetchConfig, GetNodeConfig, Cached, TagAfter, NotModified, OK, Unchanged
<1>4. CASE UpdateUsers
  BY <1>4 DEF UpdateUsers, Limits
<1>5. CASE Build
  BY <1>5 DEF Build, ReloadGoesOn, ReloadFailed
<1>6. CASE TakeOld
  BY <1>6 DEF TakeOld
<1>7. CASE CloseOld
  BY <1>7 DEF CloseOld, DropOld, Close
<1>8. ASSUME NEW ok \in BOOLEAN, StartNew(ok) PROVE (CacheIsTagged /\ LimiterCurrent /\
   ListInHand)'
  BY <1>8 DEF StartNew, StartBox, Close
<1>9. CASE RollBack
  BY <1>9 DEF RollBack, ReloadGoesOn, ReloadFailed
<1>10. ASSUME NEW ok \in BOOLEAN, StartOld(ok) PROVE (CacheIsTagged /\ LimiterCurrent /\
   ListInHand)'
  BY <1>10 DEF StartOld, StartBox, Close, ReloadGoesOn, ReloadFailed
<1>11. CASE InstallOld
  BY <1>11 DEF InstallOld, Install, Started, ReloadFailed
<1>12. CASE InstallNew
  BY <1>12 DEF InstallNew, Install, Started
<1>13. CASE Commit
  BY <1>13 DEF Commit
<1>14. ASSUME NEW a \in Answers, BootConfig(a) PROVE (CacheIsTagged /\ LimiterCurrent /\
   ListInHand)'
  BY <1>14 DEF Ends, BootConfig, GetNodeConfig, Cached, TagAfter, NotModified, OK
<1>15. ASSUME NEW a \in Answers, BootUsers(a) PROVE (CacheIsTagged /\ LimiterCurrent /\
   ListInHand)'
  BY <1>15 DEF Ends, BootUsers, GetUsers, Cached, TagAfter, NotModified, OK, Limits
<1>16. ASSUME NEW ok \in BOOLEAN, BootEngine(ok) PROVE (CacheIsTagged /\ LimiterCurrent /\
   ListInHand)'
  <2>1. ok /\ newConfig \in Buildable
    BY <1>16 DEF Ends
  <2> QED BY <2>1, <1>16, Makes DEF Made, BootEngine
<1>17. CASE BeginShutdown
  BY <1>17 DEF BeginShutdown
<1>18. CASE CloseTake
  BY <1>18 DEF CloseTake
<1>19. CASE CloseInstance
  BY <1>19 DEF CloseInstance, Close
<1>20. CASE Restart
  BY <1>20 DEF Restart
<1>21. ~Exit /\ ~Crash
  BY DEF Ends
<1> QED BY <1>1, <1>2, <1>3, <1>4, <1>5, <1>6, <1>7, <1>8, <1>9, <1>10, <1>11, <1>12, <1>13,
   <1>14, <1>15, <1>16, <1>17, <1>18, <1>19, <1>20, <1>21 DEF Next, Sync, Boot, Life

\* When the process is down, and when Close has an instance.
LEMMA LivesNext ==
    ASSUME SyncInv, Next, ~Ends
    PROVE  Lives'
<1> USE DEF SyncInv, TypeOK, Lives, Busy, panelVars, clientVars, hashVars, localVars,
   engineVars, boxVars, lifeVars, Booting, Reloading, NewInHand, OldInHand, InHand
<1>1. CASE Edit
  BY <1>1 DEF Edit
<1>2. ASSUME NEW a \in Answers, FetchUsers(a) PROVE Lives'
  BY <1>2 DEF FetchUsers, GetUsers, Cached, TagAfter, NotModified, OK
<1>3. ASSUME NEW a \in Answers, FetchConfig(a) PROVE Lives'
  BY <1>3 DEF FetchConfig, GetNodeConfig, Cached, TagAfter, NotModified, OK, Unchanged
<1>4. CASE UpdateUsers
  BY <1>4 DEF UpdateUsers, Limits
<1>5. CASE Build
  BY <1>5 DEF Build, ReloadGoesOn, ReloadFailed
<1>6. CASE TakeOld
  BY <1>6 DEF TakeOld
<1>7. CASE CloseOld
  BY <1>7 DEF CloseOld, DropOld, Close
<1>8. ASSUME NEW ok \in BOOLEAN, StartNew(ok) PROVE Lives'
  BY <1>8 DEF StartNew, StartBox, Close
<1>9. CASE RollBack
  BY <1>9 DEF RollBack, ReloadGoesOn, ReloadFailed
<1>10. ASSUME NEW ok \in BOOLEAN, StartOld(ok) PROVE Lives'
  BY <1>10 DEF StartOld, StartBox, Close, ReloadGoesOn, ReloadFailed
<1>11. CASE InstallOld
  BY <1>11 DEF InstallOld, Install, Started, ReloadFailed
<1>12. CASE InstallNew
  BY <1>12 DEF InstallNew, Install, Started
<1>13. CASE Commit
  BY <1>13 DEF Commit
<1>14. ASSUME NEW a \in Answers, BootConfig(a) PROVE Lives'
  BY <1>14 DEF Ends, BootConfig, GetNodeConfig, Cached, TagAfter, NotModified, OK
<1>15. ASSUME NEW a \in Answers, BootUsers(a) PROVE Lives'
  BY <1>15 DEF Ends, BootUsers, GetUsers, Cached, TagAfter, NotModified, OK, Limits
<1>16. ASSUME NEW ok \in BOOLEAN, BootEngine(ok) PROVE Lives'
  <2>1. ok /\ newConfig \in Buildable
    BY <1>16 DEF Ends
  <2> QED BY <2>1, <1>16, Makes DEF Made, BootEngine
<1>17. CASE BeginShutdown
  BY <1>17 DEF BeginShutdown
<1>18. CASE CloseTake
  BY <1>18 DEF CloseTake
<1>19. CASE CloseInstance
  BY <1>19 DEF CloseInstance, Close
<1>20. CASE Restart
  BY <1>20 DEF Restart
<1>21. ~Exit /\ ~Crash
  BY DEF Ends
<1> QED BY <1>1, <1>2, <1>3, <1>4, <1>5, <1>6, <1>7, <1>8, <1>9, <1>10, <1>11, <1>12, <1>13,
   <1>14, <1>15, <1>16, <1>17, <1>18, <1>19, <1>20, <1>21 DEF Next, Sync, Boot, Life

\* No step leaves an instance to nobody or to two.
LEMMA OwnedNext ==
    ASSUME SyncInv, Next, ~Ends
    PROVE  Owned'
<1> USE NilIsNothing DEF SyncInv, TypeOK, Owned, Lives, Stages, Busy, panelVars, clientVars,
   hashVars, localVars, engineVars, boxVars, lifeVars, Booting, Reloading, NewInHand, OldInHand,
   InHand
<1>1. CASE Edit
  BY <1>1 DEF Edit
<1>2. ASSUME NEW a \in Answers, FetchUsers(a) PROVE Owned'
  BY <1>2 DEF FetchUsers, GetUsers, Cached, TagAfter, NotModified, OK
<1>3. ASSUME NEW a \in Answers, FetchConfig(a) PROVE Owned'
  BY <1>3 DEF FetchConfig, GetNodeConfig, Cached, TagAfter, NotModified, OK, Unchanged
<1>4. CASE UpdateUsers
  BY <1>4 DEF UpdateUsers, Limits
<1>5. CASE Build
  <2>1. CASE newConfig \in Buildable
    BY <2>1, <1>5, Makes DEF Made, Build, ReloadGoesOn, ReloadFailed
  <2>2. CASE newConfig \notin Buildable
    BY <2>2, <1>5 DEF Build, ReloadGoesOn, ReloadFailed
  <2> QED BY <2>1, <2>2
<1>6. CASE TakeOld
  BY <1>6 DEF TakeOld
<1>7. CASE CloseOld
  BY <1>7 DEF CloseOld, DropOld, Close
<1>8. ASSUME NEW ok \in BOOLEAN, StartNew(ok) PROVE Owned'
  <2>1. CASE ok
    BY <2>1, <1>8 DEF StartNew, StartBox, Close
  <2>2. CASE ~ok
    BY <2>2, <1>8 DEF StartNew, StartBox, Close
  <2> QED BY <2>1, <2>2
<1>9. CASE RollBack
  <2>1. CASE oldConfig \in Buildable
    BY <2>1, <1>9, Makes DEF Made, RollBack, ReloadGoesOn, ReloadFailed
  <2>2. CASE oldConfig \notin Buildable
    BY <2>2, <1>9 DEF RollBack, ReloadGoesOn, ReloadFailed
  <2> QED BY <2>1, <2>2
<1>10. ASSUME NEW ok \in BOOLEAN, StartOld(ok) PROVE Owned'
  <2>1. CASE ok
    BY <2>1, <1>10 DEF StartOld, StartBox, Close, ReloadGoesOn, ReloadFailed
  <2>2. CASE ~ok
    BY <2>2, <1>10 DEF StartOld, StartBox, Close, ReloadGoesOn, ReloadFailed
  <2> QED BY <2>1, <2>2
<1>11. CASE InstallOld
  BY <1>11 DEF InstallOld, Install, Started, ReloadFailed
<1>12. CASE InstallNew
  BY <1>12 DEF InstallNew, Install, Started
<1>13. CASE Commit
  BY <1>13 DEF Commit
<1>14. ASSUME NEW a \in Answers, BootConfig(a) PROVE Owned'
  BY <1>14 DEF Ends, BootConfig, GetNodeConfig, Cached, TagAfter, NotModified, OK
<1>15. ASSUME NEW a \in Answers, BootUsers(a) PROVE Owned'
  BY <1>15 DEF Ends, BootUsers, GetUsers, Cached, TagAfter, NotModified, OK, Limits
<1>16. ASSUME NEW ok \in BOOLEAN, BootEngine(ok) PROVE Owned'
  <2>1. ok /\ newConfig \in Buildable
    BY <1>16 DEF Ends
  <2>2. /\ life = "up" /\ spc = "boot engine" /\ instance' = Fresh /\ spc' = "idle"
        /\ engineUsers' = newUsers /\ currentConfig' = newConfig
        /\ currentUserHash' = UserHash[newUsers] /\ currentConfigHash' = ConfigHash[newConfig]
        /\ UNCHANGED <<localVars, life, closing, failures>>
    BY <2>1, <1>16 DEF BootEngine
  <2>3. Made(newUsers, newConfig, "running")
    BY <2>1, <1>16, Makes
  <2> QED BY <2>1, <2>2, <2>3 DEF Made
<1>17. CASE BeginShutdown
  BY <1>17 DEF BeginShutdown
<1>18. CASE CloseTake
  BY <1>18 DEF CloseTake
<1>19. CASE CloseInstance
  BY <1>19 DEF CloseInstance, Close
<1>20. CASE Restart
  BY <1>20 DEF Restart
<1>21. ~Exit /\ ~Crash
  BY DEF Ends
<1> QED BY <1>1, <1>2, <1>3, <1>4, <1>5, <1>6, <1>7, <1>8, <1>9, <1>10, <1>11, <1>12, <1>13,
   <1>14, <1>15, <1>16, <1>17, <1>18, <1>19, <1>20, <1>21 DEF Next, Sync, Boot, Life

\* No step finds an instance in another stage than it thinks.
LEMMA StagesNext ==
    ASSUME SyncInv, Next, ~Ends
    PROVE  Stages'
<1> USE NilIsNothing DEF SyncInv, TypeOK, Owned, Lives, Stages, Busy, panelVars, clientVars,
   hashVars, localVars, engineVars, boxVars, lifeVars, Booting, Reloading, NewInHand, OldInHand,
   InHand
<1>1. CASE Edit
  BY <1>1 DEF Edit
<1>2. ASSUME NEW a \in Answers, FetchUsers(a) PROVE Stages'
  BY <1>2 DEF FetchUsers, GetUsers, Cached, TagAfter, NotModified, OK
<1>3. ASSUME NEW a \in Answers, FetchConfig(a) PROVE Stages'
  BY <1>3 DEF FetchConfig, GetNodeConfig, Cached, TagAfter, NotModified, OK, Unchanged
<1>4. CASE UpdateUsers
  BY <1>4 DEF UpdateUsers, Limits
<1>5. CASE Build
  <2>1. CASE newConfig \in Buildable
    BY <2>1, <1>5, Makes DEF Made, Build, ReloadGoesOn, ReloadFailed
  <2>2. CASE newConfig \notin Buildable
    BY <2>2, <1>5 DEF Build, ReloadGoesOn, ReloadFailed
  <2> QED BY <2>1, <2>2
<1>6. CASE TakeOld
  BY <1>6 DEF TakeOld
<1>7. CASE CloseOld
  BY <1>7 DEF CloseOld, DropOld, Close
<1>8. ASSUME NEW ok \in BOOLEAN, StartNew(ok) PROVE Stages'
  <2>1. CASE ok
    BY <2>1, <1>8 DEF StartNew, StartBox, Close
  <2>2. CASE ~ok
    BY <2>2, <1>8 DEF StartNew, StartBox, Close
  <2> QED BY <2>1, <2>2
<1>9. CASE RollBack
  <2>1. CASE oldConfig \in Buildable
    BY <2>1, <1>9, Makes DEF Made, RollBack, ReloadGoesOn, ReloadFailed
  <2>2. CASE oldConfig \notin Buildable
    BY <2>2, <1>9 DEF RollBack, ReloadGoesOn, ReloadFailed
  <2> QED BY <2>1, <2>2
<1>10. ASSUME NEW ok \in BOOLEAN, StartOld(ok) PROVE Stages'
  <2>1. CASE ok
    BY <2>1, <1>10 DEF StartOld, StartBox, Close, ReloadGoesOn, ReloadFailed
  <2>2. CASE ~ok
    BY <2>2, <1>10 DEF StartOld, StartBox, Close, ReloadGoesOn, ReloadFailed
  <2> QED BY <2>1, <2>2
<1>11. CASE InstallOld
  BY <1>11 DEF InstallOld, Install, Started, ReloadFailed
<1>12. CASE InstallNew
  BY <1>12 DEF InstallNew, Install, Started
<1>13. CASE Commit
  BY <1>13 DEF Commit
<1>14. ASSUME NEW a \in Answers, BootConfig(a) PROVE Stages'
  BY <1>14 DEF Ends, BootConfig, GetNodeConfig, Cached, TagAfter, NotModified, OK
<1>15. ASSUME NEW a \in Answers, BootUsers(a) PROVE Stages'
  BY <1>15 DEF Ends, BootUsers, GetUsers, Cached, TagAfter, NotModified, OK, Limits
<1>16. ASSUME NEW ok \in BOOLEAN, BootEngine(ok) PROVE Stages'
  <2>1. ok /\ newConfig \in Buildable
    BY <1>16 DEF Ends
  <2>2. /\ life = "up" /\ spc = "boot engine" /\ instance' = Fresh /\ spc' = "idle"
        /\ engineUsers' = newUsers /\ currentConfig' = newConfig
        /\ currentUserHash' = UserHash[newUsers] /\ currentConfigHash' = ConfigHash[newConfig]
        /\ UNCHANGED <<localVars, life, closing, failures>>
    BY <2>1, <1>16 DEF BootEngine
  <2>3. Made(newUsers, newConfig, "running")
    BY <2>1, <1>16, Makes
  <2> QED BY <2>1, <2>2, <2>3 DEF Made
<1>17. CASE BeginShutdown
  BY <1>17 DEF BeginShutdown
<1>18. CASE CloseTake
  BY <1>18 DEF CloseTake
<1>19. CASE CloseInstance
  BY <1>19 DEF CloseInstance, Close
<1>20. CASE Restart
  BY <1>20 DEF Restart
<1>21. ~Exit /\ ~Crash
  BY DEF Ends
<1> QED BY <1>1, <1>2, <1>3, <1>4, <1>5, <1>6, <1>7, <1>8, <1>9, <1>10, <1>11, <1>12, <1>13,
   <1>14, <1>15, <1>16, <1>17, <1>18, <1>19, <1>20, <1>21 DEF Next, Sync, Boot, Life

\* No step changes what an instance was built from.
LEMMA LoadedNext ==
    ASSUME SyncInv, Next, ~Ends
    PROVE  Loaded'
<1> USE NilIsNothing, SomeBuildable DEF SyncInv, TypeOK, Owned, Lives, Stages, Loaded, Busy,
   panelVars, clientVars, hashVars, localVars, engineVars, boxVars, lifeVars, Booting,
   Reloading, NewInHand, OldInHand, InHand
<1>1. CASE Edit
  BY <1>1 DEF Edit
<1>2. ASSUME NEW a \in Answers, FetchUsers(a) PROVE Loaded'
  BY <1>2 DEF FetchUsers, GetUsers, Cached, TagAfter, NotModified, OK
<1>3. ASSUME NEW a \in Answers, FetchConfig(a) PROVE Loaded'
  BY <1>3 DEF FetchConfig, GetNodeConfig, Cached, TagAfter, NotModified, OK, Unchanged
<1>4. CASE UpdateUsers
  BY <1>4 DEF UpdateUsers, Limits
<1>5. CASE Build
  <2>1. CASE newConfig \in Buildable
    BY <2>1, <1>5, Makes DEF Made, Build, ReloadGoesOn, ReloadFailed
  <2>2. CASE newConfig \notin Buildable
    BY <2>2, <1>5 DEF Build, ReloadGoesOn, ReloadFailed
  <2> QED BY <2>1, <2>2
<1>6. CASE TakeOld
  BY <1>6 DEF TakeOld
<1>7. CASE CloseOld
  BY <1>7 DEF CloseOld, DropOld, Close
<1>8. ASSUME NEW ok \in BOOLEAN, StartNew(ok) PROVE Loaded'
  <2>1. CASE ok
    BY <2>1, <1>8 DEF StartNew, StartBox, Close
  <2>2. CASE ~ok
    BY <2>2, <1>8 DEF StartNew, StartBox, Close
  <2> QED BY <2>1, <2>2
<1>9. CASE RollBack
  <2>1. CASE oldConfig \in Buildable
    BY <2>1, <1>9, Makes DEF Made, RollBack, ReloadGoesOn, ReloadFailed
  <2>2. CASE oldConfig \notin Buildable
    BY <2>2, <1>9 DEF RollBack, ReloadGoesOn, ReloadFailed
  <2> QED BY <2>1, <2>2
<1>10. ASSUME NEW ok \in BOOLEAN, StartOld(ok) PROVE Loaded'
  <2>1. CASE ok
    BY <2>1, <1>10 DEF StartOld, StartBox, Close, ReloadGoesOn, ReloadFailed
  <2>2. CASE ~ok
    BY <2>2, <1>10 DEF StartOld, StartBox, Close, ReloadGoesOn, ReloadFailed
  <2> QED BY <2>1, <2>2
<1>11. CASE InstallOld
  BY <1>11 DEF InstallOld, Install, Started, ReloadFailed
<1>12. CASE InstallNew
  BY <1>12 DEF InstallNew, Install, Started
<1>13. CASE Commit
  BY <1>13 DEF Commit
<1>14. ASSUME NEW a \in Answers, BootConfig(a) PROVE Loaded'
  BY <1>14 DEF Ends, BootConfig, GetNodeConfig, Cached, TagAfter, NotModified, OK
<1>15. ASSUME NEW a \in Answers, BootUsers(a) PROVE Loaded'
  BY <1>15 DEF Ends, BootUsers, GetUsers, Cached, TagAfter, NotModified, OK, Limits
<1>16. ASSUME NEW ok \in BOOLEAN, BootEngine(ok) PROVE Loaded'
  <2>1. ok /\ newConfig \in Buildable
    BY <1>16 DEF Ends
  <2>2. /\ life = "up" /\ spc = "boot engine" /\ instance' = Fresh /\ spc' = "idle"
        /\ engineUsers' = newUsers /\ currentConfig' = newConfig
        /\ currentUserHash' = UserHash[newUsers] /\ currentConfigHash' = ConfigHash[newConfig]
        /\ UNCHANGED <<localVars, life, closing, failures>>
    BY <2>1, <1>16 DEF BootEngine
  <2>3. Made(newUsers, newConfig, "running")
    BY <2>1, <1>16, Makes
  <2> QED BY <2>1, <2>2, <2>3 DEF Made
<1>17. CASE BeginShutdown
  BY <1>17 DEF BeginShutdown
<1>18. CASE CloseTake
  BY <1>18 DEF CloseTake
<1>19. CASE CloseInstance
  BY <1>19 DEF CloseInstance, Close
<1>20. CASE Restart
  BY <1>20 DEF Restart
<1>21. ~Exit /\ ~Crash
  BY DEF Ends
<1> QED BY <1>1, <1>2, <1>3, <1>4, <1>5, <1>6, <1>7, <1>8, <1>9, <1>10, <1>11, <1>12, <1>13,
   <1>14, <1>15, <1>16, <1>17, <1>18, <1>19, <1>20, <1>21 DEF Next, Sync, Boot, Life

\* The hashes follow the engine.
LEMMA HashesNext ==
    ASSUME SyncInv, Next, ~Ends
    PROVE  HashesKnown'
<1> USE NilIsNothing DEF SyncInv, TypeOK, Lives, Loaded, Stages, HashesKnown, Owned, panelVars,
   clientVars, hashVars, localVars, engineVars, boxVars, lifeVars, Booting, Reloading,
   NewInHand, OldInHand, InHand
<1>1. CASE Edit
  BY <1>1 DEF Edit
<1>2. ASSUME NEW a \in Answers, FetchUsers(a) PROVE HashesKnown'
  BY <1>2 DEF FetchUsers, GetUsers, Cached, TagAfter, NotModified, OK
<1>3. ASSUME NEW a \in Answers, FetchConfig(a) PROVE HashesKnown'
  BY <1>3 DEF FetchConfig, GetNodeConfig, Cached, TagAfter, NotModified, OK, Unchanged
<1>4. CASE UpdateUsers
  BY <1>4 DEF UpdateUsers, Limits
<1>5. CASE Build
  <2>1. CASE newConfig \in Buildable
    BY <2>1, <1>5, Makes DEF Made, Build, ReloadGoesOn, ReloadFailed
  <2>2. CASE newConfig \notin Buildable
    BY <2>2, <1>5 DEF Build, ReloadGoesOn, ReloadFailed
  <2> QED BY <2>1, <2>2
<1>6. CASE TakeOld
  BY <1>6 DEF TakeOld
<1>7. CASE CloseOld
  BY <1>7 DEF CloseOld, DropOld, Close
<1>8. ASSUME NEW ok \in BOOLEAN, StartNew(ok) PROVE HashesKnown'
  <2>1. CASE ok
    BY <2>1, <1>8 DEF StartNew, StartBox, Close
  <2>2. CASE ~ok
    BY <2>2, <1>8 DEF StartNew, StartBox, Close
  <2> QED BY <2>1, <2>2
<1>9. CASE RollBack
  <2>1. CASE oldConfig \in Buildable
    BY <2>1, <1>9, Makes DEF Made, RollBack, ReloadGoesOn, ReloadFailed
  <2>2. CASE oldConfig \notin Buildable
    BY <2>2, <1>9 DEF RollBack, ReloadGoesOn, ReloadFailed
  <2> QED BY <2>1, <2>2
<1>10. ASSUME NEW ok \in BOOLEAN, StartOld(ok) PROVE HashesKnown'
  <2>1. CASE ok
    BY <2>1, <1>10 DEF StartOld, StartBox, Close, ReloadGoesOn, ReloadFailed
  <2>2. CASE ~ok
    BY <2>2, <1>10 DEF StartOld, StartBox, Close, ReloadGoesOn, ReloadFailed
  <2> QED BY <2>1, <2>2
<1>11. CASE InstallOld
  BY <1>11 DEF InstallOld, Install, Started, ReloadFailed
<1>12. CASE InstallNew
  BY <1>12 DEF InstallNew, Install, Started
<1>13. CASE Commit
  BY <1>13 DEF Commit
<1>14. ASSUME NEW a \in Answers, BootConfig(a) PROVE HashesKnown'
  BY <1>14 DEF Ends, BootConfig, GetNodeConfig, Cached, TagAfter, NotModified, OK
<1>15. ASSUME NEW a \in Answers, BootUsers(a) PROVE HashesKnown'
  BY <1>15 DEF Ends, BootUsers, GetUsers, Cached, TagAfter, NotModified, OK, Limits
<1>16. ASSUME NEW ok \in BOOLEAN, BootEngine(ok) PROVE HashesKnown'
  <2>1. ok /\ newConfig \in Buildable
    BY <1>16 DEF Ends
  <2>2. /\ life = "up" /\ spc = "boot engine" /\ instance' = Fresh /\ spc' = "idle"
        /\ engineUsers' = newUsers /\ currentConfig' = newConfig
        /\ currentUserHash' = UserHash[newUsers] /\ currentConfigHash' = ConfigHash[newConfig]
        /\ UNCHANGED <<localVars, life, closing, failures>>
    BY <2>1, <1>16 DEF BootEngine
  <2>3. Made(newUsers, newConfig, "running")
    BY <2>1, <1>16, Makes
  <2> QED BY <2>1, <2>2, <2>3 DEF Made
<1>17. CASE BeginShutdown
  BY <1>17 DEF BeginShutdown
<1>18. CASE CloseTake
  BY <1>18 DEF CloseTake
<1>19. CASE CloseInstance
  BY <1>19 DEF CloseInstance, Close
<1>20. CASE Restart
  BY <1>20 DEF Restart
<1>21. ~Exit /\ ~Crash
  BY DEF Ends
<1> QED BY <1>1, <1>2, <1>3, <1>4, <1>5, <1>6, <1>7, <1>8, <1>9, <1>10, <1>11, <1>12, <1>13,
   <1>14, <1>15, <1>16, <1>17, <1>18, <1>19, <1>20, <1>21 DEF Next, Sync, Boot, Life

\* An instance is lost only to two failures.
LEMMA FailuresNext ==
    ASSUME SyncInv, Next, ~Ends
    PROVE  FailuresCounted'
<1> USE NilIsNothing DEF SyncInv, TypeOK, Lives, Owned, Loaded, FailuresCounted, HashesKnown,
   panelVars, clientVars, hashVars, localVars, engineVars, boxVars, lifeVars, Booting,
   Reloading, NewInHand, OldInHand, InHand
<1>1. CASE Edit
  BY <1>1 DEF Edit
<1>2. ASSUME NEW a \in Answers, FetchUsers(a) PROVE FailuresCounted'
  BY <1>2 DEF FetchUsers, GetUsers, Cached, TagAfter, NotModified, OK
<1>3. ASSUME NEW a \in Answers, FetchConfig(a) PROVE FailuresCounted'
  BY <1>3 DEF FetchConfig, GetNodeConfig, Cached, TagAfter, NotModified, OK, Unchanged
<1>4. CASE UpdateUsers
  BY <1>4 DEF UpdateUsers, Limits
<1>5. CASE Build
  <2>1. CASE newConfig \in Buildable
    BY <2>1, <1>5, Makes DEF Made, Build, ReloadGoesOn, ReloadFailed
  <2>2. CASE newConfig \notin Buildable
    BY <2>2, <1>5 DEF Build, ReloadGoesOn, ReloadFailed
  <2> QED BY <2>1, <2>2
<1>6. CASE TakeOld
  BY <1>6 DEF TakeOld
<1>7. CASE CloseOld
  BY <1>7 DEF CloseOld, DropOld, Close
<1>8. ASSUME NEW ok \in BOOLEAN, StartNew(ok) PROVE FailuresCounted'
  <2>1. CASE ok
    BY <2>1, <1>8 DEF StartNew, StartBox, Close
  <2>2. CASE ~ok
    <3>1. failures \in Nat
      BY DEF TypeOK
    <3>2. failures' = failures + 1 /\ spc' = "rolling back"
      BY <2>2, <1>8 DEF StartNew, StartBox
    <3>3. failures' >= 1
      BY <3>1, <3>2, CountsUp
    <3> QED BY <3>2, <3>3
  <2> QED BY <2>1, <2>2
<1>9. CASE RollBack
  <2>1. CASE oldConfig \in Buildable
    BY <2>1, <1>9, Makes DEF Made, RollBack, ReloadGoesOn, ReloadFailed
  <2>2. CASE oldConfig \notin Buildable
    BY <2>2, <1>9 DEF RollBack, ReloadGoesOn, ReloadFailed
  <2> QED BY <2>1, <2>2
<1>10. ASSUME NEW ok \in BOOLEAN, StartOld(ok) PROVE FailuresCounted'
  <2>1. CASE ok
    BY <2>1, <1>10 DEF StartOld, StartBox, Close, ReloadGoesOn, ReloadFailed
  <2>2. CASE ~ok
    BY <2>2, <1>10 DEF StartOld, StartBox, Close, ReloadGoesOn, ReloadFailed
  <2> QED BY <2>1, <2>2
<1>11. CASE InstallOld
  BY <1>11 DEF InstallOld, Install, Started, ReloadFailed
<1>12. CASE InstallNew
  BY <1>12 DEF InstallNew, Install, Started
<1>13. CASE Commit
  BY <1>13 DEF Commit
<1>14. ASSUME NEW a \in Answers, BootConfig(a) PROVE FailuresCounted'
  BY <1>14 DEF Ends, BootConfig, GetNodeConfig, Cached, TagAfter, NotModified, OK
<1>15. ASSUME NEW a \in Answers, BootUsers(a) PROVE FailuresCounted'
  BY <1>15 DEF Ends, BootUsers, GetUsers, Cached, TagAfter, NotModified, OK, Limits
<1>16. ASSUME NEW ok \in BOOLEAN, BootEngine(ok) PROVE FailuresCounted'
  <2>1. ok /\ newConfig \in Buildable
    BY <1>16 DEF Ends
  <2>2. /\ life = "up" /\ spc = "boot engine" /\ instance' = Fresh /\ spc' = "idle"
        /\ engineUsers' = newUsers /\ currentConfig' = newConfig
        /\ currentUserHash' = UserHash[newUsers] /\ currentConfigHash' = ConfigHash[newConfig]
        /\ UNCHANGED <<localVars, life, closing, failures>>
    BY <2>1, <1>16 DEF BootEngine
  <2>3. Made(newUsers, newConfig, "running")
    BY <2>1, <1>16, Makes
  <2> QED BY <2>1, <2>2, <2>3 DEF Made
<1>17. CASE BeginShutdown
  BY <1>17 DEF BeginShutdown
<1>18. CASE CloseTake
  BY <1>18 DEF CloseTake
<1>19. CASE CloseInstance
  BY <1>19 DEF CloseInstance, Close
<1>20. CASE Restart
  BY <1>20 DEF Restart
<1>21. ~Exit /\ ~Crash
  BY DEF Ends
<1> QED BY <1>1, <1>2, <1>3, <1>4, <1>5, <1>6, <1>7, <1>8, <1>9, <1>10, <1>11, <1>12, <1>13,
   <1>14, <1>15, <1>16, <1>17, <1>18, <1>19, <1>20, <1>21 DEF Next, Sync, Boot, Life

--------------------------------------------------------------------------------
(* Theorems. *)

\* The invariant is kept by every step of the panel, of Sync, of the start and
\* of the shutdown.
LEMMA StepInv == SyncInv /\ [Next]_vars => SyncInv'
<1> SUFFICES ASSUME SyncInv, [Next]_vars PROVE SyncInv'
  OBVIOUS
<1>1. CASE Ends
  BY <1>1, EndsInv
<1>2. CASE Next /\ ~Ends
  <2>1. TypeOK'
    BY <1>2, EnvTypesNext, BoxTypesNext, DataTypesNext DEF TypeOK, EnvTypes, BoxTypes, DataTypes
  <2> QED BY <1>2, <2>1, CacheNext, LivesNext, OwnedNext, StagesNext, LoadedNext, HashesNext,
             FailuresNext DEF SyncInv
<1>3. CASE UNCHANGED vars
  <2> USE <1>3 DEF vars, panelVars, clientVars, hashVars, localVars, engineVars, boxVars,
          lifeVars, SyncInv, Booting, Reloading, NewInHand, OldInHand, InHand
  <2>1. EnvTypes' /\ BoxTypes'
    BY TypeParts DEF EnvTypes, BoxTypes
  <2>2. DataTypes'
    BY TypeParts, DataFrame DEF DataTypes, engineVars, vars, lifeVars
  <2>3. TypeOK'
    BY <2>1, <2>2 DEF TypeOK, EnvTypes, BoxTypes, DataTypes
  <2>4. CacheIsTagged' /\ LimiterCurrent' /\ Lives' /\ ListInHand'
    BY DEF CacheIsTagged, LimiterCurrent, Lives, ListInHand
  <2>5. Owned' /\ Stages'
    BY DEF Owned, Stages
  <2>6. Loaded' /\ HashesKnown' /\ FailuresCounted'
    BY DEF Loaded, HashesKnown, FailuresCounted
  <2> QED BY <2>3, <2>4, <2>5, <2>6
<1> QED BY <1>1, <1>2, <1>3

\* The inductive invariant holds throughout.
THEOREM Invariance == Spec => []SyncInv
BY InitInv, StepInv, PTL DEF Spec

\* Type correctness: what a step of Sync, of the reload or of the rollback uses
\* (a list, a config, an instance) is there when it runs.
THEOREM TypeCorrect == Spec => []TypeOK
<1>1. SyncInv => TypeOK
  BY DEF SyncInv
<1> QED BY <1>1, Invariance, PTL

\* panel.Client keeps an ETag only together with the content it was sent with,
\* so that a 304 never stands for something the node has not got.
THEOREM CacheNeverLies == Spec => []CacheIsTagged
<1>1. SyncInv => CacheIsTagged
  BY DEF SyncInv
<1> QED BY <1>1, Invariance, PTL

\* The limiter decides by the last list the panel sent, whatever Sync makes of it.
THEOREM LimiterFollowsPanel == Spec => []LimiterCurrent
<1>1. SyncInv => LimiterCurrent
  BY DEF SyncInv
<1> QED BY <1>1, Invariance, PTL

\* Between two calls of Sync the hashes it compares with are those of what the
\* engine holds, and what runs was built from it, after any failed reload.
THEOREM SyncerAgreesWithEngine == Spec => []SyncerKnowsEngine
<1>1. SyncInv => SyncerKnowsEngine
  <2> SUFFICES ASSUME SyncInv, life = "up", spc = "idle"
               PROVE  /\ engineUsers # Nil /\ UserHash[engineUsers] = currentUserHash
                      /\ currentConfig # Nil /\ ConfigHash[currentConfig] = currentConfigHash
                      /\ instance # Nil =>
                            /\ state[instance] = "running"
                            /\ content[instance] = [users |-> engineUsers, config |-> currentConfig]
    BY DEF SyncerKnowsEngine
  <2>1. /\ engineUsers # Nil /\ UserHash[engineUsers] = currentUserHash
        /\ ConfigHash[currentConfig] = currentConfigHash
    BY DEF SyncInv, HashesKnown, Booting
  <2>2. currentConfig # Nil
    BY <2>1 DEF SyncInv, Loaded
  <2>3. instance # Nil => /\ state[instance] = "running"
                          /\ content[instance] = [users |-> engineUsers, config |-> currentConfig]
    BY DEF SyncInv, Stages, Loaded
  <2> QED BY <2>1, <2>2, <2>3
<1> QED BY <1>1, Invariance, PTL

\* No instance runs that nobody would close, wherever a shutdown meets a reload.
THEOREM NobodyIsForgotten == Spec => []NoOrphan
<1>1. SyncInv => NoOrphan
  <2> SUFFICES ASSUME SyncInv, NEW b \in Boxes, state[b] = "running"
               PROVE  \/ b = instance \/ b = closing
                      \/ b = oldInstance /\ spc = "taken"
                      \/ b = newInstance /\ spc \in {"started", "restored"}
    BY DEF NoOrphan, Running
  <2>1. CASE b = newInstance /\ InHand
    BY <2>1 DEF SyncInv, Stages, InHand, NewInHand, OldInHand
  <2>2. CASE ~(b = newInstance /\ InHand)
    BY <2>2 DEF SyncInv, Owned
  <2> QED BY <2>1, <2>2
<1> QED BY <1>1, Invariance, PTL

\* Two instances never listen on the node's port at once: the old one is closed
\* before the new one is started, unless Engine.Close runs beside the reload.
THEOREM PortIsFree == Spec => []OneListener
<1>1. SyncInv => OneListener
  <2> SUFFICES ASSUME SyncInv, life # "closing" PROVE Cardinality(Running) <= 1
    BY DEF OneListener
  <2>1. closing = Nil
    BY DEF SyncInv, Lives
  <2>2. \A a, b \in Running : a = b
    BY <2>1, NilIsNothing
       DEF SyncInv, Running, Owned, Stages, InHand, NewInHand, OldInHand, Reloading
  <2>3. CASE Running = {}
    BY <2>3, FS_EmptySet
  <2>4. ASSUME NEW b \in Running PROVE Cardinality(Running) <= 1
    <3>1. Running = {b}
      BY <2>2
    <3>2. Cardinality({b}) = 1
      BY FS_Singleton
    <3> QED BY <3>1, <3>2
  <2> QED BY <2>3, <2>4
<1> QED BY <1>1, Invariance, PTL

\* After a reload that found an instance, none is there only if both the new
\* instance and the restored one failed to start.
THEOREM TwoFailuresToGoDown == Spec => []DownAfterTwoFailures
<1>1. SyncInv => DownAfterTwoFailures
  BY DEF SyncInv, FailuresCounted, DownAfterTwoFailures, Booting, Reloading
<1> QED BY <1>1, Invariance, PTL
================================================================================
