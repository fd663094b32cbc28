--------------------------------- MODULE Syncer ---------------------------------
(***************************************************************************)
(* How a node follows its panel: the ETag cache of panel/client.go,        *)
(* UserSyncer.Sync of core/sync.go, the reload and rollback of             *)
(* singbox/engine.go, and the start and shutdown of core/node.go.          *)
(*                                                                         *)
(* Sync is called by one goroutine only, the one of runTickers, so the     *)
(* hashes it copies under its mutex are still current when it uses them.   *)
(* Shutdown runs in another goroutine, and meets a reload at any point.    *)
(***************************************************************************)
EXTENDS Integers, FiniteSets

CONSTANTS
    UserLists, Configs,     \* what the panel may serve
    Nil,                    \* no list, no config, no tag, no instance
    UserHash, ConfigHash,   \* hashUsers and hashConfig, on those
    Buildable,              \* the configs BuildConfig and box.New accept
    Boxes,                  \* names for sing-box instances, reused after Close
    MaxEdits,               \* bound on the panel's changes
    MaxFaults,              \* bound on instances that fail to start
    MaxStops                \* bound on shutdowns

ASSUME NilIsNothing == Nil \notin UserLists \cup Configs \cup Boxes
ASSUME SomethingServed == UserLists # {} /\ Configs # {}
ASSUME SyncBounds == MaxEdits \in Nat /\ MaxFaults \in Nat /\ MaxStops \in Nat
ASSUME SomeBuildable == Buildable \subseteq Configs
ASSUME BoxesSuffice == IsFiniteSet(Boxes) /\ Cardinality(Boxes) >= 3

VARIABLES
    panelUsers, panelConfig, edits,             \* the panel
    users, userETag, config, configETag,        \* panel.Client
    userByName,                                 \* the limiter's user list
    currentUserHash, currentConfigHash, nodeConfig,             \* UserSyncer
    spc,                                        \* where Sync (or Node.Start) is
    newUsers, newConfig, newInstance,           \* its local variables
    oldInstance, oldUsers, oldConfig,
    instance, engineUsers, currentConfig,       \* Engine
    state, content,                             \* the sing-box instances
    faults,
    life, closing, stops,                       \* the process, and Engine.Close
    failures                                    \* history: starts that failed in this reload

panelVars  == <<panelUsers, panelConfig, edits>>
clientVars == <<users, userETag, config, configETag>>
hashVars   == <<currentUserHash, currentConfigHash, nodeConfig>>
localVars  == <<newUsers, newConfig, newInstance, oldInstance, oldUsers, oldConfig>>
engineVars == <<instance, engineUsers, currentConfig>>
boxVars    == <<state, content, faults, failures>>
lifeVars   == <<life, closing, stops>>
vars == <<panelVars, clientVars, userByName, hashVars, spc, localVars, engineVars,
          boxVars, lifeVars>>

Contents == [users : UserLists, config : Configs]

Init ==
    /\ panelUsers \in UserLists /\ panelConfig \in Configs /\ edits = 0
    /\ users = Nil /\ userETag = Nil /\ config = Nil /\ configETag = Nil
    /\ userByName = Nil
    /\ currentUserHash = Nil /\ currentConfigHash = Nil /\ nodeConfig = Nil
    /\ spc = "start"
    /\ newUsers = Nil /\ newConfig = Nil /\ newInstance = Nil
    /\ oldInstance = Nil /\ oldUsers = Nil /\ oldConfig = Nil
    /\ instance = Nil /\ engineUsers = Nil /\ currentConfig = Nil
    /\ state = [b \in Boxes |-> "free"] /\ content = [b \in Boxes |-> Nil]
    /\ faults = 0 /\ failures = 0
    /\ life = "up" /\ closing = Nil /\ stops = 0

--------------------------------------------------------------------------------
(* The panel, and the two cached requests of panel.Client.  An ETag names  *)
(* the content it is sent with, and is modelled by it.                     *)

Edit ==
    /\ edits < MaxEdits /\ edits' = edits + 1
    /\ \/ panelUsers' \in UserLists \ {panelUsers} /\ UNCHANGED panelConfig
       \/ panelConfig' \in Configs \ {panelConfig} /\ UNCHANGED panelUsers
    /\ UNCHANGED <<clientVars, userByName, hashVars, spc, localVars, engineVars,
                   boxVars, lifeVars>>

\* How a request ends once doWithHeaders has given up retrying: answered,
\* answered with a body that does not decode, or not answered.
Answers == {"answered", "garbled", "failed"}

\* The cache after a request for what the panel has, with the tag it had been
\* given: a 304 leaves it alone, and so does an answer that does not decode.
TagFirst(answer, tag, there) ==             \* mutant: the tag is kept before decoding
    IF answer # "failed" THEN there ELSE tag
TagAfter(answer, tag, there) == IF answer = "answered" THEN there ELSE tag

NotModified(tag, there) == tag # Nil /\ tag = there
CachedForgets(answer, cache, tag, there) ==     \* mutant: a 304 has no body, so no list
    IF answer = "answered" THEN IF NotModified(tag, there) THEN Nil ELSE there ELSE cache
Cached(answer, cache, tag, there) ==
    IF answer = "answered" /\ ~NotModified(tag, there) THEN there ELSE cache
OK(answer) == answer = "answered"

GetUsers(answer) ==
    /\ users' = Cached(answer, users, userETag, panelUsers)
    /\ userETag' = TagAfter(answer, userETag, panelUsers)
    /\ UNCHANGED <<config, configETag>>

GetNodeConfig(answer) ==
    /\ config' = Cached(answer, config, configETag, panelConfig)
    /\ configETag' = TagAfter(answer, configETag, panelConfig)
    /\ UNCHANGED <<users, userETag>>

--------------------------------------------------------------------------------
(* UserSyncer.Sync up to the reload. *)

Busy == life # "down"

\* The user list: without one Sync gives up.
FetchUsers(answer) ==
    /\ Busy /\ spc = "idle"
    /\ GetUsers(answer)
    /\ IF OK(answer)
       THEN spc' = "users" /\ newUsers' = users'
       ELSE UNCHANGED <<spc, newUsers>>
    /\ UNCHANGED <<panelVars, userByName, hashVars, newConfig, newInstance,
                   oldInstance, oldUsers, oldConfig, engineVars, boxVars, lifeVars>>

\* Limiter.UpdateUsers, whether or not anything will be reloaded.
OnlyIfChanged(l) ==                         \* mutant: the limiter waits for a new hash
    IF UserHash[l] # currentUserHash THEN l ELSE userByName
Limits(l) == l

UpdateUsers ==
    /\ Busy /\ spc = "users"
    /\ userByName' = Limits(newUsers)
    /\ spc' = "limited"
    /\ UNCHANGED <<panelVars, clientVars, hashVars, localVars, engineVars,
                   boxVars, lifeVars>>

Unchanged(l, c) == UserHash[l] = currentUserHash /\ ConfigHash[c] = currentConfigHash

\* The node config: without one the last one that was loaded is used.  Equal
\* hashes end the Sync; before a reload the traffic is reported and the alive
\* list read, which touches nothing here.
FetchConfig(answer) ==
    /\ Busy /\ spc = "limited"
    /\ GetNodeConfig(answer)
    /\ newConfig' = IF OK(answer) THEN config' ELSE nodeConfig
    /\ spc' = IF newConfig' = Nil \/ Unchanged(newUsers, newConfig') THEN "idle" ELSE "changed"
    /\ UNCHANGED <<panelVars, userByName, hashVars, newUsers, newInstance,
                   oldInstance, oldUsers, oldConfig, engineVars, boxVars, lifeVars>>

--------------------------------------------------------------------------------
(* Engine.ReloadUsers. *)

\* createBox: an instance of its own for every call, in the stage given.
Fresh == CHOOSE b \in Boxes : state[b] = "free"
Create(l, c, stage) ==
    /\ state' = [state EXCEPT ![Fresh] = stage]
    /\ content' = [content EXCEPT ![Fresh] = [users |-> l, config |-> c]]

Close(b) == state' = [state EXCEPT ![b] = "free"] /\ content' = [content EXCEPT ![b] = Nil]

\* Start either works or fails, and then the instance is closed.
StartBox(b, ok) ==
    IF ok THEN /\ state' = [state EXCEPT ![b] = "running"]
               /\ UNCHANGED <<content, faults, failures>>
          ELSE /\ faults < MaxFaults /\ faults' = faults + 1 /\ failures' = failures + 1
               /\ Close(b)

\* Sync ends with an error of the reload, and keeps the hashes for the next one.
FailedButCommitted ==                       \* mutant: committed all the same
    /\ spc' = "idle"
    /\ currentUserHash' = UserHash[newUsers] /\ currentConfigHash' = ConfigHash[newConfig]
    /\ nodeConfig' = newConfig
ReloadFailed == spc' = "idle" /\ UNCHANGED hashVars
ReloadGoesOn(label) == spc' = label /\ UNCHANGED hashVars

\* The new instance is built before the old one is touched.
Build ==
    /\ Busy /\ spc = "changed"
    /\ IF newConfig \in Buildable
       THEN ReloadGoesOn("built") /\ Create(newUsers, newConfig, "built") /\ newInstance' = Fresh
       ELSE ReloadFailed /\ UNCHANGED <<newInstance, state, content>>
    /\ UNCHANGED <<panelVars, clientVars, userByName, newUsers, newConfig, oldInstance, oldUsers,
                   oldConfig, engineVars, faults, failures, lifeVars>>

\* Under Engine.mu: the old instance is taken out.
TakeOld ==
    /\ Busy /\ spc = "built"
    /\ oldInstance' = instance /\ oldUsers' = engineUsers /\ oldConfig' = currentConfig
    /\ instance' = Nil
    /\ spc' = "taken" /\ failures' = 0
    /\ UNCHANGED <<panelVars, clientVars, userByName, hashVars, newUsers, newConfig,
                   newInstance, engineUsers, currentConfig, state, content, faults, lifeVars>>

\* It is closed, since both listen on the same port,
KeepOld == UNCHANGED <<state, content>>     \* mutant: the old instance is never closed
DropOld == IF oldInstance = Nil THEN UNCHANGED <<state, content>> ELSE Close(oldInstance)

CloseOld ==
    /\ Busy /\ spc = "taken"
    /\ DropOld
    /\ spc' = "closed"
    /\ UNCHANGED <<panelVars, clientVars, userByName, hashVars, localVars,
                   engineVars, faults, failures, lifeVars>>

\* and the new one is started.
StartNew(ok) ==
    /\ Busy /\ spc = "closed"
    /\ StartBox(newInstance, ok)
    /\ spc' = IF ok THEN "started" ELSE "rolling back"
    /\ UNCHANGED <<panelVars, clientVars, userByName, hashVars, localVars,
                   engineVars, lifeVars>>

\* restorePreviousInstance: an instance of the old content is built,
RollBack ==
    /\ Busy /\ spc = "rolling back"
    /\ IF oldConfig \in Buildable
       THEN ReloadGoesOn("rebuilt") /\ Create(oldUsers, oldConfig, "built") /\ newInstance' = Fresh
       ELSE ReloadFailed /\ UNCHANGED <<newInstance, state, content>>
    /\ UNCHANGED <<panelVars, clientVars, userByName, newUsers, newConfig, oldInstance,
                   oldUsers, oldConfig, engineVars, faults, failures, lifeVars>>

\* and started.
StartOld(ok) ==
    /\ Busy /\ spc = "rebuilt"
    /\ StartBox(newInstance, ok)
    /\ IF ok THEN ReloadGoesOn("restored") ELSE ReloadFailed
    /\ UNCHANGED <<panelVars, clientVars, userByName, localVars, engineVars, lifeVars>>

\* Under Engine.mu: the instance that was started is the engine's.
NotRecorded == instance                     \* mutant: the assignment is missing
Started == newInstance
Install(l, c) == instance' = Started /\ engineUsers' = l /\ currentConfig' = c

InstallOld ==
    /\ Busy /\ spc = "restored"
    /\ Install(oldUsers, oldConfig)
    /\ ReloadFailed
    /\ UNCHANGED <<panelVars, clientVars, userByName, localVars, boxVars, lifeVars>>

InstallNew ==
    /\ Busy /\ spc = "started"
    /\ Install(newUsers, newConfig)
    /\ spc' = "installed"
    /\ UNCHANGED <<panelVars, clientVars, userByName, hashVars, localVars,
                   boxVars, lifeVars>>

\* Sync commits what it has loaded.
Commit ==
    /\ Busy /\ spc = "installed"
    /\ currentUserHash' = UserHash[newUsers] /\ currentConfigHash' = ConfigHash[newConfig]
    /\ nodeConfig' = newConfig
    /\ spc' = "idle"
    /\ UNCHANGED <<panelVars, clientVars, userByName, localVars, engineVars, boxVars, lifeVars>>

Sync ==
    \/ \E answer \in Answers : FetchUsers(answer) \/ FetchConfig(answer)
    \/ UpdateUsers \/ Build \/ TakeOld \/ CloseOld \/ RollBack
    \/ \E ok \in BOOLEAN : StartNew(ok) \/ StartOld(ok)
    \/ InstallOld \/ InstallNew \/ Commit

--------------------------------------------------------------------------------
(* Node.Start, Node.Shutdown, and the service that restarts the process. *)

\* The process ends: what it had in memory goes, and its instances with it.
Die ==
    /\ life' = "down" /\ spc' = "start"
    /\ users' = Nil /\ userETag' = Nil /\ config' = Nil /\ configETag' = Nil
    /\ userByName' = Nil
    /\ currentUserHash' = Nil /\ currentConfigHash' = Nil /\ nodeConfig' = Nil
    /\ newUsers' = Nil /\ newConfig' = Nil /\ newInstance' = Nil
    /\ oldInstance' = Nil /\ oldUsers' = Nil /\ oldConfig' = Nil
    /\ instance' = Nil /\ engineUsers' = Nil /\ currentConfig' = Nil
    /\ state' = [b \in Boxes |-> "free"] /\ content' = [b \in Boxes |-> Nil]
    /\ closing' = Nil /\ failures' = 0

\* Start: the config, the users, the limiter's list, the engine.  A failure
\* ends the process.
BootConfig(answer) ==
    /\ life = "up" /\ spc = "start"
    /\ IF OK(answer)
       THEN /\ GetNodeConfig(answer) /\ newConfig' = config' /\ spc' = "boot users"
            /\ UNCHANGED <<userByName, hashVars, newUsers, newInstance, oldInstance,
                           oldUsers, oldConfig, engineVars, state, content, failures, life, closing>>
       ELSE Die
    /\ UNCHANGED <<panelVars, faults, stops>>

BootUsers(answer) ==
    /\ life = "up" /\ spc = "boot users"
    /\ IF OK(answer)
       THEN /\ GetUsers(answer) /\ newUsers' = users' /\ userByName' = Limits(users')
            /\ spc' = "boot engine"
            /\ UNCHANGED <<hashVars, newConfig, newInstance, oldInstance, oldUsers,
                           oldConfig, engineVars, state, content, failures, life, closing>>
       ELSE Die
    /\ UNCHANGED <<panelVars, faults, stops>>

\* Engine.Start and SetInitialHash.
BootEngine(ok) ==
    /\ life = "up" /\ spc = "boot engine"
    /\ IF ok /\ newConfig \in Buildable
       THEN /\ Create(newUsers, newConfig, "running") /\ instance' = Fresh
            /\ engineUsers' = newUsers /\ currentConfig' = newConfig
            /\ currentUserHash' = UserHash[newUsers] /\ currentConfigHash' = ConfigHash[newConfig]
            /\ nodeConfig' = newConfig
            /\ spc' = "idle"
            /\ UNCHANGED <<clientVars, userByName, localVars, failures, life, closing, faults>>
       ELSE /\ newConfig \in Buildable => faults < MaxFaults
            /\ faults' = IF newConfig \in Buildable THEN faults + 1 ELSE faults
            /\ Die
    /\ UNCHANGED <<panelVars, stops>>

Boot == \/ \E answer \in Answers : BootConfig(answer) \/ BootUsers(answer)
        \/ \E ok \in BOOLEAN : BootEngine(ok)

Booting == spc \in {"start", "boot users", "boot engine"}

\* A signal: Shutdown reports the traffic, then closes the engine.
BeginShutdown ==
    /\ life = "up" /\ ~Booting /\ stops < MaxStops
    /\ life' = "stopping" /\ stops' = stops + 1
    /\ UNCHANGED <<panelVars, clientVars, userByName, hashVars, spc, localVars,
                   engineVars, boxVars, closing>>

\* Engine.Close: under its mutex it takes the instance that is there,
CloseTake ==
    /\ life = "stopping" /\ life' = "closing"
    /\ closing' = instance
    /\ instance' = Nil /\ engineUsers' = Nil /\ currentConfig' = Nil
    /\ UNCHANGED <<panelVars, clientVars, userByName, hashVars, spc, localVars,
                   boxVars, stops>>

\* then closes it; main returns, whatever the ticker goroutine is doing.
CloseInstance ==
    /\ life = "closing" /\ closing # Nil
    /\ Close(closing) /\ closing' = Nil
    /\ UNCHANGED <<panelVars, clientVars, userByName, hashVars, spc, localVars,
                   engineVars, faults, failures, life, stops>>

Exit ==
    /\ life = "closing" /\ closing = Nil
    /\ Die
    /\ UNCHANGED <<panelVars, faults, stops>>

Crash ==
    /\ Busy /\ stops < MaxStops /\ stops' = stops + 1
    /\ Die
    /\ UNCHANGED <<panelVars, faults>>

Restart ==
    /\ life = "down" /\ life' = "up"
    /\ UNCHANGED <<panelVars, clientVars, userByName, hashVars, spc, localVars,
                   engineVars, boxVars, closing, stops>>

Life == BeginShutdown \/ CloseTake \/ CloseInstance \/ Exit \/ Crash \/ Restart

Next == Edit \/ Sync \/ Boot \/ Life

Spec == Init /\ [][Next]_vars

\* The ticker goroutine gets to run, the service is restarted after it stops,
\* and a panel that is asked again and again answers at last.
Fairness ==
    /\ WF_vars(Sync) /\ WF_vars(Boot)
    /\ WF_vars(CloseTake) /\ WF_vars(CloseInstance) /\ WF_vars(Exit) /\ WF_vars(Restart)
    /\ SF_vars(FetchUsers("answered")) /\ SF_vars(FetchConfig("answered"))
    /\ SF_vars(BootConfig("answered")) /\ SF_vars(BootUsers("answered"))

FairSpec == Spec /\ Fairness

--------------------------------------------------------------------------------
(* Properties. *)

SPCs == {"start", "boot users", "boot engine", "idle", "users", "limited", "changed", "built",
         "taken", "closed", "started", "rolling back", "rebuilt", "restored", "installed"}

\* The type of every variable; what a step needs is there when it runs.
TypeOK ==
    /\ panelUsers \in UserLists /\ panelConfig \in Configs /\ edits \in 0..MaxEdits
    /\ users \in UserLists \cup {Nil} /\ userETag \in UserLists \cup {Nil}
    /\ config \in Configs \cup {Nil} /\ configETag \in Configs \cup {Nil}
    /\ userByName \in UserLists \cup {Nil}
    /\ spc \in SPCs
    /\ newUsers \in UserLists \cup (IF spc \in {"start", "boot users", "idle"} THEN {Nil} ELSE {})
    /\ newConfig \in Configs \cup (IF spc \in {"start", "idle", "users", "limited"} THEN {Nil} ELSE {})
    /\ nodeConfig \in Configs \cup (IF Booting THEN {Nil} ELSE {})
    /\ newInstance \in Boxes \cup {Nil} /\ oldInstance \in Boxes \cup {Nil}
    /\ oldUsers \in UserLists \cup {Nil} /\ oldConfig \in Configs \cup {Nil}
    /\ instance \in Boxes \cup {Nil} /\ closing \in Boxes \cup {Nil}
    /\ engineUsers \in UserLists \cup {Nil} /\ currentConfig \in Configs \cup {Nil}
    /\ state \in [Boxes -> {"free", "built", "running"}]
    /\ content \in [Boxes -> Contents \cup {Nil}]
    /\ life \in {"up", "stopping", "closing", "down"}
    /\ faults \in 0..MaxFaults /\ failures \in Nat /\ stops \in 0..MaxStops

\* The hashes Sync compares with are those of what the engine holds, whatever
\* reloads have failed: a change that failed to load is tried again, and one
\* that was loaded is not loaded twice.  And what runs is what the engine holds.
SyncerKnowsEngine ==
    life = "up" /\ spc = "idle" =>
        /\ engineUsers # Nil /\ UserHash[engineUsers] = currentUserHash
        /\ currentConfig # Nil /\ ConfigHash[currentConfig] = currentConfigHash
        /\ instance # Nil => /\ state[instance] = "running"
                             /\ content[instance] = [users |-> engineUsers, config |-> currentConfig]

\* An ETag is kept only together with the content it was sent with, so a 304
\* never stands for something the node has not got.
CacheIsTagged ==
    /\ userETag # Nil => users = userETag
    /\ configETag # Nil => config = configETag

\* The limiter decides by the last list the panel sent, even when its hash is
\* the old one or the engine could not load it.
LimiterCurrent == ~Booting /\ spc # "users" => userByName = users

Running == {b \in Boxes : state[b] = "running"}

\* Two instances never listen at the same time, as long as nobody closes the
\* engine under the reload.
OneListener == life # "closing" => Cardinality(Running) <= 1

\* No instance runs that nobody would close: it is the engine's, or in the
\* hands of the reload or of Close.
NoOrphan ==
    \A b \in Running :
        \/ b = instance \/ b = closing
        \/ b = oldInstance /\ spc = "taken"
        \/ b = newInstance /\ spc \in {"started", "restored"}

\* A reload that found an instance leaves none behind only when both the new
\* instance and the restored one failed to start.
DownAfterTwoFailures ==
    life = "up" /\ spc = "idle" /\ instance = Nil /\ oldInstance # Nil => failures >= 2

\* Once the panel and the starts have settled, the engine runs what the panel
\* has, unless that cannot be built, or unless a rollback had failed and the
\* panel has gone back to what was loaded before: then the hashes are equal,
\* and nothing starts the engine again.
Serving ==
    /\ instance # Nil
    /\ UserHash[engineUsers] = UserHash[panelUsers]
    /\ ConfigHash[currentConfig] = ConfigHash[panelConfig]
LeftDown ==
    /\ instance = Nil
    /\ currentUserHash = UserHash[panelUsers] /\ currentConfigHash = ConfigHash[panelConfig]
Settles == <>[](Serving \/ LeftDown \/ panelConfig \notin Buildable)
================================================================================
