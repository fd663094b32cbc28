-------------------------------- MODULE Reconfig --------------------------------
(***************************************************************************)
(* Syncer with the contents it moves: what the panel serves is decoded by  *)
(* PanelData, hashed by PanelData, and built by Options.  The names of     *)
(* lists and configs in Syncer stand for those below, and a hash stands    *)
(* for what it is the hash of.                                             *)
(***************************************************************************)
EXTENDS Syncer, PanelData, Options

CONSTANTS
    ListOf,             \* the users in each list
    BodyOf,             \* the body of each node config
    LocalSettings,      \* log level, clash address, GOOGLE_IPV6
    RoutesSent, Conn,   \* routes and connections to try the rules on
    AliveBodies         \* alive lists to decode

ConfigOf == [c \in Configs |-> NodeConfig(BodyOf[c])]
OptionsOf ==
    [l \in UserLists |-> [c \in Configs |-> BuildConfig(ConfigOf[c], ListOf[l], LocalSettings)]]

\* One name for all contents with one hash.
UserHashes   == [l \in UserLists |-> CHOOSE m \in UserLists : hashUsers(ListOf[m]) = hashUsers(ListOf[l])]
ConfigHashes == [c \in Configs |-> CHOOSE d \in Configs : hashConfig(ConfigOf[d]) = hashConfig(ConfigOf[c])]
Built == {c \in Configs : \A l \in UserLists : OptionsOf[l][c].built}

\* What the decoders of JSON give: a list is a list of users with numbers for IDs,
\* a body has the fields of NodeConfig and strings for short IDs, routes are a list
\* of rules, an alive list is a list of entries.
ASSUME ListsTyped ==
    \A l \in UserLists : /\ ListOf[l] \in Seq(ToSet(ListOf[l]))
                         /\ \A u \in ToSet(ListOf[l]) : u.id \in Int
ASSUME BodiesTyped ==
    \A c \in Configs : /\ BodyOf[c] = [f \in NodeConfigFields |-> BodyOf[c][f]]
                       /\ BodyOf[c].short_id.parts \in Seq(Seq(Int))
ASSUME SettingsTyped ==
    LocalSettings = [f \in {"logLevel", "clashAPIListenAddr", "googleIPv6"} |-> LocalSettings[f]]
ASSUME RoutesTyped == \A r \in RoutesSent : r.rules \in Seq(ToSet(r.rules))
ASSUME AliveTyped ==
    \A body \in AliveBodies :
        /\ body.entries \in Seq(ToSet(body.entries))
        /\ \A e \in ToSet(body.entries) :
               e.count \in Int /\ (e.key[1] = "num" => e.key = <<"num", e.key[2]>>)
ASSUME Decodable == \A c \in Configs : ConfigOf[c] # Undecodable
ASSUME Hashed == UserHash = UserHashes /\ ConfigHash = ConfigHashes
ASSUME BuiltAsServed == Buildable = Built

--------------------------------------------------------------------------------
(* Properties. *)

NothingToDo == spc = "limited" /\ spc' = "idle" /\ newConfig' # Nil /\ engineUsers # Nil

\* A Sync that finds nothing to do leaves nothing undone: the options the
\* engine was given are those that would be built from what the panel serves.
NoticesChanges ==
    [][NothingToDo => OptionsOf[newUsers][newConfig'] = OptionsOf[engineUsers][currentConfig]]_vars

\* The same, up to short IDs that read the same when run together.
RunTogether(opts) ==
    IF opts.built THEN [opts EXCEPT !.short_id = FlattenSeq(Strings(@))] ELSE opts
NoticesAllButShortIDs ==
    [][NothingToDo => RunTogether(OptionsOf[newUsers][newConfig'])
                      = RunTogether(OptionsOf[engineUsers][currentConfig])]_vars

\* A Sync reloads, and cuts every connection, only when the panel serves other
\* data than what was loaded: not for the order of its users or short IDs, nor
\* for the spelling of its routes.  Users with one ID have no order of their own.
Rearranged(s, t) ==
    \E p \in Bijection(DOMAIN s, DOMAIN t) : \A i \in DOMAIN s : s[i] = t[p[i]]
IDsApart(l) == \A i, j \in DOMAIN ListOf[l] : i # j => ListOf[l][i].id # ListOf[l][j].id
UserData(l) == Written(ListOf[l])
ConfigData(c) == [ConfigOf[c] EXCEPT !.short_id = <<>>, !.routes = <<@.form, @.rules, @.final>>]
SameUsers(l, m) == IDsApart(m) /\ Rearranged(UserData(l), UserData(m))
SameConfig(c, d) ==
    ConfigData(c) = ConfigData(d) /\ Rearranged(ConfigOf[c].short_id, ConfigOf[d].short_id)
NoNeedlessReload ==
    [][spc = "limited" /\ spc' = "changed" /\ engineUsers # Nil =>
           ~(SameUsers(newUsers, engineUsers) /\ SameConfig(newConfig', currentConfig))]_vars

\* {x \in S : P(x)}, in a form that TLC evaluates once.
Those(S, P(_)) == UNION {IF P(x) THEN {x} ELSE {} : x \in S}

\* What is built of a config when its routes are r instead.
OptionsWith(c, r, v6) ==
    BuildConfig([ConfigOf[c] EXCEPT !.routes = r], <<>>, [LocalSettings EXCEPT !.googleIPv6 = v6])

\* BitTorrent is rejected, and so are mail and the protected ports of addresses
\* that are not private; and of private addresses the panel has no say: with its
\* routes and without any, the same is done with them.
Safe(conn) == conn.protocol # "bittorrent" /\ ~conn.private /\ conn.port \notin Protected
WithoutRoutes == mergeDefaultRouteOptions(NoRoute)
Guards(route) ==
    \A conn \in Conn :
        /\ conn.protocol = "bittorrent" => Verdict(route, conn) = <<"reject">>
        /\ ~conn.private /\ conn.port \in Protected => Verdict(route, conn) = <<"reject">>
        /\ conn.private => Verdict(route, conn) = Verdict(WithoutRoutes, conn)
GuardsAlways(c) ==
    \A r \in RoutesSent, v6 \in BOOLEAN :
        LET opts == OptionsWith(c, r, v6) IN opts.built => Guards(opts.route)
Guarded == Those(Configs, GuardsAlways)

\* No instance runs, after any reload or rollback, with a config in which the
\* routes of the panel, whatever they are, could lift the safety rules.
SafetyFirst == \A b \in Running : content[b].config \in Guarded

\* What the panel says of a connection: its first rule that matches, in its
\* order, then the rule for Google, then its final outbound.
PanelRules(r) == IF r.form = "none" THEN <<>> ELSE r.rules
PanelSays(r, v6, conn) ==
    LET hits == {i \in DOMAIN PanelRules(r) : Matches(PanelRules(r)[i].cond, conn)} IN
    IF hits # {} THEN PanelRules(r)[Least(hits)].action
    ELSE <<"route", IF v6 /\ conn.zone = "google" THEN directIPv6OutboundTag
                    ELSE IF r.form = "object" /\ r.final # "" THEN r.final
                    ELSE directOutboundTag>>
ObeysAlways(c) ==
    \A r \in {s \in RoutesSent : s.form # "legacy"}, v6 \in BOOLEAN :
        LET opts == OptionsWith(c, r, v6) IN
        opts.built => \A conn \in {x \in Conn : Safe(x)} :
                          Verdict(opts.route, conn) = PanelSays(r, v6, conn)
Obeying == Those(Configs, ObeysAlways)

\* And for everything the safety rules leave open, every instance that runs
\* does what the panel says.
PanelDecides == \A b \in Running : content[b].config \in Obeying

\* In whatever form the panel lists the devices of a user the limiter knows, the
\* limiter is told of as many different ones, and where the panel only counts
\* them of none that another user has.
Listed(body, uid) ==
    LET last == LastEntry(body, uid) IN
    IF body.form \in IPForms THEN Cardinality(ToSet(last.ips))
    ELSE IF last.count < 0 THEN 0 ELSE last.count
CountsAlways(l) ==
    \A body \in AliveBodies :
        LET list  == decodeAliveList(body)
            known == {u.id : u \in ToSet(ListOf[l])} \cap UIDs(body)
        IN  list # Undecodable =>
                /\ \A u \in known : Cardinality(ToSet(list.alive[u])) = Listed(body, u)
                /\ body.form \in CountForms =>
                       \A u, v \in known :
                           u # v => ToSet(list.alive[u]) \cap ToSet(list.alive[v]) = {}
Counting == Those(UserLists, CountsAlways)
DevicesCounted == userByName \in Counting \cup {Nil}
================================================================================
