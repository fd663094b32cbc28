-------------------------------- MODULE Settings --------------------------------
(***************************************************************************)
(* How config/env.go turns the environment of the process and the lines of *)
(* /etc/singbox-bridge.env into a Config, or refuses them.                 *)
(*                                                                         *)
(* A value is what Atoi, Split and ToLower make of it: a number that fits  *)
(* an int, a word (lower case; anything else that is not blank, numbers    *)
(* out of range included), or the parts of a list, which are values again. *)
(* The value of NODE_ID is a list, of one part when it has no comma; that  *)
(* of GOOGLE_IPV6 is always a word.                                        *)
(***************************************************************************)
EXTENDS Integers, Sequences, SequencesExt

Empty    == <<"empty">>         \* unset, or set to the empty string
Blank    == <<"blank">>         \* white space only
Num(n)   == <<"num", n>>
Word(w)  == <<"word", w>>
List(ps) == <<"list", ps>>

Required     == {"PANEL_HOST", "PANEL_TOKEN", "NODE_ID"}
PositiveKeys == {"SYNC_INTERVAL", "REPORT_INTERVAL", "MAX_CONN_PER_USER",
                 "MAX_NEW_CONN_PER_USER_PER_MIN", "TRAFFIC_PENDING_MAX_USERS"}
IntKeys      == {"MAX_CONN_PER_IP", "MAX_NEW_CONN_PER_IP_PER_MIN"}
Keys         == Required \cup PositiveKeys \cup IntKeys \cup
                {"LOG_LEVEL", "CLASH_API_LISTEN_ADDR", "TRAFFIC_STATE_FILE", "GOOGLE_IPV6"}

Levels == {"debug", "info", "warn", "error"}
Truths == {Word("true"), Word("yes"), Word("1")}   \* GOOGLE_IPV6 is compared as text

Default(key) ==
    [SYNC_INTERVAL |-> 60, REPORT_INTERVAL |-> 60,
     MAX_CONN_PER_USER |-> 128, MAX_NEW_CONN_PER_USER_PER_MIN |-> 600,
     MAX_CONN_PER_IP |-> 0, MAX_NEW_CONN_PER_IP_PER_MIN |-> 0,
     TRAFFIC_PENDING_MAX_USERS |-> 10000, LOG_LEVEL |-> "info", CLASH_API_LISTEN_ADDR |-> "",
     TRAFFIC_STATE_FILE |-> "/var/lib/singbox-bridge/pending-traffic.json"][key]

--------------------------------------------------------------------------------
(* tryLoadEnvFile.  A line is a key, a value and whether it was quoted; the *)
(* lines without "=" and the comments are not lines here.                   *)

Unquoted(line) == IF line.val = Blank /\ ~line.quoted THEN Empty ELSE line.val

FileFirst(env, line) ==                     \* mutant: the file overrides the environment
    [env EXCEPT ![line.key] = Unquoted(line)]

\* A line sets what is still empty.  A blank value is not empty, and keeps the
\* file's value out, although the lookups below will not take it either.
SetIfEmpty(env, line) ==
    IF env[line.key] = Empty THEN [env EXCEPT ![line.key] = Unquoted(line)] ELSE env

Environment(env, lines) ==
    LET after[n \in 0..Len(lines)] ==
            IF n = 0 THEN env ELSE SetIfEmpty(after[n - 1], lines[n])
    IN  after[Len(lines)]

--------------------------------------------------------------------------------
(* The lookups. *)

Given(env, key) == env[key] \notin {Empty, Blank}
Raw(env, key)   == env[key][2]

WholeIfGiven(env, key) == Given(env, key) => env[key][1] = "num"
PositiveIfGiven(env, key) == WholeIfGiven(env, key) /\ (Given(env, key) => Raw(env, key) > 0)
LevelIfGiven(env) == Given(env, "LOG_LEVEL") => \E l \in Levels : env["LOG_LEVEL"] = Word(l)

ValueOf(env, key) == IF Given(env, key) THEN Raw(env, key) ELSE Default(key)

\* The parts of NODE_ID that are not blank.
NodeIDs(env) == SelectSeq(Raw(env, "NODE_ID"), LAMBDA p : p \notin {Empty, Blank})
GoodIDs(env) ==
    /\ NodeIDs(env) # <<>>
    /\ \A p \in ToSet(NodeIDs(env)) : p[1] = "num" /\ p[2] > 0

Acceptable(env) ==
    /\ \A key \in Required : Given(env, key)
    /\ GoodIDs(env)
    /\ \A key \in PositiveKeys : PositiveIfGiven(env, key)
    /\ \A key \in IntKeys : WholeIfGiven(env, key)
    /\ LevelIfGiven(env)

\* Load: no Config without an acceptable environment.
Refused == [accepted |-> FALSE]

Load(env, lines) ==
    LET e == Environment(env, lines) IN
    IF ~Acceptable(e) THEN Refused ELSE
    [accepted |-> TRUE,
     PanelHost |-> Raw(e, "PANEL_HOST"), PanelToken |-> Raw(e, "PANEL_TOKEN"),
     NodeIDs |-> [i \in DOMAIN NodeIDs(e) |-> NodeIDs(e)[i][2]],
     SyncInterval   |-> ValueOf(e, "SYNC_INTERVAL"),
     ReportInterval |-> ValueOf(e, "REPORT_INTERVAL"),
     SyncIntervalExplicit   |-> Given(e, "SYNC_INTERVAL"),
     ReportIntervalExplicit |-> Given(e, "REPORT_INTERVAL"),
     LogLevel           |-> ValueOf(e, "LOG_LEVEL"),
     ClashAPIListenAddr |-> ValueOf(e, "CLASH_API_LISTEN_ADDR"),
     TrafficStateFile   |-> ValueOf(e, "TRAFFIC_STATE_FILE"),
     MaxConnPerUser          |-> ValueOf(e, "MAX_CONN_PER_USER"),
     MaxConnPerIP            |-> ValueOf(e, "MAX_CONN_PER_IP"),
     MaxNewConnPerUserPerMin |-> ValueOf(e, "MAX_NEW_CONN_PER_USER_PER_MIN"),
     MaxNewConnPerIPPerMin   |-> ValueOf(e, "MAX_NEW_CONN_PER_IP_PER_MIN"),
     TrafficPendingMaxUsers  |-> ValueOf(e, "TRAFFIC_PENDING_MAX_USERS"),
     GoogleIPv6 |-> Given(e, "GOOGLE_IPV6") /\ e["GOOGLE_IPV6"] \in Truths]
================================================================================
