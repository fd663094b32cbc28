-------------------------------- MODULE Options --------------------------------
(***************************************************************************)
(* BuildConfig of singbox/config.go: the sing-box options for a node       *)
(* config, a user list and the local settings, or a refusal; and what      *)
(* sing-box then does with a connection, by the first rule that matches.   *)
(*                                                                         *)
(* Strings that are trimmed and folded are taken as they come out, ""      *)
(* being blank.  The conditions of a rule are a protocol, ports, "private  *)
(* address", domains and domain suffixes; the suffixes stand for every     *)
(* other condition too (keywords, regular expressions, networks).          *)
(***************************************************************************)
EXTENDS Integers, Sequences, FiniteSets, SequencesExt, PanelData

NotBuilt == [built |-> FALSE]

directOutboundTag     == "direct"
directIPv6OutboundTag == "direct-v6"

--------------------------------------------------------------------------------
(* Rules. *)

AnyConn == [protocol |-> {}, private |-> FALSE, ports |-> {}, domain |-> {}, suffix |-> {}]
rejectRule(cond) == [cond |-> cond, action |-> <<"reject">>]
routeRule(cond, outbound) == [cond |-> cond, action |-> <<"route", outbound>>]

\* BitTorrent is rejected, private addresses are routed, mail and the ports
\* of file sharing and remote desktops are rejected: in this order.
Protected == {25} \cup {445, 3389} \cup (135..139)
defaultSafetyRules ==
    <<rejectRule([AnyConn EXCEPT !.protocol = {"bittorrent"}]),
      routeRule([AnyConn EXCEPT !.private = TRUE], directOutboundTag),
      rejectRule([AnyConn EXCEPT !.ports = {25}]),
      rejectRule([AnyConn EXCEPT !.ports = Protected \ {25}])>>

googleIPv6Rule == routeRule([AnyConn EXCEPT !.suffix = {"google"}], directIPv6OutboundTag)

--------------------------------------------------------------------------------
(* The routes of the panel: an object, a list of rules, or a list in the   *)
(* older form, which is tried last.                                        *)

NoRoute == [rules |-> <<>>, final |-> ""]

\* The first of some indices.
Least(I) == CHOOSE i \in I : \A j \in I : i <= j

\* A field rule keeps its conditions and has no action; a reject rule keeps
\* only its protocols and domains.  Other types are skipped.
Known(item) == item.type \in {"", "field", "reject"}
legacyRouteRule(item) ==
    IF item.type = "reject"
    THEN rejectRule([AnyConn EXCEPT !.protocol = item.protocol, !.domain = item.domain])
    ELSE [cond |-> [AnyConn EXCEPT !.protocol = item.protocol, !.domain = item.domain,
                                   !.suffix = item.suffix, !.ports = item.ports],
          action |-> <<"none">>]

\* The outbound of an item is not that of its rule: the first one becomes the
\* final outbound, unless an item up to there has a final of its own.
convertLegacyRouteRules(items) ==
    LET kept   == At(items, {i \in DOMAIN items : Known(items[i])})
        finals == FlattenSeq([i \in DOMAIN items |->
                      <<items[i].final, IF Known(items[i]) THEN items[i].outbound ELSE "">>])
        named  == SelectSeq(finals, LAMBDA f : f # "")
    IN  [rules |-> [i \in DOMAIN kept |-> legacyRouteRule(kept[i])],
         final |-> IF named # <<>> THEN Head(named)
                   ELSE IF kept # <<>> THEN directOutboundTag ELSE ""]

RoutesOK(routes) ==
    \/ routes.form \in {"none", "object", "rules"}
    \/ routes.form = "legacy" /\ convertLegacyRouteRules(routes.rules) # NoRoute

parseRouteOptions(routes) ==
    CASE routes.form = "none"   -> NoRoute
      [] routes.form = "object" -> [rules |-> routes.rules, final |-> routes.final]
      [] routes.form = "rules"  -> [rules |-> routes.rules, final |-> ""]
      [] routes.form = "legacy" -> convertLegacyRouteRules(routes.rules)

\* The safety rules come first, whatever the panel sent.
PanelFirst(route) ==                        \* mutant: they are appended
    [rules |-> route.rules \o defaultSafetyRules,
     final |-> IF route.final = "" THEN directOutboundTag ELSE route.final]
FinalLost(route) ==                         \* mutant: the final outbound is not the panel's
    [rules |-> defaultSafetyRules \o route.rules, final |-> directOutboundTag]
mergeDefaultRouteOptions(route) ==
    [rules |-> defaultSafetyRules \o route.rules,
     final |-> IF route.final = "" THEN directOutboundTag ELSE route.final]

Routes(routes, googleIPv6) ==
    LET merged == mergeDefaultRouteOptions(parseRouteOptions(routes)) IN
    IF googleIPv6 THEN [merged EXCEPT !.rules = Append(@, googleIPv6Rule)] ELSE merged

--------------------------------------------------------------------------------
(* The rest of the options. *)

\* Trimmed only to see whether it is blank: a padded number is refused.
DestPortOK(raw) == raw = <<"blank">> \/ (raw[1] = "num" /\ raw[2] \in 1..65535)
parseRealityDestPort(raw) == IF raw[1] = "num" THEN raw[2] ELSE 443

ListenAddrOK(raw) == raw[1] \in {"blank", "addr"}
resolveListenAddr(raw) == IF raw[1] = "addr" THEN raw[2] ELSE "::"

Supported(c) ==
    /\ c.protocol \in {"", "vless"} /\ c.network \in {"", "tcp"}
    /\ c.server_name # "" /\ c.private_key # ""
    /\ DestPortOK(c.dest_port) /\ ListenAddrOK(c.listen_ip)
    /\ RoutesOK(c.routes)

Flow(c) == IF c.flow = "" THEN "xtls-rprx-vision" ELSE c.flow

\* The port is cut to sixteen bits.  The order of users and of short IDs means
\* nothing to sing-box.
BuildConfig(c, list, settings) ==
    IF ~Supported(c) THEN NotBuilt ELSE
    [built  |-> TRUE,
     log    |-> settings.logLevel,
     listen |-> <<resolveListenAddr(c.listen_ip), c.server_port % 65536>>,
     users  |-> {<<u.id, u.uuid, Flow(c)>> : u \in ToSet(list)},
     reality |-> [server_name |-> c.server_name, port |-> parseRealityDestPort(c.dest_port),
                  private_key |-> c.private_key],
     short_id  |-> c.short_id,
     outbounds |-> {directOutboundTag} \cup
                   (IF settings.googleIPv6 THEN {directIPv6OutboundTag} ELSE {}),
     route |-> Routes(c.routes, settings.googleIPv6),
     clash |-> settings.clashAPIListenAddr]

--------------------------------------------------------------------------------
(* What sing-box does with it: conditions of one kind are alternatives,    *)
(* those on the address are one kind, and all kinds must hold.             *)

OnAddress(cond) == cond.private \/ cond.domain # {} \/ cond.suffix # {}
Matches(cond, conn) ==
    /\ cond.protocol = {} \/ conn.protocol \in cond.protocol
    /\ cond.ports = {} \/ conn.port \in cond.ports
    /\ \/ ~OnAddress(cond)
       \/ cond.private /\ conn.private
       \/ conn.domain \in cond.domain \/ conn.zone \in cond.suffix

Verdict(route, conn) ==
    LET hits == {i \in DOMAIN route.rules : Matches(route.rules[i].cond, conn)} IN
    IF hits = {} THEN <<"route", route.final>> ELSE route.rules[Least(hits)].action
================================================================================
