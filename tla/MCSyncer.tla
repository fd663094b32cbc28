-------------------------------- MODULE MCSyncer --------------------------------
(***************************************************************************)
(* Instances of Syncer for TLC, through Reconfig: user lists, two of which *)
(* differ only in order and in a device limit, and node configs, two of    *)
(* which differ only in order and spelling, and two in where the short IDs *)
(* are cut.                                                                *)
(***************************************************************************)
EXTENDS Reconfig

CONSTANTS l1, l2, l3, g1, g2, g3, g4, bad

User(id, uuid, device) == [id |-> id, uuid |-> uuid, speed |-> 0, device |-> device]
Lists ==
    (l1 :> <<User(1, "x", 0), User(2, "y", 0)>>) @@
    (l2 :> <<User(2, "y", 1), User(1, "x", 0)>>) @@
    (l3 :> <<User(1, "z", 0), User(2, "y", 0)>>)

\* Short IDs: "ab" and "c" in two orders, and "a" and "bc".
Two     == [form |-> "list", parts |-> <<<<1, 2>>, <<3>>>>]
TwoText == [form |-> "text", parts |-> <<<<3>>, <<>>, <<1, 2>>>>]
Shifted == [form |-> "list", parts |-> <<<<1>>, <<2, 3>>>>]

ByDomain(d) == [AnyConn EXCEPT !.domain = {d}]
ByZone(z)   == [AnyConn EXCEPT !.suffix = {z}]
ByPort(n)   == [AnyConn EXCEPT !.ports = {n}]
Sent(form, rules, final, spelling) ==
    [form |-> form, rules |-> rules, final |-> final, spelling |-> spelling]
NoRoutes == Sent("none", <<>>, "", 0)

Body(shortIDs, routes, pull) ==
    [protocol |-> "vless", listen_ip |-> <<"blank">>, server_port |-> 443, network |-> "tcp",
     tls |-> 2, flow |-> "", allow_insecure |-> FALSE, dest_port |-> <<"num", 8443>>,
     server_name |-> "site", public_key |-> "pub", private_key |-> "key",
     short_id |-> shortIDs, push |-> <<"null">>, pull |-> pull, routes |-> routes]

Here(spelling) == Sent("object", <<rejectRule(ByDomain("d1"))>>, "", spelling)
Bodies ==
    (g1 :> Body(Two, Here(1), <<"num", 60>>)) @@
    (g2 :> Body(TwoText, Here(2), <<"num", 60>>)) @@
    (g3 :> Body(Two, Sent("rules", <<rejectRule(ByDomain("d1"))>>, "", 1), <<"null">>)) @@
    (g4 :> Body(Shifted, Here(1), <<"num", 60>>)) @@
    (bad :> Body(Two, Sent("other", <<>>, "", 0), <<"num", 60>>))

\* The hashes, as tables that TLC makes once.
HashOfList   == UserHashes @@ <<>>
HashOfConfig == ConfigHashes @@ <<>>

Local == [logLevel |-> "info", clashAPIListenAddr |-> "", googleIPv6 |-> TRUE]

\* Rules of the panel, against and along the safety rules and the one for
\* Google, and the routes made of one or two of them.
SomeRules == {routeRule(ByPort(25), "direct"), routeRule(ByZone("google"), "direct"),
              rejectRule(ByDomain("d1")), routeRule(AnyConn, "direct"),
              routeRule([AnyConn EXCEPT !.private = TRUE, !.ports = {80}], "direct")}
Old(type, final, outbound) ==
    [type |-> type, protocol |-> {}, domain |-> {"d1"}, suffix |-> {"google"}, ports |-> {25},
     outbound |-> outbound, final |-> final]
OldItems == {Old("field", "", "out"), Old("reject", "direct", ""), Old("balance", "out", "out")}
SomeRoutes ==
    {NoRoutes, Sent("object", <<>>, "out", 0)} \cup
    {Sent(f, <<r, s>>, "out", 0) : f \in {"object", "rules"}, r, s \in SomeRules} \cup
    {Sent("legacy", <<r, s>>, "", 0) : r, s \in OldItems}
SomeConns ==
    [protocol : {"", "bittorrent"}, private : BOOLEAN, port : {24, 25, 80, 134, 135, 139, 140, 445, 3389},
     domain : {"", "d1"}, zone : {"", "google"}]

Entry(key, ips, count) == [key |-> key, ips |-> ips, count |-> count]
SomeBodies ==
    [form : {"empty"}, entries : {<<>>}] \cup
    [form : {"ips", "wrapped ips", "counts", "pairs", "wrapped counts"},
     entries : {<<Entry(<<"num", 1>>, <<"p">>, i), Entry(<<"word">>, <<>>, 1),
                  Entry(<<"num", 2>>, <<"p", "q">>, 2)>> : i \in -1..3}]
================================================================================
