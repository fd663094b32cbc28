----------------------------- MODULE ReconfigProofs -----------------------------
(***************************************************************************)
(* Theorems about Reconfig, for every list, body, route, connection and    *)
(* alive list: what is built of any config that runs guards first and then *)
(* obeys the panel; what two hashes tell of what was hashed, and so when a *)
(* Sync reloads; and what is decoded counts the devices as listed.         *)
(*                                                                         *)
(* What runs was built from a list and a config the panel has served       *)
(* (HoldsSomething below, by SyncInv), and the hashes Sync compares with   *)
(* are those of what the engine holds (HashesHeld); the rest is about the  *)
(* operators.                                                              *)
(***************************************************************************)
EXTENDS Reconfig, SyncerProofs, SequenceTheorems, FunctionTheorems, WellFoundedInduction

--------------------------------------------------------------------------------
(* What runs was built from something. *)

\* An instance that exists holds the list and the config it was built from.
HoldsSomething == \A b \in Boxes : state[b] # "free" => content[b] \in Contents

\* A box leaves the free ones only in createBox, which gives it a content.
LEMMA HoldsNext ==
    ASSUME SyncInv, HoldsSomething, [Next]_vars
    PROVE  HoldsSomething'
<1> USE NilIsNothing, SomeBuildable DEF SyncInv, TypeOK, Stages, HoldsSomething, vars, Busy,
   panelVars, clientVars, hashVars, localVars, engineVars, boxVars, lifeVars, Booting,
   NewInHand, OldInHand, InHand
<1>1. CASE Edit
  BY <1>1 DEF Edit
<1>2. ASSUME NEW a \in Answers, FetchUsers(a) PROVE HoldsSomething'
  BY <1>2 DEF FetchUsers
<1>3. ASSUME NEW a \in Answers, FetchConfig(a) PROVE HoldsSomething'
  BY <1>3 DEF FetchConfig
<1>4. CASE UpdateUsers
  BY <1>4 DEF UpdateUsers
<1>5. CASE Build
  <2>1. CASE newConfig \in Buildable
    <3>1. [users |-> newUsers, config |-> newConfig] \in Contents
      BY <2>1, <1>5 DEF Build, Contents
    <3>2. Made(newUsers, newConfig, "built")
      BY <2>1, <1>5, Makes
    <3> QED BY <3>1, <3>2 DEF Made
  <2>2. CASE newConfig \notin Buildable
    BY <2>2, <1>5 DEF Build
  <2> QED BY <2>1, <2>2
<1>6. CASE TakeOld
  BY <1>6 DEF TakeOld
<1>7. CASE CloseOld
  BY <1>7 DEF CloseOld, DropOld, Close
<1>8. ASSUME NEW ok \in BOOLEAN, StartNew(ok) PROVE HoldsSomething'
  BY <1>8 DEF StartNew, StartBox, Close
<1>9. CASE RollBack
  <2>1. CASE oldConfig \in Buildable
    <3>1. [users |-> oldUsers, config |-> oldConfig] \in Contents
      BY <2>1, <1>9 DEF RollBack, Contents, Loaded
    <3> QED BY <2>1, <3>1, <1>9, Makes DEF Made
  <2>2. CASE oldConfig \notin Buildable
    BY <2>2, <1>9 DEF RollBack
  <2> QED BY <2>1, <2>2
<1>10. ASSUME NEW ok \in BOOLEAN, StartOld(ok) PROVE HoldsSomething'
  BY <1>10 DEF StartOld, StartBox, Close
<1>11. CASE InstallOld \/ InstallNew \/ Commit
  BY <1>11 DEF InstallOld, InstallNew, Commit
<1>12. ASSUME NEW a \in Answers, BootConfig(a) \/ BootUsers(a) PROVE HoldsSomething'
  BY <1>12 DEF BootConfig, BootUsers, Die
<1>13. ASSUME NEW ok \in BOOLEAN, BootEngine(ok) PROVE HoldsSomething'
  <2>1. CASE ok /\ newConfig \in Buildable
    <3>1. [users |-> newUsers, config |-> newConfig] \in Contents
      BY <2>1, <1>13 DEF BootEngine, Contents
    <3> QED BY <2>1, <3>1, <1>13, Makes DEF Made
  <2>2. CASE ~(ok /\ newConfig \in Buildable)
    <3>1. Die
      BY <2>2, <1>13 DEF BootEngine
    <3> QED BY <3>1 DEF Die
  <2> QED BY <2>1, <2>2
<1>14. CASE BeginShutdown \/ CloseTake \/ Restart
  BY <1>14 DEF BeginShutdown, CloseTake, Restart
<1>15. CASE CloseInstance
  BY <1>15 DEF CloseInstance, Close
<1>16. CASE Exit \/ Crash
  BY <1>16 DEF Exit, Crash, Die
<1>17. CASE UNCHANGED vars
  BY <1>17
<1> QED BY <1>1, <1>2, <1>3, <1>4, <1>5, <1>6, <1>7, <1>8, <1>9, <1>10, <1>11, <1>12, <1>13,
   <1>14, <1>15, <1>16, <1>17 DEF Next, Sync, Boot, Life

\* What every instance that runs was built from, however it came to run: by the
\* start, a reload or a rollback.
LEMMA RunsWhatWasServed == Spec => [](\A b \in Running : content[b].config \in Configs)
<1>1. Init => HoldsSomething
  BY DEF Init, HoldsSomething
<1>2. HoldsSomething => \A b \in Running : content[b].config \in Configs
  BY DEF HoldsSomething, Running, Contents
<1> QED BY <1>1, <1>2, Invariance, HoldsNext, PTL DEF Spec

--------------------------------------------------------------------------------
(* The rules that are built. *)

\* The least of some indices is one of them and not above any.
LEMMA LeastIsLeast ==
    ASSUME NEW I \in SUBSET Nat, I # {}
    PROVE  Least(I) \in I /\ \A j \in I : Least(I) <= j
<1> DEFINE A == {0..i : i \in I}
<1>1. A # {} /\ A \subseteq FiniteSubsetsOf(Nat)
  <2> SUFFICES ASSUME NEW i \in I PROVE 0..i \in FiniteSubsetsOf(Nat)
    OBVIOUS
  <2>1. IsFiniteSet(0..i)
    BY FS_Interval
  <2> QED BY <2>1 DEF FiniteSubsetsOf
<1>2. IsWellFoundedOn(StrictSubsetOrdering(Nat), FiniteSubsetsOf(Nat))
  BY FS_StrictSubsetOrderingWellFounded
<1> HIDE DEF A
<1>3. PICK X \in A : \A Y \in A : ~(<<Y, X>> \in StrictSubsetOrdering(Nat))
  BY <1>1, <1>2, WFMin
<1> USE DEF A
<1>4. PICK m \in I : X = 0..m
  OBVIOUS
<1>5. ASSUME NEW j \in I PROVE m <= j
  <2>1. 0..j \in A /\ 0..j \in SUBSET Nat /\ 0..m \in SUBSET Nat
    OBVIOUS
  <2>2. ~(0..j \subseteq 0..m /\ 0..j # 0..m)
    BY <1>3, <1>4, <2>1 DEF StrictSubsetOrdering
  <2>3. m \in 0..m /\ m \in Nat /\ j \in Nat
    OBVIOUS
  <2> QED BY <2>2, <2>3
<1> QED BY <1>5 DEF Least

\* There is only one such.
LEMMA LeastIs ==
    ASSUME NEW I \in SUBSET Nat, NEW m \in I, \A j \in I : m <= j
    PROVE  Least(I) = m
<1>1. Least(I) \in I /\ \A j \in I : Least(I) <= j
  BY LeastIsLeast
<1>2. Least(I) <= m /\ m <= Least(I) /\ Least(I) \in Nat /\ m \in Nat
  BY <1>1
<1> QED BY <1>2

\* Whatever the form of the routes, their rules are a list.
LEMMA ParsedRules ==
    ASSUME NEW r \in RoutesSent, RoutesOK(r)
    PROVE  \E S : parseRouteOptions(r).rules \in Seq(S)
<1>1. CASE r.form = "none"
  <2>1. parseRouteOptions(r).rules = <<>>
    BY <1>1, Zenon DEF parseRouteOptions, NoRoute
  <2> QED BY <2>1
<1>2. CASE r.form = "object"
  <2>1. parseRouteOptions(r).rules = r.rules
    BY <1>2, Zenon DEF parseRouteOptions
  <2> QED BY <2>1, RoutesTyped
<1>3. CASE r.form = "rules"
  <2>1. parseRouteOptions(r).rules = r.rules
    BY <1>3, Zenon DEF parseRouteOptions
  <2> QED BY <2>1, RoutesTyped
<1>4. CASE r.form = "legacy"
  <2> DEFINE I == {i \in DOMAIN r.rules : Known(r.rules[i])}
             kept == At(r.rules, I)
             rules == [i \in DOMAIN kept |-> legacyRouteRule(kept[i])]
  <2>1. parseRouteOptions(r) = convertLegacyRouteRules(r.rules)
    BY <1>4, Zenon DEF parseRouteOptions
  <2>2. convertLegacyRouteRules(r.rules).rules = rules
    BY DEF convertLegacyRouteRules
  <2>3. IsFiniteSet(I)
    <3>1. DOMAIN r.rules = 1..Len(r.rules) /\ Len(r.rules) \in Nat
      BY RoutesTyped
    <3>2. IsFiniteSet(1..Len(r.rules))
      BY <3>1, FS_Interval
    <3> QED BY <3>1, <3>2, FS_Subset
  <2>4. DOMAIN rules = 1..Cardinality(I) /\ Cardinality(I) \in Nat
    BY <2>3, FS_CardinalityType DEF At
  <2>5. rules \in Seq({rules[i] : i \in DOMAIN rules})
    <3> HIDE DEF kept, I
    <3> QED BY <2>4
  <2> QED BY <2>1, <2>2, <2>5
<1> QED BY <1>1, <1>2, <1>3, <1>4 DEF RoutesOK

\* The rules that are built are the safety rules, those of the panel, and the
\* one for Google, in this order.
InThisOrder(R, P, v6) ==
    /\ DOMAIN R = 1..(4 + Len(P) + (IF v6 THEN 1 ELSE 0))
    /\ \A i \in 1..4 : R[i] = defaultSafetyRules[i]
    /\ \A i \in 1..Len(P) : R[4 + i] = P[i]
    /\ v6 => R[5 + Len(P)] = googleIPv6Rule

\* That is what merging gives.
LEMMA RulesBuilt ==
    ASSUME NEW r \in RoutesSent, RoutesOK(r), NEW v6 \in BOOLEAN
    PROVE  /\ Len(parseRouteOptions(r).rules) \in Nat
           /\ InThisOrder(Routes(r, v6).rules, parseRouteOptions(r).rules, v6)
<1> DEFINE D == defaultSafetyRules
           P == parseRouteOptions(r).rules
<1>1. PICK S : P \in Seq(S)
  BY ParsedRules
<1>2. D \in Seq({D[1], D[2], D[3], D[4]}) /\ Len(D) = 4
  BY DEF defaultSafetyRules
<1>3. Routes(r, v6).rules = IF v6 THEN Append(D \o P, googleIPv6Rule) ELSE D \o P
  BY DEF Routes, mergeDefaultRouteOptions
<1> HIDE DEF D, P
<1> DEFINE T == S \cup {D[1], D[2], D[3], D[4]} \cup {googleIPv6Rule}
<1>4. D \in Seq(T) /\ P \in Seq(T) /\ googleIPv6Rule \in T
  BY <1>1, <1>2
<1> HIDE DEF T
<1>5. /\ D \o P \in Seq(T) /\ Len(D \o P) = 4 + Len(P) /\ Len(P) \in Nat
      /\ \A i \in 1..4 : (D \o P)[i] = D[i]
      /\ \A i \in 1..Len(P) : (D \o P)[4 + i] = P[i]
  <2>1. /\ D \o P \in Seq(T) /\ Len(D \o P) = 4 + Len(P) /\ Len(P) \in Nat
        /\ \A i \in 1..(4 + Len(P)) : (D \o P)[i] = IF i <= 4 THEN D[i] ELSE P[i - 4]
    <3>1. /\ D \o P \in Seq(T) /\ Len(D \o P) = Len(D) + Len(P)
          /\ \A i \in 1..Len(D) + Len(P) : (D \o P)[i] = IF i <= Len(D) THEN D[i]
                                                                  ELSE P[i - Len(D)]
      BY ONLY <1>4, ConcatProperties, Zenon
    <3>2. Len(P) \in Nat
      BY <1>4
    <3> QED BY <1>2, <3>1, <3>2
  <2>2. \A i \in 1..4 : (D \o P)[i] = D[i]
    BY <2>1
  <2>3. ASSUME NEW i \in 1..Len(P) PROVE (D \o P)[4 + i] = P[i]
    <3>1. 4 + i \in 1..(4 + Len(P)) /\ ~(4 + i <= 4) /\ (4 + i) - 4 = i
      BY <2>1
    <3> QED BY <2>1, <3>1
  <2> QED BY <2>1, <2>2, <2>3
<1>6. CASE v6
  <2> DEFINE Q == D \o P
  <2>1. Q \in Seq(T) /\ Len(Q) = 4 + Len(P)
    BY <1>5
  <2> HIDE DEF Q
  <2>2. /\ DOMAIN Append(Q, googleIPv6Rule) = 1..(5 + Len(P))
        /\ \A i \in 1..Len(Q) : Append(Q, googleIPv6Rule)[i] = Q[i]
        /\ Append(Q, googleIPv6Rule)[5 + Len(P)] = googleIPv6Rule
    BY <1>4, <1>5, <2>1
  <2>3. InThisOrder(Append(Q, googleIPv6Rule), P, v6)
    BY <1>5, <1>6, <2>1, <2>2 DEF InThisOrder, Q, D
  <2> QED BY <1>3, <1>5, <1>6, <2>3 DEF P, D, Q
<1>7. CASE ~v6
  <2>1. InThisOrder(D \o P, P, v6)
    BY <1>5, <1>7 DEF InThisOrder, D
  <2> QED BY <1>3, <1>7, <2>1 DEF P, D
<1> QED BY <1>6, <1>7

\* What is built of a config with other routes has the rules of those.
LEMMA RoutesBuilt ==
    ASSUME NEW c \in Configs, NEW r \in RoutesSent, NEW v6 \in BOOLEAN,
           OptionsWith(c, r, v6).built
    PROVE  RoutesOK(r) /\ OptionsWith(c, r, v6).route = Routes(r, v6)
<1> DEFINE conf == [ConfigOf[c] EXCEPT !.routes = r]
           local == [LocalSettings EXCEPT !.googleIPv6 = v6]
<1>1. conf.routes = r
  <2>1. DOMAIN BodyOf[c] = NodeConfigFields
    BY BodiesTyped
  <2>2. NodeConfig(BodyOf[c]) # Undecodable
    BY Decodable DEF ConfigOf
  <2>3. DOMAIN ConfigOf[c] = NodeConfigFields
    BY <2>1, <2>2 DEF ConfigOf, NodeConfig
  <2>4. "routes" \in DOMAIN ConfigOf[c]
    BY <2>3 DEF NodeConfigFields
  <2> QED BY <2>4
<1>2. local.googleIPv6 = v6
  BY SettingsTyped
<1> HIDE DEF conf, local
<1>3. OptionsWith(c, r, v6) = BuildConfig(conf, <<>>, local)
  BY DEF OptionsWith, conf, local
<1>4. Supported(conf)
  <2> SUFFICES ASSUME ~Supported(conf) PROVE FALSE
    OBVIOUS
  <2>1. OptionsWith(c, r, v6) = [built |-> FALSE]
    BY <1>3 DEF BuildConfig, NotBuilt
  <2> QED BY <2>1
<1>5. BuildConfig(conf, <<>>, local).route = Routes(r, v6)
  BY <1>1, <1>2, <1>4 DEF BuildConfig
<1> QED BY <1>1, <1>3, <1>4, <1>5 DEF Supported

--------------------------------------------------------------------------------
(* The safety rules. *)

\* What each of the safety rules matches.
LEMMA SafetyMatches ==
    ASSUME NEW conn
    PROVE  /\ Matches(defaultSafetyRules[1].cond, conn) <=> conn.protocol = "bittorrent"
           /\ Matches(defaultSafetyRules[2].cond, conn) <=> conn.private
           /\ Matches(defaultSafetyRules[3].cond, conn) <=> conn.port = 25
           /\ Matches(defaultSafetyRules[4].cond, conn) <=> conn.port \in Protected \ {25}
<1> USE DEF defaultSafetyRules, rejectRule, routeRule, AnyConn, Matches, OnAddress
<1>1. Matches(defaultSafetyRules[1].cond, conn) <=> conn.protocol = "bittorrent"
  OBVIOUS
<1>2. Matches(defaultSafetyRules[2].cond, conn) <=> conn.private
  OBVIOUS
<1>3. Matches(defaultSafetyRules[3].cond, conn) <=> conn.port = 25
  OBVIOUS
<1>4. Matches(defaultSafetyRules[4].cond, conn) <=> conn.port \in Protected \ {25}
  <2>1. Protected \ {25} # {}
    BY DEF Protected
  <2> QED BY <2>1
<1> QED BY <1>1, <1>2, <1>3, <1>4

\* And what they do with it.
LEMMA SafetyActions ==
    /\ defaultSafetyRules[1].action = <<"reject">>
    /\ defaultSafetyRules[2].action = <<"route", directOutboundTag>>
    /\ defaultSafetyRules[3].action = <<"reject">>
    /\ defaultSafetyRules[4].action = <<"reject">>
BY DEF defaultSafetyRules, rejectRule, routeRule

\* The first rule that matches decides.
LEMMA FirstDecides ==
    ASSUME NEW route, NEW n \in Nat, DOMAIN route.rules = 1..n, NEW conn,
           NEW m \in 1..n, Matches(route.rules[m].cond, conn),
           \A j \in 1..(m - 1) : ~Matches(route.rules[j].cond, conn)
    PROVE  Verdict(route, conn) = route.rules[m].action
<1> DEFINE hits == {i \in DOMAIN route.rules : Matches(route.rules[i].cond, conn)}
<1>1. hits \in SUBSET Nat /\ m \in hits
  OBVIOUS
<1>2. ASSUME NEW j \in hits PROVE m <= j
  <2>1. j \in 1..n /\ ~(j \in 1..(m - 1))
    OBVIOUS
  <2> QED BY <2>1
<1>3. Verdict(route, conn) = IF hits = {} THEN <<"route", route.final>>
                             ELSE route.rules[Least(hits)].action
  BY DEF Verdict
<1> HIDE DEF hits
<1>4. Least(hits) = m
  BY <1>1, <1>2, LeastIs
<1> QED BY <1>1, <1>3, <1>4

\* What the safety rules do when they come first.
SafetySays(conn) ==
    IF conn.private /\ conn.protocol # "bittorrent" THEN <<"route", directOutboundTag>>
    ELSE <<"reject">>

LEMMA SafetyVerdict ==
    ASSUME NEW route, NEW n \in Nat, n >= 4, DOMAIN route.rules = 1..n,
           \A i \in 1..4 : route.rules[i] = defaultSafetyRules[i],
           NEW conn, ~Safe(conn)
    PROVE  Verdict(route, conn) = SafetySays(conn)
<1> DEFINE R == route.rules
<1>1. /\ Matches(R[1].cond, conn) <=> conn.protocol = "bittorrent"
      /\ Matches(R[2].cond, conn) <=> conn.private
      /\ Matches(R[3].cond, conn) <=> conn.port = 25
      /\ Matches(R[4].cond, conn) <=> conn.port \in Protected \ {25}
  BY SafetyMatches
<1>2. /\ R[1].action = <<"reject">> /\ R[2].action = <<"route", directOutboundTag>>
      /\ R[3].action = <<"reject">> /\ R[4].action = <<"reject">>
  BY SafetyActions
<1> USE DEF SafetySays
<1>3. CASE conn.protocol = "bittorrent"
  <2>1. Verdict(route, conn) = R[1].action
    BY <1>1, <1>3, FirstDecides
  <2> QED BY <1>2, <1>3, <2>1
<1>4. CASE conn.protocol # "bittorrent" /\ conn.private
  <2>1. Verdict(route, conn) = R[2].action
    BY <1>1, <1>4, FirstDecides
  <2> QED BY <1>2, <1>4, <2>1
<1>5. CASE conn.protocol # "bittorrent" /\ ~conn.private /\ conn.port = 25
  <2>1. Verdict(route, conn) = R[3].action
    BY <1>1, <1>5, FirstDecides
  <2> QED BY <1>2, <1>5, <2>1
<1>6. CASE conn.protocol # "bittorrent" /\ ~conn.private /\ conn.port \in Protected \ {25}
  <2>1. Verdict(route, conn) = R[4].action
    BY <1>1, <1>6, FirstDecides
  <2> QED BY <1>2, <1>6, <2>1
<1> QED BY <1>3, <1>4, <1>5, <1>6 DEF Safe

\* Whatever rules follow, the safety rules guard.
LEMMA SafetyGuards ==
    ASSUME NEW r \in RoutesSent, RoutesOK(r), NEW v6 \in BOOLEAN
    PROVE  Guards(Routes(r, v6))
<1> DEFINE route == Routes(r, v6)
           n == 4 + Len(parseRouteOptions(r).rules) + (IF v6 THEN 1 ELSE 0)
<1>1. n \in Nat /\ n >= 4 /\ DOMAIN route.rules = 1..n
  <2>1. Len(parseRouteOptions(r).rules) \in Nat /\ DOMAIN route.rules = 1..n
    BY RulesBuilt DEF InThisOrder
  <2>2. ASSUME NEW l \in Nat, NEW k \in {0, 1} PROVE 4 + l + k \in Nat /\ 4 + l + k >= 4
    OBVIOUS
  <2> QED BY <2>1, <2>2
<1>2. \A i \in 1..4 : route.rules[i] = defaultSafetyRules[i]
  BY RulesBuilt DEF InThisOrder
<1>3. /\ DOMAIN WithoutRoutes.rules = 1..4
      /\ \A i \in 1..4 : WithoutRoutes.rules[i] = defaultSafetyRules[i]
  BY DEF WithoutRoutes, mergeDefaultRouteOptions, NoRoute, defaultSafetyRules
<1> HIDE DEF route, n
<1>4. ASSUME NEW conn \in Conn, ~Safe(conn)
      PROVE  Verdict(route, conn) = SafetySays(conn) /\ Verdict(WithoutRoutes, conn) = SafetySays(conn)
  <2>1. Verdict(route, conn) = SafetySays(conn)
    BY <1>1, <1>2, <1>4, SafetyVerdict
  <2>2. 4 \in Nat /\ 4 >= 4
    OBVIOUS
  <2>3. Verdict(WithoutRoutes, conn) = SafetySays(conn)
    BY <1>3, <1>4, <2>2, SafetyVerdict
  <2> QED BY <2>1, <2>3
<1>5. ASSUME NEW conn \in Conn
      PROVE  /\ conn.protocol = "bittorrent" => Verdict(route, conn) = <<"reject">>
             /\ ~conn.private /\ conn.port \in Protected => Verdict(route, conn) = <<"reject">>
             /\ conn.private => Verdict(route, conn) = Verdict(WithoutRoutes, conn)
  BY <1>4 DEF Safe, SafetySays
<1> QED BY <1>5 DEF Guards, route

\* So every config guards always.
LEMMA AllGuard == Guarded = Configs
<1>1. \A c \in Configs : GuardsAlways(c)
  BY RoutesBuilt, SafetyGuards DEF GuardsAlways
<1> QED BY <1>1 DEF Guarded, Those

\* No instance runs, after any reload or rollback, with a config in which the
\* routes of the panel, whatever they are, could lift the safety rules.
THEOREM SafetyRulesFirst == Spec => []SafetyFirst
<1>1. (\A b \in Running : content[b].config \in Configs) => SafetyFirst
  BY AllGuard DEF SafetyFirst
<1> QED BY <1>1, RunsWhatWasServed, PTL

--------------------------------------------------------------------------------
(* The rules of the panel. *)

\* No safety rule matches a safe connection.
LEMMA SafePasses ==
    ASSUME NEW conn, Safe(conn)
    PROVE  \A i \in 1..4 : ~Matches(defaultSafetyRules[i].cond, conn)
<1>1. 25 \in Protected
  BY DEF Protected
<1> QED BY <1>1, SafetyMatches DEF Safe

\* What the rule for Google matches.
LEMMA GoogleMatches ==
    ASSUME NEW conn
    PROVE  /\ Matches(googleIPv6Rule.cond, conn) <=> conn.zone = "google"
           /\ googleIPv6Rule.action = <<"route", directIPv6OutboundTag>>
BY DEF googleIPv6Rule, routeRule, AnyConn, Matches, OnAddress

\* Unless the routes are in the older form, the rules of the panel and its final
\* outbound are taken as they were sent.
LEMMA ParsedAsSent ==
    ASSUME NEW r \in RoutesSent, RoutesOK(r), r.form # "legacy"
    PROVE  /\ parseRouteOptions(r).rules = PanelRules(r)
           /\ parseRouteOptions(r).final = IF r.form = "object" THEN r.final ELSE ""
<1>1. CASE r.form = "none"
  <2>1. parseRouteOptions(r) = NoRoute
    BY <1>1, Zenon DEF parseRouteOptions
  <2>2. PanelRules(r) = <<>> /\ r.form # "object"
    BY <1>1 DEF PanelRules
  <2>3. NoRoute.rules = <<>> /\ NoRoute.final = ""
    BY DEF NoRoute
  <2> QED BY <2>1, <2>2, <2>3
<1>2. CASE r.form = "object"
  <2>1. parseRouteOptions(r) = [rules |-> r.rules, final |-> r.final]
    BY <1>2, Zenon DEF parseRouteOptions
  <2> QED BY <1>2, <2>1 DEF PanelRules
<1>3. CASE r.form = "rules"
  <2>1. parseRouteOptions(r) = [rules |-> r.rules, final |-> ""]
    BY <1>3, Zenon DEF parseRouteOptions
  <2>2. PanelRules(r) = r.rules /\ r.form # "object"
    BY <1>3 DEF PanelRules
  <2>3. /\ [rules |-> r.rules, final |-> ""].rules = r.rules
        /\ [rules |-> r.rules, final |-> ""].final = ""
    OBVIOUS
  <2>4. parseRouteOptions(r).rules = r.rules /\ parseRouteOptions(r).final = ""
    BY <2>1, <2>3, Zenon
  <2> QED BY <2>2, <2>4
<1> QED BY <1>1, <1>2, <1>3 DEF RoutesOK

\* For what the safety rules leave open, what is built does what the panel says.
LEMMA PanelObeyed ==
    ASSUME NEW r \in RoutesSent, RoutesOK(r), r.form # "legacy", NEW v6 \in BOOLEAN,
           NEW conn \in Conn, Safe(conn)
    PROVE  Verdict(Routes(r, v6), conn) = PanelSays(r, v6, conn)
<1> DEFINE route == Routes(r, v6)
           R == route.rules
           P == PanelRules(r)
           more == IF v6 THEN 1 ELSE 0
           hits == {i \in DOMAIN P : Matches(P[i].cond, conn)}
<1>1. /\ Len(P) \in Nat /\ DOMAIN R = 1..(4 + Len(P) + more)
      /\ \A i \in 1..4 : R[i] = defaultSafetyRules[i]
      /\ \A i \in 1..Len(P) : R[4 + i] = P[i]
      /\ v6 => R[5 + Len(P)] = googleIPv6Rule
  <2>1. parseRouteOptions(r).rules = P
    BY ParsedAsSent
  <2> HIDE DEF P, route
  <2> QED BY <2>1, RulesBuilt DEF InThisOrder, route
<1>2. DOMAIN P = 1..Len(P)
  BY RoutesTyped DEF PanelRules
<1>3. \A i \in 1..4 : ~Matches(R[i].cond, conn)
  BY <1>1, SafePasses
<1>4. PanelSays(r, v6, conn) =
          IF hits # {} THEN P[Least(hits)].action
          ELSE <<"route", IF v6 /\ conn.zone = "google" THEN directIPv6OutboundTag
                          ELSE IF r.form = "object" /\ r.final # "" THEN r.final
                          ELSE directOutboundTag>>
  BY DEF PanelSays
<1>5. route.final = IF r.form = "object" /\ r.final # "" THEN r.final ELSE directOutboundTag
  <2>1. route.final = IF parseRouteOptions(r).final = "" THEN directOutboundTag
                      ELSE parseRouteOptions(r).final
    BY DEF Routes, mergeDefaultRouteOptions
  <2> QED BY <2>1, ParsedAsSent
<1>6. hits \in SUBSET Nat
  BY <1>2
<1> DEFINE n == 4 + Len(P) + more
<1>7. /\ n \in Nat /\ more \in {0, 1}
  BY <1>1
<1>8. \A i \in hits : i \in 1..Len(P) /\ Matches(P[i].cond, conn)
  BY <1>2
<1>9. \A i \in 1..Len(P) : i \notin hits => ~Matches(P[i].cond, conn)
  BY <1>2
<1>10. more = 1 <=> v6
  OBVIOUS
<1> HIDE DEF P, hits, more, route
<1>11. CASE hits # {}
  <2> DEFINE m == Least(hits)
  <2>1. m \in hits /\ \A j \in hits : m <= j
    BY <1>6, <1>11, LeastIsLeast
  <2> HIDE DEF m
  <2>2. m \in 1..Len(P) /\ Matches(R[4 + m].cond, conn) /\ 4 + m \in 1..n
    BY <1>1, <1>7, <1>8, <2>1
  <2>3. ASSUME NEW j \in 1..((4 + m) - 1) PROVE ~Matches(R[j].cond, conn)
    <3>1. CASE j \in 1..4
      BY <3>1, <1>3
    <3>2. CASE j \notin 1..4
      <4>1. j - 4 \in 1..Len(P) /\ ~(m <= j - 4) /\ 4 + (j - 4) = j
        BY <3>2, <2>2, <1>1
      <4>2. j - 4 \notin hits
        BY <4>1, <2>1
      <4>3. R[j] = P[j - 4]
        BY <4>1, <1>1
      <4> QED BY <4>1, <4>2, <4>3, <1>9
    <3> QED BY <3>1, <3>2
  <2>4. Verdict(route, conn) = R[4 + m].action
    <3> DEFINE q == 4 + m
    <3>1. q \in 1..n /\ Matches(R[q].cond, conn) /\ \A j \in 1..(q - 1) : ~Matches(R[j].cond, conn)
      BY <2>2, <2>3
    <3> HIDE DEF q
    <3>2. Verdict(route, conn) = R[q].action
      BY <1>1, <1>7, <3>1, FirstDecides
    <3> QED BY <3>2 DEF q
  <2>5. R[4 + m] = P[m]
    BY <1>1, <2>2
  <2> QED BY <1>4, <1>11, <2>4, <2>5 DEF m, route
<1>12. ASSUME hits = {}, NEW j \in 1..(4 + Len(P)) PROVE ~Matches(R[j].cond, conn)
  <2>1. CASE j \in 1..4
    BY <2>1, <1>3
  <2>2. CASE j \notin 1..4
    <3>1. j - 4 \in 1..Len(P) /\ 4 + (j - 4) = j
      BY <2>2, <1>1
    <3>2. R[j] = P[j - 4]
      BY <3>1, <1>1
    <3> QED BY <3>1, <3>2, <1>9, <1>12
  <2> QED BY <2>1, <2>2
<1>13. CASE hits = {} /\ v6 /\ conn.zone = "google"
  <2> DEFINE m == 5 + Len(P)
  <2>1. m \in 1..n /\ m - 1 = 4 + Len(P)
    BY <1>1, <1>10, <1>13
  <2>2. Matches(R[m].cond, conn) /\ R[m].action = <<"route", directIPv6OutboundTag>>
    BY <1>1, <1>13, GoogleMatches
  <2>3. \A j \in 1..(m - 1) : ~Matches(R[j].cond, conn)
    BY <1>12, <1>13, <2>1
  <2> HIDE DEF m
  <2>4. Verdict(route, conn) = R[m].action
    BY <1>1, <1>7, <2>1, <2>2, <2>3, FirstDecides
  <2> QED BY <1>4, <1>13, <2>2, <2>4 DEF route
<1>14. CASE hits = {} /\ ~(v6 /\ conn.zone = "google")
  <2>1. ASSUME NEW j \in 1..n PROVE ~Matches(R[j].cond, conn)
    <3>1. CASE j \in 1..(4 + Len(P))
      BY <3>1, <1>12, <1>14
    <3>2. CASE j \notin 1..(4 + Len(P))
      <4>1. v6 /\ j = 5 + Len(P)
        BY <3>2, <1>1, <1>7, <1>10
      <4> QED BY <4>1, <1>1, <1>14, GoogleMatches
    <3> QED BY <3>1, <3>2
  <2>2. {i \in DOMAIN R : Matches(R[i].cond, conn)} = {}
    BY <1>1, <2>1
  <2>3. Verdict(route, conn) = <<"route", route.final>>
    BY <2>2 DEF Verdict
  <2> QED BY <1>4, <1>5, <1>14, <2>3 DEF route
<1> QED BY <1>11, <1>13, <1>14

\* So every config obeys always.
LEMMA AllObey == Obeying = Configs
<1>1. ASSUME NEW c \in Configs PROVE ObeysAlways(c)
  <2>1. ASSUME NEW r \in {s \in RoutesSent : s.form # "legacy"}, NEW v6 \in BOOLEAN,
               OptionsWith(c, r, v6).built, NEW conn \in {x \in Conn : Safe(x)}
        PROVE  Verdict(OptionsWith(c, r, v6).route, conn) = PanelSays(r, v6, conn)
    BY <2>1, RoutesBuilt, PanelObeyed
  <2> QED BY <2>1 DEF ObeysAlways
<1> QED BY <1>1 DEF Obeying, Those

\* And for everything the safety rules leave open, every instance that runs does
\* what the panel says.
THEOREM PanelRulesNext == Spec => []PanelDecides
<1>1. (\A b \in Running : content[b].config \in Configs) => PanelDecides
  BY AllObey DEF PanelDecides
<1> QED BY <1>1, RunsWhatWasServed, PTL

--------------------------------------------------------------------------------
(* Sorting. *)

\* How many of D stand no later than each, by the pairs R.
Numbers(D, R) == [x \in D |-> Cardinality({y \in D : <<y, x>> \in R})]

\* An order of a finite set numbers it from 1 on.
LEMMA Ranks ==
    ASSUME NEW D, IsFiniteSet(D), NEW R,
           \A x \in D : <<x, x>> \in R,
           \A x, y \in D : <<x, y>> \in R \/ <<y, x>> \in R,
           \A x, y \in D : x # y /\ <<x, y>> \in R => <<y, x>> \notin R,
           \A x, y, z \in D : <<x, y>> \in R /\ <<y, z>> \in R => <<x, z>> \in R
    PROVE  Numbers(D, R) \in Bijection(D, 1..Cardinality(D))
<1> DEFINE Upto(x) == {y \in D : <<y, x>> \in R}
           rank == [x \in D |-> Cardinality(Upto(x))]
           n == Cardinality(D)
<1>1. n \in Nat
  BY FS_CardinalityType
<1>2. \A x \in D : IsFiniteSet(Upto(x)) /\ Cardinality(Upto(x)) \in 1..n
  <2> TAKE x \in D
  <2>1. Upto(x) \in SUBSET D /\ Upto(x) # {}
    OBVIOUS
  <2> HIDE DEF Upto
  <2>2. IsFiniteSet(Upto(x)) /\ Cardinality(Upto(x)) <= n
    BY <2>1, FS_Subset
  <2>3. Cardinality(Upto(x)) \in Nat /\ Cardinality(Upto(x)) # 0
    BY <2>1, <2>2, FS_CardinalityType, FS_EmptySet
  <2> QED BY <1>1, <2>2, <2>3
<1>3. ASSUME NEW x \in D, NEW y \in D, x # y, <<x, y>> \in R
      PROVE  Cardinality(Upto(x)) # Cardinality(Upto(y))
  <2>1. Upto(x) \in SUBSET Upto(y)
    BY <1>3
  <2>2. y \in Upto(y) /\ y \notin Upto(x)
    BY <1>3
  <2> HIDE DEF Upto
  <2> QED BY <1>2, <2>1, <2>2, FS_Subset
<1> HIDE DEF Upto
<1>4. \A x, y \in D : Cardinality(Upto(x)) = Cardinality(Upto(y)) => x = y
  BY <1>3
<1>5. rank \in [D -> 1..n] /\ \A x, y \in D : rank[x] = rank[y] => x = y
  BY <1>2, <1>4
<1>6. rank \in Injection(D, 1..n)
  <2> HIDE DEF rank
  <2> QED BY <1>5 DEF Injection, IsInjective
<1>7. IsFiniteSet(1..n) /\ Cardinality(1..n) = n
  BY <1>1, FS_Interval
<1>8. rank \in Surjection(D, 1..n)
  <2> HIDE DEF rank, n
  <2>1. n = Cardinality(D)
    BY DEF n
  <2> QED BY <1>6, <1>7, <2>1, FS_Injection
<1>9. rank = Numbers(D, R)
  BY DEF Numbers, Upto
<1> HIDE DEF rank, n
<1> QED BY <1>6, <1>8, <1>9 DEF Bijection, n

\* Which entries come before which: of two that do, the third is on one side.
Orders(before, V) ==
    /\ \A v \in V : <<v, v>> \notin before
    /\ \A u, v, w \in V : <<u, v>> \in before /\ <<v, w>> \in before => <<u, w>> \in before
    /\ \A u, v, w \in V : <<u, w>> \in before => <<u, v>> \in before \/ <<v, w>> \in before

\* A list of n entries, all in V; and how one list has the entries of another.
Within(s, n, V) == DOMAIN s = 1..n /\ \A i \in 1..n : s[i] \in V
Arranges(p, n, s, t) == p \in Bijection(1..n, 1..n) /\ \A i \in 1..n : s[i] = t[p[i]]

\* The entries that stand no later than the i-th.
NoLater(s, before, i) ==
    {j \in DOMAIN s : \/ <<s[j], s[i]>> \in before
                      \/ (<<s[i], s[j]>> \notin before /\ j <= i)}

\* The place of every entry is its number.
Places(place, n, s, before) ==
    /\ place \in Bijection(1..n, 1..n)
    /\ \A i \in 1..n : /\ place[i] = Cardinality(NoLater(s, before, i))
                       /\ Sorted(s, before)[place[i]] = s[i]

\* Sorting puts every entry where its number is.
LEMMA SortedPlaces ==
    ASSUME NEW s, NEW n \in Nat, NEW before, NEW V, Orders(before, V), Within(s, n, V)
    PROVE  \E place : Places(place, n, s, before)
<1> DEFINE D == 1..n
           B(j, i) == <<s[j], s[i]>> \in before
           L(j, i) == B(j, i) \/ (~B(i, j) /\ j <= i)
           R == {p \in D \X D : L(p[1], p[2])}
           place == Numbers(D, R)
<1>1. DOMAIN s = 1..n /\ \A i \in 1..n : s[i] \in V
  BY DEF Within
<1>2. IsFiniteSet(D) /\ Cardinality(D) = n
  BY FS_Interval
<1>3. \A i, j \in D : <<j, i>> \in R <=> L(j, i)
  <2> HIDE DEF L
  <2> QED OBVIOUS
<1>4. \A i \in D : {j \in D : <<j, i>> \in R} = NoLater(s, before, i)
  <2> HIDE DEF R
  <2> QED BY <1>1, <1>3 DEF NoLater
<1> HIDE DEF R
<1>5. /\ \A i, j \in D : ~(B(i, j) /\ B(j, i))
      /\ \A i, j, k \in D : B(i, j) /\ B(j, k) => B(i, k)
      /\ \A i, j, k \in D : B(i, k) => B(i, j) \/ B(j, k)
  <2>1. \A i \in D : ~B(i, i)
    BY <1>1 DEF Orders
  <2>2. \A i, j, k \in D : B(i, j) /\ B(j, k) => B(i, k)
    BY <1>1 DEF Orders
  <2>3. \A i, j, k \in D : B(i, k) => B(i, j) \/ B(j, k)
    BY <1>1 DEF Orders
  <2> HIDE DEF B
  <2> QED BY <2>1, <2>2, <2>3
<1> HIDE DEF B
<1>6. \A x \in D : L(x, x)
  OBVIOUS
<1>7. \A x, y \in D : L(x, y) \/ L(y, x)
  OBVIOUS
<1>8. \A x, y \in D : x # y /\ L(x, y) => ~L(y, x)
  BY <1>5
<1>9. \A x, y, z \in D : L(x, y) /\ L(y, z) => L(x, z)
  <2> SUFFICES ASSUME NEW x \in D, NEW y \in D, NEW z \in D, L(x, y), L(y, z) PROVE L(x, z)
    OBVIOUS
  <2>1. /\ B(x, y) /\ B(y, z) => B(x, z)
        /\ B(x, y) => B(x, z) \/ B(z, y)
        /\ B(y, z) => B(y, x) \/ B(x, z)
        /\ B(z, x) => B(z, y) \/ B(y, x)
    BY <1>5
  <2>2. ~(B(y, z) /\ B(z, y)) /\ ~(B(x, y) /\ B(y, x)) /\ ~(B(x, z) /\ B(z, x))
    BY <1>5
  <2> QED BY <2>1, <2>2
<1> HIDE DEF L
<1>10. \A x \in D : <<x, x>> \in R
  BY <1>3, <1>6
<1>11. \A x, y \in D : <<x, y>> \in R \/ <<y, x>> \in R
  BY <1>3, <1>7
<1>12. \A x, y \in D : x # y /\ <<x, y>> \in R => <<y, x>> \notin R
  BY <1>3, <1>8
<1>13. \A x, y, z \in D : <<x, y>> \in R /\ <<y, z>> \in R => <<x, z>> \in R
  BY <1>3, <1>9
<1>14. place \in Bijection(D, 1..n)
  <2> HIDE DEF D
  <2>1. place \in Bijection(D, 1..Cardinality(D))
    BY <1>2, <1>10, <1>11, <1>12, <1>13, Ranks
  <2> QED BY <1>2, <2>1
<1>15. \A i \in D : place[i] = Cardinality(NoLater(s, before, i))
  BY <1>4 DEF Numbers
<1> HIDE DEF place
<1>16. /\ \A i \in D : place[i] \in D
       /\ \A i, j \in D : place[i] = place[j] => i = j
  <2> HIDE DEF D
  <2>1. place \in [D -> 1..n] /\ place \in Injection(D, 1..n)
    BY <1>14, Fun_BijectionProperties
  <2> QED BY <2>1, Fun_InjectionProperties DEF D
<1>17. ASSUME NEW i \in D PROVE Sorted(s, before)[place[i]] = s[i]
  <2> DEFINE k == place[i]
             P(j) == Cardinality(NoLater(s, before, j))
  <2>1. Sorted(s, before) = [m \in D |-> s[CHOOSE j \in D : P(j) = m]]
    BY <1>1 DEF Sorted, NoLater
  <2>2. k \in D /\ P(i) = k /\ \A j \in D : P(j) = k => j = i
    BY <1>15, <1>16
  <2> HIDE DEF k, P
  <2>3. (CHOOSE j \in D : P(j) = k) = i
    BY <2>2
  <2> QED BY <2>1, <2>2, <2>3 DEF k
<1> QED BY <1>14, <1>15, <1>17 DEF Places

\* An entry that goes before one of the same entries rearranged has fewer no later.
LEMMA FewerBefore ==
    ASSUME NEW n \in Nat, NEW s, NEW t, NEW p, Arranges(p, n, s, t), NEW V, NEW before,
           Orders(before, V), Within(s, n, V), Within(t, n, V),
           NEW i \in 1..n, NEW j \in 1..n, <<s[i], t[j]>> \in before
    PROVE  Cardinality(NoLater(s, before, i)) # Cardinality(NoLater(t, before, j))
<1> DEFINE D == 1..n
           S == NoLater(s, before, i)
           T == NoLater(t, before, j)
           f == [a \in S |-> p[a]]
<1>1. /\ DOMAIN s = 1..n /\ DOMAIN t = 1..n /\ \A a \in 1..n : s[a] \in V /\ t[a] \in V
      /\ p \in Bijection(1..n, 1..n) /\ \A a \in 1..n : s[a] = t[p[a]]
  BY DEF Within, Arranges
<1>2. IsFiniteSet(D)
  BY FS_Interval
<1>3. p \in [D -> D] /\ \A a, b \in D : p[a] = p[b] => a = b
  <2> HIDE DEF D
  <2>1. p \in [D -> D] /\ p \in Injection(D, D)
    BY <1>1, Fun_BijectionProperties DEF D
  <2> QED BY <2>1, Fun_InjectionProperties
<1>4. S \in SUBSET D /\ T \in SUBSET D /\ j \in T
  BY <1>1 DEF NoLater, Orders
<1>5. ASSUME NEW a \in S PROVE p[a] \in T \ {j}
  <2>1. a \in D /\ p[a] \in D
    BY <1>3, <1>4
  <2>2. s[a] = t[p[a]] /\ s[a] \in V /\ s[i] \in V /\ t[j] \in V
    BY <1>1, <2>1
  <2>3. <<s[i], s[a]>> \notin before
    <3>1. <<s[a], s[i]>> \in before \/ <<s[i], s[a]>> \notin before
      BY <1>5 DEF NoLater
    <3>2. ~(<<s[a], s[i]>> \in before /\ <<s[i], s[a]>> \in before)
      BY <2>2 DEF Orders
    <3> QED BY <3>1, <3>2
  <2>4. <<s[a], t[j]>> \in before
    BY <2>2, <2>3 DEF Orders
  <2>5. <<t[p[a]], t[j]>> \in before /\ <<t[j], t[j]>> \notin before
    BY <2>2, <2>4 DEF Orders
  <2>6. p[a] # j
    BY <2>5
  <2> QED BY <1>1, <2>1, <2>5, <2>6 DEF NoLater
<1> HIDE DEF S, T
<1>6. f \in Injection(S, T \ {j})
  <2>1. f \in [S -> T \ {j}] /\ \A a, b \in S : f[a] = f[b] => a = b
    BY <1>3, <1>4, <1>5
  <2> HIDE DEF f
  <2> QED BY <2>1, Fun_IsInj
<1>7. IsFiniteSet(T) /\ IsFiniteSet(T \ {j}) /\ Cardinality(T \ {j}) = Cardinality(T) - 1
  <2>1. IsFiniteSet(T)
    BY <1>2, <1>4, FS_Subset
  <2> QED BY <1>4, <2>1, FS_RemoveElement
<1>8. IsFiniteSet(S) /\ Cardinality(S) <= Cardinality(T \ {j})
  <2> HIDE DEF f
  <2> QED BY <1>6, <1>7, FS_Injection
<1>9. Cardinality(S) \in Nat /\ Cardinality(T) \in Nat
  BY <1>7, <1>8, FS_CardinalityType
<1>10. Cardinality(S) # Cardinality(T)
  BY <1>7, <1>8, <1>9
<1> QED BY <1>10 DEF S, T

\* Where any two values have an order, sorting forgets the one they stood in.
LEMMA SortedAlike ==
    ASSUME NEW n \in Nat, NEW s, NEW t, NEW p, Arranges(p, n, s, t), NEW V, NEW before,
           Orders(before, V), Within(s, n, V), Within(t, n, V),
           \A u, v \in V : u = v \/ <<u, v>> \in before \/ <<v, u>> \in before
    PROVE  Sorted(s, before) = Sorted(t, before)
<1> DEFINE D == 1..n
           q == Inverse(p, D, D)
<1>1. /\ DOMAIN s = 1..n /\ DOMAIN t = 1..n /\ \A a \in 1..n : s[a] \in V /\ t[a] \in V
      /\ p \in Bijection(1..n, 1..n) /\ \A a \in 1..n : s[a] = t[p[a]]
  BY DEF Within, Arranges
<1>2. q \in Bijection(D, D) /\ \A a \in D : q[p[a]] = a
  <2> HIDE DEF D
  <2> QED BY <1>1, Fun_BijInverse DEF D
<1>3. \A a \in D : \E b \in D : p[b] = a
  <2> HIDE DEF D
  <2>1. p \in Surjection(D, D)
    BY <1>1, Fun_BijectionProperties DEF D
  <2> QED BY <2>1, Fun_SurjectionProperties
<1>4. \A a \in D : t[a] = s[q[a]]
  <2> TAKE a \in D
  <2>1. PICK b \in D : p[b] = a
    BY <1>3
  <2>2. q[a] = b /\ s[b] = t[a]
    BY <1>1, <1>2, <2>1
  <2> QED BY <2>2
<1> HIDE DEF q
<1>5. PICK f : Places(f, n, s, before)
  BY SortedPlaces
<1>6. PICK g : Places(g, n, t, before)
  BY SortedPlaces
<1>7. /\ f \in Bijection(D, D) /\ g \in Bijection(D, D)
      /\ \A i \in D : f[i] = Cardinality(NoLater(s, before, i)) /\ Sorted(s, before)[f[i]] = s[i]
      /\ \A i \in D : g[i] = Cardinality(NoLater(t, before, i)) /\ Sorted(t, before)[g[i]] = t[i]
  BY <1>5, <1>6 DEF Places
<1>8. Arranges(q, n, t, s)
  BY <1>2, <1>4 DEF Arranges
<1>9. ASSUME NEW k \in D PROVE Sorted(s, before)[k] = Sorted(t, before)[k]
  <2>1. /\ \E i \in D : f[i] = k
        /\ \E j \in D : g[j] = k
    <3> HIDE DEF D
    <3>1. f \in Surjection(D, D) /\ g \in Surjection(D, D)
      BY <1>7, Fun_BijectionProperties
    <3>2. \A i \in D : \E j \in D : f[j] = i
      BY <3>1, Fun_SurjectionProperties
    <3>3. \A i \in D : \E j \in D : g[j] = i
      BY <3>1, Fun_SurjectionProperties
    <3> QED BY <3>2, <3>3
  <2>2. PICK i \in D : f[i] = k
    BY <2>1
  <2>3. PICK j \in D : g[j] = k
    BY <2>1
  <2>4. Cardinality(NoLater(s, before, i)) = Cardinality(NoLater(t, before, j))
    BY <1>7, <2>2, <2>3
  <2>5. <<s[i], t[j]>> \notin before
    <3> SUFFICES ASSUME <<s[i], t[j]>> \in before PROVE FALSE
      OBVIOUS
    <3>1. Cardinality(NoLater(s, before, i)) # Cardinality(NoLater(t, before, j))
      BY FewerBefore
    <3> QED BY <2>4, <3>1
  <2>6. <<t[j], s[i]>> \notin before
    <3> SUFFICES ASSUME <<t[j], s[i]>> \in before PROVE FALSE
      OBVIOUS
    <3>1. Cardinality(NoLater(t, before, j)) # Cardinality(NoLater(s, before, i))
      BY <1>8, FewerBefore
    <3> QED BY <2>4, <3>1
  <2>7. s[i] = t[j]
    BY <1>1, <2>5, <2>6
  <2> QED BY <1>7, <2>2, <2>3, <2>7
<1>10. /\ DOMAIN Sorted(s, before) = D /\ DOMAIN Sorted(t, before) = D
      /\ Sorted(s, before) = [k \in D |-> Sorted(s, before)[k]]
      /\ Sorted(t, before) = [k \in D |-> Sorted(t, before)[k]]
  BY <1>1 DEF Sorted
<1> HIDE DEF D
<1> QED BY <1>9, <1>10

\* Sorting neither drops nor adds an entry.
LEMMA SortedHolds ==
    ASSUME NEW s, NEW n \in Nat, NEW before, NEW V, Orders(before, V), Within(s, n, V)
    PROVE  ToSet(Sorted(s, before)) = ToSet(s)
<1>1. PICK f : Places(f, n, s, before)
  BY SortedPlaces
<1>2. /\ f \in Bijection(1..n, 1..n)
      /\ \A i \in 1..n : Sorted(s, before)[f[i]] = s[i]
  BY <1>1 DEF Places
<1>3. f \in [1..n -> 1..n] /\ \A k \in 1..n : \E i \in 1..n : f[i] = k
  <2> DEFINE D == 1..n
  <2> HIDE DEF D
  <2>1. f \in [D -> D] /\ f \in Surjection(D, D)
    BY <1>2, Fun_BijectionProperties DEF D
  <2>2. \A k \in D : \E i \in D : f[i] = k
    BY <2>1, Fun_SurjectionProperties
  <2> QED BY <2>1, <2>2 DEF D
<1>4. DOMAIN s = 1..n /\ DOMAIN Sorted(s, before) = 1..n
  BY DEF Within, Sorted
<1>5. \A k \in 1..n : \E i \in 1..n : Sorted(s, before)[k] = s[i]
  BY <1>2, <1>3
<1>6. \A i \in 1..n : \E k \in 1..n : Sorted(s, before)[k] = s[i]
  BY <1>2, <1>3
<1> DEFINE r == Sorted(s, before)
<1>7. DOMAIN r = DOMAIN s /\ \A k \in DOMAIN r : \E i \in DOMAIN s : r[k] = s[i]
  BY <1>4, <1>5
<1>8. \A i \in DOMAIN s : \E k \in DOMAIN r : r[k] = s[i]
  BY <1>4, <1>6
<1> HIDE DEF r
<1>9. ToSet(r) = ToSet(s)
  BY <1>7, <1>8 DEF ToSet
<1> QED BY <1>9 DEF r

\* Before is the order of a dictionary: strict, and of any two strings one is first.
LEMMA BeforeIrreflexive ==
    ASSUME NEW s \in Seq(Int)
    PROVE  ~Before(s, s)
<1> SUFFICES ASSUME NEW n \in 0..(Len(s) - 1), n = Len(s) \/ s[n + 1] < s[n + 1] PROVE FALSE
  BY DEF Before
<1>1. Len(s) \in Nat /\ n + 1 \in 1..Len(s)
  OBVIOUS
<1>2. s[n + 1] \in Int
  BY <1>1
<1> QED BY <1>1, <1>2

LEMMA BeforeTransitive ==
    ASSUME NEW s \in Seq(Int), NEW t \in Seq(Int), NEW u \in Seq(Int), Before(s, t), Before(t, u)
    PROVE  Before(s, u)
<1>1. PICK n \in 0..(Len(t) - 1) :
        n <= Len(s) /\ (\A i \in 1..n : s[i] = t[i]) /\ (n = Len(s) \/ s[n + 1] < t[n + 1])
  BY DEF Before
<1>2. PICK m \in 0..(Len(u) - 1) :
        m <= Len(t) /\ (\A i \in 1..m : t[i] = u[i]) /\ (m = Len(t) \/ t[m + 1] < u[m + 1])
  BY DEF Before
<1>3. /\ Len(s) \in Nat /\ Len(t) \in Nat /\ Len(u) \in Nat
      /\ \A i \in 1..Len(s) : s[i] \in Int
      /\ \A i \in 1..Len(t) : t[i] \in Int
      /\ \A i \in 1..Len(u) : u[i] \in Int
  OBVIOUS
<1>4. CASE n < m
  <2>1. n \in 0..(Len(u) - 1) /\ n + 1 \in 1..m /\ \A i \in 1..n : i \in 1..m
    BY <1>3, <1>4
  <2>2. \A i \in 1..n : s[i] = u[i]
    BY <1>1, <1>2, <2>1
  <2>3. t[n + 1] = u[n + 1]
    BY <1>2, <2>1
  <2> QED BY <1>1, <2>1, <2>2, <2>3 DEF Before
<1>5. CASE n = m
  <2>1. m # Len(t) /\ t[n + 1] < u[n + 1]
    BY <1>2, <1>3, <1>5
  <2>2. \A i \in 1..n : s[i] = u[i]
    BY <1>1, <1>2, <1>5
  <2>3. n = Len(s) \/ s[n + 1] < u[n + 1]
    <3>1. CASE n # Len(s)
      <4>1. n + 1 \in 1..Len(s) /\ n + 1 \in 1..Len(t) /\ n + 1 \in 1..Len(u)
        BY <1>1, <1>3, <1>5, <3>1
      <4>2. s[n + 1] \in Int /\ t[n + 1] \in Int /\ u[n + 1] \in Int
        BY <1>3, <4>1
      <4>3. s[n + 1] < t[n + 1]
        BY <1>1, <3>1
      <4> QED BY <2>1, <4>2, <4>3
    <3> QED BY <3>1
  <2> QED BY <1>1, <1>5, <2>2, <2>3 DEF Before
<1>6. CASE m < n
  <2>1. m # Len(t) /\ t[m + 1] < u[m + 1] /\ m + 1 \in 1..n
    BY <1>2, <1>3, <1>6
  <2>2. \A i \in 1..m : s[i] = u[i]
    <3>1. \A i \in 1..m : i \in 1..n
      BY <1>6
    <3> QED BY <1>1, <1>2, <3>1
  <2>3. s[m + 1] < u[m + 1]
    BY <1>1, <2>1
  <2>4. m <= Len(s)
    BY <1>1, <1>3, <1>6
  <2> QED BY <2>2, <2>3, <2>4 DEF Before
<1> QED BY <1>4, <1>5, <1>6

LEMMA BeforeTotal ==
    ASSUME NEW s \in Seq(Int), NEW t \in Seq(Int), s # t
    PROVE  Before(s, t) \/ Before(t, s)
<1> DEFINE Agree(i) == i <= Len(s) /\ i <= Len(t) /\ s[i] = t[i]
           I == {i \in Nat \ {0} : ~Agree(i)}
           m == Least(I)
           n == m - 1
<1>1. /\ Len(s) \in Nat /\ Len(t) \in Nat
      /\ DOMAIN s = 1..Len(s) /\ DOMAIN t = 1..Len(t)
      /\ \A i \in 1..Len(s) : s[i] \in Int
      /\ \A i \in 1..Len(t) : t[i] \in Int
  OBVIOUS
<1>2. Len(s) + 1 \in I
  BY <1>1
<1>3. m \in I /\ \A j \in I : m <= j
  <2>1. I \in SUBSET Nat /\ I # {}
    BY <1>2
  <2> HIDE DEF I
  <2> QED BY <2>1, LeastIsLeast
<1> HIDE DEF m
<1>4. m \in Nat \ {0} /\ ~Agree(m)
  BY <1>3
<1>5. \A i \in 1..n : Agree(i)
  <2> SUFFICES ASSUME NEW i \in 1..n, ~Agree(i) PROVE FALSE
    OBVIOUS
  <2>1. i \in Nat \ {0} /\ i < m
    BY <1>4
  <2>2. i \in I
    BY <2>1
  <2> QED BY <1>3, <1>4, <2>1, <2>2
<1>6. n \in Nat /\ n + 1 = m
  BY <1>4
<1>7. n <= Len(s) /\ n <= Len(t)
  <2>1. CASE n = 0
    BY <1>1, <2>1
  <2>2. CASE n # 0
    <3>1. n \in 1..n
      BY <1>6, <2>2
    <3>2. Agree(n)
      BY <1>5, <3>1
    <3> QED BY <3>2
  <2> QED BY <2>1, <2>2
<1>8. /\ \A i \in 1..n : s[i] = t[i]
      /\ \A i \in 1..n : t[i] = s[i]
  BY <1>5
<1> HIDE DEF n
<1>9. CASE n < Len(s) /\ n < Len(t)
  <2>1. m \in 1..Len(s) /\ m \in 1..Len(t) /\ s[m] # t[m]
    BY <1>1, <1>4, <1>6, <1>9
  <2>2. s[m] \in Int /\ t[m] \in Int
    BY <1>1, <2>1
  <2>3. s[n + 1] < t[n + 1] \/ t[n + 1] < s[n + 1]
    BY <1>6, <2>1, <2>2
  <2>4. n \in 0..(Len(t) - 1) /\ n \in 0..(Len(s) - 1)
    BY <1>1, <1>6, <1>9
  <2> QED BY <1>7, <1>8, <2>3, <2>4 DEF Before
<1>10. CASE n = Len(s) /\ n < Len(t)
  <2>1. n \in 0..(Len(t) - 1)
    BY <1>1, <1>6, <1>10
  <2> QED BY <1>7, <1>8, <1>10, <2>1 DEF Before
<1>11. CASE n = Len(t) /\ n < Len(s)
  <2>1. n \in 0..(Len(s) - 1)
    BY <1>1, <1>6, <1>11
  <2> QED BY <1>7, <1>8, <1>11, <2>1 DEF Before
<1>12. CASE n = Len(s) /\ n = Len(t)
  <2>1. DOMAIN s = DOMAIN t /\ \A i \in DOMAIN s : s[i] = t[i]
    BY <1>1, <1>8, <1>12
  <2>2. s = [i \in DOMAIN s |-> s[i]] /\ t = [i \in DOMAIN t |-> t[i]]
    OBVIOUS
  <2> QED BY <2>1, <2>2
<1>13. \/ n < Len(s) /\ n < Len(t)
       \/ n = Len(s) /\ n < Len(t)
       \/ n = Len(t) /\ n < Len(s)
       \/ n = Len(s) /\ n = Len(t)
  <2>1. Len(s) \in Nat /\ Len(t) \in Nat
    BY <1>1
  <2> HIDE DEF Agree, I
  <2> QED BY <1>6, <1>7, <2>1
<1> QED BY <1>9, <1>10, <1>11, <1>12, <1>13

--------------------------------------------------------------------------------
(* What the hashes tell. *)

\* Of what may be compared, ByID and Strings compare all.
IDOrder(V)     == {p \in V \X V : p[1].id < p[2].id}
WrittenOrder(V) == {p \in V \X V : p[1][1] < p[2][1]}
Dictionary(V)  == {p \in V \X V : Before(p[1], p[2])}

LEMMA IDsOrder ==
    ASSUME NEW V, \A u \in V : u.id \in Int
    PROVE  Orders(IDOrder(V), V)
<1>1. \A u, v \in V : <<u, v>> \in IDOrder(V) <=> u.id < v.id
  BY DEF IDOrder
<1> HIDE DEF IDOrder
<1> QED BY <1>1 DEF Orders

LEMMA WrittenOrders ==
    ASSUME NEW V, \A u \in V : u[1] \in Int
    PROVE  Orders(WrittenOrder(V), V)
<1>1. \A u, v \in V : <<u, v>> \in WrittenOrder(V) <=> u[1] < v[1]
  BY DEF WrittenOrder
<1> HIDE DEF WrittenOrder
<1> QED BY <1>1 DEF Orders

LEMMA StringsOrder ==
    ASSUME NEW V \in SUBSET Seq(Int)
    PROVE  /\ Orders(Dictionary(V), V)
           /\ \A u, v \in V : u = v \/ <<u, v>> \in Dictionary(V) \/ <<v, u>> \in Dictionary(V)
<1>1. \A u, v \in V : <<u, v>> \in Dictionary(V) <=> Before(u, v)
  BY DEF Dictionary
<1>2. \A u \in V : ~Before(u, u)
  BY BeforeIrreflexive
<1>3. \A u, v, w \in V : Before(u, v) /\ Before(v, w) => Before(u, w)
  BY BeforeTransitive
<1>4. \A u, v \in V : u = v \/ Before(u, v) \/ Before(v, u)
  BY BeforeTotal
<1>5. \A u, v, w \in V : Before(u, w) => Before(u, v) \/ Before(v, w)
  BY <1>3, <1>4
<1> HIDE DEF Dictionary
<1> QED BY <1>1, <1>2, <1>3, <1>4, <1>5 DEF Orders

\* A list is one of its own entries.
LEMMA OwnEntries ==
    ASSUME NEW S, NEW s \in Seq(S)
    PROVE  Len(s) \in Nat /\ Within(s, Len(s), ToSet(s)) /\ ToSet(s) \in SUBSET S
<1>1. Len(s) \in Nat /\ DOMAIN s = 1..Len(s) /\ \A i \in DOMAIN s : s[i] \in S
  OBVIOUS
<1>2. \A i \in 1..Len(s) : s[i] \in ToSet(s)
  BY <1>1 DEF ToSet
<1>3. ToSet(s) \in SUBSET S
  BY <1>1 DEF ToSet
<1> QED BY <1>1, <1>2, <1>3 DEF Within

\* Lists with the same entries are as long, and Arranges says how they differ.
LEMMA RearrangedLists ==
    ASSUME NEW S, NEW T, NEW s \in Seq(S), NEW t \in Seq(T), Rearranged(s, t)
    PROVE  /\ Len(s) = Len(t)
           /\ \E p : Arranges(p, Len(s), s, t)
           /\ ToSet(s) = ToSet(t)
<1> DEFINE m == Len(s)  n == Len(t)
<1>1. m \in Nat /\ n \in Nat /\ DOMAIN s = 1..m /\ DOMAIN t = 1..n
  OBVIOUS
<1> HIDE DEF m, n
<1>2. PICK p \in Bijection(1..m, 1..n) : \A i \in 1..m : s[i] = t[p[i]]
  BY <1>1 DEF Rearranged
<1> DEFINE M == 1..m  N == 1..n
<1>3. IsFiniteSet(M) /\ Cardinality(M) = m /\ Cardinality(N) = n
  BY <1>1, FS_Interval
<1>4. ExistsBijection(M, N)
  <2> HIDE DEF M, N
  <2> QED BY <1>2, Fun_ExistsBij DEF M, N
<1>5. m = n
  <2> HIDE DEF M, N
  <2> QED BY <1>3, <1>4, FS_Bijection
<1>6. p \in [M -> N] /\ \A k \in N : \E i \in M : p[i] = k
  <2> HIDE DEF M, N
  <2>1. p \in [M -> N] /\ p \in Surjection(M, N)
    BY <1>2, Fun_BijectionProperties DEF M, N
  <2>2. \A k \in N : \E i \in M : p[i] = k
    BY <2>1, Fun_SurjectionProperties
  <2> QED BY <2>1, <2>2
<1>7. Arranges(p, m, s, t)
  BY <1>2, <1>5 DEF Arranges
<1>8. ToSet(s) = ToSet(t)
  <2>1. \A i \in DOMAIN s : \E k \in DOMAIN t : s[i] = t[k]
    BY <1>1, <1>2, <1>6
  <2>2. \A k \in DOMAIN t : \E i \in DOMAIN s : s[i] = t[k]
    <3> TAKE k \in DOMAIN t
    <3>1. PICK i \in M : p[i] = k
      BY <1>1, <1>6
    <3> QED BY <1>1, <1>2, <3>1
  <2> QED BY <2>1, <2>2 DEF ToSet
<1> QED BY <1>5, <1>7, <1>8 DEF m, n

\* The order of short IDs is lost when they are sorted.
LEMMA StringsAlike ==
    ASSUME NEW s \in Seq(Seq(Int)), NEW t \in Seq(Seq(Int)), Rearranged(s, t)
    PROVE  Strings(s) = Strings(t)
<1> DEFINE n == Len(s)  V == ToSet(s)
<1>1. Len(t) = n /\ ToSet(t) = V /\ n \in Nat
  <2>1. Len(s) = Len(t) /\ ToSet(s) = ToSet(t)
    BY RearrangedLists
  <2> QED BY <2>1
<1>2. PICK p : Arranges(p, n, s, t)
  BY RearrangedLists
<1>3. Within(s, n, V) /\ Within(t, n, V)
  <2>1. Within(s, Len(s), ToSet(s)) /\ Within(t, Len(t), ToSet(t))
    BY OwnEntries
  <2> QED BY <1>1, <2>1
<1>4. V \in SUBSET Seq(Int)
  BY OwnEntries
<1>5. Strings(s) = Sorted(s, Dictionary(V)) /\ Strings(t) = Sorted(t, Dictionary(V))
  BY <1>1 DEF Strings, Dictionary
<1> HIDE DEF n, V
<1>6. /\ Orders(Dictionary(V), V)
      /\ \A u, v \in V : u = v \/ <<u, v>> \in Dictionary(V) \/ <<v, u>> \in Dictionary(V)
  BY <1>4, StringsOrder
<1>7. Sorted(s, Dictionary(V)) = Sorted(t, Dictionary(V))
  BY <1>1, <1>2, <1>3, <1>6, SortedAlike
<1> QED BY <1>5, <1>7

\* A list of numbered users; and what is written of it, in the order it has.
Numbered(list) == list \in Seq(ToSet(list)) /\ \A u \in ToSet(list) : u.id \in Int

LEMMA WrittenTyped ==
    ASSUME NEW list, Numbered(list)
    PROVE  /\ DOMAIN Written(list) = DOMAIN list /\ Written(list) \in Seq(ToSet(Written(list)))
           /\ \A w \in ToSet(Written(list)) : w[1] \in Int
           /\ Len(Written(list)) = Len(list)
<1>1. Len(list) \in Nat /\ DOMAIN list = 1..Len(list)
  BY DEF Numbered
<1> DEFINE w == Written(list)
<1>2. DOMAIN w = 1..Len(list) /\ w = [i \in 1..Len(list) |-> w[i]]
  BY <1>1 DEF Written
<1>3. \A i \in 1..Len(list) : w[i][1] \in Int
  <2>1. \A i \in 1..Len(list) : w[i][1] = list[i].id
    BY <1>1 DEF Written
  <2>2. \A i \in 1..Len(list) : list[i].id \in Int
    BY <1>1 DEF Numbered, ToSet
  <2> QED BY <2>1, <2>2
<1> HIDE DEF w
<1>4. \A i \in 1..Len(list) : w[i] \in ToSet(w)
  BY <1>2 DEF ToSet
<1>5. w \in Seq(ToSet(w)) /\ Len(w) = Len(list)
  BY <1>1, <1>2, <1>4
<1>6. \A x \in ToSet(w) : x[1] \in Int
  BY <1>2, <1>3 DEF ToSet
<1> QED BY <1>1, <1>2, <1>5, <1>6 DEF w

\* ID, speed limit and UUID are written of the users in the order of their IDs.
LEMMA WrittenByID ==
    ASSUME NEW list, Numbered(list)
    PROVE  Written(ByID(list)) = Sorted(Written(list), WrittenOrder(ToSet(Written(list))))
<1> DEFINE D == DOMAIN list
           w == Written(list)
           b == IDOrder(ToSet(list))
           c == WrittenOrder(ToSet(w))
           S == ByID(list)
           place(i) == Cardinality(NoLater(list, b, i))
           at(k) == CHOOSE i \in D : place(i) = k
<1>1. DOMAIN w = D /\ \A i \in D : w[i] = <<list[i].id, list[i].speed, list[i].uuid>>
  BY DEF Written
<1>2. \A i, j \in D : <<list[i], list[j]>> \in b <=> list[i].id < list[j].id
  BY DEF IDOrder, ToSet
<1>3. \A i, j \in D : <<w[i], w[j]>> \in c <=> list[i].id < list[j].id
  <2>1. \A i \in D : w[i] \in ToSet(w) /\ w[i][1] = list[i].id
    BY <1>1 DEF ToSet
  <2> HIDE DEF w, D
  <2> QED BY <2>1 DEF WrittenOrder
<1>4. \A i \in D : NoLater(w, c, i) = NoLater(list, b, i)
  <2> HIDE DEF w, b, c
  <2> QED BY <1>1, <1>2, <1>3 DEF NoLater
<1>5. S = [k \in D |-> list[at(k)]]
  BY DEF ByID, Sorted, NoLater, IDOrder
<1>6. Sorted(w, c) = [k \in D |-> w[CHOOSE i \in D : Cardinality(NoLater(w, c, i)) = k]]
  <2> HIDE DEF w, c
  <2> QED BY <1>1 DEF Sorted, NoLater
<1>7. \A k \in D : (CHOOSE i \in D : Cardinality(NoLater(w, c, i)) = k) = at(k)
  <2> HIDE DEF w, b, c, D
  <2> QED BY <1>4
<1>8. ASSUME NEW k \in D PROVE at(k) \in D
  <2>1. Orders(b, ToSet(list))
    BY IDsOrder DEF Numbered
  <2>2. Len(list) \in Nat /\ D = 1..Len(list) /\ Within(list, Len(list), ToSet(list))
    BY OwnEntries DEF Numbered
  <2> HIDE DEF b, D, at
  <2>3. PICK f : Places(f, Len(list), list, b)
    BY <2>1, <2>2, SortedPlaces
  <2>4. f \in Surjection(D, D) /\ \A i \in D : f[i] = place(i)
    BY <2>2, <2>3, Fun_BijectionProperties DEF Places
  <2>5. \E i \in D : place(i) = k
    BY <2>4, Fun_SurjectionProperties
  <2> HIDE DEF place
  <2> QED BY <2>5 DEF at
<1>9. Sorted(w, c) = [k \in D |-> w[at(k)]]
  <2> HIDE DEF w, c, D, at
  <2> QED BY <1>6, <1>7
<1>10. Written(S) = [k \in D |-> <<S[k].id, S[k].speed, S[k].uuid>>]
  <2> HIDE DEF at, D
  <2> QED BY <1>5 DEF Written
<1>11. \A k \in D : <<S[k].id, S[k].speed, S[k].uuid>> = w[at(k)]
  <2> HIDE DEF at, D, w, S
  <2> QED BY <1>1, <1>5, <1>8
<1> HIDE DEF at, D, S
<1>12. Written(S) = Sorted(w, c)
  <2> HIDE DEF w, c
  <2> QED BY <1>9, <1>10, <1>11
<1> QED BY <1>12 DEF S

\* Lists that are written alike but for their order have one hash, where no two
\* users have one ID.
LEMMA UsersAlike ==
    ASSUME NEW k, NEW l, Numbered(k), Numbered(l), Rearranged(Written(k), Written(l)),
           \A i, j \in DOMAIN l : i # j => l[i].id # l[j].id
    PROVE  hashUsers(k) = hashUsers(l)
<1> DEFINE v == Written(k)
           w == Written(l)
           n == Len(w)
           V == ToSet(w)
           b == WrittenOrder(V)
<1>1. /\ v \in Seq(ToSet(v)) /\ Len(v) = Len(k)
      /\ w \in Seq(ToSet(w)) /\ Len(w) = Len(l) /\ DOMAIN w = DOMAIN l
      /\ \A x \in V : x[1] \in Int
  BY WrittenTyped
<1>2. \A i \in DOMAIN l : w[i][1] = l[i].id
  BY DEF Written
<1> HIDE DEF v, w
<1>3. n \in Nat /\ Within(w, n, V)
  BY <1>1, OwnEntries
<1>4. Rearranged(v, w)
  BY DEF v, w
<1>5. Len(v) = n /\ ToSet(v) = V
  BY <1>1, <1>4, RearrangedLists
<1>6. PICK p : Arranges(p, Len(v), v, w)
  BY <1>1, <1>4, RearrangedLists
<1>7. Within(v, n, V)
  <2>1. Within(v, Len(v), ToSet(v))
    BY <1>1, OwnEntries
  <2> QED BY <1>5, <2>1
<1>8. Orders(b, V)
  BY <1>1, WrittenOrders
<1>9. \A x, y \in V : x = y \/ <<x, y>> \in b \/ <<y, x>> \in b
  <2>1. \A x, y \in V : <<x, y>> \in b <=> x[1] < y[1]
    BY DEF WrittenOrder
  <2>2. \A i, j \in DOMAIN w : i # j => w[i][1] # w[j][1]
    BY <1>1, <1>2
  <2>3. \A x, y \in V : x = y \/ x[1] # y[1]
    BY <2>2 DEF ToSet
  <2> HIDE DEF b, V
  <2> TAKE x, y \in V
  <2>4. x[1] \in Int /\ y[1] \in Int
    BY <1>1
  <2>5. x[1] < y[1] \/ y[1] < x[1] \/ x[1] = y[1]
    BY <2>4
  <2> QED BY <2>1, <2>3, <2>5
<1> HIDE DEF b
<1>10. Sorted(v, b) = Sorted(w, b)
  BY <1>3, <1>5, <1>6, <1>7, <1>8, <1>9, SortedAlike
<1>11. Written(ByID(k)) = Sorted(v, b) /\ Written(ByID(l)) = Sorted(w, b)
  <2>1. Written(ByID(k)) = Sorted(v, WrittenOrder(ToSet(v)))
    BY WrittenByID DEF v
  <2>2. Written(ByID(l)) = Sorted(w, WrittenOrder(ToSet(w)))
    BY WrittenByID DEF w
  <2> QED BY <1>5, <2>1, <2>2 DEF b
<1>12. k = <<>> <=> l = <<>>
  <2>1. (k = <<>> <=> Len(k) = 0) /\ (l = <<>> <=> Len(l) = 0)
    BY DEF Numbered
  <2> QED BY <1>1, <1>5, <2>1
<1> QED BY <1>10, <1>11, <1>12 DEF hashUsers

\* And one hash means the same users, as far as the engine is told of them.
LEMMA UsersTold ==
    ASSUME NEW k, NEW l, Numbered(k), Numbered(l), hashUsers(k) = hashUsers(l)
    PROVE  {<<u.id, u.uuid>> : u \in ToSet(k)} = {<<u.id, u.uuid>> : u \in ToSet(l)}
<1> DEFINE Told(S) == {<<u.id, u.uuid>> : u \in S}
           Read(w) == {<<x[1], x[3]>> : x \in ToSet(w)}
<1>1. ASSUME NEW list, Numbered(list)
      PROVE  Told(ToSet(list)) = Read(Written(ByID(list)))
  <2>1. Orders(IDOrder(ToSet(list)), ToSet(list))
    BY <1>1, IDsOrder DEF Numbered
  <2>2. Len(list) \in Nat /\ Within(list, Len(list), ToSet(list))
    BY <1>1, OwnEntries DEF Numbered
  <2>3. ToSet(ByID(list)) = ToSet(list)
    BY <2>1, <2>2, SortedHolds DEF ByID, IDOrder
  <2>4. ASSUME NEW s PROVE Told(ToSet(s)) = Read(Written(s))
    <3> DEFINE line(i) == <<s[i].id, s[i].speed, s[i].uuid>>
    <3>1. ToSet(Written(s)) = {line(i) : i \in DOMAIN s}
      BY DEF ToSet, Written
    <3>2. \A i : line(i)[1] = s[i].id /\ line(i)[3] = s[i].uuid
      OBVIOUS
    <3> HIDE DEF line
    <3>3. Read(Written(s)) = {<<line(i)[1], line(i)[3]>> : i \in DOMAIN s}
      BY <3>1
    <3>4. Read(Written(s)) = {<<s[i].id, s[i].uuid>> : i \in DOMAIN s}
      BY <3>2, <3>3
    <3>5. Told(ToSet(s)) = {<<s[i].id, s[i].uuid>> : i \in DOMAIN s}
      BY DEF ToSet
    <3> QED BY <3>4, <3>5
  <2> HIDE DEF Told, Read
  <2> QED BY <2>3, <2>4
<1> HIDE DEF Told, Read
<1>2. CASE k = <<>> \/ l = <<>>
  <2>1. \A list : list # <<>> => hashUsers(list) = <<"users", Written(ByID(list))>>
    BY DEF hashUsers
  <2>2. hashUsers(<<>>) = <<"empty">>
    BY DEF hashUsers
  <2>3. \A x : <<"empty">> # <<"users", x>>
    OBVIOUS
  <2>4. k = l
    BY <1>2, <2>1, <2>2, <2>3
  <2> QED BY <2>4
<1>3. CASE k # <<>> /\ l # <<>>
  <2>1. Written(ByID(k)) = Written(ByID(l))
    BY <1>3 DEF hashUsers
  <2>2. Told(ToSet(k)) = Told(ToSet(l))
    BY <1>1, <2>1
  <2> QED BY <2>2 DEF Told
<1> QED BY <1>2, <1>3

\* What is kept of a list is a list.
LEMMA AtKeeps ==
    ASSUME NEW S, NEW s \in Seq(S), NEW I \in SUBSET DOMAIN s
    PROVE  At(s, I) \in Seq(S)
<1> DEFINE R == {p \in I \X I : p[1] <= p[2]}
           n == Cardinality(I)
           at(k) == CHOOSE i \in I : Cardinality({j \in I : j <= i}) = k
<1>1. /\ Len(s) \in Nat /\ DOMAIN s = 1..Len(s) /\ IsFiniteSet(1..Len(s))
      /\ \A i \in DOMAIN s : s[i] \in S
  BY FS_Interval
<1>2. IsFiniteSet(I)
  BY <1>1, FS_Subset
<1>3. \A i \in I : i \in Int
  BY <1>1
<1>4. \A i, j \in I : <<j, i>> \in R <=> j <= i
  OBVIOUS
<1> HIDE DEF R
<1>5. Numbers(I, R) \in Bijection(I, 1..n)
  <2>1. \A x \in I : <<x, x>> \in R
    BY <1>3, <1>4
  <2>2. \A x, y \in I : x <= y \/ y <= x
    BY <1>3
  <2>3. \A x, y \in I : <<x, y>> \in R \/ <<y, x>> \in R
    BY <1>4, <2>2
  <2>4. \A x, y \in I : x # y /\ <<x, y>> \in R => <<y, x>> \notin R
    BY <1>3, <1>4
  <2>5. \A x, y, z \in I : <<x, y>> \in R /\ <<y, z>> \in R => <<x, z>> \in R
    BY <1>3, <1>4
  <2> QED BY <1>2, <2>1, <2>3, <2>4, <2>5, Ranks
<1>6. \A i \in I : Numbers(I, R)[i] = Cardinality({j \in I : j <= i})
  <2>1. \A i \in I : {j \in I : <<j, i>> \in R} = {j \in I : j <= i}
    BY <1>4
  <2> QED BY <2>1 DEF Numbers
<1>7. ASSUME NEW k \in 1..n PROVE at(k) \in I
  <2>1. \E i \in I : Numbers(I, R)[i] = k
    <3> DEFINE N == 1..n
    <3> HIDE DEF N
    <3>1. Numbers(I, R) \in Surjection(I, N)
      BY <1>5, Fun_BijectionProperties DEF N
    <3>2. \A m \in N : \E i \in I : Numbers(I, R)[i] = m
      BY <3>1, Fun_SurjectionProperties
    <3> QED BY <3>2 DEF N
  <2>2. \E i \in I : Cardinality({j \in I : j <= i}) = k
    BY <1>6, <2>1
  <2> QED BY <2>2
<1>8. n \in Nat
  BY <1>2, FS_CardinalityType
<1>9. At(s, I) = [k \in 1..n |-> s[at(k)]]
  BY DEF At
<1> HIDE DEF at, n
<1>10. \A k \in 1..n : s[at(k)] \in S
  BY <1>1, <1>7
<1> QED BY <1>8, <1>9, <1>10

\* A config has every field, and strings for short IDs.
LEMMA ConfigTyped ==
    ASSUME NEW c \in Configs
    PROVE  /\ ConfigOf[c] = [f \in NodeConfigFields |-> ConfigOf[c][f]]
           /\ ConfigOf[c].short_id \in Seq(Seq(Int))
<1> DEFINE body == BodyOf[c]
           parts == body.short_id.parts
<1>1. body = [f \in NodeConfigFields |-> body[f]] /\ parts \in Seq(Seq(Int))
  BY BodiesTyped
<1>2. NodeConfig(body) # Undecodable /\ ConfigOf[c] = NodeConfig(body)
  BY Decodable DEF ConfigOf
<1> HIDE DEF body
<1>3. ConfigOf[c] = [body EXCEPT !.short_id = decodeShortIDs(@),
                                 !.push = FlexibleInt(@), !.pull = FlexibleInt(@)]
  BY <1>2 DEF NodeConfig
<1>4. /\ "short_id" \in NodeConfigFields /\ "push" \in NodeConfigFields
      /\ "pull" \in NodeConfigFields
  BY DEF NodeConfigFields
<1>5. ConfigOf[c].short_id = cleanShortIDs(parts)
  BY <1>1, <1>3, <1>4 DEF decodeShortIDs
<1>6. cleanShortIDs(parts) \in Seq(Seq(Int))
  <2> DEFINE I == {i \in DOMAIN parts : parts[i] # <<>>}
  <2>1. I \in SUBSET DOMAIN parts /\ cleanShortIDs(parts) = At(parts, I)
    BY DEF cleanShortIDs
  <2> HIDE DEF I, parts
  <2> QED BY <1>1, <2>1, AtKeeps
<1>7. DOMAIN ConfigOf[c] = NodeConfigFields /\ ConfigOf[c] = [f \in DOMAIN ConfigOf[c] |-> ConfigOf[c][f]]
  BY <1>1, <1>3
<1> QED BY <1>5, <1>6, <1>7

\* The spelling of the routes is not hashed, and not built from.
LEMMA RoutesTold ==
    ASSUME NEW r, NEW s, hashGenericValue(r) = hashGenericValue(s)
    PROVE  /\ RoutesOK(r) <=> RoutesOK(s)
           /\ RoutesOK(r) => parseRouteOptions(r) = parseRouteOptions(s)
<1>1. CASE r.form = "none"
  <2>1. s.form = "none"
    <3>1. \A x, y, z : <<>> # <<x, y, z>>
      OBVIOUS
    <3> QED BY <1>1, <3>1 DEF hashGenericValue
  <2>2. parseRouteOptions(r) = NoRoute /\ parseRouteOptions(s) = NoRoute
    BY <1>1, <2>1, Zenon DEF parseRouteOptions
  <2> QED BY <1>1, <2>1, <2>2 DEF RoutesOK
<1>2. CASE r.form # "none"
  <2>1. r.form = s.form /\ r.rules = s.rules /\ r.final = s.final
    <3>1. \A x, y, z : <<>> # <<x, y, z>>
      OBVIOUS
    <3>2. s.form # "none"
      BY <1>2, <3>1 DEF hashGenericValue
    <3> QED BY <1>2, <3>2 DEF hashGenericValue
  <2>2. RoutesOK(r) <=> RoutesOK(s)
    BY <2>1 DEF RoutesOK
  <2>3. CASE r.form = "object"
    <3>1. parseRouteOptions(r) = [rules |-> r.rules, final |-> r.final]
      BY <2>3, Zenon DEF parseRouteOptions
    <3>2. s.form = "object"
      BY <2>1, <2>3
    <3>3. parseRouteOptions(s) = [rules |-> s.rules, final |-> s.final]
      BY <3>2, Zenon DEF parseRouteOptions
    <3> QED BY <2>1, <2>2, <3>1, <3>3
  <2>4. CASE r.form = "rules"
    <3>1. parseRouteOptions(r) = [rules |-> r.rules, final |-> ""]
      BY <2>4, Zenon DEF parseRouteOptions
    <3>2. s.form = "rules"
      BY <2>1, <2>4
    <3>3. parseRouteOptions(s) = [rules |-> s.rules, final |-> ""]
      BY <3>2, Zenon DEF parseRouteOptions
    <3> QED BY <2>1, <2>2, <3>1, <3>3
  <2>5. CASE r.form = "legacy"
    <3>1. parseRouteOptions(r) = convertLegacyRouteRules(r.rules)
      BY <2>5, Zenon DEF parseRouteOptions
    <3>2. s.form = "legacy"
      BY <2>1, <2>5
    <3>3. parseRouteOptions(s) = convertLegacyRouteRules(s.rules)
      BY <3>2, Zenon DEF parseRouteOptions
    <3> QED BY <2>1, <2>2, <3>1, <3>3
  <2> QED BY <1>2, <2>2, <2>3, <2>4, <2>5 DEF RoutesOK
<1> QED BY <1>1, <1>2

\* Configs with one hash are built alike, but for where their short IDs are cut.
LEMMA BuiltAlike ==
    ASSUME NEW c \in Configs, NEW d \in Configs, hashConfig(ConfigOf[c]) = hashConfig(ConfigOf[d]),
           NEW k, NEW l, {<<u.id, u.uuid>> : u \in ToSet(k)} = {<<u.id, u.uuid>> : u \in ToSet(l)}
    PROVE  RunTogether(BuildConfig(ConfigOf[c], k, LocalSettings))
           = RunTogether(BuildConfig(ConfigOf[d], l, LocalSettings))
<1> DEFINE x == ConfigOf[c]
           y == ConfigOf[d]
           o == BuildConfig(x, k, LocalSettings)
           p == BuildConfig(y, l, LocalSettings)
<1>1. /\ x.protocol = y.protocol /\ x.listen_ip = y.listen_ip /\ x.server_port = y.server_port
      /\ x.network = y.network /\ x.flow = y.flow /\ x.dest_port = y.dest_port
      /\ x.server_name = y.server_name /\ x.private_key = y.private_key
      /\ FlattenSeq(Strings(x.short_id)) = FlattenSeq(Strings(y.short_id))
      /\ hashGenericValue(x.routes) = hashGenericValue(y.routes)
  <2> HIDE DEF x, y
  <2>1. hashConfig(x) = hashConfig(y)
    BY DEF x, y
  <2> QED BY <2>1 DEF hashConfig
<1> HIDE DEF x, y
<1>2. /\ RoutesOK(x.routes) <=> RoutesOK(y.routes)
      /\ RoutesOK(x.routes) => parseRouteOptions(x.routes) = parseRouteOptions(y.routes)
  BY <1>1, RoutesTold
<1>3. Supported(x) <=> Supported(y)
  BY <1>1, <1>2 DEF Supported
<1>4. CASE ~Supported(x)
  <2>1. o = NotBuilt /\ p = NotBuilt
    BY <1>3, <1>4 DEF BuildConfig
  <2> QED BY <2>1 DEF x, y
<1>5. CASE Supported(x)
  <2>1. parseRouteOptions(x.routes) = parseRouteOptions(y.routes)
    BY <1>2, <1>5 DEF Supported
  <2>2. Routes(x.routes, LocalSettings.googleIPv6) = Routes(y.routes, LocalSettings.googleIPv6)
    BY <2>1 DEF Routes
  <2>3. Flow(x) = Flow(y)
    BY <1>1 DEF Flow
  <2>4. {<<u.id, u.uuid, Flow(x)>> : u \in ToSet(k)} = {<<u.id, u.uuid, Flow(y)>> : u \in ToSet(l)}
    <3> DEFINE two(u) == <<u.id, u.uuid>>
               more(v, z) == <<v[1], v[2], z>>
    <3>1. \A u, z : <<u.id, u.uuid, z>> = more(two(u), z)
      OBVIOUS
    <3>2. {two(u) : u \in ToSet(k)} = {two(u) : u \in ToSet(l)}
      OBVIOUS
    <3> HIDE DEF two, more
    <3>3. ASSUME NEW z
          PROVE  {more(two(u), z) : u \in ToSet(k)} = {more(two(u), z) : u \in ToSet(l)}
      <4>1. \A S : {more(two(u), z) : u \in S} = {more(v, z) : v \in {two(u) : u \in S}}
        OBVIOUS
      <4> QED BY <3>2, <4>1
    <3>4. \A u : more(two(u), Flow(y)) = more(two(u), Flow(x))
      BY <2>3
    <3>5. {more(two(u), Flow(y)) : u \in ToSet(l)} = {more(two(u), Flow(x)) : u \in ToSet(l)}
      BY <3>4
    <3>6. {more(two(u), Flow(x)) : u \in ToSet(k)} = {more(two(u), Flow(x)) : u \in ToSet(l)}
      BY <3>3
    <3>7. {more(two(u), Flow(x)) : u \in ToSet(k)} = {more(two(u), Flow(y)) : u \in ToSet(l)}
      BY <3>5, <3>6
    <3> QED BY <3>1, <3>7
  <2> DEFINE Fields == {"built", "log", "listen", "users", "reality", "outbounds", "route", "clash"}
  <2>5. /\ o.built /\ p.built
        /\ o.short_id = x.short_id /\ p.short_id = y.short_id
        /\ DOMAIN o = Fields \cup {"short_id"} /\ DOMAIN p = Fields \cup {"short_id"}
    <3>1. o.built /\ o.short_id = x.short_id
      BY <1>5 DEF BuildConfig
    <3>2. p.built /\ p.short_id = y.short_id
      BY <1>3, <1>5 DEF BuildConfig
    <3>3. DOMAIN o = Fields \cup {"short_id"}
      BY <1>5 DEF BuildConfig
    <3>4. DOMAIN p = Fields \cup {"short_id"}
      BY <1>3, <1>5 DEF BuildConfig
    <3> HIDE DEF o, p
    <3> QED BY <3>1, <3>2, <3>3, <3>4
  <2>6. o.built = p.built /\ o.log = p.log /\ o.clash = p.clash /\ o.outbounds = p.outbounds
    BY <1>3, <1>5 DEF BuildConfig
  <2>7. o.listen = p.listen /\ o.reality = p.reality
    BY <1>1, <1>3, <1>5 DEF BuildConfig
  <2>8. o.users = p.users /\ o.route = p.route
    <3>1. /\ o.users = {<<u.id, u.uuid, Flow(x)>> : u \in ToSet(k)}
          /\ o.route = Routes(x.routes, LocalSettings.googleIPv6)
      BY <1>5 DEF BuildConfig
    <3>2. /\ p.users = {<<u.id, u.uuid, Flow(y)>> : u \in ToSet(l)}
          /\ p.route = Routes(y.routes, LocalSettings.googleIPv6)
      BY <1>3, <1>5 DEF BuildConfig
    <3> QED BY <2>2, <2>4, <3>1, <3>2
  <2> HIDE DEF o, p
  <2>9. \A f \in Fields : o[f] = p[f]
    BY <2>6, <2>7, <2>8, <2>5
  <2> HIDE DEF Fields
  <2>10. RunTogether(o) = [f \in Fields \cup {"short_id"} |->
                              IF f = "short_id" THEN FlattenSeq(Strings(x.short_id)) ELSE o[f]]
    BY <2>5 DEF RunTogether
  <2>11. RunTogether(p) = [f \in Fields \cup {"short_id"} |->
                              IF f = "short_id" THEN FlattenSeq(Strings(y.short_id)) ELSE p[f]]
    BY <2>5 DEF RunTogether
  <2>12. RunTogether(o) = RunTogether(p)
    BY <1>1, <2>9, <2>10, <2>11
  <2> QED BY <2>12 DEF o, p, x, y
<1> QED BY <1>4, <1>5

\* Configs that differ only in the order of their short IDs and in the spelling
\* of their routes have one hash.
LEMMA ConfigsAlike ==
    ASSUME NEW c \in Configs, NEW d \in Configs, SameConfig(c, d)
    PROVE  hashConfig(ConfigOf[c]) = hashConfig(ConfigOf[d])
<1> DEFINE x == ConfigOf[c]
           y == ConfigOf[d]
<1>1. /\ x = [f \in NodeConfigFields |-> x[f]] /\ y = [f \in NodeConfigFields |-> y[f]]
      /\ x.short_id \in Seq(Seq(Int)) /\ y.short_id \in Seq(Seq(Int))
  BY ConfigTyped
<1>2. /\ [x EXCEPT !.short_id = <<>>, !.routes = <<@.form, @.rules, @.final>>]
         = [y EXCEPT !.short_id = <<>>, !.routes = <<@.form, @.rules, @.final>>]
      /\ Rearranged(x.short_id, y.short_id)
  BY DEF SameConfig, ConfigData
<1> HIDE DEF x, y
<1>3. Strings(x.short_id) = Strings(y.short_id)
  BY <1>1, <1>2, StringsAlike
<1>4. \A f \in NodeConfigFields \ {"short_id", "routes"} : x[f] = y[f]
  BY <1>1, <1>2
<1>5. <<x.routes.form, x.routes.rules, x.routes.final>>
      = <<y.routes.form, y.routes.rules, y.routes.final>>
  BY <1>1, <1>2 DEF NodeConfigFields
<1>6. hashGenericValue(x.routes) = hashGenericValue(y.routes)
  BY <1>5 DEF hashGenericValue
<1>7. /\ x.protocol = y.protocol /\ x.listen_ip = y.listen_ip /\ x.server_port = y.server_port
      /\ x.network = y.network /\ x.tls = y.tls /\ x.flow = y.flow
      /\ x.allow_insecure = y.allow_insecure /\ x.dest_port = y.dest_port
      /\ x.server_name = y.server_name /\ x.public_key = y.public_key
      /\ x.private_key = y.private_key /\ x.push = y.push /\ x.pull = y.pull
  BY <1>4 DEF NodeConfigFields
<1>8. hashConfig(x) = hashConfig(y)
  BY <1>3, <1>6, <1>7 DEF hashConfig
<1> QED BY <1>8 DEF x, y

\* What Syncer compares is what hashUsers and hashConfig give.
LEMMA HashesTell ==
    /\ \A k, l \in UserLists :
           UserHash[k] = UserHash[l] <=> hashUsers(ListOf[k]) = hashUsers(ListOf[l])
    /\ \A c, d \in Configs :
           ConfigHash[c] = ConfigHash[d] <=> hashConfig(ConfigOf[c]) = hashConfig(ConfigOf[d])
<1> DEFINE h(l) == hashUsers(ListOf[l])
           g(c) == hashConfig(ConfigOf[c])
           List(v) == CHOOSE m \in UserLists : h(m) = v
           Config(v) == CHOOSE e \in Configs : g(e) = v
<1>1. /\ \A l \in UserLists : UserHash[l] = List(h(l))
      /\ \A c \in Configs : ConfigHash[c] = Config(g(c))
  BY Hashed DEF UserHashes, ConfigHashes
<1> HIDE DEF h, g
<1>2. /\ \A l \in UserLists : h(List(h(l))) = h(l)
      /\ \A c \in Configs : g(Config(g(c))) = g(c)
  OBVIOUS
<1> HIDE DEF List, Config
<1>3. /\ \A k, l \in UserLists : UserHash[k] = UserHash[l] <=> h(k) = h(l)
      /\ \A c, d \in Configs : ConfigHash[c] = ConfigHash[d] <=> g(c) = g(d)
  BY <1>1, <1>2
<1> QED BY <1>3 DEF h, g

--------------------------------------------------------------------------------
(* What Sync finds changed. *)

\* The hashes are those of what the engine holds, or would go back to, even while
\* Close has emptied it under a reload.
HashesHeld ==
    ~Booting =>
        /\ spc # "installed" /\ engineUsers # Nil =>
              UserHash[engineUsers] = currentUserHash /\ ConfigHash[currentConfig] = currentConfigHash
        /\ spc = "installed" /\ engineUsers # Nil =>
              engineUsers = newUsers /\ currentConfig = newConfig
        /\ Reloading /\ oldUsers # Nil =>
              UserHash[oldUsers] = currentUserHash /\ ConfigHash[oldConfig] = currentConfigHash

LEMMA HeldNext ==
    ASSUME HashesHeld, [Next]_vars
    PROVE  HashesHeld'
<1> USE DEF HashesHeld, vars, panelVars, clientVars, hashVars, localVars, engineVars, boxVars,
   lifeVars, Booting, Reloading
<1>1. CASE Edit
  BY <1>1 DEF Edit
<1>2. ASSUME NEW a \in Answers, FetchUsers(a) PROVE HashesHeld'
  BY <1>2 DEF FetchUsers
<1>3. ASSUME NEW a \in Answers, FetchConfig(a) PROVE HashesHeld'
  BY <1>3 DEF FetchConfig
<1>4. CASE UpdateUsers
  BY <1>4 DEF UpdateUsers
<1>5. CASE Build
  BY <1>5 DEF Build, ReloadGoesOn, ReloadFailed
<1>6. CASE TakeOld
  BY <1>6 DEF TakeOld
<1>7. CASE CloseOld
  BY <1>7 DEF CloseOld
<1>8. ASSUME NEW ok \in BOOLEAN, StartNew(ok) PROVE HashesHeld'
  BY <1>8 DEF StartNew
<1>9. CASE RollBack
  BY <1>9 DEF RollBack, ReloadGoesOn, ReloadFailed
<1>10. ASSUME NEW ok \in BOOLEAN, StartOld(ok) PROVE HashesHeld'
  BY <1>10 DEF StartOld, ReloadGoesOn, ReloadFailed
<1>11. CASE InstallOld
  BY <1>11 DEF InstallOld, Install, ReloadFailed
<1>12. CASE InstallNew
  BY <1>12 DEF InstallNew, Install
<1>13. CASE Commit
  BY <1>13 DEF Commit
<1>14. ASSUME NEW a \in Answers, BootConfig(a) \/ BootUsers(a) PROVE HashesHeld'
  BY <1>14 DEF BootConfig, BootUsers, Die
<1>15. ASSUME NEW ok \in BOOLEAN, BootEngine(ok) PROVE HashesHeld'
  <2>1. CASE ok /\ newConfig \in Buildable
    BY <2>1, <1>15 DEF BootEngine
  <2>2. CASE ~(ok /\ newConfig \in Buildable)
    BY <2>2, <1>15 DEF BootEngine, Die
  <2> QED BY <2>1, <2>2
<1>16. CASE BeginShutdown \/ CloseTake \/ CloseInstance \/ Restart
  BY <1>16 DEF BeginShutdown, CloseTake, CloseInstance, Restart
<1>17. CASE Exit \/ Crash
  BY <1>17 DEF Exit, Crash, Die
<1>18. CASE UNCHANGED vars
  BY <1>18
<1> QED BY <1>1, <1>2, <1>3, <1>4, <1>5, <1>6, <1>7, <1>8, <1>9, <1>10, <1>11, <1>12, <1>13,
   <1>14, <1>15, <1>16, <1>17, <1>18 DEF Next, Sync, Boot, Life

\* What FetchConfig finds out of: the list of this Sync and what the engine holds.
LEMMA Found ==
    ASSUME SyncInv, SyncInv', HashesHeld, Next, spc = "limited", spc' \in {"idle", "changed"},
           newConfig' # Nil, engineUsers # Nil
    PROVE  /\ newUsers \in UserLists /\ engineUsers \in UserLists
           /\ newConfig' \in Configs /\ currentConfig \in Configs
           /\ spc' = "idle" <=> /\ UserHash[newUsers] = UserHash[engineUsers]
                                /\ ConfigHash[newConfig'] = ConfigHash[currentConfig]
<1>1. \E a \in Answers : FetchConfig(a)
  BY DEF Next, Sync, Boot, Life, Edit, FetchUsers, UpdateUsers, Build, TakeOld, CloseOld, RollBack,
         StartNew, StartOld, InstallOld, InstallNew, Commit, BootConfig, BootUsers, BootEngine,
         BeginShutdown, CloseTake, CloseInstance, Exit, Crash, Restart, Die, localVars
<1>2. spc' = "idle" <=> Unchanged(newUsers, newConfig')
  BY <1>1 DEF FetchConfig
<1>3. UserHash[engineUsers] = currentUserHash /\ ConfigHash[currentConfig] = currentConfigHash
  BY DEF HashesHeld, Booting
<1>4. newUsers \in UserLists /\ engineUsers \in UserLists
  BY DEF SyncInv, TypeOK
<1>5. currentConfig \in Configs
  BY DEF SyncInv, TypeOK, Loaded
<1>6. newConfig' \in Configs
  BY DEF SyncInv, TypeOK
<1> QED BY <1>2, <1>3, <1>4, <1>5, <1>6 DEF Unchanged

\* A Sync that finds nothing to do, from hashes alone, leaves nothing undone but
\* where the short IDs are cut: the engine runs what would be built of what the
\* panel serves now, whatever failed, was rolled back or not answered before.
THEOREM ChangesAreNoticed == Spec => NoticesAllButShortIDs
<1>1. Init => HashesHeld
  BY DEF Init, HashesHeld, Booting
<1>2. ASSUME SyncInv, SyncInv', HashesHeld, [Next]_vars, NothingToDo
      PROVE  RunTogether(OptionsOf[newUsers][newConfig'])
             = RunTogether(OptionsOf[engineUsers][currentConfig])
  <2>1. Next
    BY <1>2 DEF NothingToDo, vars
  <2>2. /\ newUsers \in UserLists /\ engineUsers \in UserLists
        /\ newConfig' \in Configs /\ currentConfig \in Configs
        /\ UserHash[newUsers] = UserHash[engineUsers]
        /\ ConfigHash[newConfig'] = ConfigHash[currentConfig]
    BY <1>2, <2>1, Found DEF NothingToDo
  <2>3. /\ hashUsers(ListOf[newUsers]) = hashUsers(ListOf[engineUsers])
        /\ hashConfig(ConfigOf[newConfig']) = hashConfig(ConfigOf[currentConfig])
    BY <2>2, HashesTell
  <2>4. Numbered(ListOf[newUsers]) /\ Numbered(ListOf[engineUsers])
    BY <2>2, ListsTyped DEF Numbered
  <2>5. {<<u.id, u.uuid>> : u \in ToSet(ListOf[newUsers])}
        = {<<u.id, u.uuid>> : u \in ToSet(ListOf[engineUsers])}
    BY <2>3, <2>4, UsersTold
  <2>6. RunTogether(BuildConfig(ConfigOf[newConfig'], ListOf[newUsers], LocalSettings))
        = RunTogether(BuildConfig(ConfigOf[currentConfig], ListOf[engineUsers], LocalSettings))
    BY <2>2, <2>3, <2>5, BuiltAlike
  <2>7. \A l \in UserLists, c \in Configs :
            OptionsOf[l][c] = BuildConfig(ConfigOf[c], ListOf[l], LocalSettings)
    BY DEF OptionsOf
  <2> QED BY <2>2, <2>6, <2>7
<1> QED BY <1>1, <1>2, Invariance, HeldNext, PTL DEF Spec, NoticesAllButShortIDs

\* And it cuts no connection for nothing: neither another order of the users or of
\* the short IDs, nor another device limit, nor another spelling of the routes
\* makes it reload.
THEOREM NoReloadForNothing == Spec => NoNeedlessReload
<1>1. Init => HashesHeld
  BY DEF Init, HashesHeld, Booting
<1>2. ASSUME SyncInv, SyncInv', HashesHeld, [Next]_vars,
             spc = "limited", spc' = "changed", engineUsers # Nil
      PROVE  ~(SameUsers(newUsers, engineUsers) /\ SameConfig(newConfig', currentConfig))
  <2> SUFFICES ASSUME SameUsers(newUsers, engineUsers), SameConfig(newConfig', currentConfig)
               PROVE  FALSE
    OBVIOUS
  <2>1. Next
    BY <1>2 DEF vars
  <2>2. newConfig' # Nil
    BY <1>2, NilIsNothing DEF SyncInv, TypeOK
  <2>3. /\ newUsers \in UserLists /\ engineUsers \in UserLists
        /\ newConfig' \in Configs /\ currentConfig \in Configs
        /\ ~(/\ UserHash[newUsers] = UserHash[engineUsers]
             /\ ConfigHash[newConfig'] = ConfigHash[currentConfig])
    BY <1>2, <2>1, <2>2, Found
  <2>4. Numbered(ListOf[newUsers]) /\ Numbered(ListOf[engineUsers])
    BY <2>3, ListsTyped DEF Numbered
  <2>5. hashUsers(ListOf[newUsers]) = hashUsers(ListOf[engineUsers])
    BY <2>4, UsersAlike DEF SameUsers, IDsApart, UserData
  <2>6. hashConfig(ConfigOf[newConfig']) = hashConfig(ConfigOf[currentConfig])
    BY <2>3, ConfigsAlike
  <2> QED BY <2>3, <2>5, <2>6, HashesTell
<1> QED BY <1>1, <1>2, Invariance, HeldNext, PTL DEF Spec, NoNeedlessReload

--------------------------------------------------------------------------------
(* The alive list. *)

\* There are as many placeholders as devices were counted, none for a negative
\* count, and they are one user's only.
LEMMA Placeholders ==
    ASSUME NEW u, NEW count \in Int
    PROVE  /\ Cardinality(ToSet(placeholderAliveIPs(u, count))) = IF count < 0 THEN 0 ELSE count
           /\ \A p \in ToSet(placeholderAliveIPs(u, count)) :
                 \E i \in Int : p = <<"remote", u, i>>
<1> DEFINE f == placeholderAliveIPs(u, count)
           T == ToSet(f)
<1>1. DOMAIN f = 1..count /\ \A i \in 1..count : f[i] = <<"remote", u, i - 1>>
  BY DEF placeholderAliveIPs
<1>2. T = {f[i] : i \in 1..count}
  BY <1>1 DEF ToSet
<1>3. f = [i \in 1..count |-> f[i]]
  BY DEF placeholderAliveIPs
<1> HIDE DEF f, T
<1>4. \A i, j \in 1..count : f[i] = f[j] => i = j
  <2> SUFFICES ASSUME NEW i \in 1..count, NEW j \in 1..count, f[i] = f[j] PROVE i = j
    OBVIOUS
  <2>1. f[i][3] = i - 1 /\ f[j][3] = j - 1
    BY <1>1
  <2> QED BY <2>1
<1>5. f \in [1..count -> T]
  BY <1>2, <1>3
<1>6. f \in Bijection(1..count, T)
  BY <1>1, <1>2, <1>4, <1>5 DEF Bijection, Injection, Surjection, IsInjective
<1>7. Cardinality(T) = Cardinality(1..count)
  <2>1. IsFiniteSet(1..count)
    BY FS_Interval
  <2> QED BY <1>6, <2>1, FS_Bijection DEF ExistsBijection
<1>8. Cardinality(1..count) = IF 1 > count THEN 0 ELSE (count - 1) + 1
  BY FS_Interval
<1>9. Cardinality(T) = IF count < 0 THEN 0 ELSE count
  BY <1>7, <1>8
<1>10. ASSUME NEW p \in T PROVE \E i \in Int : p = <<"remote", u, i>>
  <2>1. PICK i \in 1..count : p = f[i]
    BY <1>2
  <2>2. p = <<"remote", u, i - 1>> /\ i - 1 \in Int
    BY <1>1, <2>1
  <2> QED BY <2>2
<1> QED BY <1>9, <1>10 DEF f, T

\* What is decoded for a user is what the list says of it last.
LEMMA DecodedAsListed ==
    ASSUME NEW body \in AliveBodies, decodeAliveList(body) # Undecodable, NEW u \in UIDs(body)
    PROVE  /\ LastEntry(body, u).count \in Int
           /\ decodeAliveList(body).alive[u] =
                 IF body.form \in IPForms THEN LastEntry(body, u).ips
                 ELSE placeholderAliveIPs(u, LastEntry(body, u).count)
<1> DEFINE E == body.entries
           his == {i \in DOMAIN E : E[i].key = <<"num", u>>}
<1>1. E \in Seq(ToSet(E)) /\ \A e \in ToSet(E) :
          e.count \in Int /\ (e.key[1] = "num" => e.key = <<"num", e.key[2]>>)
  BY AliveTyped
<1>2. his # {}
  <2>1. PICK e \in ToSet(E) : e.key[1] = "num" /\ e.key[2] = u
    BY DEF UIDs
  <2>2. e.key = <<"num", u>>
    BY <1>1, <2>1
  <2>3. PICK i \in DOMAIN E : E[i] = e
    BY DEF ToSet
  <2> QED BY <2>2, <2>3
<1>3. PICK i \in his : \A j \in his : j <= i
  <2> DEFINE rev == {Len(E) - j : j \in his}
  <2>1. his \subseteq 1..Len(E) /\ Len(E) \in Nat
    BY <1>1
  <2> HIDE DEF his, E
  <2>2. rev \in SUBSET Nat /\ rev # {}
    <3>1. ASSUME NEW j \in his PROVE Len(E) - j \in Nat
      BY <2>1
    <3> QED BY <1>2, <3>1
  <2>3. Least(rev) \in rev /\ \A k \in rev : Least(rev) <= k
    BY <2>2, LeastIsLeast
  <2>4. PICK i \in his : Least(rev) = Len(E) - i
    BY <2>3
  <2>5. ASSUME NEW j \in his PROVE j <= i
    <3>1. Len(E) - j \in rev
      OBVIOUS
    <3>2. Len(E) - i <= Len(E) - j
      BY <2>3, <2>4, <3>1
    <3>3. i \in Nat /\ j \in Nat
      BY <2>1
    <3> QED BY <2>1, <3>2, <3>3
  <2> QED BY <2>5
<1>4. PICK k \in his : LastEntry(body, u) = E[k]
  BY <1>3 DEF LastEntry
<1>5. LastEntry(body, u) \in ToSet(E)
  BY <1>4 DEF ToSet
<1>6. decodeAliveList(body).alive[u] =
          IF body.form \in IPForms THEN LastEntry(body, u).ips
          ELSE placeholderAliveIPs(u, LastEntry(body, u).count)
  BY DEF decodeAliveList, Undecodable
<1> QED BY <1>1, <1>5, <1>6

\* A form that lists addresses does not count.
LEMMA FormsApart == IPForms \cap CountForms = {}
BY DEF IPForms, CountForms

\* So the devices of every list are counted.
LEMMA AllCount == Counting = UserLists
<1>1. ASSUME NEW l \in UserLists, NEW body \in AliveBodies, decodeAliveList(body) # Undecodable,
             NEW u \in UIDs(body)
      PROVE  Cardinality(ToSet(decodeAliveList(body).alive[u])) = Listed(body, u)
  <2>1. CASE body.form \in IPForms
    BY <1>1, <2>1, DecodedAsListed DEF Listed
  <2>2. CASE body.form \notin IPForms
    <3>1. /\ LastEntry(body, u).count \in Int
          /\ decodeAliveList(body).alive[u] = placeholderAliveIPs(u, LastEntry(body, u).count)
      BY <1>1, <2>2, DecodedAsListed
    <3> QED BY <2>2, <3>1, Placeholders DEF Listed
  <2> QED BY <2>1, <2>2
<1>2. ASSUME NEW body \in AliveBodies, decodeAliveList(body) # Undecodable,
             body.form \in CountForms, NEW u \in UIDs(body), NEW v \in UIDs(body), u # v
      PROVE  ToSet(decodeAliveList(body).alive[u]) \cap ToSet(decodeAliveList(body).alive[v]) = {}
  <2>1. body.form \notin IPForms
    BY <1>2, FormsApart
  <2>2. ASSUME NEW w \in UIDs(body), NEW p \in ToSet(decodeAliveList(body).alive[w])
        PROVE  p[2] = w
    <3>1. /\ LastEntry(body, w).count \in Int
          /\ decodeAliveList(body).alive[w] = placeholderAliveIPs(w, LastEntry(body, w).count)
      BY <1>2, <2>1, DecodedAsListed
    <3>2. \E i \in Int : p = <<"remote", w, i>>
      BY <2>2, <3>1, Placeholders
    <3> QED BY <3>2
  <2> QED BY <1>2, <2>2
<1>3. ASSUME NEW l \in UserLists PROVE CountsAlways(l)
  <2> SUFFICES ASSUME NEW body \in AliveBodies, decodeAliveList(body) # Undecodable,
                      NEW u \in {x.id : x \in ToSet(ListOf[l])} \cap UIDs(body)
               PROVE  /\ Cardinality(ToSet(decodeAliveList(body).alive[u])) = Listed(body, u)
                      /\ body.form \in CountForms =>
                            \A v \in {x.id : x \in ToSet(ListOf[l])} \cap UIDs(body) :
                               u # v => ToSet(decodeAliveList(body).alive[u])
                                        \cap ToSet(decodeAliveList(body).alive[v]) = {}
    BY DEF CountsAlways
  <2> QED BY <1>1, <1>2
<1> QED BY <1>3 DEF Counting, Those

\* In whatever form the panel lists the devices of a user the limiter knows, the
\* limiter is told of as many different ones, and where the panel only counts
\* them of none that another user has.
THEOREM DevicesAsListed == Spec => []DevicesCounted
<1>1. TypeOK => DevicesCounted
  BY AllCount DEF TypeOK, DevicesCounted
<1> QED BY <1>1, TypeCorrect, PTL
================================================================================
