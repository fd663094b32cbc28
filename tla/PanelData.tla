------------------------------- MODULE PanelData -------------------------------
(***************************************************************************)
(* What panel/client.go makes of the bodies the panel sends, and what      *)
(* core/sync.go writes into the hashes it compares them by.                *)
(*                                                                         *)
(* Short IDs are sequences of character codes: they are sorted and written *)
(* one after another.  A hash is what is written into it (SHA-256, cut to  *)
(* eight bytes, is taken to be injective); the mark after every string (a  *)
(* bar after a UUID, a NUL elsewhere) and the fixed width of every number  *)
(* keep the fields apart.                                                  *)
(***************************************************************************)
EXTENDS Integers, Sequences, FiniteSets, SequencesExt

Undecodable == [decoded |-> FALSE]

\* s at the indices in I, in their order: what a loop with a condition keeps.
At(s, I) == [k \in 1..Cardinality(I) |-> s[CHOOSE i \in I : Cardinality({j \in I : j <= i}) = k]]

--------------------------------------------------------------------------------
(* The node config. *)

\* FlexibleInt: absent, null and a blank string are 0; a number, or a string
\* around one, is that number; anything else spoils the whole body.
FlexibleIntOK(raw) == raw[1] \in {"null", "blank", "num"}
FlexibleInt(raw)   == IF raw[1] = "num" THEN raw[2] ELSE 0

\* A list, or a string cut at its commas; parts are trimmed, blank ones dropped.
cleanShortIDs(parts) == At(parts, {i \in DOMAIN parts : parts[i] # <<>>})
decodeShortIDs(raw) == cleanShortIDs(raw.parts)
ShortIDsOK(raw) == raw.form \in {"none", "text", "list"}

NodeConfigFields ==
    {"protocol", "listen_ip", "server_port", "network", "tls", "flow", "allow_insecure",
     "dest_port", "server_name", "public_key", "private_key", "short_id", "push", "pull",
     "routes"}

NodeConfig(body) ==
    IF ~ShortIDsOK(body.short_id) \/ ~FlexibleIntOK(body.push) \/ ~FlexibleIntOK(body.pull)
    THEN Undecodable
    ELSE [body EXCEPT !.short_id = decodeShortIDs(@),
                      !.push = FlexibleInt(@), !.pull = FlexibleInt(@)]

--------------------------------------------------------------------------------
(* The alive list. *)

\* Devices of which only the number is known.
OnePlaceholder(uid, count) ==               \* mutant: the index is left out of the name
    [i \in 1..count |-> <<"remote", uid, 0>>]
placeholderAliveIPs(uid, count) == [i \in 1..count |-> <<"remote", uid, i - 1>>]

IPForms    == {"ips", "wrapped ips"}
CountForms == {"counts", "pairs", "wrapped counts"}

\* A key that is no number is left out.  A user who is listed twice has what
\* was listed last.
LastEntry(body, uid) ==
    LET his == {i \in DOMAIN body.entries : body.entries[i].key = <<"num", uid>>}
    IN  body.entries[CHOOSE i \in his : \A j \in his : j <= i]
UIDs(body) == {e.key[2] : e \in {x \in ToSet(body.entries) : x.key[1] = "num"}}

decodeAliveList(body) ==
    IF body.form \notin IPForms \cup CountForms \cup {"empty"} THEN Undecodable
    ELSE [decoded |-> TRUE,
          alive |-> [u \in UIDs(body) |->
                        IF body.form \in IPForms THEN LastEntry(body, u).ips
                        ELSE placeholderAliveIPs(u, LastEntry(body, u).count)]]

--------------------------------------------------------------------------------
(* The hashes. *)

\* The entries of s in order, by the pairs of which one goes before the other.
\* Those that go either way stay as they were, which the code leaves to the sort.
Sorted(s, before) ==
    LET place(i) == Cardinality({j \in DOMAIN s : \/ <<s[j], s[i]>> \in before
                                                 \/ (<<s[i], s[j]>> \notin before /\ j <= i)})
    IN  [k \in DOMAIN s |-> s[CHOOSE i \in DOMAIN s : place(i) = k]]

\* sort.Strings
Before(s, t) ==
    \E n \in 0..(Len(t) - 1) :
        /\ n <= Len(s) /\ \A i \in 1..n : s[i] = t[i]
        /\ n = Len(s) \/ s[n + 1] < t[n + 1]
Strings(ids) == Sorted(ids, {p \in ToSet(ids) \X ToSet(ids) : Before(p[1], p[2])})

\* sort.Slice, by ID
ByID(list) == Sorted(list, {p \in ToSet(list) \X ToSet(list) : p[1].id < p[2].id})

\* ID, speed limit and UUID of every user, by ID; the device limit is left out.
Written(list) == [i \in DOMAIN list |-> <<list[i].id, list[i].speed, list[i].uuid>>]
InOrder(list) == <<"users", Written(list)>> \* mutant: in the order the panel sent them
WithoutUUID(list) ==                        \* mutant: the UUID is not written
    <<"users", [i \in DOMAIN list |-> <<ByID(list)[i].id, ByID(list)[i].speed>>]>>
hashUsers(list) == IF list = <<>> THEN <<"empty">> ELSE <<"users", Written(ByID(list))>>

\* The JSON of the routes, keys sorted: not how it was spelt.
hashGenericValue(routes) ==
    IF routes.form = "none" THEN <<>> ELSE <<routes.form, routes.rules, routes.final>>

\* The short IDs are sorted and run into one another.
hashConfig(c) ==
    <<c.protocol, c.listen_ip, c.server_port, c.network, c.tls, c.flow,
      c.allow_insecure, c.dest_port, c.server_name, c.public_key, c.private_key,
      FlattenSeq(Strings(c.short_id)), c.push, c.pull,
      hashGenericValue(c.routes)>>
================================================================================
