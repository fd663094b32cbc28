------------------------------ MODULE LocksProofs -------------------------------
(***************************************************************************)
(* Theorems about the locks of a node, for any number of connections:      *)
(* every call gives back what it takes, no circle of waiting can form, and *)
(* no field is written while another goroutine uses it.                    *)
(***************************************************************************)
EXTENDS Locks, TLAPS

--------------------------------------------------------------------------------
(* Scripts. *)

Modes  == {"lock", "rlock"}
Ops    == Modes \cup {"unlock", "runlock"}
AllLocks == Mutexes \cup {"configMu"}
LockOf == [users |-> "configMu", conns |-> "stateMu", active |-> "activeUsersMu",
           engine |-> "engine.mu", pending |-> "reportMu", sync |-> "syncer.mu"]
Fields == {"users", "conns", "active", "engine", "pending", "sync"}
Steps  == [op : Ops, on : AllLocks, uses : SUBSET ({"read", "write"} \X Fields), end : BOOLEAN]

\* The locks that are taken while another one is held.
Inner == {"stateMu", "engine.mu"}

\* Whether a call that follows the script s holds m in a mode when it comes to step i.
Took(s, i, mode, m) ==
    \E j \in 1..(i - 1) : /\ s[j].op = mode /\ s[j].on = m
                          /\ \A k \in (j + 1)..(i - 1) : s[k].on # m

HoldsNone(s, i) == \A mode \in Modes, m \in AllLocks : ~Took(s, i, mode, m)

\* What a step may do, given what is held when it comes: take an inner lock while
\* holding others, or any lock while holding none; give back what is held; use
\* the fields whose lock is held; return holding nothing.
Fit(s, i) ==
    /\ s[i].op \in Modes =>
           \A mode \in Modes, m \in AllLocks :
               Took(s, i, mode, m) => m \notin Inner /\ s[i].on \in Inner
    /\ s[i].op = "unlock" => Took(s, i, "lock", s[i].on)
    /\ s[i].op = "runlock" => Took(s, i, "rlock", s[i].on)
    /\ s[i].op \in {"rlock", "runlock"} => s[i].on = "configMu"
    /\ \A use \in s[i].uses :
           \/ Took(s, i, "lock", LockOf[use[2]])
           \/ use[1] = "read" /\ Took(s, i, "rlock", LockOf[use[2]])
    /\ s[i].end => HoldsNone(s, i + 1)

Balanced(s) ==
    /\ s \in Seq(Steps) /\ Len(s) > 0
    /\ \A i \in 1..Len(s) : Fit(s, i)
    /\ HoldsNone(s, Len(s) + 1)

\* What a step changes of the locks that are held.
LEMMA TookNext ==
    ASSUME NEW s \in Seq(Steps), NEW i \in 1..Len(s), NEW mode \in Modes, NEW m \in AllLocks
    PROVE  Took(s, i + 1, mode, m) <=>
               IF s[i].on = m THEN s[i].op = mode ELSE Took(s, i, mode, m)
<1>1. i \in Nat /\ i >= 1 /\ (i + 1) - 1 = i
  OBVIOUS
<1>2. CASE s[i].on = m
  <2>1. ASSUME s[i].op = mode PROVE Took(s, i + 1, mode, m)
    BY <1>1, <1>2, <2>1 DEF Took
  <2>2. ASSUME Took(s, i + 1, mode, m) PROVE s[i].op = mode
    <3>1. PICK j \in 1..i : /\ s[j].op = mode /\ s[j].on = m
                            /\ \A k \in (j + 1)..i : s[k].on # m
      BY <1>1, <2>2 DEF Took
    <3>2. j = i
      BY <1>1, <1>2, <3>1
    <3> QED BY <3>1, <3>2
  <2> QED BY <1>2, <2>1, <2>2
<1>3. CASE s[i].on # m
  <2>1. ASSUME Took(s, i, mode, m) PROVE Took(s, i + 1, mode, m)
    <3>1. PICK j \in 1..(i - 1) : /\ s[j].op = mode /\ s[j].on = m
                                  /\ \A k \in (j + 1)..(i - 1) : s[k].on # m
      BY <2>1 DEF Took
    <3>2. j \in 1..i /\ \A k \in (j + 1)..i : s[k].on # m
      BY <1>1, <1>3, <3>1
    <3> QED BY <1>1, <3>1, <3>2 DEF Took
  <2>2. ASSUME Took(s, i + 1, mode, m) PROVE Took(s, i, mode, m)
    <3>1. PICK j \in 1..i : /\ s[j].op = mode /\ s[j].on = m
                            /\ \A k \in (j + 1)..i : s[k].on # m
      BY <1>1, <2>2 DEF Took
    <3>2. j # i
      BY <1>3, <3>1
    <3>3. j \in 1..(i - 1) /\ \A k \in (j + 1)..(i - 1) : s[k].on # m
      BY <1>1, <3>1, <3>2
    <3> QED BY <3>1, <3>3 DEF Took
  <2> QED BY <1>3, <2>1, <2>2
<1> QED BY <1>2, <1>3

LEMMA TookFirst == \A s, mode, m : ~Took(s, 1, mode, m)
BY DEF Took

\* It depends on the steps before it only.
LEMMA TookAlike ==
    ASSUME NEW s, NEW r, NEW i \in Int, NEW mode, NEW m,
           \A j \in 1..(i - 1) : r[j].op = s[j].op /\ r[j].on = s[j].on
    PROVE  Took(r, i, mode, m) <=> Took(s, i, mode, m)
<1>1. ASSUME NEW j \in 1..(i - 1), NEW k \in (j + 1)..(i - 1) PROVE k \in 1..(i - 1)
  OBVIOUS
<1>2. ASSUME Took(s, i, mode, m) PROVE Took(r, i, mode, m)
  <2>1. PICK j \in 1..(i - 1) : /\ s[j].op = mode /\ s[j].on = m
                                /\ \A k \in (j + 1)..(i - 1) : s[k].on # m
    BY <1>2, Zenon DEF Took
  <2>2. \A k \in (j + 1)..(i - 1) : r[k].on # m
    BY <1>1, <2>1
  <2> QED BY <2>1, <2>2 DEF Took
<1>3. ASSUME Took(r, i, mode, m) PROVE Took(s, i, mode, m)
  <2>1. PICK j \in 1..(i - 1) : /\ r[j].op = mode /\ r[j].on = m
                                /\ \A k \in (j + 1)..(i - 1) : r[k].on # m
    BY <1>3, Zenon DEF Took
  <2>2. \A k \in (j + 1)..(i - 1) : s[k].on # m
    BY <1>1, <2>1
  <2> QED BY <2>1, <2>2 DEF Took
<1> QED BY <1>2, <1>3

--------------------------------------------------------------------------------
(* Scripts made of scripts. *)

LEMMA Concat ==
    \A s, t \in Seq(Steps) :
        /\ s \o t \in Seq(Steps) /\ Len(s \o t) = Len(s) + Len(t)
        /\ \A i \in 1..Len(s) : (s \o t)[i] = s[i]
        /\ \A i \in 1..Len(t) : (s \o t)[Len(s) + i] = t[i]
OBVIOUS

\* A call after a call.
LEMMA InTurn ==
    ASSUME NEW s, NEW t, Balanced(s), Balanced(t)
    PROVE  Balanced(s \o t)
<1> DEFINE n == Len(s)
           st == s \o t
<1>1. /\ s \in Seq(Steps) /\ t \in Seq(Steps) /\ n \in Nat /\ n > 0
      /\ Len(t) \in Nat /\ Len(t) > 0
  BY DEF Balanced
<1>2. /\ st \in Seq(Steps) /\ Len(st) = n + Len(t)
      /\ \A i \in 1..n : st[i] = s[i]
      /\ \A i \in 1..Len(t) : st[n + i] = t[i]
  BY <1>1, Concat
<1> HIDE DEF st, n
<1>3. ASSUME NEW i \in 1..(n + 1), NEW mode, NEW m
      PROVE  Took(st, i, mode, m) <=> Took(s, i, mode, m)
  <2>1. \A j \in 1..(i - 1) : st[j] = s[j]
    BY <1>1, <1>2
  <2> QED BY <2>1, TookAlike
<1>4. ASSUME NEW i \in 1..(Len(t) + 1), NEW mode \in Modes, NEW m \in AllLocks
      PROVE  Took(st, n + i, mode, m) <=> Took(t, i, mode, m)
  <2>1. ASSUME Took(t, i, mode, m) PROVE Took(st, n + i, mode, m)
    <3>1. PICK j \in 1..(i - 1) : /\ t[j].op = mode /\ t[j].on = m
                                  /\ \A k \in (j + 1)..(i - 1) : t[k].on # m
      BY <2>1 DEF Took
    <3>0. n + j \in 1..((n + i) - 1) /\ j \in 1..Len(t)
      BY <1>1, <3>1
    <3>2. n + j \in 1..((n + i) - 1) /\ st[n + j] = t[j]
      BY <1>2, <3>0
    <3>3. ASSUME NEW k \in (n + j + 1)..((n + i) - 1) PROVE st[k].on # m
      <4>1. k - n \in (j + 1)..(i - 1) /\ k - n \in 1..Len(t) /\ n + (k - n) = k
        BY <1>1
      <4>2. st[k] = t[k - n]
        BY <1>2, <4>1
      <4>3. t[k - n].on # m
        BY <3>1, <4>1
      <4> QED BY <4>2, <4>3
    <3> QED BY <3>1, <3>2, <3>3 DEF Took
  <2>2. ASSUME Took(st, n + i, mode, m) PROVE Took(t, i, mode, m)
    <3>1. PICK j \in 1..((n + i) - 1) : /\ st[j].op = mode /\ st[j].on = m
                                      /\ \A k \in (j + 1)..((n + i) - 1) : st[k].on # m
      BY <2>2 DEF Took
    <3>2. CASE j <= n
      <4>1. j \in 1..((n + 1) - 1) /\ \A k \in (j + 1)..((n + 1) - 1) : s[k].on # m
        BY <1>1, <1>2, <3>1, <3>2
      <4>2. Took(s, n + 1, mode, m)
        BY <1>1, <1>2, <3>1, <4>1 DEF Took
      <4> QED BY <4>2 DEF Balanced, HoldsNone, n
    <3>3. CASE j > n
      <4>1. j - n \in 1..(i - 1) /\ j - n \in 1..Len(t) /\ n + (j - n) = j
        BY <1>1, <3>1, <3>3
      <4>2. ASSUME NEW k \in (j - n + 1)..(i - 1) PROVE t[k].on # m
        <5>1. n + k \in (j + 1)..((n + i) - 1) /\ k \in 1..Len(t)
          BY <1>1, <4>1
        <5> QED BY <1>2, <3>1, <5>1
      <4>3. t[j - n].op = mode /\ t[j - n].on = m
        BY <1>2, <3>1, <4>1
      <4> QED BY <4>1, <4>2, <4>3 DEF Took
    <3> QED BY <1>1, <3>1, <3>2, <3>3
  <2> QED BY <2>1, <2>2
<1>5. HoldsNone(st, Len(st) + 1)
  <2>1. Len(t) + 1 \in 1..(Len(t) + 1) /\ Len(st) + 1 = n + (Len(t) + 1)
    BY <1>1, <1>2
  <2> QED BY <1>4, <2>1 DEF HoldsNone, Balanced
<1>6. ASSUME NEW i \in 1..n PROVE Fit(st, i)
  <2>1. i \in 1..(n + 1) /\ i + 1 \in 1..(n + 1) /\ st[i] = s[i]
    BY <1>1, <1>2
  <2>2. Fit(s, i)
    BY DEF Balanced, n
  <2> QED BY <1>3, <2>1, <2>2 DEF Fit, HoldsNone
<1>7. ASSUME NEW i \in 1..Len(t) PROVE Fit(st, n + i)
  <2>1. i \in 1..(Len(t) + 1) /\ i + 1 \in 1..(Len(t) + 1) /\ st[n + i] = t[i] /\ t[i] \in Steps
        /\ n + i + 1 = n + (i + 1)
    BY <1>1, <1>2
  <2>2. Fit(t, i)
    BY DEF Balanced
  <2>3. /\ t[i].on \in AllLocks /\ \A use \in t[i].uses : LockOf[use[2]] \in AllLocks
    BY <2>1 DEF Steps, LockOf, Fields, AllLocks, Mutexes
  <2>4. \A mode \in Modes, m \in AllLocks : Took(st, n + i, mode, m) <=> Took(t, i, mode, m)
    BY <1>4, <2>1
  <2>5. \A mode \in Modes, m \in AllLocks : Took(st, n + i + 1, mode, m) <=> Took(t, i + 1, mode, m)
    BY <1>4, <2>1
  <2> QED BY <2>1, <2>2, <2>3, <2>4, <2>5 DEF Fit, HoldsNone, Modes
<1>8. \A i \in 1..Len(st) : Fit(st, i)
  <2> TAKE i \in 1..Len(st)
  <2>1. CASE i <= n
    BY <1>1, <1>2, <1>6, <2>1
  <2>2. CASE i > n
    <3>1. i - n \in 1..Len(t) /\ n + (i - n) = i
      BY <1>1, <1>2, <2>2
    <3> QED BY <1>7, <3>1
  <2> QED BY <1>1, <1>2, <2>1, <2>2
<1> QED BY <1>1, <1>2, <1>5, <1>8 DEF Balanced, st

\* A call that may return after its last step.
LEMMA Returning ==
    ASSUME NEW s, Balanced(s)
    PROVE  Balanced(MayReturn(s))
<1> DEFINE r == MayReturn(s)
           n == Len(s)
<1>1. s \in Seq(Steps) /\ n \in Nat /\ n > 0
  BY DEF Balanced
<1>2. /\ r \in Seq(Steps) /\ Len(r) = n
      /\ \A i \in 1..n : /\ r[i].op = s[i].op /\ r[i].on = s[i].on /\ r[i].uses = s[i].uses
                         /\ r[i].end = (s[i].end \/ i = n)
  <2>1. s[n] \in Steps
    BY <1>1
  <2>2. r = [s EXCEPT ![n] = [s[n] EXCEPT !.end = TRUE]]
    BY DEF MayReturn
  <2>3. [s[n] EXCEPT !.end = TRUE] \in Steps
    BY <2>1 DEF Steps
  <2>4. /\ r \in Seq(Steps) /\ Len(r) = n
        /\ \A i \in 1..n : r[i] = IF i = n THEN [s[n] EXCEPT !.end = TRUE] ELSE s[i]
    BY <1>1, <2>2, <2>3
  <2> HIDE DEF r
  <2>5. ASSUME NEW i \in 1..n
        PROVE  /\ r[i].op = s[i].op /\ r[i].on = s[i].on /\ r[i].uses = s[i].uses
               /\ r[i].end = (s[i].end \/ i = n)
    <3>1. s[i] \in Steps
      BY <1>1
    <3>2. CASE i = n
      BY <2>4, <3>1, <3>2 DEF Steps
    <3>3. CASE i # n
      <4>1. r[i] = s[i]
        BY <2>4, <3>3
      <4>2. s[i].end \in BOOLEAN
        BY <3>1 DEF Steps
      <4> QED BY <3>3, <4>1, <4>2
    <3> QED BY <3>2, <3>3
  <2> QED BY <2>4, <2>5
<1> HIDE DEF r, n
<1>3. ASSUME NEW i \in 1..(n + 1), NEW mode, NEW m
      PROVE  Took(r, i, mode, m) <=> Took(s, i, mode, m)
  <2>1. \A j \in 1..(i - 1) : r[j].op = s[j].op /\ r[j].on = s[j].on
    BY <1>1, <1>2
  <2> QED BY <2>1, TookAlike
<1>4. ASSUME NEW i \in 1..n PROVE Fit(r, i)
  <2>1. i \in 1..(n + 1) /\ i + 1 \in 1..(n + 1)
    BY <1>1
  <2>2. Fit(s, i) /\ HoldsNone(s, n + 1)
    BY DEF Balanced, n
  <2>3. /\ \A mode \in Modes, m \in AllLocks : Took(r, i, mode, m) => Took(s, i, mode, m)
        /\ \A mode, m : Took(s, i, mode, m) => Took(r, i, mode, m)
    BY <1>3, <2>1
  <2>4. r[i].end => HoldsNone(r, i + 1)
    <3>1. HoldsNone(s, i + 1) => HoldsNone(r, i + 1)
      BY <1>3, <2>1 DEF HoldsNone
    <3> QED BY <1>2, <2>2, <3>1 DEF Fit
  <2>5. r[i].op = s[i].op /\ r[i].on = s[i].on /\ r[i].uses = s[i].uses
    BY <1>2
  <2> QED BY <2>2, <2>3, <2>4, <2>5 DEF Fit
<1>5. HoldsNone(r, n + 1)
  BY <1>1, <1>3 DEF HoldsNone, Balanced, n
<1> QED BY <1>1, <1>2, <1>4, <1>5 DEF Balanced, r, n

--------------------------------------------------------------------------------
(* The scripts of the calls. *)

AllUses == {"read", "write"} \X Fields

Is(r, op, x, uses) == r \in Steps /\ r.op = op /\ r.on = x /\ r.uses = uses

LEMMA StepIs ==
    ASSUME NEW op \in Ops, NEW x \in AllLocks, NEW uses \in SUBSET AllUses
    PROVE  /\ Step(op, x, uses) \in Seq(Steps) /\ Len(Step(op, x, uses)) = 1
           /\ Is(Step(op, x, uses)[1], op, x, uses)
<1> DEFINE r == [op |-> op, on |-> x, uses |-> uses, end |-> FALSE]
<1>1. r \in Steps
  BY DEF Steps, AllUses
<1>2. Step(op, x, uses) = <<r>>
  BY DEF Step
<1> QED BY <1>1, <1>2 DEF Is

\* What stands between a lock and its unlock.
LEMMA Around ==
    ASSUME NEW a \in Seq(Steps), Len(a) = 1, NEW c \in Seq(Steps), Len(c) = 1,
           NEW body \in Seq(Steps)
    PROVE  /\ a \o body \o c \in Seq(Steps) /\ Len(a \o body \o c) = Len(body) + 2
           /\ (a \o body \o c)[1] = a[1]
           /\ \A i \in 1..Len(body) : (a \o body \o c)[i + 1] = body[i]
           /\ (a \o body \o c)[Len(body) + 2] = c[1]
<1> DEFINE ab == a \o body
<1>1. /\ ab \in Seq(Steps) /\ Len(ab) = 1 + Len(body)
      /\ ab[1] = a[1] /\ \A i \in 1..Len(body) : ab[1 + i] = body[i]
  <2>1. /\ ab \in Seq(Steps) /\ Len(ab) = Len(a) + Len(body)
        /\ \A i \in 1..Len(a) : ab[i] = a[i]
        /\ \A i \in 1..Len(body) : ab[Len(a) + i] = body[i]
    BY Concat
  <2> HIDE DEF ab
  <2>2. 1 \in 1..Len(a) /\ Len(a) = 1
    OBVIOUS
  <2>3. ab[1] = a[1]
    BY <2>1, <2>2
  <2>4. Len(ab) = 1 + Len(body) /\ \A i \in 1..Len(body) : ab[1 + i] = body[i]
    BY <2>1, <2>2
  <2> QED BY <2>1, <2>3, <2>4
<1> HIDE DEF ab
<1>2. /\ ab \o c \in Seq(Steps) /\ Len(ab \o c) = Len(ab) + 1
      /\ \A i \in 1..Len(ab) : (ab \o c)[i] = ab[i]
      /\ (ab \o c)[Len(ab) + 1] = c[1]
  <2>1. /\ ab \o c \in Seq(Steps) /\ Len(ab \o c) = Len(ab) + Len(c)
        /\ \A i \in 1..Len(ab) : (ab \o c)[i] = ab[i]
        /\ \A i \in 1..Len(c) : (ab \o c)[Len(ab) + i] = c[i]
    BY <1>1, Concat
  <2> DEFINE abc == ab \o c
  <2> HIDE DEF abc
  <2>2. /\ abc \in Seq(Steps) /\ Len(abc) = Len(ab) + Len(c)
        /\ \A i \in 1..Len(ab) : abc[i] = ab[i]
        /\ \A i \in 1..Len(c) : abc[Len(ab) + i] = c[i]
    BY <2>1 DEF abc
  <2>3. 1 \in 1..Len(c)
    OBVIOUS
  <2> QED BY <2>2, <2>3 DEF abc
<1>3. Len(body) \in Nat
  OBVIOUS
<1>4. \A i \in 1..Len(body) : i + 1 = 1 + i /\ i + 1 \in 1..Len(ab)
  BY <1>1, <1>3
<1>5. 1 \in 1..Len(ab) /\ Len(ab) + 1 = Len(body) + 2
  BY <1>1, <1>3
<1>6. (ab \o c)[1] = a[1]
  BY <1>1, <1>2, <1>5
<1>7. \A i \in 1..Len(body) : (ab \o c)[i + 1] = body[i]
  BY <1>1, <1>2, <1>4
<1> QED BY <1>2, <1>5, <1>6, <1>7 DEF ab

GivesBack(mode) == IF mode = "lock" THEN "unlock" ELSE "runlock"

\* A lock that is taken and given back.
LEMMA Pair ==
    ASSUME NEW s \in Seq(Steps), Len(s) = 2,
           NEW mode \in Modes, NEW m \in AllLocks, NEW uses \in SUBSET AllUses,
           mode = "rlock" => m = "configMu",
           Is(s[1], mode, m, {}), Is(s[2], GivesBack(mode), m, uses),
           s[1].end = FALSE,
           \A use \in uses : LockOf[use[2]] = m /\ (mode = "lock" \/ use[1] = "read")
    PROVE  Balanced(s)
<1>1. HoldsNone(s, 1)
  BY TookFirst DEF HoldsNone
<1>2. \A o \in Modes, x \in AllLocks : Took(s, 2, o, x) <=> o = mode /\ x = m
  <2> TAKE o \in Modes, x \in AllLocks
  <2>1. Took(s, 1 + 1, o, x) <=> IF s[1].on = x THEN s[1].op = o ELSE Took(s, 1, o, x)
    BY TookNext
  <2>2. Took(s, 2, o, x) <=> IF m = x THEN mode = o ELSE FALSE
    BY <1>1, <2>1 DEF Is, HoldsNone
  <2> QED BY <2>2
<1>3. HoldsNone(s, 3)
  <2> SUFFICES ASSUME NEW o \in Modes, NEW x \in AllLocks PROVE ~Took(s, 3, o, x)
    BY DEF HoldsNone
  <2>0. 2 \in 1..Len(s)
    OBVIOUS
  <2>1. Took(s, 2 + 1, o, x) <=> IF s[2].on = x THEN s[2].op = o ELSE Took(s, 2, o, x)
    BY <2>0, TookNext
  <2>2. Took(s, 3, o, x) <=> IF m = x THEN GivesBack(mode) = o ELSE Took(s, 2, o, x)
    BY <2>1 DEF Is
  <2> QED BY <1>2, <2>2 DEF GivesBack, Modes
<1>4. Fit(s, 1)
  <2>1. s[1].op = mode /\ s[1].on = m /\ s[1].uses = {} /\ s[1].end = FALSE
    BY DEF Is
  <2> QED BY <1>1, <2>1 DEF Fit, HoldsNone, Modes
<1>5. Fit(s, 2)
  <2>1. s[2].op = GivesBack(mode) /\ s[2].on = m /\ s[2].uses = uses
    BY DEF Is
  <2>2. Took(s, 2, mode, m)
    BY <1>2
  <2>3. HoldsNone(s, 2 + 1)
    BY <1>3
  <2> QED BY <2>1, <2>2, <2>3 DEF Fit, Modes, GivesBack
<1> QED BY <1>3, <1>4, <1>5 DEF Balanced

\* An inner lock that is taken and given back while another one is held.
Nested(s, mode, m, x, inner, outer) ==
    /\ s \in Seq(Steps) /\ Len(s) = 4
    /\ mode \in Modes /\ m \in AllLocks \ Inner /\ x \in Inner
    /\ mode = "rlock" => m = "configMu"
    /\ Is(s[1], mode, m, {}) /\ Is(s[2], "lock", x, {})
    /\ Is(s[3], "unlock", x, inner) /\ Is(s[4], GivesBack(mode), m, outer)
    /\ \A i \in 1..3 : s[i].end = FALSE
    /\ \A use \in inner : \/ LockOf[use[2]] = x
                          \/ LockOf[use[2]] = m /\ (mode = "lock" \/ use[1] = "read")
    /\ \A use \in outer : LockOf[use[2]] = m /\ (mode = "lock" \/ use[1] = "read")

LEMMA Nest ==
    ASSUME NEW s, NEW mode, NEW m, NEW x, NEW inner, NEW outer,
           Nested(s, mode, m, x, inner, outer)
    PROVE  Balanced(s)
<1> USE DEF Nested
<1>0. x \in AllLocks /\ x # m
  BY DEF Inner, AllLocks, Mutexes
<1>1. HoldsNone(s, 1)
  BY TookFirst DEF HoldsNone
<1>2. \A o \in Modes, y \in AllLocks : Took(s, 2, o, y) <=> o = mode /\ y = m
  <2> TAKE o \in Modes, y \in AllLocks
  <2>1. Took(s, 1 + 1, o, y) <=> IF s[1].on = y THEN s[1].op = o ELSE Took(s, 1, o, y)
    BY TookNext
  <2>2. Took(s, 2, o, y) <=> IF m = y THEN mode = o ELSE FALSE
    BY <1>1, <2>1 DEF Is, HoldsNone
  <2> QED BY <2>2
<1>3. \A o \in Modes, y \in AllLocks :
          Took(s, 3, o, y) <=> \/ o = mode /\ y = m
                               \/ o = "lock" /\ y = x
  <2> TAKE o \in Modes, y \in AllLocks
  <2>1. Took(s, 2 + 1, o, y) <=> IF s[2].on = y THEN s[2].op = o ELSE Took(s, 2, o, y)
    BY TookNext
  <2>2. Took(s, 3, o, y) <=> IF x = y THEN "lock" = o ELSE o = mode /\ y = m
    BY <1>2, <2>1 DEF Is
  <2> QED BY <1>0, <2>2
<1>4. \A o \in Modes, y \in AllLocks : Took(s, 4, o, y) <=> o = mode /\ y = m
  <2> TAKE o \in Modes, y \in AllLocks
  <2>1. Took(s, 3 + 1, o, y) <=> IF s[3].on = y THEN s[3].op = o ELSE Took(s, 3, o, y)
    BY TookNext
  <2>2. Took(s, 4, o, y) <=> IF x = y THEN "unlock" = o ELSE Took(s, 3, o, y)
    BY <2>1 DEF Is
  <2> QED BY <1>0, <1>3, <2>2 DEF Modes
<1>5. HoldsNone(s, 5)
  <2> SUFFICES ASSUME NEW o \in Modes, NEW y \in AllLocks PROVE ~Took(s, 5, o, y)
    BY DEF HoldsNone
  <2>1. Took(s, 4 + 1, o, y) <=> IF s[4].on = y THEN s[4].op = o ELSE Took(s, 4, o, y)
    BY TookNext
  <2>2. Took(s, 5, o, y) <=> IF m = y THEN GivesBack(mode) = o ELSE Took(s, 4, o, y)
    BY <2>1 DEF Is
  <2> QED BY <1>4, <2>2 DEF GivesBack, Modes
<1>6. Fit(s, 1)
  <2>1. s[1].op = mode /\ s[1].on = m /\ s[1].uses = {} /\ s[1].end = FALSE
    BY DEF Is
  <2> QED BY <1>1, <2>1 DEF Fit, HoldsNone, Modes
<1>7. Fit(s, 2)
  <2>1. s[2].op = "lock" /\ s[2].on = x /\ s[2].uses = {} /\ s[2].end = FALSE
    BY DEF Is
  <2> QED BY <1>2, <2>1 DEF Fit
<1>8. Fit(s, 3)
  <2>1. s[3].op = "unlock" /\ s[3].on = x /\ s[3].uses = inner /\ s[3].end = FALSE
    BY DEF Is
  <2>2. Took(s, 3, mode, m) /\ Took(s, 3, "lock", x)
    BY <1>0, <1>3 DEF Modes
  <2>3. \A use \in inner : \/ Took(s, 3, "lock", LockOf[use[2]])
                           \/ use[1] = "read" /\ Took(s, 3, "rlock", LockOf[use[2]])
    BY <2>2 DEF Modes
  <2> QED BY <2>1, <2>2, <2>3 DEF Fit, Modes
<1>9. Fit(s, 4)
  <2>1. s[4].op = GivesBack(mode) /\ s[4].on = m /\ s[4].uses = outer
    BY DEF Is
  <2>2. Took(s, 4, mode, m)
    BY <1>4
  <2>3. HoldsNone(s, 4 + 1)
    BY <1>5
  <2> QED BY <2>1, <2>2, <2>3 DEF Fit, Modes, GivesBack
<1> QED BY <1>5, <1>6, <1>7, <1>8, <1>9 DEF Balanced

LEMMA NoBody == <<>> \in Seq(Steps) /\ Len(<<>>) = 0
OBVIOUS

\* A mutex around nothing but the fields it protects.
LEMMA GuardedBalanced ==
    ASSUME NEW m \in AllLocks, NEW uses \in SUBSET AllUses,
           \A use \in uses : LockOf[use[2]] = m
    PROVE  Balanced(Guarded(m, uses))
<1> DEFINE s == Guarded(m, uses)
           a == Step("lock", m, {})
           c == Step("unlock", m, uses)
<1>1. /\ a \in Seq(Steps) /\ Len(a) = 1 /\ Is(a[1], "lock", m, {})
      /\ c \in Seq(Steps) /\ Len(c) = 1 /\ Is(c[1], "unlock", m, uses)
      /\ a[1].end = FALSE
  BY StepIs DEF Ops, Modes, Step
<1>2. s = a \o <<>> \o c
  BY DEF Guarded, Under
<1> HIDE DEF s, a, c
<1>3. s \in Seq(Steps) /\ Len(s) = 0 + 2 /\ s[1] = a[1] /\ s[0 + 2] = c[1]
  BY <1>1, <1>2, NoBody, Around
<1>4. /\ s \in Seq(Steps) /\ Len(s) = 2 /\ "lock" \in Modes /\ s[1].end = FALSE
      /\ Is(s[1], "lock", m, {}) /\ Is(s[2], GivesBack("lock"), m, uses)
  BY <1>1, <1>3 DEF GivesBack, Modes
<1>5. Balanced(s)
  BY <1>4, Pair
<1> QED BY <1>5 DEF s

\* The read lock around reads of what configMu protects.
LEMMA SharedBalanced == Balanced(Shared({R("users")}, <<>>))
<1> DEFINE uses == {R("users")}
           s == Shared(uses, <<>>)
           a == Step("rlock", "configMu", {})
           c == Step("runlock", "configMu", uses)
<1>0. uses \in SUBSET AllUses /\ \A use \in uses : LockOf[use[2]] = "configMu" /\ use[1] = "read"
  BY DEF R, AllUses, Fields, LockOf
<1>1. /\ a \in Seq(Steps) /\ Len(a) = 1 /\ Is(a[1], "rlock", "configMu", {})
      /\ c \in Seq(Steps) /\ Len(c) = 1 /\ Is(c[1], "runlock", "configMu", uses)
      /\ a[1].end = FALSE
  BY <1>0, StepIs DEF Ops, Modes, Step, AllLocks
<1>2. s = a \o <<>> \o c
  BY DEF Shared
<1> HIDE DEF s, a, c, uses
<1>3. s \in Seq(Steps) /\ Len(s) = 0 + 2 /\ s[1] = a[1] /\ s[0 + 2] = c[1]
  BY <1>1, <1>2, NoBody, Around
<1>4. /\ s \in Seq(Steps) /\ Len(s) = 2 /\ "rlock" \in Modes /\ s[1].end = FALSE
      /\ Is(s[1], "rlock", "configMu", {}) /\ Is(s[2], GivesBack("rlock"), "configMu", uses)
      /\ "configMu" \in AllLocks
  BY <1>1, <1>3 DEF GivesBack, Modes, AllLocks
<1>5. Balanced(s)
  BY <1>0, <1>4, Pair
<1> QED BY <1>5 DEF s, uses

\* The steps of a mutex within another lock.
LEMMA GuardedWithin ==
    ASSUME NEW mode \in Modes, NEW m \in AllLocks \ Inner, NEW x \in Inner,
           NEW inner \in SUBSET AllUses, NEW outer \in SUBSET AllUses,
           mode = "rlock" => m = "configMu",
           \A use \in inner : \/ LockOf[use[2]] = x
                              \/ LockOf[use[2]] = m /\ (mode = "lock" \/ use[1] = "read"),
           \A use \in outer : LockOf[use[2]] = m /\ (mode = "lock" \/ use[1] = "read")
    PROVE  Balanced(Step(mode, m, {}) \o Guarded(x, inner) \o Step(GivesBack(mode), m, outer))
<1> DEFINE b == Guarded(x, inner)
           a1 == Step("lock", x, {})
           c1 == Step("unlock", x, inner)
           a == Step(mode, m, {})
           c == Step(GivesBack(mode), m, outer)
           s == a \o b \o c
<1>0. x \in AllLocks /\ {} \in SUBSET AllUses /\ GivesBack(mode) \in Ops /\ mode \in Ops
  BY DEF Inner, AllLocks, Mutexes, GivesBack, Ops, Modes
<1>1. /\ a1 \in Seq(Steps) /\ Len(a1) = 1 /\ Is(a1[1], "lock", x, {})
      /\ c1 \in Seq(Steps) /\ Len(c1) = 1 /\ Is(c1[1], "unlock", x, inner)
      /\ a1[1].end = FALSE /\ c1[1].end = FALSE
  BY <1>0, StepIs DEF Ops, Modes, Step
<1>2. /\ a \in Seq(Steps) /\ Len(a) = 1 /\ Is(a[1], mode, m, {})
      /\ c \in Seq(Steps) /\ Len(c) = 1 /\ Is(c[1], GivesBack(mode), m, outer)
      /\ a[1].end = FALSE
  BY <1>0, StepIs DEF Step
<1>3. b = a1 \o <<>> \o c1
  BY DEF Guarded, Under
<1> HIDE DEF b, a1, c1, a, c
<1>4. b \in Seq(Steps) /\ Len(b) = 0 + 2 /\ b[1] = a1[1] /\ b[0 + 2] = c1[1]
  BY <1>1, <1>3, NoBody, Around
<1>5. /\ s \in Seq(Steps) /\ Len(s) = Len(b) + 2 /\ s[1] = a[1] /\ s[Len(b) + 2] = c[1]
      /\ \A i \in 1..Len(b) : s[i + 1] = b[i]
  <2>1. /\ a \in Seq(Steps) /\ Len(a) = 1 /\ c \in Seq(Steps) /\ Len(c) = 1
        /\ b \in Seq(Steps)
    BY <1>2, <1>4
  <2> QED BY <2>1, Around
<1> HIDE DEF s
<1>6. s[1] = a[1] /\ s[2] = a1[1] /\ s[3] = c1[1] /\ s[4] = c[1] /\ Len(s) = 4
  <2>1. 1 \in 1..Len(b) /\ 2 \in 1..Len(b)
    BY <1>4
  <2>2. s[1 + 1] = b[1] /\ s[2 + 1] = b[2]
    BY <1>5, <2>1
  <2> QED BY <1>4, <1>5, <2>2
<1>7. \A i \in 1..3 : s[i].end = FALSE
  BY <1>1, <1>2, <1>6
<1>8. /\ s \in Seq(Steps) /\ Len(s) = 4
      /\ Is(s[1], mode, m, {}) /\ Is(s[2], "lock", x, {})
      /\ Is(s[3], "unlock", x, inner) /\ Is(s[4], GivesBack(mode), m, outer)
  BY <1>1, <1>2, <1>5, <1>6
<1>9. Nested(s, mode, m, x, inner, outer)
  BY <1>7, <1>8 DEF Nested
<1> QED BY <1>9, Nest DEF s, a, b, c

\* The calls that take one lock at a time.
LEMMA SimpleCalls ==
    /\ Balanced(UpdateAliveList) /\ Balanced(Register) /\ Balanced(Unregister)
    /\ Balanced(RegisterConn) /\ Balanced(UnregisterConn) /\ Balanced(CollectTraffic)
    /\ Balanced(EngineClose) /\ Balanced(Mark) /\ Balanced(ReadHashes)
    /\ Balanced(Guarded("configMu", {W("users")}))
    /\ Balanced(Guarded("activeUsersMu", {R("active")}))
<1> DEFINE Uses(f) == \A use \in {R(f), W(f)} : use \in AllUses /\ use[2] = f
<1>1. Uses("users") /\ Uses("conns") /\ Uses("active") /\ Uses("engine") /\ Uses("sync")
  BY DEF R, W, AllUses, Fields
<1>2. /\ "stateMu" \in AllLocks /\ "activeUsersMu" \in AllLocks /\ "engine.mu" \in AllLocks
      /\ "syncer.mu" \in AllLocks /\ "configMu" \in AllLocks
  BY DEF AllLocks, Mutexes
<1>3. /\ LockOf["users"] = "configMu" /\ LockOf["conns"] = "stateMu"
      /\ LockOf["active"] = "activeUsersMu" /\ LockOf["engine"] = "engine.mu"
      /\ LockOf["sync"] = "syncer.mu"
  BY DEF LockOf
<1>4. ASSUME NEW f, NEW m \in AllLocks, Uses(f), LockOf[f] = m
      PROVE  Balanced(Guarded(m, {R(f)})) /\ Balanced(Guarded(m, {W(f)}))
  <2>1. /\ {R(f)} \in SUBSET AllUses /\ \A use \in {R(f)} : LockOf[use[2]] = m
        /\ {W(f)} \in SUBSET AllUses /\ \A use \in {W(f)} : LockOf[use[2]] = m
    BY <1>4
  <2>2. Balanced(Guarded(m, {R(f)}))
    BY <2>1, GuardedBalanced
  <2>3. Balanced(Guarded(m, {W(f)}))
    BY <2>1, GuardedBalanced
  <2> QED BY <2>2, <2>3
<1> HIDE DEF Uses
<1>5. /\ Balanced(Guarded("configMu", {W("users")})) /\ Balanced(Guarded("stateMu", {W("conns")}))
      /\ Balanced(Guarded("activeUsersMu", {W("active")}))
      /\ Balanced(Guarded("activeUsersMu", {R("active")}))
      /\ Balanced(Guarded("engine.mu", {R("engine")})) /\ Balanced(Guarded("engine.mu", {W("engine")}))
      /\ Balanced(Guarded("syncer.mu", {R("sync")})) /\ Balanced(Guarded("syncer.mu", {W("sync")}))
  BY <1>1, <1>2, <1>3, <1>4
<1> QED BY <1>5 DEF UpdateAliveList, Register, Unregister, RegisterConn, UnregisterConn,
             CollectTraffic, EngineClose, Mark, ReadHashes

\* The calls that take one lock within another.
LEMMA NestedCalls == Balanced(UpdateUsers) /\ Balanced(BuildAlivePayload) /\ Balanced(Report)
<1>0. /\ "stateMu" \in Inner /\ "engine.mu" \in Inner
      /\ "configMu" \in AllLocks \ Inner /\ "reportMu" \in AllLocks \ Inner
      /\ "lock" \in Modes /\ "rlock" \in Modes
      /\ GivesBack("lock") = "unlock" /\ GivesBack("rlock") = "runlock"
  BY DEF Inner, AllLocks, Mutexes, Modes, GivesBack
<1>1. Balanced(UpdateUsers)
  <2>1. /\ {W("conns"), W("users")} \in SUBSET AllUses /\ {} \in SUBSET AllUses
        /\ \A use \in {W("conns"), W("users")} :
               \/ LockOf[use[2]] = "stateMu"
               \/ LockOf[use[2]] = "configMu" /\ ("lock" = "lock" \/ use[1] = "read")
    BY DEF W, AllUses, Fields, LockOf
  <2>2. Balanced(Step("lock", "configMu", {}) \o Guarded("stateMu", {W("conns"), W("users")})
                 \o Step(GivesBack("lock"), "configMu", {}))
    BY <1>0, <2>1, GuardedWithin
  <2> QED BY <1>0, <2>2 DEF UpdateUsers, Under
<1>2. Balanced(BuildAlivePayload)
  <2>1. /\ {R("users"), W("conns")} \in SUBSET AllUses /\ {} \in SUBSET AllUses
        /\ \A use \in {R("users"), W("conns")} :
               \/ LockOf[use[2]] = "stateMu"
               \/ LockOf[use[2]] = "configMu" /\ ("rlock" = "lock" \/ use[1] = "read")
    BY DEF R, W, AllUses, Fields, LockOf
  <2>2. Balanced(Step("rlock", "configMu", {}) \o Guarded("stateMu", {R("users"), W("conns")})
                 \o Step(GivesBack("rlock"), "configMu", {}))
    BY <1>0, <2>1, GuardedWithin
  <2> QED BY <1>0, <2>2 DEF BuildAlivePayload, Shared
<1>3. Balanced(Report)
  <2>1. /\ {R("engine")} \in SUBSET AllUses /\ {W("pending")} \in SUBSET AllUses
        /\ \A use \in {R("engine")} :
               \/ LockOf[use[2]] = "engine.mu"
               \/ LockOf[use[2]] = "reportMu" /\ ("lock" = "lock" \/ use[1] = "read")
        /\ \A use \in {W("pending")} :
               LockOf[use[2]] = "reportMu" /\ ("lock" = "lock" \/ use[1] = "read")
    BY DEF R, W, AllUses, Fields, LockOf
  <2>2. Balanced(Step("lock", "reportMu", {}) \o Guarded("engine.mu", {R("engine")})
                 \o Step(GivesBack("lock"), "reportMu", {W("pending")}))
    BY <1>0, <2>1, GuardedWithin
  <2> QED BY <1>0, <2>2 DEF Report, CollectTraffic, Under
<1> QED BY <1>1, <1>2, <1>3

\* Every call takes its locks in order, uses no field without its lock, and
\* returns, wherever it may, with every lock given back.
LEMMA Disciplined == \A c \in DOMAIN Script : Balanced(Script[c])
<1>0. DOMAIN Script = {"route", "close", "failed", "sync", "report", "alive", "shutdown"}
  BY DEF Script
<1>1. Balanced(Check) /\ Balanced(UserSpeedBucket)
  BY SharedBalanced, SimpleCalls, Returning, InTurn DEF Check, UserSpeedBucket, Register
<1>2. Balanced(GetOnlineCount) /\ Balanced(ReloadUsers) /\ Balanced(SyncFails)
      /\ Balanced(MayReturn(Mark))
  BY SimpleCalls, Returning, InTurn
     DEF GetOnlineCount, ReloadUsers, SyncFails, CollectTraffic, EngineClose
<1>3. Balanced(Script["route"])
  BY <1>1, SimpleCalls, InTurn DEF Script
<1>4. Balanced(Script["close"])
  BY SimpleCalls, InTurn DEF Script
<1>5. Balanced(Sync)
  <2>1. Balanced(ReadHashes \o UpdateUsers \o MayReturn(Mark))
    BY <1>2, SimpleCalls, NestedCalls, InTurn
  <2> DEFINE a == ReadHashes \o UpdateUsers \o MayReturn(Mark)
  <2>2. Balanced(a \o Report \o UpdateAliveList)
    BY <2>1, SimpleCalls, NestedCalls, InTurn
  <2> DEFINE b == a \o Report \o UpdateAliveList
  <2>3. Balanced(b \o ReloadUsers \o Mark)
    BY <2>2, <1>2, SimpleCalls, InTurn
  <2> DEFINE d == b \o ReloadUsers \o Mark
  <2>4. Balanced(d \o MayReturn(Mark) \o Mark)
    BY <2>3, <1>2, SimpleCalls, InTurn
  <2> QED BY <2>4 DEF Sync
<1>6. Balanced(Script["alive"])
  BY <1>2, NestedCalls, InTurn DEF Script
<1>7. Balanced(Script["shutdown"])
  BY SimpleCalls, NestedCalls, InTurn DEF Script
<1>8. /\ Script["failed"] = SyncFails /\ Script["sync"] = Sync /\ Script["report"] = Report
  BY DEF Script
<1> QED BY <1>0, <1>2, <1>3, <1>4, <1>5, <1>6, <1>7, <1>8, NestedCalls

--------------------------------------------------------------------------------
(* Who holds what: the inductive invariant.                                *)
(*                                                                         *)
(* The places of the goroutines in their scripts say which locks each one  *)
(* holds, and the state of the locks says the same.                        *)

Holds(g, mode, m) == call[g] # "none" /\ Took(Script[call[g]], pc[g], mode, m)

Typed ==
    /\ call \in [Goroutines -> DOMAIN Script \cup {"none"}]
    /\ pc \in [Goroutines -> Nat]
    /\ \A g \in Goroutines : call[g] # "none" =>
           call[g] \in CallsOf(g) /\ pc[g] \in 1..Len(Script[call[g]])
    /\ owner \in [Mutexes -> Goroutines \cup {Nobody}]
    /\ writer \in Goroutines \cup {Nobody}
    /\ readers \subseteq Goroutines /\ parked \subseteq Goroutines

Held ==
    \A g \in Goroutines :
        /\ \A m \in Mutexes : owner[m] = g <=> Holds(g, "lock", m)
        /\ Holds(g, "lock", "configMu") => writer = g /\ readers = {}
        /\ writer = g => Holds(g, "lock", "configMu") \/ At(g, "lock", "configMu")
        /\ g \in readers <=> Holds(g, "rlock", "configMu")
        /\ g \in parked => At(g, "rlock", "configMu") /\ writer # Nobody

LocksInv == Typed /\ Held

LEMMA HeldTyped == LocksInv => TypeOK
<1> SUFFICES ASSUME LocksInv PROVE TypeOK
  OBVIOUS
<1> DEFINE Calling == {g \in Goroutines : call[g] # "none"}
<1>1. owner \in [Mutexes -> Calling \cup {Nobody}]
  BY DEF LocksInv, Typed, Held, Holds
<1>2. writer \in Calling \cup {Nobody} /\ readers \subseteq Calling /\ parked \subseteq Calling
  BY DEF LocksInv, Typed, Held, Holds, At
<1> QED BY <1>1, <1>2 DEF LocksInv, Typed, TypeOK

LEMMA NoneIsNoCall == "none" \notin DOMAIN Script
BY DEF Script

\* The script a goroutine follows, and where it is.
LEMMA InScript ==
    ASSUME Typed, NEW g \in Goroutines, call[g] # "none"
    PROVE  /\ Balanced(Script[call[g]]) /\ Script[call[g]] \in Seq(Steps)
           /\ pc[g] \in 1..Len(Script[call[g]])
           /\ Here(g) = Script[call[g]][pc[g]] /\ Here(g) \in Steps
           /\ Fit(Script[call[g]], pc[g])
<1>1. call[g] \in DOMAIN Script
  BY DEF Typed
<1>2. Balanced(Script[call[g]]) /\ pc[g] \in 1..Len(Script[call[g]])
  BY <1>1, Disciplined DEF Typed
<1> QED BY <1>2 DEF Balanced, Here

\* What a step takes is not held yet, and what it gives back is.
LEMMA HereFits ==
    ASSUME Typed, NEW g \in Goroutines, call[g] # "none"
    PROVE  /\ Here(g).op \in Modes =>
                  \A mode \in Modes, m \in AllLocks :
                      Holds(g, mode, m) => m \notin Inner /\ Here(g).on \in Inner
           /\ Here(g).op = "unlock" => Holds(g, "lock", Here(g).on)
           /\ Here(g).op = "runlock" => Holds(g, "rlock", Here(g).on)
           /\ \A use \in Here(g).uses :
                  \/ Holds(g, "lock", LockOf[use[2]])
                  \/ use[1] = "read" /\ Holds(g, "rlock", LockOf[use[2]])
BY InScript DEF Fit, Holds

\* What the goroutines that go on hold afterwards; the others stay where they are.
LEMMA Advancing ==
    ASSUME Typed, NEW S \in SUBSET Goroutines, \A g \in S : call[g] # "none", Advance(S)
    PROVE  /\ call' \in [Goroutines -> DOMAIN Script \cup {"none"}] /\ pc' \in [Goroutines -> Nat]
           /\ \A g \in Goroutines : call'[g] # "none" =>
                  call'[g] \in CallsOf(g) /\ pc'[g] \in 1..Len(Script[call'[g]])
           /\ \A g \in Goroutines \ S : call'[g] = call[g] /\ pc'[g] = pc[g]
           /\ \A g \in S, mode \in Modes, m \in AllLocks :
                  Holds(g, mode, m)' <=>
                      IF Here(g).on = m THEN Here(g).op = mode ELSE Holds(g, mode, m)
<1>1. PICK early \in SUBSET {g \in S : Here(g).end} :
          LET Returns(g) == g \in early \/ (g \in S /\ pc[g] = Len(Script[call[g]])) IN
          /\ call' = [g \in Goroutines |-> IF Returns(g) THEN "none" ELSE call[g]]
          /\ pc' = [g \in Goroutines |->
                       IF Returns(g) THEN 0 ELSE IF g \in S THEN pc[g] + 1 ELSE pc[g]]
  BY DEF Advance
<1> DEFINE Returns(g) == g \in early \/ (g \in S /\ pc[g] = Len(Script[call[g]]))
<1>2. \A g \in Goroutines :
          /\ call'[g] = IF Returns(g) THEN "none" ELSE call[g]
          /\ pc'[g] = IF Returns(g) THEN 0 ELSE IF g \in S THEN pc[g] + 1 ELSE pc[g]
  BY <1>1
<1>3. \A g \in Goroutines : Returns(g) => g \in S
  BY <1>1
<1>4. \A g \in early : Here(g).end
  BY <1>1
<1>5. ASSUME NEW g \in S, ~Returns(g) PROVE pc[g] + 1 \in 1..Len(Script[call[g]])
  BY <1>5, InScript
<1>6. ASSUME NEW g \in S, Returns(g) PROVE HoldsNone(Script[call[g]], pc[g] + 1)
  <2>1. CASE g \in early
    BY <1>4, <2>1, InScript DEF Fit
  <2>2. CASE pc[g] = Len(Script[call[g]])
    BY <2>2, InScript DEF Balanced
  <2> QED BY <1>6, <2>1, <2>2
<1>7. call' \in [Goroutines -> DOMAIN Script \cup {"none"}] /\ pc' \in [Goroutines -> Nat]
  <2>1. \A g \in Goroutines : pc'[g] \in Nat /\ call'[g] \in DOMAIN Script \cup {"none"}
    BY <1>2 DEF Typed
  <2> QED BY <1>1, <2>1
<1>8. ASSUME NEW g \in Goroutines, call'[g] # "none"
      PROVE  call'[g] \in CallsOf(g) /\ pc'[g] \in 1..Len(Script[call'[g]])
  <2>1. ~Returns(g) /\ call'[g] = call[g]
    BY <1>2, <1>8
  <2>2. CASE g \in S
    BY <1>2, <1>5, <1>8, <2>1, <2>2 DEF Typed
  <2>3. CASE g \notin S
    BY <1>2, <1>8, <2>1, <2>3 DEF Typed
  <2> QED BY <2>2, <2>3
<1>9. \A g \in Goroutines \ S : call'[g] = call[g] /\ pc'[g] = pc[g]
  BY <1>2, <1>3
<1>10. ASSUME NEW g \in S, NEW mode \in Modes, NEW m \in AllLocks
       PROVE  Holds(g, mode, m)' <=>
                  IF Here(g).on = m THEN Here(g).op = mode ELSE Holds(g, mode, m)
  <2>1. Took(Script[call[g]], pc[g] + 1, mode, m) <=>
            IF Here(g).on = m THEN Here(g).op = mode ELSE Holds(g, mode, m)
    BY InScript, TookNext DEF Holds
  <2>2. CASE Returns(g)
    <3>1. ~Holds(g, mode, m)'
      BY <1>2, <2>2 DEF Holds
    <3>2. ~Took(Script[call[g]], pc[g] + 1, mode, m)
      BY <1>6, <2>2 DEF HoldsNone
    <3> QED BY <2>1, <3>1, <3>2
  <2>3. CASE ~Returns(g)
    <3>1. call'[g] = call[g] /\ pc'[g] = pc[g] + 1
      BY <1>2, <2>3
    <3>2. Holds(g, mode, m)' <=> Took(Script[call[g]], pc[g] + 1, mode, m)
      BY <3>1 DEF Holds
    <3> QED BY <2>1, <3>2
  <2> QED BY <2>2, <2>3
<1> HIDE DEF Returns
<1> QED BY <1>7, <1>8, <1>9, <1>10

LEMMA InitLocks == Init => LocksInv
BY Sentinel DEF Init, LocksInv, Typed, Held, Holds, At

LEMMA NobodyIsNoGoroutine == Nobody \notin Goroutines
BY Sentinel

\* Goroutines that do not move hold and wait for what they did.
LEMMA Unmoved ==
    ASSUME NEW g, call'[g] = call[g], pc'[g] = pc[g]
    PROVE  /\ \A mode, m : Holds(g, mode, m)' <=> Holds(g, mode, m)
           /\ \A op, m : At(g, op, m)' <=> At(g, op, m)
BY DEF Holds, At, Here

LEMMA BeginHeld ==
    ASSUME LocksInv, NEW g \in Goroutines, NEW c \in CallsOf(g), Begin(g, c)
    PROVE  LocksInv'
<1>1. c \in DOMAIN Script /\ c # "none" /\ Len(Script[c]) \in Nat /\ Len(Script[c]) > 0
  <2>1. c \in DOMAIN Script
    BY DEF CallsOf, Script
  <2> QED BY <2>1, Disciplined, NoneIsNoCall DEF Balanced
<1>2. /\ call[g] = "none" /\ call' = [call EXCEPT ![g] = c] /\ pc' = [pc EXCEPT ![g] = 1]
      /\ UNCHANGED <<owner, writer, readers, parked>>
  BY DEF Begin
<1>3. call'[g] = c /\ pc'[g] = 1
  BY <1>2 DEF LocksInv, Typed
<1>4. \A h \in Goroutines : h # g => call'[h] = call[h] /\ pc'[h] = pc[h]
  BY <1>2 DEF LocksInv, Typed
<1>5. Typed'
  <2>1. call' \in [Goroutines -> DOMAIN Script \cup {"none"}] /\ pc' \in [Goroutines -> Nat]
    BY <1>1, <1>2 DEF LocksInv, Typed
  <2>2. \A h \in Goroutines : call'[h] # "none" =>
            call'[h] \in CallsOf(h) /\ pc'[h] \in 1..Len(Script[call'[h]])
    BY <1>1, <1>3, <1>4 DEF LocksInv, Typed
  <2> QED BY <1>2, <2>1, <2>2 DEF LocksInv, Typed
<1>6. \A mode, m : ~Holds(g, mode, m)' /\ ~Holds(g, mode, m)
  BY <1>2, <1>3, TookFirst DEF Holds
<1>7. \A op, m : ~At(g, op, m)
  BY <1>2 DEF At
<1>8. \A h \in Goroutines : h # g => /\ \A mode, m : Holds(h, mode, m)' <=> Holds(h, mode, m)
                                     /\ \A op, m : At(h, op, m)' <=> At(h, op, m)
  BY <1>4, Unmoved
<1> QED BY <1>2, <1>5, <1>6, <1>7, <1>8 DEF LocksInv, Held

\* What a goroutine that goes on alone leaves of the types.
LEMMA AdvancedTyped ==
    ASSUME Typed, NEW S \in SUBSET Goroutines, \A g \in S : call[g] # "none", Advance(S),
           owner' \in [Mutexes -> Goroutines \cup {Nobody}], writer' \in Goroutines \cup {Nobody},
           readers' \subseteq Goroutines, parked' \subseteq Goroutines
    PROVE  Typed'
BY Advancing DEF Typed

LEMMA LockHeld ==
    ASSUME LocksInv, NEW g \in Goroutines, NEW m \in Mutexes, Lock(g, m) \/ Unlock(g, m)
    PROVE  LocksInv'
<1>1. /\ call[g] # "none" /\ Here(g).on = m /\ Here(g).op \in {"lock", "unlock"} /\ Advance({g})
      /\ UNCHANGED <<writer, readers, parked>>
      /\ Here(g).op = "lock" => owner[m] = Nobody /\ owner' = [owner EXCEPT ![m] = g]
      /\ Here(g).op = "unlock" => owner' = [owner EXCEPT ![m] = Nobody]
  BY DEF Lock, Unlock, At
<1>2. /\ \A h \in Goroutines \ {g} : call'[h] = call[h] /\ pc'[h] = pc[h]
      /\ \A mode \in Modes, x \in AllLocks :
             Holds(g, mode, x)' <=>
                 IF m = x THEN Here(g).op = mode ELSE Holds(g, mode, x)
  BY <1>1, Advancing DEF LocksInv
<1>3. Typed'
  <2>1. owner' \in [Mutexes -> Goroutines \cup {Nobody}]
    BY <1>1 DEF LocksInv, Typed
  <2> QED BY <1>1, <2>1, AdvancedTyped DEF LocksInv, Typed
<1>4. m # "configMu" /\ m \in AllLocks /\ Mutexes \subseteq AllLocks /\ "configMu" \in AllLocks
      /\ "lock" \in Modes /\ "rlock" \in Modes
  BY DEF Mutexes, AllLocks, Modes
<1>5. Here(g).op = "unlock" => owner[m] = g
  BY <1>1, HereFits DEF LocksInv, Held
<1>6. \A h \in Goroutines : h # g => /\ \A mode, x : Holds(h, mode, x)' <=> Holds(h, mode, x)
                                     /\ \A op, x : At(h, op, x)' <=> At(h, op, x)
  BY <1>2, Unmoved
<1>7. \A h \in Goroutines, x \in Mutexes : owner'[x] = h <=> Holds(h, "lock", x)'
  <2> TAKE h \in Goroutines, x \in Mutexes
  <2>1. owner[x] = h <=> Holds(h, "lock", x)
    BY DEF LocksInv, Held
  <2>2. CASE x # m
    <3>1. owner'[x] = owner[x]
      BY <1>1, <2>2 DEF LocksInv, Typed
    <3>2. Holds(h, "lock", x)' <=> Holds(h, "lock", x)
      BY <1>2, <1>4, <1>6, <2>2
    <3> QED BY <2>1, <3>1, <3>2
  <2>3. CASE x = m /\ h = g
    <3>1. Holds(g, "lock", m)' <=> Here(g).op = "lock"
      BY <1>2, <1>4
    <3>2. owner'[m] = g <=> Here(g).op = "lock"
      BY <1>1, NobodyIsNoGoroutine DEF LocksInv, Typed
    <3> QED BY <2>3, <3>1, <3>2
  <2>4. CASE x = m /\ h # g
    <3>1. owner'[m] # h /\ owner[m] # h
      BY <1>1, <1>5, <2>4, NobodyIsNoGoroutine DEF LocksInv, Typed
    <3> QED BY <1>6, <2>1, <2>4, <3>1
  <2> QED BY <2>2, <2>3, <2>4
<1>8. \A h \in Goroutines : /\ Holds(h, "lock", "configMu")' <=> Holds(h, "lock", "configMu")
                            /\ Holds(h, "rlock", "configMu")' <=> Holds(h, "rlock", "configMu")
  BY <1>2, <1>4, <1>6
<1>9. \A op : ~At(g, op, "configMu")
  BY <1>1, <1>4 DEF At
<1>10. Held'
  <2> SUFFICES ASSUME NEW h \in Goroutines
      PROVE  /\ Holds(h, "lock", "configMu")' => writer' = h /\ readers' = {}
             /\ writer' = h => Holds(h, "lock", "configMu")' \/ At(h, "lock", "configMu")'
             /\ h \in readers' <=> Holds(h, "rlock", "configMu")'
             /\ h \in parked' => At(h, "rlock", "configMu")' /\ writer' # Nobody
    BY <1>7 DEF Held
  <2> QED BY <1>1, <1>6, <1>8, <1>9 DEF LocksInv, Held
<1> QED BY <1>3, <1>10 DEF LocksInv

\* configMu: the mutexes are not touched.
LEMMA MutexesKept ==
    ASSUME LocksInv, NEW S \in SUBSET Goroutines,
           \A g \in S : call[g] # "none" /\ Here(g).on = "configMu",
           Advance(S), owner' = owner
    PROVE  \A h \in Goroutines, x \in Mutexes : owner'[x] = h <=> Holds(h, "lock", x)'
<1> TAKE h \in Goroutines, x \in Mutexes
<1>0. x # "configMu" /\ x \in AllLocks /\ "lock" \in Modes
  BY DEF Mutexes, AllLocks, Modes
<1>1. Holds(h, "lock", x)' <=> Holds(h, "lock", x)
  <2>1. CASE h \in S
    BY <1>0, <2>1, Advancing DEF LocksInv
  <2>2. CASE h \notin S
    <3>1. call'[h] = call[h] /\ pc'[h] = pc[h]
      BY <2>2, Advancing DEF LocksInv
    <3> QED BY <3>1, Unmoved
  <2> QED BY <2>1, <2>2
<1> QED BY <1>1 DEF LocksInv, Held

LEMMA ConfigMu ==
    "configMu" \in AllLocks /\ "configMu" \notin Mutexes /\ "lock" \in Modes /\ "rlock" \in Modes
BY DEF Mutexes, AllLocks, Modes

\* An announcement shuts nobody out who is in.
LEMMA AnnounceHeld ==
    ASSUME LocksInv, NEW g \in Goroutines, Announce(g)
    PROVE  LocksInv'
<1>1. /\ At(g, "lock", "configMu") /\ writer = Nobody /\ writer' = g
      /\ UNCHANGED <<call, pc, owner, readers, parked>>
  BY DEF Announce
<1>2. \A h \in Goroutines : /\ \A mode, m : Holds(h, mode, m)' <=> Holds(h, mode, m)
                            /\ \A op, m : At(h, op, m)' <=> At(h, op, m)
  BY <1>1, Unmoved
<1>3. \A h \in Goroutines : ~Holds(h, "lock", "configMu")
  BY <1>1, NobodyIsNoGoroutine DEF LocksInv, Held
<1> QED BY <1>1, <1>2, <1>3, NobodyIsNoGoroutine DEF LocksInv, Typed, Held

\* The goroutine that goes on alone past a step on configMu.
LEMMA AloneOnConfigMu ==
    ASSUME LocksInv, NEW g \in Goroutines, call[g] # "none", Here(g).on = "configMu", Advance({g})
    PROVE  /\ \A h \in Goroutines : h # g =>
                  /\ \A mode, m : Holds(h, mode, m)' <=> Holds(h, mode, m)
                  /\ \A op, m : At(h, op, m)' <=> At(h, op, m)
           /\ \A mode \in Modes : Holds(g, mode, "configMu")' <=> Here(g).op = mode
<1>1. \A h \in Goroutines \ {g} : call'[h] = call[h] /\ pc'[h] = pc[h]
  BY Advancing DEF LocksInv
<1>2. \A mode \in Modes : Holds(g, mode, "configMu")' <=> Here(g).op = mode
  BY Advancing, ConfigMu DEF LocksInv
<1> QED BY <1>1, <1>2, Unmoved

LEMMA WriteLockHeld ==
    ASSUME LocksInv, NEW g \in Goroutines, WriteLock(g)
    PROVE  LocksInv'
<1>1. /\ call[g] # "none" /\ Here(g).on = "configMu" /\ Here(g).op = "lock"
      /\ writer = g /\ readers = {} /\ Advance({g})
      /\ UNCHANGED <<owner, writer, readers, parked>>
  BY DEF WriteLock, At
<1>2. Typed'
  BY <1>1, AdvancedTyped DEF LocksInv, Typed
<1>3. \A h \in Goroutines, x \in Mutexes : owner'[x] = h <=> Holds(h, "lock", x)'
  BY <1>1, MutexesKept
<1>4. /\ \A h \in Goroutines : h # g =>
             /\ \A mode, m : Holds(h, mode, m)' <=> Holds(h, mode, m)
             /\ \A op, m : At(h, op, m)' <=> At(h, op, m)
      /\ Holds(g, "lock", "configMu")' /\ ~Holds(g, "rlock", "configMu")'
  BY <1>1, AloneOnConfigMu, ConfigMu
<1>5. g \notin parked
  BY <1>1 DEF LocksInv, Held, At
<1> QED BY <1>1, <1>2, <1>3, <1>4, <1>5, NobodyIsNoGoroutine DEF LocksInv, Held

\* The writer leaves, and the parked readers come in with nobody between them.
LEMMA WriteUnlockHeld ==
    ASSUME LocksInv, NEW g \in Goroutines, WriteUnlock(g)
    PROVE  LocksInv'
<1> DEFINE S == {g} \cup parked
<1>1. /\ call[g] # "none" /\ Here(g).on = "configMu" /\ Here(g).op = "unlock"
      /\ writer' = Nobody /\ readers' = parked /\ parked' = {} /\ Advance(S)
      /\ owner' = owner
  BY DEF WriteUnlock, At
<1>2. Holds(g, "lock", "configMu") /\ writer = g /\ readers = {}
  BY <1>1, HereFits DEF LocksInv, Held
<1>3. /\ S \in SUBSET Goroutines
      /\ \A h \in S : call[h] # "none" /\ Here(h).on = "configMu"
      /\ \A h \in parked : Here(h).op = "rlock"
      /\ g \notin parked
  BY <1>1 DEF LocksInv, Typed, Held, At
<1> HIDE DEF S
<1>4. Typed'
  BY <1>1, <1>3, AdvancedTyped DEF LocksInv, Typed
<1>5. \A h \in Goroutines, x \in Mutexes : owner'[x] = h <=> Holds(h, "lock", x)'
  BY <1>1, <1>3, MutexesKept
<1>6. \A h \in S, mode \in Modes : Holds(h, mode, "configMu")' <=> Here(h).op = mode
  BY <1>1, <1>3, Advancing, ConfigMu DEF LocksInv
<1>7. \A h \in Goroutines \ S : /\ ~Holds(h, "lock", "configMu")' /\ ~Holds(h, "rlock", "configMu")'
  <2> TAKE h \in Goroutines \ S
  <2>1. call'[h] = call[h] /\ pc'[h] = pc[h]
    BY <1>1, <1>3, Advancing DEF LocksInv
  <2>2. ~Holds(h, "lock", "configMu") /\ ~Holds(h, "rlock", "configMu")
    BY <1>2 DEF LocksInv, Held, S
  <2> QED BY <2>1, <2>2, Unmoved
<1>8. \A h \in Goroutines : /\ ~Holds(h, "lock", "configMu")'
                            /\ Holds(h, "rlock", "configMu")' <=> h \in parked
  <2> TAKE h \in Goroutines
  <2>1. CASE h = g
    BY <1>1, <1>3, <1>6, <2>1, ConfigMu DEF S
  <2>2. CASE h \in parked
    BY <1>3, <1>6, <2>2, ConfigMu DEF S
  <2>3. CASE h \notin S
    BY <1>7, <2>3 DEF S
  <2> QED BY <2>1, <2>2, <2>3 DEF S
<1> QED BY <1>1, <1>4, <1>5, <1>8, NobodyIsNoGoroutine DEF LocksInv, Held

\* A reader comes in when no writer has announced itself, and waits otherwise.
LEMMA ReadLockHeld ==
    ASSUME LocksInv, NEW g \in Goroutines, ReadLock(g)
    PROVE  LocksInv'
<1>1. /\ call[g] # "none" /\ Here(g).on = "configMu" /\ Here(g).op = "rlock"
      /\ At(g, "rlock", "configMu") /\ g \notin parked /\ UNCHANGED <<owner, writer>>
  BY DEF ReadLock, At
<1>2. CASE writer = Nobody
  <2>1. readers' = readers \cup {g} /\ Advance({g}) /\ parked' = parked
    BY <1>2 DEF ReadLock
  <2>2. Typed'
    BY <1>1, <2>1, AdvancedTyped DEF LocksInv, Typed
  <2>3. \A h \in Goroutines, x \in Mutexes : owner'[x] = h <=> Holds(h, "lock", x)'
    BY <1>1, <2>1, MutexesKept
  <2>4. /\ \A h \in Goroutines : h # g =>
               /\ \A mode, m : Holds(h, mode, m)' <=> Holds(h, mode, m)
               /\ \A op, m : At(h, op, m)' <=> At(h, op, m)
        /\ Holds(g, "rlock", "configMu")' /\ ~Holds(g, "lock", "configMu")'
    BY <1>1, <2>1, AloneOnConfigMu, ConfigMu
  <2>5. \A h \in Goroutines : ~Holds(h, "lock", "configMu") /\ h \notin parked
    BY <1>2, NobodyIsNoGoroutine DEF LocksInv, Held
  <2> QED BY <1>1, <1>2, <2>1, <2>2, <2>3, <2>4, <2>5, NobodyIsNoGoroutine DEF LocksInv, Held
<1>3. CASE writer # Nobody
  <2>1. parked' = parked \cup {g} /\ UNCHANGED <<readers, call, pc>>
    BY <1>3 DEF ReadLock
  <2>2. \A h \in Goroutines : /\ \A mode, m : Holds(h, mode, m)' <=> Holds(h, mode, m)
                              /\ \A op, m : At(h, op, m)' <=> At(h, op, m)
    BY <2>1, Unmoved
  <2> QED BY <1>1, <1>3, <2>1, <2>2 DEF LocksInv, Typed, Held
<1> QED BY <1>2, <1>3

LEMMA ReadUnlockHeld ==
    ASSUME LocksInv, NEW g \in Goroutines, ReadUnlock(g)
    PROVE  LocksInv'
<1>1. /\ call[g] # "none" /\ Here(g).on = "configMu" /\ Here(g).op = "runlock"
      /\ readers' = readers \ {g} /\ Advance({g}) /\ UNCHANGED <<owner, writer, parked>>
  BY DEF ReadUnlock, At
<1>2. Typed'
  BY <1>1, AdvancedTyped DEF LocksInv, Typed
<1>3. \A h \in Goroutines, x \in Mutexes : owner'[x] = h <=> Holds(h, "lock", x)'
  BY <1>1, MutexesKept
<1>4. /\ \A h \in Goroutines : h # g =>
             /\ \A mode, m : Holds(h, mode, m)' <=> Holds(h, mode, m)
             /\ \A op, m : At(h, op, m)' <=> At(h, op, m)
      /\ ~Holds(g, "lock", "configMu")' /\ ~Holds(g, "rlock", "configMu")'
  BY <1>1, AloneOnConfigMu, ConfigMu
<1>5. Holds(g, "rlock", "configMu") /\ g \in readers
  BY <1>1, HereFits DEF LocksInv, Held
<1>6. g \notin parked /\ writer # g
  BY <1>1, <1>5 DEF LocksInv, Held, At
<1> QED BY <1>1, <1>2, <1>3, <1>4, <1>6 DEF LocksInv, Held

LEMMA NextLocks == LocksInv /\ [Next]_vars => LocksInv'
<1> SUFFICES ASSUME LocksInv, [Next]_vars PROVE LocksInv'
  OBVIOUS
<1>1. CASE UNCHANGED vars
  <2>1. /\ \A h, mode, m : Holds(h, mode, m)' <=> Holds(h, mode, m)
        /\ \A h, op, m : At(h, op, m)' <=> At(h, op, m)
    BY <1>1, Unmoved DEF vars
  <2> QED BY <1>1, <2>1 DEF vars, LocksInv, Typed, Held
<1>2. CASE Next
  <2>1. PICK g \in Goroutines : Proceed(g) \/ \E c \in CallsOf(g) : Begin(g, c)
    BY <1>2 DEF Next
  <2> QED BY <2>1, BeginHeld, LockHeld, AnnounceHeld, WriteLockHeld, WriteUnlockHeld,
             ReadLockHeld, ReadUnlockHeld DEF Proceed
<1> QED BY <1>1, <1>2

\* In every state the locks are held by exactly the goroutines whose place in
\* their script says so.
THEOREM Invariance == Spec => []LocksInv
BY InitLocks, NextLocks, PTL DEF Spec

\* However many connections there are: locks are held within calls only, and no
\* way out of a call keeps one.
THEOREM TypeCorrect == Spec => []TypeOK
BY Invariance, HeldTyped, PTL

--------------------------------------------------------------------------------
(* No circle of waiting.                                                   *)
(*                                                                         *)
(* Whoever holds an inner lock waits for nobody; so nobody in a circle     *)
(* waits for an inner lock, nobody in it holds any lock and waits, and a   *)
(* writer that has announced itself waits for readers who do not wait.     *)

LEMMA NoCircleOfWaiting == LocksInv => NoCircle
<1> SUFFICES ASSUME LocksInv, NEW S \in SUBSET Goroutines, S # {},
                    \A g \in S : WaitsFor(g) \cap S # {}
             PROVE  FALSE
  BY DEF NoCircle
<1>0. \A m \in Mutexes : m \in AllLocks
  BY DEF AllLocks
\* Everybody in S is about to take a lock.
<1>1. ASSUME NEW g \in S
      PROVE  /\ call[g] # "none" /\ Here(g).op \in Modes /\ Here(g).on \in AllLocks
             /\ Here(g).op = "rlock" => Here(g).on = "configMu"
  <2>1. call[g] # "none" /\ Here(g).op \in Modes
    BY DEF WaitsFor, Modes
  <2> QED BY <2>1, InScript DEF LocksInv, Steps, Fit
\* Nobody in S holds a lock and waits for another than an inner one.
<1>2. ASSUME NEW g \in S, NEW mode \in Modes, NEW m \in AllLocks, Holds(g, mode, m)
      PROVE  m \notin Inner /\ Here(g).on \in Inner
  BY <1>1, <1>2, HereFits DEF LocksInv
<1>3. \A m \in Inner : m \in Mutexes
  BY DEF Inner, Mutexes
\* A mutex that somebody in S waits for is held by another one in S.
<1>4. ASSUME NEW g \in S, Here(g).on \in Mutexes
      PROVE  \E h \in S : Holds(h, "lock", Here(g).on)
  <2>1. Here(g).op = "lock" /\ Here(g).on # "configMu"
    BY <1>1, <1>4, ConfigMu DEF Modes
  <2>2. owner[Here(g).on] \in S
    BY <1>1, <2>1 DEF WaitsFor
  <2> QED BY <1>4, <2>2 DEF LocksInv, Held
<1>5. \A g \in S : Here(g).on \notin Inner
  BY <1>0, <1>2, <1>3, <1>4, ConfigMu
<1>6. \A g \in S, mode \in Modes, m \in AllLocks : ~Holds(g, mode, m)
  BY <1>2, <1>5
<1>7. \A g \in S : Here(g).on = "configMu"
  BY <1>0, <1>1, <1>4, <1>6, ConfigMu DEF AllLocks
\* So all of S is before configMu, and one of them has announced to write.
<1>8. \A g \in S : writer # g
  <2> TAKE g \in S
  <2>1. ASSUME writer = g PROVE FALSE
    <3>1. At(g, "lock", "configMu")
      BY <1>6, <2>1, ConfigMu DEF LocksInv, Held
    <3>2. WaitsFor(g) = readers
      BY <2>1, <3>1 DEF At, WaitsFor
    <3>3. PICK h \in S : h \in readers
      BY <3>2
    <3> QED BY <1>6, <3>3, ConfigMu DEF LocksInv, Held
  <2> QED BY <2>1
<1>9. \A g \in S : WaitsFor(g) \subseteq {writer}
  <2> TAKE g \in S
  <2>1. CASE Here(g).op = "lock"
    BY <1>1, <1>7, <1>8, <2>1 DEF WaitsFor
  <2>2. CASE Here(g).op = "rlock"
    BY <1>1, <1>7, <2>2 DEF WaitsFor
  <2> QED BY <1>1, <2>1, <2>2 DEF Modes
<1> QED BY <1>8, <1>9

\* Whatever the connections, the tickers and a shutdown do, they never wait for
\* one another in a circle.
THEOREM DeadlockFree == Spec => []NoCircle
BY Invariance, NoCircleOfWaiting, PTL

--------------------------------------------------------------------------------
(* No race. *)

\* Only configMu is ever locked for reading.
LEMMA OnlyConfigMuIsRead ==
    ASSUME LocksInv, NEW g \in Goroutines, NEW m \in Mutexes
    PROVE  ~Holds(g, "rlock", m)
<1> SUFFICES ASSUME Holds(g, "rlock", m) PROVE FALSE
  OBVIOUS
<1> DEFINE s == Script[call[g]]
<1>1. s \in Seq(Steps) /\ Balanced(s) /\ pc[g] \in 1..Len(s)
  BY InScript DEF Holds, LocksInv
<1> HIDE DEF s
<1>2. PICK j \in 1..(pc[g] - 1) : s[j].op = "rlock" /\ s[j].on = m
  BY DEF Holds, Took, s
<1>3. j \in 1..Len(s)
  BY <1>1
<1>4. Fit(s, j)
  BY <1>1, <1>3 DEF Balanced
<1> QED BY <1>2, <1>4, ConfigMu DEF Fit

\* Two goroutines never hold one lock, unless both read under configMu.
LEMMA Exclusive ==
    ASSUME LocksInv, NEW g \in Goroutines, NEW h \in Goroutines, g # h, NEW m \in AllLocks,
           Holds(g, "lock", m)
    PROVE  ~Holds(h, "lock", m) /\ ~Holds(h, "rlock", m)
<1>1. CASE m = "configMu"
  BY <1>1 DEF LocksInv, Held
<1>2. CASE m \in Mutexes
  <2>1. ~Holds(h, "lock", m)
    BY <1>2 DEF LocksInv, Held
  <2>2. ~Holds(h, "rlock", m)
    BY <1>2, OnlyConfigMuIsRead
  <2> QED BY <2>1, <2>2
<1> QED BY <1>1, <1>2 DEF AllLocks

LEMMA NobodyRaces == LocksInv => NoRace
<1> SUFFICES ASSUME LocksInv, NEW g \in Goroutines, NEW h \in Goroutines, g # h,
                    call[g] # "none", call[h] # "none",
                    NEW use \in Here(g).uses, use[1] = "write",
                    NEW other \in Here(h).uses, other \in {R(use[2]), W(use[2])}
             PROVE  FALSE
  BY DEF NoRace
<1>1. other[2] = use[2]
  BY DEF R, W
<1>2. LockOf[use[2]] \in AllLocks
  BY InScript DEF LocksInv, Steps, LockOf, Fields, AllLocks, Mutexes
<1>3. Holds(g, "lock", LockOf[use[2]])
  BY HereFits DEF LocksInv
<1>4. Holds(h, "lock", LockOf[use[2]]) \/ Holds(h, "rlock", LockOf[use[2]])
  BY <1>1, HereFits DEF LocksInv
<1> QED BY <1>2, <1>3, <1>4, Exclusive

\* Nobody writes a field that a lock protects while another goroutine reads or
\* writes it, however many connections come and go.
THEOREM RaceFree == Spec => []NoRace
BY Invariance, NobodyRaces, PTL
================================================================================
