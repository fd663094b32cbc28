------------------------------ MODULE MCLimiter -------------------------------
(***************************************************************************)
(* Instances of Limiter for TLC: the user lists and alive lists a panel    *)
(* may send, over two users and two addresses.                             *)
(***************************************************************************)
EXTENDS Limiter, TLC

CONSTANTS u1, u2, p1, p2, r1

Conn2Symmetry == Permutations(Conns)

\* A user who may use n devices, without a speed limit.
Devices(n) == [device |-> n, speed |-> 0]
Speed(n)   == [device |-> 0, speed |-> n]

\* Two users, one of them limited to one device and to a speed; the other one
\* is removed, and the limits of the first change.
LimitLists == {(u1 :> [device |-> 1, speed |-> 1]) @@ (u2 :> Devices(0)), (u1 :> Speed(2))}

\* One user, with or without a device limit.
ReloadLists == {(u1 :> Devices(0)), (u1 :> Devices(1))}
OneUserList == {(u1 :> Devices(0))}

\* Nobody online elsewhere, or a blank entry and a device of u1.
NobodyAlive == [u \in Users |-> <<>>]
SomeAlive   == [NobodyAlive EXCEPT ![u1] = <<r1, Blank>>]
NoneAlive   == {NobodyAlive}
BothAlive   == {NobodyAlive, SomeAlive}
================================================================================
