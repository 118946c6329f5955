------------------------------- MODULE Quota -------------------------------
(***************************************************************************)
(* What a keyed rate limiter promises: every key has one token bucket that *)
(* is never forgotten, except that the buckets of a group of keys may be   *)
(* filled again when too many of them are in use at the same time.         *)
(*                                                                         *)
(* A level counts ticks of credit; a token costs Period[k] of them.        *)
(***************************************************************************)
EXTENDS Integers, FiniteSets

CONSTANTS
    Key,
    Group,          \* [Key -> the set of keys it belongs to]
    Period,         \* [Key -> ticks in which a token is earned]
    Cap,            \* [Key -> credit of a full bucket]
    MaxKeys, IdleTTL

VARIABLES
    clock,
    level,          \* [Key -> credit in its bucket]
    seen            \* [Key -> time of its last request]

vars == <<clock, level, seen>>

Init ==
    /\ clock = 0
    /\ level = Cap
    /\ seen = [k \in Key |-> -IdleTTL - 1]

Tick ==
    /\ clock' = clock + 1
    /\ level' = [k \in Key |-> IF level[k] < Cap[k] THEN level[k] + 1 ELSE Cap[k]]
    /\ seen' = seen

InUse(group) == {k \in group : clock - seen[k] <= IdleTTL}

Seen(k) ==
    /\ seen' = [seen EXCEPT ![k] = clock]
    /\ clock' = clock

Grant(k) ==
    /\ level[k] >= Period[k]
    /\ level' = [level EXCEPT ![k] = @ - Period[k]]
    /\ Seen(k)

Refuse(k) ==
    /\ level[k] < Period[k]
    /\ level' = level
    /\ Seen(k)

\* Credit is given away only when the group is crowded without k.
Forgive(k) ==
    /\ Cardinality(InUse(Group[k] \ {k})) >= MaxKeys
    /\ level' = [j \in Key |-> IF j = k THEN Cap[k] - Period[k]
                               ELSE IF j \in Group[k] THEN Cap[j] ELSE level[j]]
    /\ Seen(k)

Next == Tick \/ \E k \in Key : Grant(k) \/ Refuse(k) \/ Forgive(k)

Spec == Init /\ [][Next]_vars
=============================================================================
