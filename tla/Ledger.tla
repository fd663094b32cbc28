--------------------------------- MODULE Ledger ---------------------------------
(***************************************************************************)
(* What the accounting of a node promises, without the counters, the       *)
(* reports and the retries it is made of: a book of chunks of traffic.  A  *)
(* chunk that was moved is owed to the panel until the panel has booked it *)
(* and said so, or until it is lost in one of the admitted ways.           *)
(***************************************************************************)
EXTENDS Integers, FiniteSets

CONSTANTS
    Chunks,
    User(_),            \* the user a chunk belongs to
    Limit,              \* users whose backlog is kept at least
    MaxBooked           \* the panel's count of one chunk saturates here

VARIABLES
    moved,              \* all chunks that connections have moved so far
    owed,               \* the chunks the node still means to push
    file,               \* the chunks a restart would find
    booked,             \* how often the panel has booked each chunk
    up                  \* whether the process runs

vars == <<moved, owed, file, booked, up>>

Init ==
    /\ moved = {} /\ owed = {} /\ file = {}
    /\ booked = [k \in Chunks |-> 0]
    /\ up = TRUE

Book(S) ==
    booked' = [k \in Chunks |->
                  IF k \in S /\ booked[k] < MaxBooked THEN booked[k] + 1 ELSE booked[k]]

\* Traffic is owed from the moment it is moved, and is moved once.
Move(k) ==
    /\ up /\ k \notin moved
    /\ moved' = moved \cup {k} /\ owed' = owed \cup {k}
    /\ UNCHANGED <<file, booked, up>>

\* The panel books a part of what is owed, all at once, and says so: it is owed no more.
Settle(S) ==
    /\ up /\ Book(S)
    /\ owed' = owed \ S
    /\ UNCHANGED <<moved, file, up>>

\* The panel books it and the node is not told: it stays owed.
Misbook(S) ==
    /\ up /\ Book(S)
    /\ UNCHANGED <<moved, owed, file, up>>

\* A backlog that grew too long is cut, and never below Limit users.
Trim(S) ==
    /\ up /\ Cardinality({User(k) : k \in owed \ S}) >= Limit
    /\ owed' = owed \ S
    /\ UNCHANGED <<moved, file, booked, up>>

\* The file is replaced by chunks that are owed; none that it held and that is
\* still owed is missing from the new one.
Save(S) ==
    /\ up /\ file \cap owed \subseteq S
    /\ file' = S
    /\ UNCHANGED <<moved, owed, booked, up>>

\* The file goes when nothing in it is owed any more.
Forget ==
    /\ up /\ file \cap owed = {}
    /\ file' = {}
    /\ UNCHANGED <<moved, owed, booked, up>>

\* The process ends: what the file holds is owed, and nothing else is.
Stop ==
    /\ up /\ up' = FALSE
    /\ owed' = file
    /\ UNCHANGED <<moved, file, booked>>

\* It starts again with the content of the file, cut to the limit, or without
\* it: then the file is left alone or put aside.
Start(S) ==
    /\ ~up /\ up' = TRUE
    /\ owed' = S
    /\ IF S = {}
       THEN file' \in {file, {}}
       ELSE /\ file' = file
            /\ S = file \/ Cardinality({User(k) : k \in S}) >= Limit
    /\ UNCHANGED <<moved, booked>>

Next ==
    \/ \E k \in Chunks : Move(k)
    \/ \E S \in SUBSET owed : Settle(S) \/ Misbook(S) \/ Trim(S) \/ Save(S)
    \/ Forget \/ Stop
    \/ \E S \in SUBSET file : Start(S)

Spec == Init /\ [][Next]_vars
================================================================================
