-------------------------------- MODULE MCNodes --------------------------------
(***************************************************************************)
(* Instances of Nodes for TLC.  There are three ways to set the process    *)
(* up, two pairs of intervals of the panel, and two users with a unit of   *)
(* traffic each; the disk may fail.  A Duration has 8 bits and a second    *)
(* two ticks: 60 seconds fit, and 100 come out negative.                   *)
(***************************************************************************)
EXTENDS Nodes, TLC

CONSTANTS u1, u2

\* Both users are at the first node, under the numbers 1 and 2.
AtFirst   == [k \in {u1, u2} |-> 1]
TwoUsers  == (u1 :> 1) @@ (u2 :> 2)

None == [k \in Keys |-> Empty]
With(more) == more @@ ("PANEL_HOST" :> Word("host") @@ "PANEL_TOKEN" :> Word("token")) @@ None
Line(key, v, q) == [key |-> key, val |-> v, quoted |-> q]

\* Two nodes.  The IDs and an interval come from the file; a blank in the
\* environment keeps the other interval of the file out.
Plain == [env |-> With("SYNC_INTERVAL" :> Blank),
          lines |-> <<Line("NODE_ID", List(<<Num(1), Blank, Num(2)>>), FALSE),
                      Line("SYNC_INTERVAL", Num(45), FALSE),
                      Line("REPORT_INTERVAL", Blank, FALSE),
                      Line("REPORT_INTERVAL", Num(20), TRUE),
                      Line("REPORT_INTERVAL", Num(25), FALSE)>>]
\* One node, in the place where the other settings have another one; its
\* backlog has room for one user.
Moved == [env |-> With("NODE_ID" :> List(<<Num(2)>>)
                           @@ ("TRAFFIC_PENDING_MAX_USERS" :> Num(1))), lines |-> <<>>]
\* Settings that are refused.
Zero  == [env |-> With("NODE_ID" :> List(<<Num(1), Num(2)>>)
                           @@ ("REPORT_INTERVAL" :> Num(0))), lines |-> <<>>]

SomeWorlds == {Plain, Moved, Zero}
PlainOnly  == {Plain}

SomeOffers == {[pull |-> -1, push |-> 50], [pull |-> 100, push |-> 0]}
================================================================================
