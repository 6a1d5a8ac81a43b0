---------------------------- MODULE MCLlmProxy ----------------------------
(***************************************************************************)
(* Two pods and two requests.  A tick is an hour, as is the retention of   *)
(* the purge and the quota window of Hour; Long has a window of three.     *)
(***************************************************************************)
EXTENDS LlmProxy

MCUser == {"u1", "u2"}

\* The first request is u1's: the users are interchangeable.
MCSenders == <<{"u1"}, MCUser>>

MCModel == {"", "m"}

\* A quota of one request an hour.
Hour == [limit |-> 1, window |-> 1, guards |-> {"noop"}, backends |-> {"default"},
         map |-> << >>, loops |-> {}]
\* The same over three hours, m mapped to a backend that is not configured.
Long == [Hour EXCEPT !.window = 3, !.map = <<[models |-> {"m"}, name |-> "other"]>>]
\* The kill switch, no quota, no backend but one for m that loops back.
Cut == [limit |-> 0, window |-> 1, guards |-> {"noop", "deny_all"}, backends |-> {"other"},
        map |-> <<[models |-> {"m"}, name |-> "other"]>>, loops |-> {"other"}]

MCConfig == {Hour, Long, Cut}
=============================================================================
