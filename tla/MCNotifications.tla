--------------------------- MODULE MCNotifications ---------------------------
(***************************************************************************)
(* Notifications for TLC: two trades and one pushed event for the session  *)
(* that both browsers watch, a trade of another session; a channel of one  *)
(* message, so that two unforwarded events make a receiver lag.            *)
(***************************************************************************)
EXTENDS Notifications

CONSTANTS t1, t2, t3, u1, d1, d2, d3, s1, s2, c1, c2, c3

Named == [m \in Trades \cup Pushes |->
            CASE m = t2 -> s2 [] m = t3 -> NoCampaign [] OTHER -> s1]
Viewers == [c \in Clients |-> s1]
=============================================================================
