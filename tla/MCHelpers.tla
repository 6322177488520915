------------------------------ MODULE MCHelpers -----------------------------
(* The clients and targets of the messages.  The sender s, the users m and n  *)
(* and the server t; n has the user name v.                                   *)
EXTENDS Helpers

Person(nick, user, server, modes, chans) ==
    [type |-> "USER", nick |-> nick, user |-> user, host |-> "h", server |-> server,
     modes |-> modes, chans |-> chans]

\* the sender with modes own, in the channel c or not; n with modes, or the channel with
\* some of its guards; at most one connection fails
OneWorld(own, modes, common, dead, chan) ==
    LET s == Person("s", "w", "t", own, common)
    IN [from |-> s, chans |-> ("c" :> chan), dead |-> dead,
        clients |-> <<Person("n", "v", "t", modes, {"c"}), Person("m", "v", "p", {}, {"c"}), s,
                      [type |-> "SERVER", nick |-> "p", user |-> "", host |-> "", server |-> "t",
                       modes |-> {}, chans |-> {}]>>]

Guards(modes, bans, excepts, ranked) ==
    [modes |-> modes, bans |-> bans, excepts |-> excepts, ranked |-> ranked]

MCWorld ==
    {OneWorld(own, modes, common, dead, Guards({"n"}, {}, {}, {})) :
        own \in {{}, {"R"}, {"o"}}, modes \in {{}, {"b"}, {"C"}, {"a"}}, common \in {{}, {"c"}},
        dead \in {{}, {"n"}, {"p"}, {"s"}}}
    \cup {OneWorld(own, {}, common, {"n"}, chan) :
        own \in {{}, {"R"}}, common \in {{}, {"c"}},
        chan \in {Guards({}, {}, {}, {}), Guards({"m"}, {}, {}, {"s"}), Guards({"M"}, {}, {}, {"s"}),
                  Guards({}, {"s"}, {}, {}), Guards({}, {"s"}, {"s"}, {})}}

Parts(nick, user, host, server) ==
    [kind |-> "user", nick |-> nick, user |-> user, host |-> host, server |-> server]

MCTarget ==
    {Parts(None, "n", None, None), Parts(None, "v", None, None), Parts(None, "p", None, None),
     Parts(None, "z", None, None), Parts("n", "v", "h", "h"), Parts("z", "v", None, None),
     Parts(None, "v", None, "p"), [kind |-> "channel", chan |-> "c"], [kind |-> "channel", chan |-> "d"],
     [kind |-> "mask", type |-> "$", mask |-> {"t"}, wild |-> FALSE]}

\* a mask of the host, and one of a nick with the host that is shown
MCMask == {{<<"n", "h">>, <<"m", "h">>}, {<<"m", "k">>}}
=============================================================================
