------------------------------ MODULE MCChannel ------------------------------
EXTENDS ChannelInfo

CONSTANTS u1, u2, u3, ca, cb, k1, t1

MCUser == {u1, u2, u3}
MCPredefined == cb :> {"t"}

Chg(set, m, arg) == [set |-> set, m |-> m, arg |-> arg]
MCJoin == {<<ca>>, <<cb, ca>>}
MCChanges ==
    {<<Chg(b, "o", u)>> : b \in BOOLEAN, u \in {u1, u2}} \cup
    {<<Chg(TRUE, "h", u2)>>} \cup {<<Chg(TRUE, "q", u1)>>} \cup
    {<<Chg(FALSE, "o", u1), Chg(TRUE, "o", u3)>>} \cup
    {<<Chg(b, "b", {u2})>> : b \in BOOLEAN} \cup {<<Chg(TRUE, "s", NoArg)>>} \cup
    {<<Chg(TRUE, "I", {u2})>>} \cup
    {<<Chg(TRUE, "l", 65535), Chg(TRUE, "s", NoArg)>>}
=============================================================================
