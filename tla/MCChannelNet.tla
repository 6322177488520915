---------------------------- MODULE MCChannelNet ----------------------------
EXTENDS ChannelNet

CONSTANTS s1, s2, s3, u1, u2, ca, cl, t1

MCLink == {<<s1, s2>>, <<s2, s1>>}
MCHome == u1 :> s1 @@ u2 :> s2
MCLink3 == MCLink \cup {<<s2, s3>>, <<s3, s2>>}
MCHome3 == u1 :> s1 @@ u2 :> s3
MCFragile3 == {<<s2, s3>>, <<s3, s2>>}
MCCmdChan == u1 :> {ca} @@ u2 :> {ca, cl}
MCCmdGlobal == u1 :> {ca} @@ u2 :> {ca}
MCPredefined == <<>>
MCChanges == {<<[set |-> TRUE, m |-> "b", arg |-> {u2}]>>}
=============================================================================
