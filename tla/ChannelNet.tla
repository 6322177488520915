----------------------------- MODULE ChannelNet -----------------------------
(* Channels in a network of servers that run this code: commands of users,      *)
(* forwarding along the tree of links, the burst when a link comes up, and      *)
(* netsplits.  A link is a pair of first-in first-out streams; when one end      *)
(* closes it, the other end learns of it later and may lose what was under way.  *)
EXTENDS ChannelOps, SequencesExt

CONSTANTS
    Server,
    Link,              \* pairs of servers that may be linked, both ways; a tree
    Home,              \* the server of every user
    CmdChan,           \* the channels that each user names
    ChangeList,        \* the MODE commands of users
    Topic,
    Leaver,            \* users that ever quit
    Victim,            \* users that are ever killed
    Fragile,           \* links that ever break
    MaxQueue           \* users and new links wait while this many messages are under way

ASSUME NetAssumption == /\ Link \subseteq Server \X Server
                        /\ \A l \in Link : <<l[2], l[1]>> \in Link
                        /\ Fragile \subseteq Link
                        /\ Home \in [User -> Server] /\ MaxQueue \in Nat

VARIABLES
    net,               \* the channels each server knows: a state of ChannelOps
    know,              \* know[s][u]: the link by which s knows user u; s if local
    reg,               \* reg[s][t]: how s knows server t: the link via, the number of
                       \* hops and the server top behind which it is
    state,             \* state of s's end of a link: "down", "hand"(shake), "up"
    q,                 \* q[<<a, b>>]: what a sent to b and b has not handled
    kicked,            \* history: users that were the target of a KICK
    killed             \* history: users that were the target of a KILL

vars == <<net, know, reg, state, q, kicked, killed>>
hist == <<kicked, killed>>

Up(s) == {n \in Server : <<s, n>> \in Link /\ state[<<s, n>>] = "up"}
Quiet == MapThenSumSet(LAMBDA l : Len(q[l]), Link) < MaxQueue

\* messages ms from s to all its linked servers but those in not
\* (IRC_WriteStrServersPrefix); what is sent on a link that the peer closed is lost
Sent(queues, s, ms, not) ==
    [l \in Link |-> IF l[1] = s /\ l[2] \in Up(s) \ not /\ state[<<l[2], s>>] # "down"
                    THEN queues[l] \o ms ELSE queues[l]]

Global(c, ms) == IF c \in LocalChan THEN <<>> ELSE ms

Init == /\ net = [s \in Server |-> Channel_InitPredefined(
                     [chan |-> <<>>, member |-> <<>>, oper |-> {}])]
        /\ know = [s \in Server |-> [u \in {u \in User : Home[u] = s} |-> s]]
        /\ reg = [s \in Server |-> <<>>]
        /\ state = [l \in Link |-> "down"]
        /\ q = [l \in Link |-> <<>>]
        /\ kicked = {} /\ killed = {}
-----------------------------------------------------------------------------
(* Commands of local users                                                      *)
\* server s goes on with state st and sends ms
Do(s, st, ms, not) == net' = [net EXCEPT ![s] = st] /\ q' = Sent(q, s, ms, not)

Local(u, st, ms) == /\ u \in DOMAIN know[Home[u]] /\ Quiet
                    /\ st # net[Home[u]]
                    /\ Do(Home[u], st, ms, {})
                    /\ UNCHANGED <<know, reg, state>>

JoinMsg(st, c, u) == [t |-> "JOIN", u |-> u, c |-> c, flags |-> st.member[<<c, u>>]]

JOIN(u, c) == LET st == Join_Local(net[Home[u]], c, u, NoArg) IN
              /\ Local(u, st, IF Channel_IsMemberOf(st, c, u)
                              THEN Global(c, <<JoinMsg(st, c, u)>>) ELSE <<>>)
              /\ UNCHANGED hist

PART(u, c) == /\ Exists(net[Home[u]], c)
              /\ Local(u, Remove_Client(net[Home[u]], c, u),
                       Global(c, <<[t |-> "PART", u |-> u, c |-> c]>>))
              /\ UNCHANGED hist

KICK(u, c, v) == /\ Local(u, Channel_Kick(net[Home[u]], c, u, v, FALSE),
                          Global(c, <<[t |-> "KICK", u |-> u, c |-> c, v |-> v]>>))
                 /\ kicked' = kicked \cup {v} /\ UNCHANGED killed

TOPIC(u, c, text) == /\ Local(u, IRC_TOPIC(net[Home[u]], c, u, text, FALSE),
                              Global(c, <<[t |-> "TOPIC", u |-> u, c |-> c, text |-> text]>>))
                     /\ UNCHANGED hist

\* list changes are announced by Send_ListChange, the others at the end
Announced(c, out) == SelectSeq(out, LAMBDA ch : ch.m \in DOMAIN ListOf \/ c \notin LocalChan)
ModeMsg(u, c, out) == IF out = <<>> THEN <<>>
                      ELSE <<[t |-> "MODE", u |-> u, c |-> c, changes |-> out]>>

MODE(u, c, changes) ==
    LET f == Channel_Mode(net[Home[u]], c, u, changes, FALSE) IN
    /\ Local(u, f.st, ModeMsg(u, c, Announced(c, f.out)))
    /\ UNCHANGED hist

\* the connection of a user ends, a user comes back
QUIT(u) == LET s == Home[u] IN
           /\ u \in DOMAIN know[s] \cap Leaver /\ Quiet
           /\ Do(s, Channel_Quit(net[s], u), <<[t |-> "QUIT", u |-> u]>>, {})
           /\ know' = [know EXCEPT ![s] = Restrict(@, DOMAIN @ \ {u})]
           /\ UNCHANGED <<reg, state, hist>>

NICK(u) == LET s == Home[u] IN
           /\ u \notin DOMAIN know[s] /\ Quiet
           /\ Do(s, net[s], <<[t |-> "NICK", u |-> u, s |-> s]>>, {})
           /\ know' = [know EXCEPT ![s] = (u :> s) @@ @]
           /\ UNCHANGED <<reg, state, hist>>
\* IRC_KillClient at server s: the other servers are told, the user is removed; the
\* server it is connected to also announces the end of the connection with QUIT
KillClient(s, u, by, not, queues) ==
    /\ q' = Sent(Sent(queues, s, <<[t |-> "KILL", u |-> u, by |-> by]>>, not), s,
                IF Home[u] = s THEN <<[t |-> "QUIT", u |-> u]>> ELSE <<>>, {})
    /\ net' = [net EXCEPT ![s] = Channel_Quit(@, u)]
    /\ know' = [know EXCEPT ![s] = Restrict(@, DOMAIN @ \ {u})]
    /\ UNCHANGED <<reg, state, kicked>>

\* an IRC operator of server s, or s itself, kills a user
KILL(s, u) == /\ u \in DOMAIN know[s] \cap Victim /\ Quiet
              /\ KillClient(s, u, s, {}, q)
              /\ killed' = killed \cup {u}
-----------------------------------------------------------------------------
(* Links                                                                        *)
\* both ends have exchanged PASS and SERVER and send the end of the handshake
Connect(a, b) ==
    /\ state[<<a, b>>] = "down" /\ state[<<b, a>>] = "down" /\ Quiet
    /\ state' = [state EXCEPT ![<<a, b>>] = "hand", ![<<b, a>>] = "hand"]
    /\ q' = [q EXCEPT ![<<a, b>>] = <<[t |-> "ENDOFMOTD"]>>,
                      ![<<b, a>>] = <<[t |-> "ENDOFMOTD"]>>]
    /\ UNCHANGED <<net, know, reg, hist>>

SetSeq(S, op(_)) == LET seq == SetToSeq(S) IN [i \in DOMAIN seq |-> op(seq[i])]

Send_CHANINFO(st, c) ==
    LET ch == st.chan[c] IN
    IF ch.modes = {} /\ ch.topic = NoArg THEN <<>>
    ELSE <<[t |-> "CHANINFO", c |-> c, modes |-> ch.modes, key |-> ch.key,
            maxusers |-> ch.maxusers, topic |-> ch.topic,
            long |-> ch.modes \cap {"k", "l"} # {}]>>

\* Mutant of Announce_Channel: only members with a channel user mode are announced.
Announce_Channel_Ops(st, c) ==
    LET who == {u \in Members(st, c) : st.member[<<c, u>>] # {}}
    IN IF who = {} THEN <<>>
       ELSE <<[t |-> "NJOIN", c |-> c, who |-> [u \in who |-> st.member[<<c, u>>]]]>>

Announce_Channel(st, c) ==
    IF Members(st, c) = {} THEN <<>>
    ELSE <<[t |-> "NJOIN", c |-> c, who |-> [u \in Members(st, c) |-> st.member[<<c, u>>]]]>>

Synchronize_Lists(st, s, c) ==
    LET List(m) == [i \in DOMAIN st.chan[c][ListOf[m]] |->
                      [set |-> TRUE, m |-> m, arg |-> st.chan[c][ListOf[m]][i].mask]]
    IN ModeMsg(s, c, List("e") \o List("b") \o List("I"))

\* servers S in the order of their hop counts
ByHops(s, S) == SetToSortSeq(S, LAMBDA x, y : reg[s][x].hops < reg[s][y].hops)

\* Announce_Server for all servers but the peer n, inner ones first
Announce_Servers(s, n) ==
    LET seq == ByHops(s, DOMAIN reg[s] \ {n})
    IN [i \in DOMAIN seq |->
          LET x == reg[s][seq[i]]
          IN [t |-> "SERVER", s |-> seq[i], by |-> IF x.hops = 1 THEN s ELSE x.top,
              hops |-> x.hops + 1]]

\* Mutant of Burst: the channels are sent before the users.
Burst_ChannelsFirst(s, n) ==
    LET st == net[s]
        open == SetToSeq(DOMAIN st.chan)
    IN Announce_Servers(s, n)
       \o FlattenSeq([i \in DOMAIN open |->
              Global(open[i], Send_CHANINFO(st, open[i]) \o Announce_Channel(st, open[i]))])
       \o SetSeq(DOMAIN know[s], LAMBDA x : [t |-> "NICK", u |-> x, s |-> Home[x]])

\* IRC_Num_ENDOFMOTD: the peer n is registered and told everything
Burst(s, n) ==
    LET st == net[s]
        open == SetToSeq(DOMAIN st.chan)
    IN Announce_Servers(s, n)
       \o SetSeq(DOMAIN know[s], LAMBDA x : [t |-> "NICK", u |-> x, s |-> Home[x]])
       \o FlattenSeq([i \in DOMAIN open |->
              Global(open[i], Send_CHANINFO(st, open[i]) \o Announce_Channel(st, open[i]))])
       \o FlattenSeq([i \in DOMAIN open |-> Synchronize_Lists(st, s, open[i])])

ENDOFMOTD(s, n, rest) ==
    /\ state' = [state EXCEPT ![<<s, n>>] = "up"]
    /\ reg' = [reg EXCEPT ![s] = (n :> [via |-> n, hops |-> 1, top |-> s]) @@ @]
    /\ q' = [Sent(rest, s, <<[t |-> "SERVER", s |-> n, by |-> s, hops |-> 2]>>, {n})
               EXCEPT ![<<s, n>>] = IF state[<<n, s>>] = "down" THEN @ ELSE @ \o Burst(s, n)]
    /\ UNCHANGED <<net, know, hist>>

\* Client_Destroy of the servers gone: their users leave their channels without a
\* QUIT message, and the other links are told with SQUIT, outer servers first (the
\* list of clients has the newest first)
Lose(s, gone, not, queues) ==
    LET users == {u \in DOMAIN know[s] : Home[u] \in gone}
    IN /\ net' = [net EXCEPT ![s] = FoldSet(LAMBDA u, st : Channel_Quit(st, u), @, users)]
       /\ know' = [know EXCEPT ![s] = Restrict(@, DOMAIN @ \ users)]
       /\ reg' = [reg EXCEPT ![s] = Restrict(@, DOMAIN @ \ gone)]
       /\ LET seq == Reverse(ByHops(s, gone))
          IN q' = Sent(queues, s, [i \in DOMAIN seq |-> [t |-> "SQUIT", s |-> seq[i]]], not)
       /\ UNCHANGED hist

\* Conn_Close of the link to n, by the server s that has the streams queues
Conn_Close(s, n, queues) ==
    /\ Lose(s, {x \in DOMAIN reg[s] : reg[s][x].via = n}, {n}, [queues EXCEPT ![<<n, s>>] = <<>>])
    /\ state' = [state EXCEPT ![<<s, n>>] = "down"]

\* a link is closed by a command, a timeout or an error
Close(s, n) == /\ state[<<s, n>>] # "down" /\ <<s, n>> \in Fragile
               /\ Conn_Close(s, n, q)
-----------------------------------------------------------------------------
(* Commands from a linked server.  Validate_Prefix: the sender of the command is *)
(* known and comes from the direction of the link, else the command is ignored.  *)
KnownUser(s, n, u) == u \in DOMAIN know[s] /\ know[s][u] = n
KnownServer(s, n, x) == x \in DOMAIN reg[s] /\ reg[s][x].via = n
Valid(s, n, m) ==
    CASE m.t \in {"JOIN", "PART", "KICK", "TOPIC", "QUIT"} -> KnownUser(s, n, m.u)
      [] m.t = "MODE" -> KnownUser(s, n, m.u) \/ KnownServer(s, n, m.u)
      [] m.t = "SQUIT" -> KnownServer(s, n, m.s)
      [] m.t = "NICK" -> KnownServer(s, n, m.s)
      [] m.t = "SERVER" -> KnownServer(s, n, m.by)
      [] m.t = "KILL" -> KnownServer(s, n, m.by) /\ m.u \in DOMAIN know[s]
      [] OTHER -> TRUE

\* what s does with its channels on message m, and whether it passes m on
Handle(st, m) ==
    CASE m.t = "JOIN" -> Join_Remote(st, m.c, m.u, m.flags)
      [] m.t = "PART" -> IF Exists(st, m.c) THEN Remove_Client(st, m.c, m.u) ELSE st
      [] m.t = "KICK" -> Channel_Kick(st, m.c, m.u, m.v, TRUE)
      [] m.t = "TOPIC" -> IRC_TOPIC(st, m.c, m.u, m.text, TRUE)
      [] m.t = "MODE" -> Channel_Mode(st, m.c, m.u, m.changes, TRUE).st
      [] m.t = "CHANINFO" ->
           IRC_CHANINFO(st, m.c, m.modes, m.key, m.maxusers, m.topic, m.long)

\* Mutant of Forward: PART is not passed on.
Forward_NoPart(st, m) ==
    CASE m.t = "JOIN" -> IF Channel_IsMemberOf(st, m.c, m.u) THEN <<>>
                         ELSE Global(m.c, <<JoinMsg(Handle(st, m), m.c, m.u)>>)
      [] m.t = "KICK" -> IF Channel_IsMemberOf(st, m.c, m.v) THEN Global(m.c, <<m>>) ELSE <<>>
      [] m.t = "CHANINFO" -> <<m>>
      [] OTHER -> <<>>

Forward(st, m) ==
    CASE m.t = "JOIN" -> IF Channel_IsMemberOf(st, m.c, m.u) THEN <<>>
                         ELSE Global(m.c, <<JoinMsg(Handle(st, m), m.c, m.u)>>)
      [] m.t = "PART" -> IF Channel_IsMemberOf(st, m.c, m.u) THEN Global(m.c, <<m>>) ELSE <<>>
      [] m.t = "KICK" -> IF Channel_IsMemberOf(st, m.c, m.v) THEN Global(m.c, <<m>>) ELSE <<>>
      [] m.t = "TOPIC" -> IF Exists(st, m.c) THEN Global(m.c, <<m>>) ELSE <<>>
      [] m.t = "MODE" ->
           ModeMsg(m.u, m.c, Announced(m.c, Channel_Mode(st, m.c, m.u, m.changes, TRUE).out))
      [] m.t = "CHANINFO" -> <<m>>

\* NJOIN: those who cannot join are killed; the others are passed on
NJOIN_Fail(s, m) == {u \in DOMAIN m.who \cap DOMAIN know[s] : Channel_IsMemberOf(net[s], m.c, u)}
NJOIN_Do(s, m) ==
    LET fine == (DOMAIN m.who \cap DOMAIN know[s]) \ NJOIN_Fail(s, m)
        st == FoldSet(LAMBDA u, x : IRC_NJOIN(x, m.c, u, m.who[u]), net[s],
                      DOMAIN m.who \cap DOMAIN know[s])
    IN <<st, IF fine = {} THEN <<>> ELSE <<[m EXCEPT !.who = Restrict(@, fine)]>>>>

\* the handlers: server s has taken m from its link to n and has the streams rest
Ignore(s, n, m, rest) == /\ ~Valid(s, n, m) /\ q' = rest
                         /\ UNCHANGED <<net, know, reg, state, hist>>

Channel_Command(s, n, m, rest) ==
    /\ m.t \in {"JOIN", "PART", "KICK", "TOPIC", "MODE", "CHANINFO"} /\ Valid(s, n, m)
    /\ net' = [net EXCEPT ![s] = Handle(@, m)]
    /\ q' = Sent(rest, s, Forward(net[s], m), {n})
    /\ UNCHANGED <<know, reg, state, hist>>

Recv_NJOIN(s, n, m, rest) ==
    /\ m.t = "NJOIN"
    /\ net' = [net EXCEPT ![s] = NJOIN_Do(s, m)[1]]
    /\ know' = [know EXCEPT ![s] = Restrict(@, DOMAIN @ \ NJOIN_Fail(s, m))]
    /\ LET kills == SetSeq(NJOIN_Fail(s, m), LAMBDA x : [t |-> "KILL", u |-> x, by |-> s])
       IN q' = Sent(Sent(rest, s, kills, {}), s, NJOIN_Do(s, m)[2], {n})
    /\ UNCHANGED <<reg, state, hist>>

Recv_NICK(s, n, m, rest) ==
    /\ m.t = "NICK" /\ Valid(s, n, m) /\ m.u \notin DOMAIN know[s]
    /\ know' = [know EXCEPT ![s] = (m.u :> n) @@ @]
    /\ q' = Sent(rest, s, <<m>>, {n})
    /\ UNCHANGED <<net, reg, state, hist>>

\* the nick is known already: both users are killed, everywhere
Recv_Collision(s, n, m, rest) ==
    /\ m.t = "NICK" /\ Valid(s, n, m) /\ m.u \in DOMAIN know[s]
    /\ KillClient(s, m.u, s, {}, rest) /\ UNCHANGED killed

Recv_QUIT(s, n, m, rest) ==
    /\ m.t = "QUIT" /\ Valid(s, n, m)
    /\ net' = [net EXCEPT ![s] = Channel_Quit(@, m.u)]
    /\ know' = [know EXCEPT ![s] = Restrict(@, DOMAIN @ \ {m.u})]
    /\ q' = Sent(rest, s, <<m>>, {n})
    /\ UNCHANGED <<reg, state, hist>>

Recv_KILL(s, n, m, rest) == /\ m.t = "KILL" /\ Valid(s, n, m)
                            /\ KillClient(s, m.u, m.by, {n}, rest) /\ UNCHANGED killed

\* a server that is known already, or whose prefix is not, costs the sender its link
Recv_SERVER(s, n, m, rest) ==
    /\ m.t = "SERVER" /\ Valid(s, n, m)
    /\ IF m.s \in DOMAIN reg[s] \cup {s} \/ m.by \notin DOMAIN reg[s]
       THEN Conn_Close(s, n, rest)
       ELSE /\ reg' = [reg EXCEPT ![s] = (m.s :> [via |-> n, hops |-> m.hops, top |-> m.by]) @@ @]
            /\ q' = Sent(rest, s, <<[m EXCEPT !.hops = @ + 1]>>, {n})
            /\ UNCHANGED <<net, know, state, hist>>

Recv_SQUIT(s, n, m, rest) == /\ m.t = "SQUIT" /\ Valid(s, n, m)
                             /\ Lose(s, {m.s}, {n}, rest) /\ UNCHANGED state

\* server s takes the next message from its link to n
Receive(s, n) ==
    LET m == Head(q[<<n, s>>])
        rest == [q EXCEPT ![<<n, s>>] = Tail(@)]
    IN /\ state[<<s, n>>] # "down" /\ q[<<n, s>>] # <<>>
       /\ \/ m.t = "ENDOFMOTD" /\ ENDOFMOTD(s, n, rest)
          \/ Ignore(s, n, m, rest) \/ Channel_Command(s, n, m, rest)
          \/ Recv_NJOIN(s, n, m, rest) \/ Recv_NICK(s, n, m, rest)
          \/ Recv_Collision(s, n, m, rest) \/ Recv_QUIT(s, n, m, rest)
          \/ Recv_KILL(s, n, m, rest) \/ Recv_SERVER(s, n, m, rest)
          \/ Recv_SQUIT(s, n, m, rest)

Next == \/ \E u \in User : QUIT(u) \/ NICK(u)
        \/ \E u \in User : \E c \in CmdChan[u] :
             \/ JOIN(u, c) \/ PART(u, c)
             \/ \E v \in User : KICK(u, c, v)
             \/ \E text \in Topic : TOPIC(u, c, text)
             \/ \E changes \in ChangeList : MODE(u, c, changes)
        \/ \E s \in Server, u \in User : KILL(s, u)
        \/ \E l \in Link : Connect(l[1], l[2]) \/ Close(l[1], l[2]) \/ Receive(l[1], l[2])

Spec == Init /\ [][Next]_vars
-----------------------------------------------------------------------------
\* The views of the servers, the states of the links and the messages have their types.
TypeOK == /\ DOMAIN net = Server
          /\ know \in [Server -> UNION {[D -> Server] : D \in SUBSET User}]
          /\ DOMAIN reg = Server
          /\ \A s \in Server : reg[s] \in [DOMAIN reg[s] -> [via : Server, hops : Nat, top : Server]]
          /\ state \in [Link -> {"down", "hand", "up"}]
          /\ DOMAIN q = Link /\ kicked \subseteq User /\ killed \subseteq Victim
          /\ \A s \in Server :
               net[s].member \in [DOMAIN net[s].member -> SUBSET UserMode]

\* After a netsplit, at any moment of it, no channel has a member that the server
\* does not know any more, and no user is known without a way to its server
\* (Client_Destroy of a server, IRC_SQUIT, Channel_Quit).
MembersKnown ==
    \A s \in Server :
      /\ \A p \in DOMAIN net[s].member : p[1] \in DOMAIN net[s].chan /\ p[2] \in DOMAIN know[s]
      /\ \A u \in DOMAIN know[s] :
           know[s][u] # s => Home[u] \in DOMAIN reg[s] /\ reg[s][Home[u]].via = know[s][u]

\* No message of a user that nobody killed is ever ignored for its prefix, no NJOIN
\* names one that is already a member, no NICK or SERVER one that is known, for
\* which the handlers would kill the user or drop the link: a burst, and what is
\* sent after it, always finds the receiver prepared, however splits and new links
\* interleave (Validate_Prefix, IRC_NJOIN, IRC_NICK, IRC_Num_ENDOFMOTD).
Expected ==
    \A l \in Link :
      LET s == l[2] n == l[1] m == Head(q[l]) IN
      q[l] # <<>> /\ state[<<s, n>>] # "down" =>
        /\ m.t = "ENDOFMOTD" <=> state[<<s, n>>] = "hand"
        /\ Valid(s, n, m) \/ ("u" \in DOMAIN m /\ m.u \in killed)
        /\ m.t = "NJOIN" => /\ DOMAIN m.who \subseteq DOMAIN know[s] \cup killed
                            /\ NJOIN_Fail(s, m) = {}
        /\ m.t = "NICK" => m.u \notin DOMAIN know[s] \ killed
        /\ m.t = "SERVER" => m.s \notin DOMAIN reg[s]

\* Local channels have local members only, though JOIN and MODE are forwarded and
\* bursts list the channels (join_forward, IRC_Num_ENDOFMOTD).
LocalPrivate ==
    \A s \in Server : \A p \in DOMAIN net[s].member : p[1] \in LocalChan => Home[p[2]] = s

\* When nothing is under way, linked servers agree on the users and on the members
\* of every channel that is not local, whatever splits and bursts came before;
\* users that were the target of a KICK or a KILL excepted, since it may cross a
\* PART and a new JOIN, a QUIT and a new NICK, of its target (IRC_JOIN, IRC_PART,
\* IRC_NJOIN, Client_Destroy).
Agreement ==
    (\A l \in Link : q[l] = <<>> /\ state[l] = state[<<l[2], l[1]>>]) =>
      \A l \in Link : state[l] = "up" =>
        /\ DOMAIN know[l[1]] \ killed = DOMAIN know[l[2]] \ killed
        /\ \A c \in Chan \ LocalChan, u \in User \ (kicked \cup killed) :
             Channel_IsMemberOf(net[l[1]], c, u) <=> Channel_IsMemberOf(net[l[2]], c, u)

\* However splits, new links and commands interleave, every server has a consistent
\* view and every message finds its receiver prepared for it.
Prepared == TypeOK /\ MembersKnown /\ Expected

\* Servers agree on the channels they share and keep their local ones to themselves.
ServersAgree == LocalPrivate /\ Agreement

\* "MODE requests for local channels from other servers are definitely invalid!"
\* The code does not keep this: see the README.
NoLocalModes == \A l \in Link : \A i \in DOMAIN q[l] : q[l][i].t = "MODE" => q[l][i].c \notin LocalChan
=============================================================================
