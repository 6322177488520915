------------------------------ MODULE Message -------------------------------
(* PRIVMSG and NOTICE of a user of this server: Send_Message() of irc.c.  The *)
(* clients of a world w are a sequence in the order of My_Clients; a client   *)
(* has a type, a nick, a user name, a host, a server, modes and channels.  A  *)
(* channel has modes, the users of its ban and exception lists, and those     *)
(* with a rank in it.  A target is the record of its parts, None where the    *)
(* string has none, as in "nick!user@host" and "user%host@server", a channel, *)
(* or a mask of servers or hosts, which is the set of those it stands for.  A *)
(* write to a connection in dead fails and closes it; a connection has the    *)
(* name of its client.                                                        *)
EXTENDS Integers, Sequences, FiniteSets

CONSTANTS None, MAX_HNDL_TARGETS

Outcome(got, err, res) == [got |-> got, err |-> err, res |-> res]
OK == Outcome(<<>>, 0, "CONNECTED")

\* an error is reported to the sender, or not
Error(w, errors) ==
    IF ~errors THEN OK
    ELSE Outcome(<<>>, 1, IF w.from.nick \in w.dead THEN "DISCONNECTED" ELSE "CONNECTED")

\* the connection to a client: its own, or that of the server it is behind
Client_NextHop(w, c) == IF c.server = w.from.server THEN c.nick ELSE c.server

Write(w, c) == IF Client_NextHop(w, c) \in w.dead THEN Outcome(<<>>, 0, "DISCONNECTED")
               ELSE Outcome(<<c.nick>>, 0, "CONNECTED")

\* a word alone is a nick before it is a user name
Client_Search(w, t) ==
    {i \in DOMAIN w.clients : /\ t.nick = None /\ t.host = None /\ t.server = None
                              /\ w.clients[i].nick = t.user}

\* nick, user and host must fit if all are given; a nick without a host is not looked at
Fits(t, c) ==
    IF t.nick # None /\ t.host # None
    THEN t.nick = c.nick /\ t.user = c.user /\ t.host = c.host
    ELSE /\ t.user = c.user
         /\ t.host \in {None, c.host}
         /\ t.server \in {None, c.server}

Users(w) == {i \in DOMAIN w.clients : w.clients[i].type = "USER"}

\* the client a target stands for: the first in the list
Found(w, t) ==
    LET fits == IF Client_Search(w, t) # {} THEN Client_Search(w, t)
                ELSE {i \in Users(w) : Fits(t, w.clients[i])}
    IN {i \in fits : \A j \in fits : i <= j}

\* the modes b and C of a user keep the message of the sender away
Refused(w, c, t) ==
    \/ "b" \in c.modes /\ w.from.modes \cap {"R", "o"} = {}
    \/ "C" \in c.modes /\ "o" \notin w.from.modes /\ c.chans \cap w.from.chans = {}

\* the reply that a user is away comes before the message
To_User(w, c, t, errors) ==
    IF c.type # "USER" \/ Refused(w, c, t) THEN Error(w, errors)
    ELSE IF errors /\ "a" \in c.modes /\ w.from.nick \in w.dead THEN Outcome(<<>>, 0, "DISCONNECTED")
    ELSE Write(w, c)

Can_Send_To_Channel(w, ch) ==
    LET from == w.from IN
    /\ "n" \in w.chans[ch].modes => ch \in from.chans
    /\ "M" \in w.chans[ch].modes => from.modes \cap {"R", "o"} # {}
    /\ \/ ch \in from.chans /\ from.nick \in w.chans[ch].ranked
       \/ /\ "m" \notin w.chans[ch].modes
          /\ from.nick \in w.chans[ch].bans => from.nick \in w.chans[ch].excepts

\* all members but the sender; whether their connections fail is not looked at
Channel_Write(w, t, errors) ==
    LET to == SelectSeq(w.clients, LAMBDA c : /\ t.chan \in c.chans /\ c # w.from
                                              /\ Client_NextHop(w, c) \notin w.dead)
    IN IF Can_Send_To_Channel(w, t.chan) THEN Outcome([i \in DOMAIN to |-> to[i].nick], 0, "CONNECTED")
       ELSE Error(w, errors)

\* to all users on a server or host of the mask, up to the first write that fails
Send_Message_Mask(w, t, errors) ==
    LET to == SelectSeq(w.clients, LAMBDA c : c.type = "USER" /\ (IF t.type = "$" THEN c.server ELSE c.host) \in t.mask)
        bad == {i \in DOMAIN to : Client_NextHop(w, to[i]) \in w.dead}
        n == IF bad = {} THEN Len(to) ELSE (CHOOSE i \in bad : \A j \in bad : i <= j) - 1
    IN IF "o" \notin w.from.modes \/ t.wild THEN Error(w, errors)
       ELSE Outcome([i \in 1 .. n |-> to[i].nick], 0, IF bad = {} THEN "CONNECTED" ELSE "DISCONNECTED")

Nobody(w, t) ==
    \/ t.kind = "user" /\ Found(w, t) = {}
    \/ t.kind = "channel" /\ t.chan \notin DOMAIN w.chans

Send_Target(w, t, errors) ==
    IF Nobody(w, t) THEN Error(w, errors)
    ELSE IF t.kind = "user" THEN To_User(w, w.clients[CHOOSE i \in Found(w, t) : TRUE], t, errors)
    ELSE IF t.kind = "channel" THEN Channel_Write(w, t, errors)
    ELSE Send_Message_Mask(w, t, errors)

\* the connections that a message to a channel found dead are closed: those behind them
\* are gone when the next target is looked up
Left(w, t) ==
    LET told == {Client_NextHop(w, c) : c \in {w.clients[i] : i \in DOMAIN w.clients} \ {w.from}}
        to(h) == \E i \in DOMAIN w.clients :
                    t.chan \in w.clients[i].chans /\ Client_NextHop(w, w.clients[i]) = h
        lost == {h \in told \cap w.dead : to(h)}
    IN IF t.kind = "channel" /\ ~Nobody(w, t) /\ Can_Send_To_Channel(w, t.chan)
       THEN [w EXCEPT !.clients = SelectSeq(@, LAMBDA c : Client_NextHop(w, c) \notin lost)]
       ELSE w

RECURSIVE Send_From(_, _, _, _)
\* Mutant of Send_From: the handler ends at a target that nobody has.
Send_From_Stop(w, ts, i, errors) ==
    LET again == \E j \in 1 .. i - 1 : ts[j] = ts[i]
        one == IF again THEN OK ELSE Send_Target(w, ts[i], errors)
    IN IF one.res = "DISCONNECTED" \/ i = Len(ts) \/ (~again /\ Nobody(w, ts[i])) THEN one
       ELSE IF i >= MAX_HNDL_TARGETS THEN Outcome(one.got, one.err + 1, Error(w, TRUE).res)
       ELSE LET rest == Send_From(Left(w, ts[i]), ts, i + 1, errors)
            IN Outcome(one.got \o rest.got, one.err + rest.err, rest.res)

\* the targets from number i on; one that was there already is passed over.  A NOTICE
\* ends at a target that nobody has.  That there are too many targets is always reported
Send_From(w, ts, i, errors) ==
    LET again == \E j \in 1 .. i - 1 : ts[j] = ts[i]
        one == IF again THEN OK ELSE Send_Target(w, ts[i], errors)
    IN IF one.res = "DISCONNECTED" \/ i = Len(ts) \/ (~again /\ Nobody(w, ts[i]) /\ ~errors) THEN one
       ELSE IF i >= MAX_HNDL_TARGETS THEN Outcome(one.got, one.err + 1, Error(w, TRUE).res)
       ELSE LET rest == Send_From(Left(w, ts[i]), ts, i + 1, errors)
            IN Outcome(one.got \o rest.got, one.err + rest.err, rest.res)

Send_Message(w, ts, errors) == IF ts = <<>> THEN OK ELSE Send_From(w, ts, 1, errors)
=============================================================================
