------------------------------- MODULE Channel -------------------------------
(* The channels of one server and the commands of its users.  A command is     *)
(* handled without interruption, so it is one action.  A write that fails       *)
(* inside a handler closes the connection of the client, which is the command  *)
(* followed by Quit.                                                           *)
EXTENDS ChannelOps

CONSTANTS
    Oper,            \* users who can become IRC operators
    Key,             \* keys that users try
    JoinList,        \* lists of channels a JOIN, PART or KICK names
    ChangeList,      \* lists of changes a MODE command asks for
    Topic

\* what MODE reads as a change: the argument is what its mode calls for, if it is given
IsChange(ch) ==
    /\ ch = [set |-> ch.set, m |-> ch.m, arg |-> ch.arg]
    /\ ch.set \in BOOLEAN /\ ch.m \in AnyMode \ {"r"}
    /\ \/ ch.arg = NoArg
       \/ /\ ch.m \in UserMode => ch.arg \in User
          /\ ch.m \in DOMAIN ListOf => ch.arg \subseteq User
          /\ ch.m = "k" => ch.arg \in Key \cup {BadKey}
          /\ ch.m = "l" => ch.arg \in Nat

ASSUME CommandAssumption ==
    /\ Oper \subseteq User
    /\ \A names \in JoinList : names \in Seq(Chan)
    /\ \A changes \in ChangeList : /\ changes \in Seq(Range(changes))
                                   /\ \A ch \in Range(changes) : IsChange(ch)

VARIABLES
    chan, member, oper,    \* the state of ChannelOps
    by,                    \* history: the user whose command was handled last
    pass                   \* history: <<channel, user>> with an INVITE not yet used

vars == <<chan, member, oper, by, pass>>
st == [chan |-> chan, member |-> member, oper |-> oper]

Become(s) == chan' = s.chan /\ member' = s.member /\ oper' = s.oper
\* there is an entry for the user that a MODE command made
Invited(c, u) == \E i \in Hits(chan[c].invites, u) : ~chan[c].invites[i].onlyonce
\* an invitation lasts until its user joins with it or the channel is gone
Passes(s) == {p \in pass : /\ p[1] \in DOMAIN s.chan
                           /\ p \in DOMAIN s.member => p \in DOMAIN member \/ Invited(p[1], p[2])}

\* Channels and their lists, the modes of members and the history have their types.
TypeOK == /\ chan \in [DOMAIN chan -> [modes : SUBSET AnyMode, key : Key \cup {NoArg},
                          maxusers : Nat, topic : Topic \cup {NoArg},
                          bans : Seq([mask : SUBSET User, onlyonce : BOOLEAN]),
                          excepts : Seq([mask : SUBSET User, onlyonce : BOOLEAN]),
                          invites : Seq([mask : SUBSET User, onlyonce : BOOLEAN])]]
          /\ member \in [DOMAIN member -> SUBSET UserMode]
          /\ oper \subseteq Oper /\ by \in User \cup {NoArg}

Init == /\ LET s == Channel_InitPredefined(
                      [chan |-> <<>>, member |-> <<>>, oper |-> {}])
           IN chan = s.chan /\ member = s.member /\ oper = s.oper
        /\ by = NoArg /\ pass = {}

Command(u, s) == Become(s) /\ by' = u /\ pass' = Passes(s)

JOIN(u) == \E names \in JoinList : \E key \in Key \cup {NoArg} :
             Command(u, IRC_JOIN(st, u, names, <<key>>))

PART(u) == \E names \in JoinList :
             Command(u, ForEach(LAMBDA s, c :
                IF Exists(s, c) THEN Remove_Client(s, c, u) ELSE s, st, names))

\* JOIN 0
PART_ALL(u) == Command(u, Channel_Quit(st, u))

KICK(u) == \E names \in JoinList, target \in User :
             Command(u, ForEach(LAMBDA s, c :
                Channel_Kick(s, c, u, target, FALSE), st, names))

INVITE(u) == \E c \in Chan, target \in User :
               LET s == IRC_INVITE(st, c, u, target) IN
               /\ Become(s) /\ by' = u
               /\ pass' = IF s # st THEN pass \cup {<<c, target>>} ELSE pass

MODE(u) == \E c \in Chan, changes \in ChangeList :
             Command(u, Channel_Mode(st, c, u, changes, FALSE).st)

TOPIC(u) == \E c \in Chan, t \in Topic \cup {NoArg} :
              Command(u, IRC_TOPIC(st, c, u, t, FALSE))

\* the user becomes an IRC operator, and stops being one
OPER(u) == u \in Oper \ oper /\ Command(u, [st EXCEPT !.oper = @ \cup {u}])
DEOPER(u) == u \in oper /\ Command(u, [st EXCEPT !.oper = @ \ {u}])

\* the connection ends; a new one may use the nick again
Quit(u) == Command(u, [Channel_Quit(st, u) EXCEPT !.oper = @ \ {u}])

\* the configuration is read again
Rehash == Become(Channel_InitPredefined(st)) /\ by' = NoArg /\ pass' = pass

Next == \/ \E u \in User : \/ JOIN(u) \/ PART(u) \/ PART_ALL(u) \/ KICK(u) \/ INVITE(u)
                           \/ MODE(u) \/ TOPIC(u) \/ OPER(u) \/ DEOPER(u) \/ Quit(u)
        \/ Rehash

Spec == Init /\ [][Next]_vars
-----------------------------------------------------------------------------
Rank(ms) == IF "q" \in ms THEN 4 ELSE IF "a" \in ms THEN 3
            ELSE IF "o" \in ms THEN 2 ELSE IF "h" \in ms THEN 1 ELSE 0
RankOf(c, u) == IF <<c, u>> \in DOMAIN member THEN Rank(member[<<c, u>>]) ELSE 0

\* My_Cl2Chan never points to a channel that Remove_Client deleted, and nobody is
\* in more channels than Conf_MaxJoins allows, also after JOIN of a list
\* (channel.c, IRC_JOIN).
NoDangling == /\ \A p \in DOMAIN member : p[1] \in DOMAIN chan
              /\ Conf_MaxJoins > 0 =>
                   \A u \in User : Channel_CountForUser(st, u) <= Conf_MaxJoins

\* Channels, their members and their lists are sound after every command and rehash:
\* no member of a channel that is gone, no user in more channels than allowed.
ChannelsSound == TypeOK /\ NoDangling

\* a rank above the sender's own, or any rank by half operators, is given
Raised(p) == /\ p \in DOMAIN member \cap DOMAIN member'
             /\ Rank(member'[p]) > Rank(member[p])
             /\ RankOf(p[1], by') < Max({2, Rank(member'[p])})
\* a rank, or the membership, is taken by another user of lower rank
Lowered(p) == /\ p \in DOMAIN member /\ p[2] # by'
              /\ p \notin DOMAIN member' \/ Rank(member'[p]) < Rank(member[p])
              /\ RankOf(p[1], by') < Max({1, Rank(member[p])})

\* No command raises anyone, its sender included, above the rank its sender had
\* before it, half operators raise nobody, and nobody loses a rank, or the channel, by
\* a command of a user of lower rank, though Channel_Mode looks up the sender's rights
\* again before every change of one command; only IRC operators can (Channel_Kick,
\* Channel_Mode).
RankSafe == [][by' \notin oper => \A p \in Chan \X User : ~Raised(p) /\ ~Lowered(p)]_vars

\* An INVITE lets a banned user in once: who is banned, not excepted and on no
\* entry that MODE made enters only with an invitation not used before
\* (IRC_INVITE, Lists_Check, join_allowed).
InviteOnce ==
    [][\A p \in DOMAIN member' \ DOMAIN member :
         /\ p[1] \in DOMAIN chan /\ p[2] \notin oper
         /\ Lists_Check(chan[p[1]].bans, p[2])
         /\ ~Lists_Check(chan[p[1]].excepts, p[2])
         /\ ~Invited(p[1], p[2])
         => p \in pass]_vars

\* modes, key, limit, bans or exceptions change, or the topic of a channel with mode t
Altered(c) == \/ [chan'[c] EXCEPT !.invites = <<>>, !.topic = NoArg] #
                    [chan[c] EXCEPT !.invites = <<>>, !.topic = NoArg]
              \/ "t" \in chan[c].modes /\ chan'[c].topic # chan[c].topic
\* a user who was not heard because the channel is moderated or because of a ban is
Unmuted(c, u) == /\ \/ Has(st, c, "m")
                    \/ Lists_Check(chan[c].bans, u) /\ ~Lists_Check(chan[c].excepts, u)
                 /\ ~Can_Send_To_Channel(st, c, u)
                 /\ Can_Send_To_Channel(st', c, u)

\* What a channel that stays open has set changes only by a command of one of its
\* operators or half operators, or of an IRC operator; and who is muted is not heard
\* again by anything that it, or another user without rights, does: leaving and joining,
\* being invited (Channel_Mode, IRC_TOPIC, Can_Send_To_Channel, JOIN, INVITE).
Authorised ==
    [][\A c \in DOMAIN chan \cap DOMAIN chan' :
         \/ RankOf(c, by') >= 1 \/ by' \in oper'
         \/ ~Altered(c) /\ \A u \in User : ~Unmuted(c, u)]_vars

\* the refinement mapping: operators are the members with the modes q, a or o
Abs == INSTANCE AbstractChannel WITH
         Ranked <- Chan \ Modeless, live <- DOMAIN chan, powers <- oper,
         members <- [c \in Chan |-> Members(st, c)],
         ops <- [c \in Chan |-> {u \in Members(st, c) : UserHas(st, c, u, Op)}]

\* Every channel keeps the promise of AbstractChannel, whatever happens elsewhere:
\* this module implements it (JOIN, PART, KICK, MODE, INVITE, the end of a
\* connection and a rehash, with Remove_Client deleting empty channels).
AbstractOK == Abs!Spec
=============================================================================
