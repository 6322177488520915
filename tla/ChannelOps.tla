----------------------------- MODULE ChannelOps -----------------------------
(* What the channel commands do to the channels one server knows: channel.c,  *)
(* irc-channel.c, irc-op.c, irc-mode.c, lists.c, join_check.c and NJOIN.  A    *)
(* handler is an operator from a state st to the next one.                    *)
(*   st.chan    the channels that exist (My_Channels), by name                *)
(*   st.member  the channel user modes of every pair <<channel, user>> in     *)
(*              My_Cl2Chan                                                    *)
(*   st.oper    the users with the user mode o: IRC operators                 *)
(* A mask is the set of the users it matches.                                 *)
EXTENDS Naturals, Sequences, FiniteSets, FiniteSetsExt, Functions, Loops, TLC

CONSTANTS
    User, Chan,
    LocalChan,             \* channels with the prefix &
    Modeless,              \* channels with the prefix +
    AllowedChan,           \* Conf_AllowedChannelTypes permits creating these
    Predefined,            \* [Channel] sections of the configuration: name -> modes
    Reg, KickProtected,    \* users with the user mode R, with the user mode q
    KeyFile,               \* <<channel, user, key>> accepted by the key files
    Conf_OperCanMode, Conf_OperChanPAutoOp, Conf_MaxJoins,
    Conf_DefaultChannelModes,
    MAX_HNDL_CHANNEL_LISTS, MAX_HNDL_MODES_ARG,
    NoArg,                 \* an argument that is not given; also no key, no topic
    BadKey                 \* a key that is empty or has a blank

Op == {"q", "a", "o"}
HalfOp == Op \cup {"h"}
UserMode == HalfOp \cup {"v"}
ListOf == [m \in {"b", "e", "I"} |-> CASE m = "b" -> "bans"
                                         [] m = "e" -> "excepts"
                                         [] m = "I" -> "invites"]
\* the modes MODE knows, and every letter a list of modes may have
ChannelMode == {"R", "s", "z", "i", "V", "M", "m", "n", "N", "Q", "t", "k", "l", "O", "P"}
AnyMode == ChannelMode \cup UserMode \cup DOMAIN ListOf \cup {"r"}

ASSUME ChannelAssumption ==
    /\ IsFiniteSet(Chan)
    /\ LocalChan \subseteq Chan /\ Modeless \subseteq Chan
    /\ AllowedChan \subseteq Chan /\ DOMAIN Predefined \subseteq Chan
    /\ \A c \in DOMAIN Predefined : Predefined[c] \subseteq AnyMode
    /\ Conf_DefaultChannelModes \subseteq AnyMode
    /\ Reg \subseteq User /\ KickProtected \subseteq User
    /\ Conf_OperCanMode \in BOOLEAN /\ Conf_OperChanPAutoOp \in BOOLEAN
    /\ Conf_MaxJoins \in Nat
    /\ MAX_HNDL_CHANNEL_LISTS \in Nat /\ MAX_HNDL_MODES_ARG \in Nat

\* the table f with the entry v under x
Put(f, x, v) == [d \in DOMAIN f \cup {x} |-> IF d = x THEN v ELSE f[d]]

Exists(st, c) == c \in DOMAIN st.chan
Has(st, c, m) == m \in st.chan[c].modes
Channel_IsMemberOf(st, c, u) == <<c, u>> \in DOMAIN st.member
Members(st, c) == {u \in User : Channel_IsMemberOf(st, c, u)}
Channel_CountForUser(st, u) == Cardinality({c \in Chan : Channel_IsMemberOf(st, c, u)})
UserHas(st, c, u, ms) == st.member[<<c, u>>] \cap ms # {}
-----------------------------------------------------------------------------
(* lists.c: newest entry first; an entry may be good for one use only          *)
Lists_CheckDupeMask(l, mask) == \E i \in DOMAIN l : l[i].mask = mask

Lists_Add(l, mask, onlyonce) ==
    IF Lists_CheckDupeMask(l, mask) THEN l
    ELSE <<[mask |-> mask, onlyonce |-> onlyonce]>> \o l

Lists_Del(l, mask) ==
    ForEach(LAMBDA kept, e : IF e.mask = mask THEN kept ELSE Append(kept, e), <<>>, l)

Hits(l, u) == {i \in DOMAIN l : u \in l[i].mask}
Lists_Check(l, u) == Hits(l, u) # {}

\* Mutant of Lists_Used: entries that are good for one use stay.
Lists_Used_Kept(l, u) == l

\* what Lists_Check leaves: the first entry that matches is used up
Lists_Used(l, u) ==
    IF Hits(l, u) # {} /\ l[Min(Hits(l, u))].onlyonce
    THEN Without(l, Min(Hits(l, u))) ELSE l

Lists_Count(st, c) ==
    Len(st.chan[c].bans) + Len(st.chan[c].excepts) + Len(st.chan[c].invites)
-----------------------------------------------------------------------------
(* channel.c                                                                   *)
NewChannel == [modes |-> {}, key |-> NoArg, maxusers |-> 0, topic |-> NoArg,
               bans |-> <<>>, excepts |-> <<>>, invites |-> <<>>]

Channel_Create(st, c) == [st EXCEPT !.chan = Put(@, c, NewChannel)]

Add_Client(st, c, u) == [st EXCEPT !.member = Put(@, <<c, u>>, {})]

\* only called for a user that is not a member
Channel_Join(st, c, u) ==
    Add_Client(IF Exists(st, c) THEN st ELSE Channel_Create(st, c), c, u)

Channel_UserModeAdd(st, c, u, ms) == [st EXCEPT !.member[<<c, u>>] = @ \cup ms]
Channel_ModeAdd(st, c, ms) == [st EXCEPT !.chan[c].modes = @ \cup ms]

Delete_Channel(st, c) == [st EXCEPT !.chan = Restrict(@, DOMAIN @ \ {c})]

\* Mutant of Remove_Client: a channel is deleted with its last but one member.
Remove_Client_Early(st, c, u) ==
    IF ~Channel_IsMemberOf(st, c, u) THEN st
    ELSE LET s == [st EXCEPT !.member = Restrict(@, DOMAIN @ \ {<<c, u>>})]
         IN IF ~Has(st, c, "P") /\ Cardinality(Members(s, c)) <= 1 THEN Delete_Channel(s, c) ELSE s

\* an empty channel that is not persistent is deleted with its last member
Remove_Client(st, c, u) ==
    IF ~Channel_IsMemberOf(st, c, u) THEN st
    ELSE LET s == [st EXCEPT !.member = Restrict(@, DOMAIN @ \ {<<c, u>>})]
         IN IF ~Has(st, c, "P") /\ Members(s, c) = {} THEN Delete_Channel(s, c) ELSE s

\* Channel_Quit and part_from_all_channels: the user leaves every channel
Channel_Quit(st, u) ==
    FoldSet(LAMBDA c, s : IF Exists(s, c) THEN Remove_Client(s, c, u) ELSE s, st, Chan)

Channel_CheckKey(st, c, u, key) ==
    \/ ~Has(st, c, "k")
    \/ key # NoArg /\ (key = st.chan[c].key \/ <<c, u, key>> \in KeyFile)

\* the channels of the configuration, at the start and at every rehash;
\* an existing channel keeps its modes
Channel_InitPredefined(st) ==
    FoldSet(LAMBDA c, s : IF Exists(s, c) THEN s
                ELSE Channel_ModeAdd(Channel_Create(s, c), c,
                        {"P"} \cup IF c \in Modeless THEN {} ELSE Predefined[c]),
            st, DOMAIN Predefined)
-----------------------------------------------------------------------------
(* JOIN                                                                        *)
\* q is what the caller found out about the channel and the user
Join_Check_Access(q) ==
    \/ q.is_operator
    \/ /\ q.is_banned => q.is_invited \/ q.is_exception
       /\ q.key_ok /\ ~q.is_full
       /\ ~q.secure_required             \* no connection uses TLS in this build
       /\ ~q.oper_only
       /\ q.reg_only => q.is_registered

join_allowed(st, c, u, key) ==
    LET ch == st.chan[c]
    IN Join_Check_Access(
         [is_operator |-> u \in st.oper, is_banned |-> Lists_Check(ch.bans, u),
          is_invited |-> Lists_Check(ch.invites, u), is_exception |-> Lists_Check(ch.excepts, u),
          key_ok |-> Channel_CheckKey(st, c, u, key),
          is_full |-> Has(st, c, "l") /\ ch.maxusers <= Cardinality(Members(st, c)),
          secure_required |-> Has(st, c, "z"), oper_only |-> Has(st, c, "O"),
          reg_only |-> Has(st, c, "R"), is_registered |-> u \in Reg])

\* looking at the invitations uses them up, whether the join succeeds or not
Use_Invite(st, c, u) == [st EXCEPT !.chan[c].invites = Lists_Used(@, u)]

join_set_channelmodes(st, c, u, flags) ==
    Channel_UserModeAdd(st, c, u,
        flags \cup IF Has(st, c, "P") /\ Conf_OperChanPAutoOp /\ u \in st.oper
                   THEN {"o"} ELSE {})

\* the end of the loop body of IRC_JOIN, common to local and remote clients
Enter(st, c, u, flags) ==
    LET s == Channel_Join(st, c, u)
        default == Conf_DefaultChannelModes \cup IF c \in Modeless THEN {"t", "n"} ELSE {}
    IN join_set_channelmodes(
         IF Exists(st, c) THEN s ELSE Channel_ModeAdd(s, c, default), c, u, flags)

\* Mutant of Join_Local: who joins an empty channel becomes its operator.
Join_Local_Empty(st, c, u, key) ==
    IF Exists(st, c) /\ Channel_IsMemberOf(st, c, u) THEN st
    ELSE IF ~Exists(st, c) /\ c \notin AllowedChan THEN st
    ELSE IF Conf_MaxJoins > 0 /\ Channel_CountForUser(st, u) >= Conf_MaxJoins THEN st
    ELSE IF Members(st, c) = {} THEN Enter(st, c, u, {"o"})
    ELSE IF join_allowed(st, c, u, key) THEN Enter(Use_Invite(st, c, u), c, u, {})
    ELSE Use_Invite(st, c, u)

\* a client of this server joins one channel
Join_Local(st, c, u, key) ==
    IF Exists(st, c) /\ Channel_IsMemberOf(st, c, u) THEN st
    ELSE IF ~Exists(st, c) /\ c \notin AllowedChan THEN st
    ELSE IF Conf_MaxJoins > 0 /\ Channel_CountForUser(st, u) >= Conf_MaxJoins THEN st
    ELSE IF ~Exists(st, c) THEN Enter(st, c, u, IF c \in Modeless THEN {} ELSE {"o"})
    ELSE IF join_allowed(st, c, u, key) THEN Enter(Use_Invite(st, c, u), c, u, {})
    ELSE Use_Invite(st, c, u)

\* a linked server announces that a user of its side joined, with these modes
Join_Remote(st, c, u, flags) ==
    LET s == IF Exists(st, c) THEN Use_Invite(st, c, u) ELSE st
    IN IF Channel_IsMemberOf(s, c, u) THEN s ELSE Enter(s, c, u, flags)

\* IRC_JOIN: a list of channels and one of keys; a missing key stays missing
IRC_JOIN(st, u, names, keys) ==
    ForEach(LAMBDA s, i : Join_Local(s, names[i], u,
                              IF i \in DOMAIN keys THEN keys[i] ELSE NoArg),
             st, [i \in DOMAIN names |-> i])
-----------------------------------------------------------------------------
(* KICK: server = TRUE when the command came from a linked server               *)
Outranks(st, c, by, u) ==
    \/ UserHas(st, c, by, {"q"})
    \/ UserHas(st, c, by, {"a"}) /\ ~UserHas(st, c, u, {"q"})
    \/ UserHas(st, c, by, {"o"}) /\ ~UserHas(st, c, u, {"q", "a"})
    \/ UserHas(st, c, by, {"h"}) /\ ~UserHas(st, c, u, Op)
    \/ by \in st.oper /\ Conf_OperCanMode

Channel_Kick(st, c, by, u, server) ==
    IF /\ Exists(st, c)
       /\ Channel_IsMemberOf(st, c, u)
       /\ \/ server
          \/ /\ Channel_IsMemberOf(st, c, by)
             /\ (Has(st, c, "Q") \/ u \in KickProtected) => by \in st.oper
             /\ Outranks(st, c, by, u)
    THEN Remove_Client(st, c, u) ELSE st

(* INVITE: remembered when the channel is invite-only or the target is banned   *)
IRC_INVITE(st, c, from, u) ==
    IF /\ Exists(st, c)
       /\ Channel_IsMemberOf(st, c, from)
       /\ ~Has(st, c, "V")
       /\ Has(st, c, "i") => UserHas(st, c, from, HalfOp)
       /\ ~Channel_IsMemberOf(st, c, u)
       /\ Has(st, c, "i") \/ Lists_Check(st.chan[c].bans, u)
    THEN [st EXCEPT !.chan[c].invites = Lists_Add(@, {u}, TRUE)] ELSE st

\* Mutant of IRC_TOPIC: every member may set the topic.
IRC_TOPIC_Member(st, c, from, topic, server) ==
    IF Exists(st, c) /\ (server \/ Channel_IsMemberOf(st, c, from))
    THEN [st EXCEPT !.chan[c].topic = topic] ELSE st

(* TOPIC with a new text                                                        *)
IRC_TOPIC(st, c, from, topic, server) ==
    LET power == server \/ from \in st.oper
    IN IF /\ Exists(st, c)
          /\ \/ server \/ Channel_IsMemberOf(st, c, from)
             \/ Conf_OperCanMode /\ power
          /\ Has(st, c, "t") /\ ~power => UserHas(st, c, from, HalfOp)
       THEN [st EXCEPT !.chan[c].topic = topic] ELSE st
-----------------------------------------------------------------------------
(* MODE: a list of changes [set, m, arg].  f.st is the state, f.rights the       *)
(* flags is_owner, is_admin, is_op, is_halfop, which are set again before every  *)
(* change and never cleared; f.count counts the arguments; f.done is chan_exit;  *)
(* f.out lists the changes that are announced to other servers.                  *)
\* Mutant of Required: half operators may set every mode of members.
Required_HalfOp(ch) == IF ch.m \in {"O", "P"} /\ ch.set THEN {} ELSE HalfOp

\* who may make a change besides servers and IRC operators with OperCanMode
Required(ch) ==
    CASE ch.m = "q" -> {"q"}
      [] ch.m = "a" -> {"q", "a"}
      [] ch.m \in {"R", "s", "z", "o", "h"} -> Op
      [] ch.m \in {"O", "P"} -> IF ch.set THEN {} ELSE Op
      [] OTHER -> HalfOp

\* a missing right ends the command here; elsewhere it skips the change
ExitModes == {"R", "s", "z", "q", "a", "o", "h"}
Counted == {"k", "l"} \cup DOMAIN ListOf

\* the limits MODE takes: more than 0 and less than 0xFFFF
ValidLimit == 1 .. 65534

\* an argument that is missing or, for a key or a limit, invalid ends the command
BadArg(ch) == \/ ch.m \in UserMode /\ ch.arg = NoArg
              \/ ch.m = "k" /\ ch.set /\ ch.arg \in {NoArg, BadKey}
              \/ ch.m = "l" /\ ch.set /\ (ch.arg = NoArg \/ ch.arg \notin ValidLimit)

Add_To_List(st, c, l, mask, server) ==
    IF \/ Lists_CheckDupeMask(st.chan[c][l], mask)
       \/ ~server /\ Lists_Count(st, c) >= MAX_HNDL_CHANNEL_LISTS
    THEN st ELSE [st EXCEPT !.chan[c][l] = Lists_Add(@, mask, FALSE)]

\* one change, by someone who has the right to make it
Change(st, c, ch, server) ==
    CASE ch.m \in UserMode ->
           IF ~Channel_IsMemberOf(st, c, ch.arg) THEN st
           ELSE [st EXCEPT !.member[<<c, ch.arg>>] =
                    IF ch.set THEN @ \cup {ch.m} ELSE @ \ {ch.m}]
      [] ch.m \in DOMAIN ListOf ->
           IF ch.arg = NoArg THEN st                       \* shows the list
           ELSE IF ch.set THEN Add_To_List(st, c, ListOf[ch.m], ch.arg, server)
           ELSE [st EXCEPT !.chan[c][ListOf[ch.m]] = Lists_Del(@, ch.arg)]
      [] OTHER ->
           [st EXCEPT !.chan[c].modes = IF ch.set THEN @ \cup {ch.m} ELSE @ \ {ch.m},
                      !.chan[c].key = IF ch.m = "k" /\ ch.set THEN ch.arg ELSE @,
                      !.chan[c].maxusers = IF ch.m = "l" /\ ch.set THEN ch.arg ELSE @]

Mode_Step(f, c, by, ch, server) ==
    LET trusted == server \/ (by \in f.st.oper /\ Conf_OperCanMode)
        rights == f.rights \cup IF trusted THEN {} ELSE f.st.member[<<c, by>>] \cap HalfOp
        g == [f EXCEPT !.rights = rights,
                       !.count = IF ch.m \in Counted THEN @ + 1 ELSE @]
        may == trusted \/ rights \cap Required(ch) # {}
        limit == ch.m \in Counted /\ ~server /\ f.count >= MAX_HNDL_MODES_ARG
        s == Change(f.st, c, ch, server)
    IN IF f.done THEN f
       ELSE IF limit \/ (~may /\ ch.m \in ExitModes) \/ BadArg(ch)
       THEN [g EXCEPT !.done = TRUE]
       ELSE IF ~may THEN g
       ELSE [g EXCEPT !.st = s,
                      !.out = IF s # f.st \/ (ch.m \in {"k", "l"} /\ ch.set)
                              THEN Append(@, ch) ELSE @]

\* the fold over all changes of one command
Channel_Mode(st, c, by, changes, server) ==
    LET f == [st |-> st, rights |-> {}, count |-> 0, done |-> FALSE, out |-> <<>>]
    IN IF \/ ~Exists(st, c) \/ c \in Modeless
          \/ /\ ~server /\ ~Channel_IsMemberOf(st, c, by)
             /\ ~(by \in st.oper /\ Conf_OperCanMode)
       THEN f
       ELSE ForEach(LAMBDA g, ch : Mode_Step(g, c, by, ch, server), f, changes)
-----------------------------------------------------------------------------
(* NJOIN and CHANINFO from a linked server                                      *)
\* a client that cannot join is killed everywhere
IRC_NJOIN(st, c, u, flags) ==
    IF Channel_IsMemberOf(st, c, u) THEN Channel_Quit(st, u)
    ELSE Channel_UserModeAdd(Channel_Join(st, c, u), c, u, flags)

\* modes are only taken over by a channel that has none, a topic likewise; key
\* and limit come with the long form only
IRC_CHANINFO(st, c, modes, key, limit, topic, long) ==
    LET s == IF Exists(st, c) THEN st ELSE Channel_Create(st, c)
        new == IF long THEN modes ELSE modes \ {"k", "l"}
        t == IF s.chan[c].modes # {} THEN s
             ELSE [s EXCEPT !.chan[c].modes = new,
                            !.chan[c].key = IF "k" \in new THEN key ELSE @,
                            !.chan[c].maxusers = IF "l" \in new THEN limit ELSE @]
    IN IF t.chan[c].topic = NoArg THEN [t EXCEPT !.chan[c].topic = topic] ELSE t
-----------------------------------------------------------------------------
(* PRIVMSG and NOTICE to a channel                                              *)
Can_Send_To_Channel(st, c, u) ==
    LET member == Channel_IsMemberOf(st, c, u)
    IN /\ Has(st, c, "n") => member
       /\ Has(st, c, "M") => u \in Reg \cup st.oper
       /\ \/ member /\ UserHas(st, c, u, UserMode)
          \/ /\ ~Has(st, c, "m")
             /\ Lists_Check(st.chan[c].bans, u) => Lists_Check(st.chan[c].excepts, u)
=============================================================================
