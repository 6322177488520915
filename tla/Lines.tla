------------------------------- MODULE Lines --------------------------------
(* The G-lines and K-lines of a server: class.c, the lists of lists.c with    *)
(* their times, and the commands that change them.  A mask is the set of the  *)
(* <<nick, host>> it matches; user names do not change.  valid_until is a     *)
(* time, or 0 or less for ever.  s has                                        *)
(*   G, K   the lists: sequences of [mask, valid_until];                      *)
(*   user   of each user: the type, which is NONE, UNKNOWN, GOTNICK, OTHER for *)
(*          the rest of the login, USER, or REMOTE for a user of another      *)
(*          server, the nick, and x, whether the host is cloaked;             *)
(*   now    the time.                                                         *)
EXTENDS Integers, Sequences

CONSTANTS Host, CloakHost   \* the host of the users, and what is shown for it

Lists_CheckDupeMask(l, mask) == {i \in DOMAIN l : l[i].mask = mask}

\* a mask that is there already gets the new time
Lists_Add(l, mask, until) ==
    IF Lists_CheckDupeMask(l, mask) # {}
    THEN [i \in DOMAIN l |-> IF i \in Lists_CheckDupeMask(l, mask) THEN [l[i] EXCEPT !.valid_until = until] ELSE l[i]]
    ELSE <<[mask |-> mask, valid_until |-> until]>> \o l

Lists_Del(l, mask) == SelectSeq(l, LAMBDA e : e.mask # mask)

Client_Mask(v) == <<v.nick, Host>>
Client_MaskCloaked(v) == IF v.x THEN <<v.nick, CloakHost>> ELSE Client_Mask(v)

Lists_Check(l, v) == \E i \in DOMAIN l : {Client_Mask(v), Client_MaskCloaked(v)} \cap l[i].mask # {}

Lists_Expire(l, now) == SelectSeq(l, LAMBDA e : ~(e.valid_until > 0 /\ e.valid_until < now))

Class_Expire(s) == [s EXCEPT !.G = Lists_Expire(@, s.now), !.K = Lists_Expire(@, s.now)]

\* Mutant of Class_HandleServerBans: only G-lines are looked at.
Class_HandleServerBans_G(s, u) ==
    IF Lists_Check(s.G, s.user[u]) THEN [s EXCEPT !.user[u].type = "NONE"] ELSE s

\* a user that is banned is rejected
Class_HandleServerBans(s, u) ==
    IF Lists_Check(s.G, s.user[u]) \/ Lists_Check(s.K, s.user[u])
    THEN [s EXCEPT !.user[u].type = "NONE"] ELSE s

\* the end of the login, and the result of the resolver
Login_User_PostAuth(s, u) ==
    LET b == Class_HandleServerBans(s, u)
    IN IF b.user[u].type = "NONE" THEN b ELSE [b EXCEPT !.user[u].type = "USER"]

cb_Read_Resolver_Result(s, u) ==
    IF s.user[u].type = "UNKNOWN" THEN Class_HandleServerBans(s, u) ELSE s

\* the nick or the cloak changes: no line is looked at
Change_Nick(s, u, nick) == [s EXCEPT !.user[u].nick = nick]
Client_Mode_x(s, u, on) == [s EXCEPT !.user[u].x = on]

\* IRC_KillClient leaves those alone that are in another state of the login
Killed(s, class, v) ==
    /\ v.type \in {"USER", "GOTNICK", "REMOTE"}
    /\ class = "G" \/ v.type # "REMOTE"
    /\ Lists_Check(s[class], v)

\* IRC_xLINE with a time in seconds: the list is changed and all clients are checked
\* against all of it
Add_Line(s, class, mask, seconds) ==
    LET until == IF seconds > 0 THEN s.now + seconds ELSE seconds
        added == [s EXCEPT ![class] = Lists_Add(@, mask, until)]
    IN [added EXCEPT !.user =
           [u \in DOMAIN @ |-> IF Killed(added, class, @[u]) THEN [@[u] EXCEPT !.type = "NONE"] ELSE @[u]]]

Delete_Line(s, class, mask) == [s EXCEPT ![class] = Lists_Del(@, mask)]
=============================================================================
