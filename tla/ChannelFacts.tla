-------------------------- MODULE ChannelFacts --------------------------
(***************************************************************************)
(* What the channel commands do, as relations between two states, and what *)
(* follows from them.  A command is a loop over its list, so each relation *)
(* (Joined, Left, Kicked, Kept and Ruled for MODE) holds after any number  *)
(* of turns.  Then what the operators of ChannelOps do to a sound state:   *)
(* lists of masks, entering and leaving channels.  JOIN and PART are       *)
(* folds, and the relation holds after each turn; the other commands       *)
(* follow in ChannelProofs.                                                *)
(***************************************************************************)
EXTENDS Channel, InductionFacts

Entry == [mask : SUBSET User, onlyonce : BOOLEAN]
List == Seq(Entry)
Room == [modes : SUBSET AnyMode, key : Key \cup {NoArg}, maxusers : Nat,
         topic : Topic \cup {NoArg}, bans : List, excepts : List, invites : List]
Rooms == UNION {[D -> Room] : D \in SUBSET Chan}
Seats == UNION {[D -> SUBSET UserMode] : D \in SUBSET (Chan \X User)}
State == [chan : Rooms, member : Seats, oper : SUBSET Oper]

\* A mask is in the list of invitations once, and one good for a single use is for
\* a single user.
Fair(l) == /\ \A i, j \in DOMAIN l : l[i].mask = l[j].mask => i = j
           /\ \A i \in DOMAIN l : l[i].onlyonce => \E u \in User : l[i].mask = {u}

\* Members are in channels that exist, in no more than allowed, and the invitations
\* of every channel are fair.
Seated(s) == \A p \in DOMAIN s.member : p[1] \in DOMAIN s.chan
Limited(s) == Conf_MaxJoins > 0 => \A u \in User : Channel_CountForUser(s, u) <= Conf_MaxJoins
Good == {s \in State : /\ Seated(s) /\ Limited(s)
                       /\ \A c \in DOMAIN s.chan : Fair(s.chan[c].invites)}

\* Every entry of l that is good for one use is an entry of m.
Fewer(l, m) == \A i \in DOMAIN l : l[i].onlyonce => \E j \in DOMAIN m : l[i] = m[j]

-----------------------------------------------------------------------------
(* The relations                                                           *)
\* Looking at the invitations of a channel changes nothing but them.
Alike(r, q) == /\ r.modes = q.modes /\ r.key = q.key /\ r.maxusers = q.maxusers
               /\ r.topic = q.topic /\ r.bans = q.bans /\ r.excepts = q.excepts
Within(l, m) == \A i \in DOMAIN l : \E j \in DOMAIN m : l[i] = m[j]

\* an invitation of u for one use is in l, and one for every use is in m
Lasting(m, u) == \E j \in Hits(m, u) : ~m[j].onlyonce
OnceMore(l, u) == \E i \in DOMAIN l : u \in l[i].mask /\ l[i].onlyonce

\* What JOIN of a list of channels does, after any number of them: old members stay
\* as they are, only u enters, as an operator only where there was no channel; who is
\* banned had an invitation, and it is used up unless one for every use was there.
Admitted(r, u) ==
    Lists_Check(r.bans, u) /\ ~Lists_Check(r.excepts, u) => Lists_Check(r.invites, u)
Joined(s0, s, u) ==
    /\ s.oper = s0.oper
    /\ DOMAIN s0.chan \subseteq DOMAIN s.chan /\ DOMAIN s0.member \subseteq DOMAIN s.member
    /\ \A c \in DOMAIN s0.chan : /\ Alike(s.chan[c], s0.chan[c])
                                 /\ Within(s.chan[c].invites, s0.chan[c].invites)
    /\ \A c \in DOMAIN s.chan \ DOMAIN s0.chan : /\ <<c, u>> \in DOMAIN s.member
                                                 /\ s.chan[c].invites = <<>>
    /\ \A p \in DOMAIN s0.member : s.member[p] = s0.member[p]
    /\ \A p \in DOMAIN s.member \ DOMAIN s0.member :
         /\ p[2] = u
         /\ u \notin s0.oper =>
              s.member[p] = IF p[1] \in DOMAIN s0.chan \/ p[1] \in Modeless THEN {} ELSE {"o"}
         /\ p[1] \in DOMAIN s0.chan =>
              /\ OnceMore(s.chan[p[1]].invites, u) => Lasting(s0.chan[p[1]].invites, u)
              /\ u \notin s0.oper => Admitted(s0.chan[p[1]], u)

\* What PART, JOIN 0, KICK and the end of a connection do, after any number of
\* channels: only u leaves, and only channels it was in are gone.
Left(s0, s, u) ==
    /\ s.oper \subseteq s0.oper /\ s0.oper \ {u} \subseteq s.oper
    /\ DOMAIN s.chan \subseteq DOMAIN s0.chan /\ DOMAIN s.member \subseteq DOMAIN s0.member
    /\ \A c \in DOMAIN s.chan : s.chan[c] = s0.chan[c]
    /\ \A p \in DOMAIN s.member : s.member[p] = s0.member[p]
    /\ \A p \in DOMAIN s0.member \ DOMAIN s.member : p[2] = u
    /\ \A c \in DOMAIN s0.chan \ DOMAIN s.chan : <<c, u>> \in DOMAIN s0.member

\* A KICK takes u out only of channels in which the sender outranked it at the start.
Kicked(s0, s, from, u) ==
    /\ Left(s0, s, u) /\ s.oper = s0.oper
    /\ \A p \in DOMAIN s0.member \ DOMAIN s.member :
         <<p[1], from>> \in DOMAIN s0.member /\ Outranks(s0, p[1], from, u)
Provided(s0, s) ==
    /\ s.oper = s0.oper /\ s.member = s0.member
    /\ DOMAIN s0.chan \subseteq DOMAIN s.chan
    /\ \A c \in DOMAIN s0.chan : s.chan[c] = s0.chan[c]
    /\ \A c \in DOMAIN s.chan \ DOMAIN s0.chan : s.chan[c].invites = <<>>

\* The rank that gives a right, and the rank that is needed to give or take a mode.
Level(m) == CASE m = "q" -> 4 [] m = "a" -> 3 [] m = "o" -> 2 [] OTHER -> 1
Need(m) == CASE m = "q" -> 4 [] m = "a" -> 3 [] OTHER -> 2

\* What MODE does, after any number of changes.  For a sender who is no IRC operator
\* the rights collected so far never exceed the rank it had at the start, and every
\* mode that has changed is one that this rank may change.
Ruled(s0, s, rights, c, r0) ==
    /\ \A m \in rights : r0 >= Level(m)
    /\ \A p \in DOMAIN s0.member, m \in HalfOp :
         (m \in s.member[p] <=> m \in s0.member[p]) \/ r0 >= Need(m)
    /\ r0 = 0 => s = s0
Kept(s0, s, c) ==
    /\ s \in Good /\ s.oper = s0.oper
    /\ DOMAIN s.chan = DOMAIN s0.chan /\ DOMAIN s.member = DOMAIN s0.member
    /\ \A d \in DOMAIN s0.chan \ {c} : s.chan[d] = s0.chan[d]
    /\ Fewer(s.chan[c].invites, s0.chan[c].invites)
    /\ \A p \in DOMAIN s0.member : p[1] # c => s.member[p] = s0.member[p]
ModeDone(s, t, c, u) ==
    /\ c \in DOMAIN s.chan /\ c \notin Modeless /\ Kept(s, t, c)
    /\ u \notin s.oper => /\ <<c, u>> \in DOMAIN s.member
                          /\ \E rights : Ruled(s, t, rights, c, Rank(s.member[<<c, u>>]))

\* The topic of c is set by someone who may.
TopicSet(s, t, c, u) ==
    /\ t.oper = s.oper /\ t.member = s.member /\ DOMAIN t.chan = DOMAIN s.chan
    /\ c \in DOMAIN s.chan
    /\ \A d \in DOMAIN s.chan \ {c} : t.chan[d] = s.chan[d]
    /\ t.chan[c] = [s.chan[c] EXCEPT !.topic = t.chan[c].topic]
    /\ t.chan[c].invites = s.chan[c].invites
    /\ \/ u \in s.oper \/ "t" \notin s.chan[c].modes
       \/ <<c, u>> \in DOMAIN s.member /\ s.member[<<c, u>>] \cap HalfOp # {}

\* v gets an invitation to c for one use.
InviteSet(s, t, c, v) ==
    /\ t.oper = s.oper /\ t.member = s.member /\ DOMAIN t.chan = DOMAIN s.chan
    /\ c \in DOMAIN s.chan
    /\ \A d \in DOMAIN s.chan \ {c} : t.chan[d] = s.chan[d]
    /\ Alike(t.chan[c], s.chan[c])
    /\ \A i \in DOMAIN t.chan[c].invites :
         \/ \E j \in DOMAIN s.chan[c].invites : t.chan[c].invites[i] = s.chan[c].invites[j]
         \/ t.chan[c].invites[i].mask = {v} /\ t # s
Rehatted(s, t, u) == /\ t.chan = s.chan /\ t.member = s.member
                     /\ u \in t.oper \/ t.oper \subseteq s.oper

\* A command of u, other than INVITE.
Done(s, t, u) ==
    \/ t = s \/ Joined(s, t, u) \/ Left(s, t, u) \/ Rehatted(s, t, u)
    \/ \E v \in User : Kicked(s, t, u, v)
    \/ \E c \in Chan : ModeDone(s, t, c, u) \/ TopicSet(s, t, c, u)

\* An invitation for one use is one that is in ps.
TicketsIn(s, ps) == \A c \in DOMAIN s.chan : \A i \in DOMAIN s.chan[c].invites :
                      s.chan[c].invites[i].onlyonce =>
                         \A u \in s.chan[c].invites[i].mask : <<c, u>> \in ps
PassesIn(s, ps, t) ==
    {p \in ps : /\ p[1] \in DOMAIN t.chan
                /\ p \in DOMAIN t.member =>
                     p \in DOMAIN s.member \/ Lasting(s.chan[p[1]].invites, p[2])}

-----------------------------------------------------------------------------
(* States                                                                  *)
LEMMA StateParts ==
    ASSUME NEW s \in State
    PROVE  /\ s = [chan |-> s.chan, member |-> s.member, oper |-> s.oper]
           /\ s.chan \in [DOMAIN s.chan -> Room] /\ DOMAIN s.chan \subseteq Chan
           /\ s.member \in [DOMAIN s.member -> SUBSET UserMode]
           /\ DOMAIN s.member \subseteq Chan \X User
           /\ s.oper \subseteq Oper
<1>1. s.chan \in Rooms /\ s.member \in Seats /\ s.oper \subseteq Oper
      /\ s = [chan |-> s.chan, member |-> s.member, oper |-> s.oper]
  BY DEF State
<1>2. PICK D \in SUBSET Chan : s.chan \in [D -> Room]
  BY <1>1 DEF Rooms
<1>3. PICK E \in SUBSET (Chan \X User) : s.member \in [E -> SUBSET UserMode]
  BY <1>1 DEF Seats
<1>4. D = DOMAIN s.chan /\ E = DOMAIN s.member
  BY <1>2, <1>3
<1> QED BY <1>1, <1>2, <1>3, <1>4

LEMMA GoodParts ==
    ASSUME NEW s \in Good
    PROVE  /\ s \in State /\ Seated(s) /\ Limited(s)
           /\ \A c \in DOMAIN s.chan : s.chan[c] \in Room /\ Fair(s.chan[c].invites)
BY StateParts DEF Good

LEMMA RoomFields ==
    ASSUME NEW r \in Room
    PROVE  /\ r.modes \in SUBSET AnyMode /\ r.key \in Key \cup {NoArg} /\ r.maxusers \in Nat
           /\ r.topic \in Topic \cup {NoArg}
           /\ r.bans \in List /\ r.excepts \in List /\ r.invites \in List
BY DEF Room

LEMMA Pair ==
    ASSUME NEW s \in Good, NEW p \in DOMAIN s.member
    PROVE  p \in Chan \X User /\ p = <<p[1], p[2]>> /\ p[1] \in DOMAIN s.chan
<1>1. s \in State /\ Seated(s)
  BY GoodParts
<1>2. p \in Chan \X User
  BY <1>1, StateParts
<1> QED BY <1>1, <1>2 DEF Seated

-----------------------------------------------------------------------------
(* Invitations                                                             *)
\* The entry i of the invitations of c in t was there in s.
WasThere(s, t, c, i) ==
    /\ c \in DOMAIN s.chan
    /\ \E j \in DOMAIN s.chan[c].invites : t.chan[c].invites[i] = s.chan[c].invites[j]

\* No command but INVITE makes an entry for one use.
LEMMA NoneNew ==
    ASSUME NEW s \in Good, NEW t \in Good, NEW u, Done(s, t, u),
           NEW c \in DOMAIN t.chan, NEW i \in DOMAIN t.chan[c].invites,
           t.chan[c].invites[i].onlyonce
    PROVE  WasThere(s, t, c, i)
<1>1. CASE c \in DOMAIN s.chan /\ t.chan[c] = s.chan[c]
  BY <1>1 DEF WasThere
<1>2. CASE Joined(s, t, u)
  <2>1. CASE c \in DOMAIN s.chan
    BY <1>2, <2>1 DEF Joined, Within, WasThere
  <2>2. CASE c \notin DOMAIN s.chan
    <3>1. t.chan[c].invites = <<>>
      BY <1>2, <2>2, Zenon DEF Joined
    <3> QED BY <3>1
  <2> QED BY <2>1, <2>2
<1>3. ASSUME NEW v, Left(s, t, v) PROVE WasThere(s, t, c, i)
  BY <1>1, <1>3 DEF Left
<1>4. ASSUME NEW d, ModeDone(s, t, d, u) PROVE WasThere(s, t, c, i)
  BY <1>1, <1>4 DEF ModeDone, Kept, Fewer, WasThere
<1>5. ASSUME NEW d, TopicSet(s, t, d, u) PROVE WasThere(s, t, c, i)
  BY <1>1, <1>5 DEF TopicSet, WasThere
<1> QED BY <1>1, <1>2, <1>3, <1>4, <1>5 DEF Done, Kicked, Rehatted

\* Only JOIN makes members.
LEMMA OnlyJoin ==
    ASSUME NEW s, NEW t, NEW u, Done(s, t, u), NEW p \in DOMAIN t.member \ DOMAIN s.member
    PROVE  Joined(s, t, u)
BY Zenon DEF Done, Left, Kicked, Rehatted, ModeDone, Kept, TopicSet

\* A command leaves an entry for one use only to those who may still use it.
LEMMA TicketsKept ==
    ASSUME NEW s \in Good, NEW t \in Good, NEW u, Done(s, t, u), NEW ps, TicketsIn(s, ps)
    PROVE  TicketsIn(t, PassesIn(s, ps, t))
<1> SUFFICES ASSUME NEW c \in DOMAIN t.chan, NEW i \in DOMAIN t.chan[c].invites,
                    t.chan[c].invites[i].onlyonce, NEW v \in t.chan[c].invites[i].mask
             PROVE  <<c, v>> \in PassesIn(s, ps, t)
  BY DEF TicketsIn
<1>1. WasThere(s, t, c, i)
  BY NoneNew
<1>2. <<c, v>> \in ps
  BY <1>1 DEF WasThere, TicketsIn
<1>3. ASSUME <<c, v>> \in DOMAIN t.member \ DOMAIN s.member
      PROVE  Lasting(s.chan[c].invites, v)
  <2>1. Joined(s, t, u)
    BY <1>3, OnlyJoin
  <2>2. v = u /\ (OnceMore(t.chan[c].invites, u) => Lasting(s.chan[c].invites, u))
    BY <1>1, <1>3, <2>1 DEF Joined, WasThere
  <2>3. OnceMore(t.chan[c].invites, v)
    BY DEF OnceMore
  <2> QED BY <2>2, <2>3
<1> QED BY <1>2, <1>3 DEF PassesIn

\* INVITE gives the one it names a pass for the entry it makes.
LEMMA TicketsGiven ==
    ASSUME NEW s, NEW t, NEW c, NEW v, NEW ps, TicketsIn(s, ps),
           t = s \/ InviteSet(s, t, c, v)
    PROVE  TicketsIn(t, IF t # s THEN ps \cup {<<c, v>>} ELSE ps)
<1>1. CASE t = s
  BY <1>1
<1>2. CASE t # s
  <2> SUFFICES ASSUME NEW d \in DOMAIN t.chan, NEW i \in DOMAIN t.chan[d].invites,
                      t.chan[d].invites[i].onlyonce, NEW w \in t.chan[d].invites[i].mask
               PROVE  <<d, w>> \in ps \cup {<<c, v>>}
    BY <1>2 DEF TicketsIn
  <2>1. CASE d # c
    BY <1>2, <2>1, Zenon DEF InviteSet, TicketsIn
  <2>2. CASE d = c
    <3> DEFINE l == t.chan[c].invites
               k == s.chan[c].invites
    <3>1. \/ \E j \in DOMAIN k : l[i] = k[j]
          \/ l[i].mask = {v}
      BY <1>2, <2>2, Zenon DEF InviteSet
    <3>2. CASE \E j \in DOMAIN k : l[i] = k[j]
      <4> PICK j \in DOMAIN k : l[i] = k[j]
        BY <3>2, Zenon
      <4>1. k[j].onlyonce /\ w \in k[j].mask /\ c \in DOMAIN s.chan
        BY <1>2, <2>2, Zenon DEF InviteSet
      <4> QED BY <2>2, <4>1, Zenon DEF TicketsIn
    <3>3. CASE l[i].mask = {v}
      BY <2>2, <3>3, Zenon
    <3> QED BY <3>1, <3>2, <3>3, Zenon
  <2> QED BY <2>1, <2>2
<1> QED BY <1>1, <1>2

LEMMA TicketsProvided ==
    ASSUME NEW s, NEW t, NEW ps, TicketsIn(s, ps), Provided(s, t)
    PROVE  TicketsIn(t, ps)
<1> SUFFICES ASSUME NEW c \in DOMAIN t.chan, NEW i \in DOMAIN t.chan[c].invites,
                    t.chan[c].invites[i].onlyonce, NEW v \in t.chan[c].invites[i].mask
             PROVE  <<c, v>> \in ps
  BY DEF TicketsIn
<1>1. CASE c \in DOMAIN s.chan
  BY <1>1 DEF Provided, TicketsIn
<1>2. CASE c \notin DOMAIN s.chan
  <2>1. t.chan[c].invites = <<>>
    BY <1>2 DEF Provided
  <2> QED BY <2>1
<1> QED BY <1>1, <1>2

\* Who enters although banned, not excepted and not on an entry that MODE made had a pass.
LEMMA OnceKept ==
    ASSUME NEW s \in Good, NEW t \in Good, NEW u, Done(s, t, u), NEW ps, TicketsIn(s, ps),
           NEW p \in DOMAIN t.member \ DOMAIN s.member,
           p[1] \in DOMAIN s.chan, p[2] \notin s.oper,
           Lists_Check(s.chan[p[1]].bans, p[2]), ~Lists_Check(s.chan[p[1]].excepts, p[2]),
           ~Lasting(s.chan[p[1]].invites, p[2])
    PROVE  p \in ps
<1>1. Joined(s, t, u)
  BY OnlyJoin
<1>2. p[2] = u
  BY <1>1 DEF Joined
<1>3. Admitted(s.chan[p[1]], u)
  BY <1>1, <1>2 DEF Joined
<1>4. Lists_Check(s.chan[p[1]].invites, u)
  BY <1>2, <1>3 DEF Admitted
<1>5. PICK i \in Hits(s.chan[p[1]].invites, u) : s.chan[p[1]].invites[i].onlyonce
  BY <1>2, <1>4 DEF Lists_Check, Lasting
<1>6. <<p[1], u>> \in ps
  BY <1>5 DEF Hits, TicketsIn
<1>7. p = <<p[1], p[2]>>
  BY Pair
<1> QED BY <1>2, <1>6, <1>7

-----------------------------------------------------------------------------
(* Ranks                                                                   *)
LEMMA RankFacts ==
    ASSUME NEW ms \in SUBSET UserMode
    PROVE  /\ Rank(ms) \in 0 .. 4
           /\ \A m \in HalfOp : m \in ms => Rank(ms) >= Level(m)
           /\ Rank(ms) >= 1 <=> ms \cap HalfOp # {}
           /\ Rank(ms) >= 2 <=> ms \cap Op # {}
           /\ Rank(ms) = 4 <=> "q" \in ms
           /\ Rank(ms) = 3 <=> "q" \notin ms /\ "a" \in ms
           /\ Rank(ms) = 2 <=> "q" \notin ms /\ "a" \notin ms /\ "o" \in ms
<1>1. \A m \in HalfOp : m = "q" \/ m = "a" \/ m = "o" \/ m = "h"
  BY DEF HalfOp, Op
<1>2. /\ ms \cap HalfOp # {} <=> "q" \in ms \/ "a" \in ms \/ "o" \in ms \/ "h" \in ms
      /\ ms \cap Op # {} <=> "q" \in ms \/ "a" \in ms \/ "o" \in ms
  BY DEF HalfOp, Op
<1>3. Level("q") = 4 /\ Level("a") = 3 /\ Level("o") = 2 /\ Level("h") = 1
  BY DEF Level
<1>4. /\ "q" \in ms => Rank(ms) = 4
      /\ "q" \notin ms /\ "a" \in ms => Rank(ms) = 3
      /\ "q" \notin ms /\ "a" \notin ms /\ "o" \in ms => Rank(ms) = 2
      /\ "q" \notin ms /\ "a" \notin ms /\ "o" \notin ms /\ "h" \in ms => Rank(ms) = 1
      /\ "q" \notin ms /\ "a" \notin ms /\ "o" \notin ms /\ "h" \notin ms => Rank(ms) = 0
  BY DEF Rank
<1>5. \A m \in HalfOp : m \in ms => Rank(ms) >= Level(m)
  BY <1>1, <1>3, <1>4
<1> QED BY <1>2, <1>4, <1>5

LEMMA LevelFacts ==
    ASSUME NEW m \in HalfOp
    PROVE  Level(m) \in 1 .. 4 /\ Need(m) \in 2 .. 4 /\ Need(m) >= Level(m)
BY DEF Level, Need, HalfOp, Op

RankIn(s, c, u) == IF <<c, u>> \in DOMAIN s.member THEN Rank(s.member[<<c, u>>]) ELSE 0
RaisedIn(s, t, u, p) ==
    /\ p \in DOMAIN s.member \cap DOMAIN t.member
    /\ Rank(t.member[p]) > Rank(s.member[p])
    /\ RankIn(s, p[1], u) < Max({2, Rank(t.member[p])})
LoweredIn(s, t, u, p) ==
    /\ p \in DOMAIN s.member /\ p[2] # u
    /\ p \notin DOMAIN t.member \/ Rank(t.member[p]) < Rank(s.member[p])
    /\ RankIn(s, p[1], u) < Max({1, Rank(s.member[p])})

LEMMA MaxPair ==
    ASSUME NEW m \in Nat, NEW n \in Nat
    PROVE  Max({m, n}) \in Nat /\ (Max({m, n}) = m \/ Max({m, n}) = n)
           /\ Max({m, n}) >= m /\ Max({m, n}) >= n
<1>1. \E x \in {m, n} : \A y \in {m, n} : x >= y
  <2>1. CASE m >= n
    BY <2>1
  <2>2. CASE n >= m
    BY <2>2
  <2> QED BY <2>1, <2>2
<1>2. Max({m, n}) \in {m, n} /\ \A x \in {m, n} : Max({m, n}) >= x
  BY <1>1 DEF Max
<1> QED BY <1>2

LEMMA SeatFacts ==
    ASSUME NEW s \in Good, NEW p \in DOMAIN s.member
    PROVE  s.member[p] \in SUBSET UserMode /\ Rank(s.member[p]) \in 0 .. 4
<1>1. s \in State
  BY GoodParts
<1>2. s.member[p] \in SUBSET UserMode
  BY <1>1, StateParts
<1> QED BY <1>2, RankFacts

\* Who is kicked by a user who is no IRC operator has no higher rank.
LEMMA OutranksRank ==
    ASSUME NEW s \in Good, NEW c, NEW u, NEW v, Outranks(s, c, u, v), u \notin s.oper,
           <<c, u>> \in DOMAIN s.member, <<c, v>> \in DOMAIN s.member
    PROVE  /\ Rank(s.member[<<c, u>>]) >= 1
           /\ Rank(s.member[<<c, u>>]) >= Rank(s.member[<<c, v>>])
<1> DEFINE a == s.member[<<c, u>>]
           b == s.member[<<c, v>>]
<1>1. a \in SUBSET UserMode /\ b \in SUBSET UserMode
  BY SeatFacts
<1>2. \/ "q" \in a
      \/ "a" \in a /\ "q" \notin b
      \/ "o" \in a /\ "q" \notin b /\ "a" \notin b
      \/ "h" \in a /\ b \cap Op = {}
  BY DEF Outranks, UserHas
<1> HIDE DEF a, b
<1>3. /\ Rank(b) \in 0 .. 4 /\ (Rank(b) >= 2 <=> b \cap Op # {})
      /\ (Rank(b) = 4 <=> "q" \in b) /\ (Rank(b) = 3 <=> "q" \notin b /\ "a" \in b)
  BY <1>1, RankFacts
<1>4. Rank(a) \in 0 .. 4 /\ \A m \in HalfOp : m \in a => Rank(a) >= Level(m)
  BY <1>1, RankFacts
<1>5. /\ "q" \in a => Rank(a) >= 4
      /\ "a" \in a => Rank(a) >= 3
      /\ "o" \in a => Rank(a) >= 2
      /\ "h" \in a => Rank(a) >= 1
  <2>1. "q" \in HalfOp /\ "a" \in HalfOp /\ "o" \in HalfOp /\ "h" \in HalfOp
    BY DEF HalfOp, Op
  <2>2. Level("q") = 4 /\ Level("a") = 3 /\ Level("o") = 2 /\ Level("h") = 1
    BY DEF Level
  <2> QED BY <1>4, <2>1, <2>2
<1>6. Rank(a) >= 1 /\ Rank(a) >= Rank(b)
  BY <1>2, <1>3, <1>4, <1>5
<1> QED BY <1>6 DEF a, b

\* A set of modes of higher rank has a mode of that rank that the other one lacks.
LEMMA RankWitness ==
    ASSUME NEW a \in SUBSET UserMode, NEW b \in SUBSET UserMode, Rank(a) > Rank(b)
    PROVE  \E m \in HalfOp : m \in a /\ m \notin b /\ Need(m) >= Rank(a)
<1>1. Rank(a) \in 0 .. 4 /\ Rank(b) \in 0 .. 4
  BY RankFacts
<1>2. "q" \in HalfOp /\ "a" \in HalfOp /\ "o" \in HalfOp /\ "h" \in HalfOp
  BY DEF HalfOp, Op
<1>3. Need("q") = 4 /\ Need("a") = 3 /\ Need("o") = 2 /\ Need("h") = 2
  BY DEF Need
<1>4. CASE Rank(a) = 4
  <2>1. "q" \in a /\ "q" \notin b
    BY <1>4, RankFacts
  <2> QED BY <1>2, <1>3, <1>4, <2>1
<1>5. CASE Rank(a) = 3
  <2>1. "a" \in a
    BY <1>5, RankFacts
  <2>2. "q" \notin b /\ "a" \notin b
    BY <1>1, <1>5 DEF Rank
  <2> QED BY <1>2, <1>3, <1>5, <2>1, <2>2
<1>6. CASE Rank(a) = 2
  <2>1. "o" \in a
    BY <1>6, RankFacts
  <2>2. "o" \notin b
    BY <1>1, <1>6 DEF Rank
  <2> QED BY <1>2, <1>3, <1>6, <2>1, <2>2
<1>7. CASE Rank(a) = 1
  <2>1. "h" \in a
    BY <1>7 DEF Rank
  <2>2. "h" \notin b
    BY <1>1, <1>7 DEF Rank
  <2> QED BY <1>2, <1>3, <1>7, <2>1, <2>2
<1> QED BY <1>1, <1>4, <1>5, <1>6, <1>7

\* Where the modes of a member stay as they are, nobody is raised, and nobody is
\* lowered who does not leave.
LEMMA Steady ==
    ASSUME NEW s \in Good, NEW t, NEW u, NEW p,
           p \in DOMAIN s.member \cap DOMAIN t.member => t.member[p] = s.member[p]
    PROVE  /\ ~RaisedIn(s, t, u, p)
           /\ LoweredIn(s, t, u, p) => p \in DOMAIN s.member \ DOMAIN t.member /\ p[2] # u
<1>1. p \in DOMAIN s.member => Rank(s.member[p]) \in 0 .. 4
  BY SeatFacts
<1> QED BY <1>1 DEF RaisedIn, LoweredIn

LEMMA RankManaged ==
    ASSUME NEW s \in Good, NEW t \in Good, NEW c, NEW u, u \notin s.oper, ModeDone(s, t, c, u),
           NEW p \in DOMAIN s.member
    PROVE  ~RaisedIn(s, t, u, p) /\ ~LoweredIn(s, t, u, p)
<1>1. p \in DOMAIN t.member
  BY DEF ModeDone, Kept
<1>2. CASE p[1] # c
  <2>1. t.member[p] = s.member[p]
    BY <1>2 DEF ModeDone, Kept
  <2> QED BY <1>1, <2>1, Steady
<1>3. CASE p[1] = c
  <2> DEFINE a == s.member[p]
             b == t.member[p]
             r0 == Rank(s.member[<<c, u>>])
  <2>1. <<c, u>> \in DOMAIN s.member
        /\ \E rights : Ruled(s, t, rights, c, Rank(s.member[<<c, u>>]))
    BY DEF ModeDone
  <2>2. RankIn(s, p[1], u) = r0
    BY <1>3, <2>1 DEF RankIn
  <2>3. \A m \in HalfOp : (m \in b <=> m \in a) \/ r0 >= Need(m)
    BY <2>1 DEF Ruled
  <2>4. r0 \in 0 .. 4
    BY <2>1, SeatFacts
  <2>5. a \in SUBSET UserMode /\ b \in SUBSET UserMode
        /\ Rank(a) \in 0 .. 4 /\ Rank(b) \in 0 .. 4
    BY <1>1, SeatFacts
  <2> HIDE DEF a, b, r0
  <2>6. ASSUME Rank(b) > Rank(a) PROVE r0 >= Max({2, Rank(b)})
    <3>1. PICK m \in HalfOp : m \in b /\ m \notin a /\ Need(m) >= Rank(b)
      BY <2>5, <2>6, RankWitness
    <3>2. r0 >= Need(m) /\ Need(m) \in 2 .. 4
      BY <2>3, <3>1, LevelFacts
    <3>3. Max({2, Rank(b)}) = 2 \/ Max({2, Rank(b)}) = Rank(b)
      BY <2>5, MaxPair
    <3> QED BY <2>4, <2>5, <3>1, <3>2, <3>3
  <2>7. ASSUME Rank(b) < Rank(a) PROVE r0 >= Max({1, Rank(a)})
    <3>1. PICK m \in HalfOp : m \in a /\ m \notin b /\ Need(m) >= Rank(a)
      BY <2>5, <2>7, RankWitness
    <3>2. r0 >= Need(m) /\ Need(m) \in 2 .. 4
      BY <2>3, <3>1, LevelFacts
    <3>3. Max({1, Rank(a)}) = 1 \/ Max({1, Rank(a)}) = Rank(a)
      BY <2>5, MaxPair
    <3> QED BY <2>4, <2>5, <3>1, <3>2, <3>3
  <2>8. Max({2, Rank(b)}) \in Nat /\ Max({1, Rank(a)}) \in Nat
    BY <2>5, MaxPair
  <2>9. ~RaisedIn(s, t, u, p)
    BY <2>2, <2>4, <2>6, <2>8 DEF RaisedIn, a, b
  <2>10. ~LoweredIn(s, t, u, p)
    BY <1>1, <2>2, <2>4, <2>7, <2>8 DEF LoweredIn, a, b
  <2> QED BY <2>9, <2>10
<1> QED BY <1>2, <1>3

\* No command of a user who is no IRC operator raises or lowers anyone beyond the rank
\* of that user.
LEMMA RankKept ==
    ASSUME NEW s \in Good, NEW t \in Good, NEW u, u \notin s.oper, Done(s, t, u),
           NEW p
    PROVE  ~RaisedIn(s, t, u, p) /\ ~LoweredIn(s, t, u, p)
<1>1. CASE p \notin DOMAIN s.member
  BY <1>1 DEF RaisedIn, LoweredIn
<1>2. CASE p \in DOMAIN s.member
  <2>1. CASE t.member = s.member
    BY <1>2, <2>1, Steady
  <2>2. CASE Joined(s, t, u)
    <3>1. p \in DOMAIN t.member /\ t.member[p] = s.member[p]
      BY <1>2, <2>2 DEF Joined
    <3> QED BY <3>1, Steady
  <2>3. CASE Left(s, t, u)
    <3>1. p \in DOMAIN t.member => t.member[p] = s.member[p]
      BY <2>3 DEF Left
    <3>2. p \notin DOMAIN t.member => p[2] = u
      BY <1>2, <2>3 DEF Left
    <3> QED BY <3>1, <3>2, Steady
  <2>4. ASSUME NEW v \in User, Kicked(s, t, u, v)
        PROVE  ~RaisedIn(s, t, u, p) /\ ~LoweredIn(s, t, u, p)
    <3>1. p \in DOMAIN t.member => t.member[p] = s.member[p]
      BY <2>4 DEF Kicked, Left
    <3>2. ~RaisedIn(s, t, u, p)
      BY <3>1, Steady
    <3>3. ASSUME LoweredIn(s, t, u, p) PROVE FALSE
      <4>1. p \notin DOMAIN t.member
        BY <3>1, <3>3, Steady
      <4>2. p[2] = v /\ <<p[1], u>> \in DOMAIN s.member /\ Outranks(s, p[1], u, v)
        BY <1>2, <2>4, <4>1 DEF Kicked, Left
      <4>3. p = <<p[1], v>>
        BY <1>2, <4>2, Pair
      <4>4. /\ Rank(s.member[<<p[1], u>>]) >= 1
            /\ Rank(s.member[<<p[1], u>>]) >= Rank(s.member[<<p[1], v>>])
        BY <1>2, <4>2, <4>3, OutranksRank
      <4> DEFINE r == Rank(s.member[p])
                 q == RankIn(s, p[1], u)
      <4>5. q >= 1 /\ q >= r
        BY <4>2, <4>3, <4>4 DEF RankIn
      <4>6. r \in 0 .. 4 /\ q \in 0 .. 4
        BY <1>2, <4>2, SeatFacts DEF RankIn
      <4>7. q < Max({1, r})
        BY <3>3 DEF LoweredIn
      <4> HIDE DEF r, q
      <4>8. Max({1, r}) = 1 \/ Max({1, r}) = r
        BY <4>6, MaxPair
      <4> QED BY <4>5, <4>6, <4>7, <4>8
    <3> QED BY <3>2, <3>3
  <2>5. ASSUME NEW c, ModeDone(s, t, c, u)
        PROVE  ~RaisedIn(s, t, u, p) /\ ~LoweredIn(s, t, u, p)
    BY <1>2, <2>5, RankManaged
  <2> QED BY <2>1, <2>2, <2>3, <2>4, <2>5, Zenon DEF Done, Rehatted, TopicSet
<1> QED BY <1>1, <1>2

-----------------------------------------------------------------------------
(* What may change without rights                                          *)
AlteredIn(s, t, c) ==
    \/ [t.chan[c] EXCEPT !.invites = <<>>, !.topic = NoArg] #
          [s.chan[c] EXCEPT !.invites = <<>>, !.topic = NoArg]
    \/ "t" \in s.chan[c].modes /\ t.chan[c].topic # s.chan[c].topic
UnmutedIn(s, t, c, u) ==
    /\ \/ Has(s, c, "m")
       \/ Lists_Check(s.chan[c].bans, u) /\ ~Lists_Check(s.chan[c].excepts, u)
    /\ ~Can_Send_To_Channel(s, c, u)
    /\ Can_Send_To_Channel(t, c, u)

\* The record of c but for its invitations and, without mode t, its topic.
Firm(r, q) == /\ r.modes = q.modes /\ r.key = q.key /\ r.maxusers = q.maxusers
              /\ r.bans = q.bans /\ r.excepts = q.excepts
              /\ "t" \in q.modes => r.topic = q.topic

LEMMA FirmNotAltered ==
    ASSUME NEW s \in Good, NEW t \in Good, NEW c \in DOMAIN s.chan \cap DOMAIN t.chan,
           Firm(t.chan[c], s.chan[c])
    PROVE  ~AlteredIn(s, t, c)
<1>1. s.chan[c] \in Room /\ t.chan[c] \in Room
  BY GoodParts
<1>2. [t.chan[c] EXCEPT !.invites = <<>>, !.topic = NoArg] =
         [s.chan[c] EXCEPT !.invites = <<>>, !.topic = NoArg]
  BY <1>1, Zenon DEF Firm, Room
<1> QED BY <1>2 DEF AlteredIn, Firm

\* Who was muted is, unless it gets modes it did not have.
LEMMA StillMuted ==
    ASSUME NEW s \in Good, NEW t \in Good, NEW c \in DOMAIN s.chan \cap DOMAIN t.chan,
           NEW v \in User, Firm(t.chan[c], s.chan[c]), v \in t.oper => v \in s.oper,
           <<c, v>> \in DOMAIN t.member /\ t.member[<<c, v>>] # {} =>
              <<c, v>> \in DOMAIN s.member /\ t.member[<<c, v>>] = s.member[<<c, v>>]
    PROVE  ~UnmutedIn(s, t, c, v)
BY DEF UnmutedIn, Can_Send_To_Channel, Has, UserHas, Channel_IsMemberOf, Firm

\* c is as it was, but for what anyone may change.
Calm(s, t, c) == ~AlteredIn(s, t, c) /\ \A v \in User : ~UnmutedIn(s, t, c, v)

LEMMA CalmIf ==
    ASSUME NEW s \in Good, NEW t \in Good, NEW c \in DOMAIN s.chan \cap DOMAIN t.chan,
           Firm(t.chan[c], s.chan[c]), t.oper \subseteq s.oper,
           \A v \in User :
              <<c, v>> \in DOMAIN t.member /\ t.member[<<c, v>>] # {} =>
                 <<c, v>> \in DOMAIN s.member /\ t.member[<<c, v>>] = s.member[<<c, v>>]
    PROVE  Calm(s, t, c)
<1>1. ~AlteredIn(s, t, c)
  BY FirmNotAltered
<1>2. ASSUME NEW v \in User PROVE ~UnmutedIn(s, t, c, v)
  BY StillMuted, Zenon
<1> QED BY <1>1, <1>2 DEF Calm

LEMMA FirmRefl ==
    ASSUME NEW r, NEW q, Alike(r, q) \/ r = q
    PROVE  Firm(r, q)
BY DEF Firm, Alike

LEMMA AuthorisedKept ==
    ASSUME NEW s \in Good, NEW t \in Good, NEW u, Done(s, t, u),
           NEW c \in DOMAIN s.chan \cap DOMAIN t.chan
    PROVE  RankIn(s, c, u) >= 1 \/ u \in t.oper \/ Calm(s, t, c)
<1>1. CASE t.chan[c] = s.chan[c] /\ t.oper \subseteq s.oper
           /\ DOMAIN t.member \subseteq DOMAIN s.member
           /\ \A p \in DOMAIN t.member : p[1] = c => t.member[p] = s.member[p]
  <2>1. Firm(t.chan[c], s.chan[c])
    BY <1>1, FirmRefl
  <2> QED BY <1>1, <2>1, CalmIf
<1>2. CASE Joined(s, t, u)
  <2>1. CASE u \in s.oper
    BY <1>2, <2>1 DEF Joined
  <2>2. CASE u \notin s.oper
    <3>1. Firm(t.chan[c], s.chan[c]) /\ t.oper = s.oper
      BY <1>2, FirmRefl DEF Joined
    <3>2. ASSUME NEW v \in User, <<c, v>> \in DOMAIN t.member, t.member[<<c, v>>] # {}
          PROVE  <<c, v>> \in DOMAIN s.member /\ t.member[<<c, v>>] = s.member[<<c, v>>]
      <4>1. <<c, v>> \notin DOMAIN s.member => t.member[<<c, v>>] = {}
        BY <1>2, <2>2, <3>2 DEF Joined
      <4> QED BY <1>2, <3>2, <4>1 DEF Joined
    <3> QED BY <3>1, <3>2, CalmIf
  <2> QED BY <2>1, <2>2
<1>3. ASSUME NEW v, Left(s, t, v) PROVE Calm(s, t, c)
  <2>1. t.chan[c] = s.chan[c] /\ t.oper \subseteq s.oper
        /\ DOMAIN t.member \subseteq DOMAIN s.member
        /\ \A p \in DOMAIN t.member : t.member[p] = s.member[p]
    BY <1>3 DEF Left
  <2>2. Firm(t.chan[c], s.chan[c])
    BY <2>1, FirmRefl
  <2> QED BY <2>1, <2>2, CalmIf
<1>4. CASE Rehatted(s, t, u)
  BY <1>1, <1>4 DEF Rehatted
<1>5. ASSUME NEW d, ModeDone(s, t, d, u), u \notin t.oper, d # c \/ RankIn(s, c, u) < 1
      PROVE  Calm(s, t, c)
  <2>1. t.oper = s.oper /\ DOMAIN t.member = DOMAIN s.member
        /\ (c # d => t.chan[c] = s.chan[c])
        /\ \A p \in DOMAIN s.member : p[1] # d => t.member[p] = s.member[p]
    BY <1>5 DEF ModeDone, Kept
  <2>2. CASE d # c
    <3>1. Firm(t.chan[c], s.chan[c])
      BY <2>1, <2>2, FirmRefl
    <3> QED BY <2>1, <2>2, <3>1, CalmIf
  <2>3. CASE d = c
    <3>1. u \notin s.oper
      BY <1>5, <2>1
    <3>2. <<c, u>> \in DOMAIN s.member
          /\ \E rights : Ruled(s, t, rights, c, Rank(s.member[<<c, u>>]))
      BY <1>5, <2>3, <3>1 DEF ModeDone
    <3>3. Rank(s.member[<<c, u>>]) \in 0 .. 4
      BY <3>2, SeatFacts
    <3>4. Rank(s.member[<<c, u>>]) = 0
      BY <1>5, <2>3, <3>2, <3>3 DEF RankIn
    <3>5. t = s
      BY <3>2, <3>4 DEF Ruled
    <3>6. Firm(t.chan[c], s.chan[c])
      BY <3>5, FirmRefl
    <3> QED BY <3>5, <3>6, CalmIf
  <2> QED BY <2>2, <2>3
<1>6. ASSUME NEW d, TopicSet(s, t, d, u), u \notin t.oper, RankIn(s, c, u) < 1
      PROVE  Calm(s, t, c)
  <2>1. t.oper = s.oper /\ t.member = s.member /\ (c # d => t.chan[c] = s.chan[c])
    BY <1>6 DEF TopicSet
  <2>2. Firm(t.chan[c], s.chan[c])
    <3>1. CASE d # c
      BY <2>1, <3>1, FirmRefl
    <3>2. CASE d = c
      <4>1. s.chan[c] \in Room
        BY GoodParts
      <4>2. t.chan[c] = [s.chan[c] EXCEPT !.topic = t.chan[c].topic]
        BY <1>6, <3>2 DEF TopicSet
      <4>3. "t" \notin s.chan[c].modes
        <5>1. \/ "t" \notin s.chan[c].modes
              \/ <<c, u>> \in DOMAIN s.member /\ s.member[<<c, u>>] \cap HalfOp # {}
          BY <1>6, <2>1, <3>2 DEF TopicSet
        <5>2. ASSUME <<c, u>> \in DOMAIN s.member, s.member[<<c, u>>] \cap HalfOp # {}
              PROVE  FALSE
          <6>1. s.member[<<c, u>>] \in SUBSET UserMode
            BY <5>2, SeatFacts
          <6>2. Rank(s.member[<<c, u>>]) \in 0 .. 4 /\ Rank(s.member[<<c, u>>]) >= 1
            BY <5>2, <6>1, RankFacts
          <6> QED BY <1>6, <5>2, <6>2 DEF RankIn
        <5> QED BY <5>1, <5>2
      <4> QED BY <4>1, <4>2, <4>3 DEF Firm, Room
    <3> QED BY <3>1, <3>2
  <2> QED BY <2>1, <2>2, CalmIf
<1>7. RankIn(s, c, u) \in 0 .. 4
  BY SeatFacts DEF RankIn
<1> QED BY <1>1, <1>2, <1>3, <1>4, <1>5, <1>6, <1>7 DEF Done, Kicked

LEMMA AuthorisedInvite ==
    ASSUME NEW s \in Good, NEW t \in Good, NEW d, NEW v, InviteSet(s, t, d, v),
           NEW c \in DOMAIN s.chan
    PROVE  Calm(s, t, c)
<1>1. Firm(t.chan[c], s.chan[c])
  BY FirmRefl DEF InviteSet
<1>2. c \in DOMAIN t.chan /\ t.oper = s.oper /\ t.member = s.member
  BY DEF InviteSet
<1> QED BY <1>1, <1>2, CalmIf

LEMMA AuthorisedProvided ==
    ASSUME NEW s \in Good, NEW t \in Good, Provided(s, t), NEW c \in DOMAIN s.chan
    PROVE  Calm(s, t, c)
<1>1. Firm(t.chan[c], s.chan[c])
  BY FirmRefl DEF Provided
<1>2. c \in DOMAIN t.chan /\ t.oper = s.oper /\ t.member = s.member
  BY DEF Provided
<1> QED BY <1>1, <1>2, CalmIf

-----------------------------------------------------------------------------
(* The abstract specification                                              *)
Ops(s, c) == {u \in Members(s, c) : UserHas(s, c, u, Op)}

\* A step of AbstractChannel for c, as a relation between two states.
SameIn(s, t, c) == /\ Members(t, c) = Members(s, c) /\ Ops(t, c) = Ops(s, c)
                   /\ c \in DOMAIN t.chan <=> c \in DOMAIN s.chan
OpenIn(s, t, c, u) == /\ c \notin DOMAIN s.chan /\ c \in DOMAIN t.chan
                      /\ Members(t, c) = {u}
                      /\ Ops(t, c) = IF c \in Chan \ Modeless THEN {u} ELSE {}
ProvideIn(s, t, c) == /\ c \notin DOMAIN s.chan /\ c \in DOMAIN t.chan
                      /\ Members(t, c) = {} /\ Ops(t, c) = {}
EnterIn(s, t, c, u) == /\ c \in DOMAIN s.chan /\ c \in DOMAIN t.chan
                       /\ u \notin Members(s, c)
                       /\ Members(t, c) = Members(s, c) \cup {u} /\ Ops(t, c) = Ops(s, c)
LeaveIn(s, t, c, gone) == /\ gone # {} /\ gone \subseteq Members(s, c)
                          /\ Members(t, c) = Members(s, c) \ gone
                          /\ Ops(t, c) = Ops(s, c) \ gone
                          /\ c \in DOMAIN s.chan
                          /\ c \in DOMAIN t.chan \/ Members(t, c) = {}
ManageIn(s, t, c) == /\ Ops(s, c) # {}
                     /\ c \in DOMAIN s.chan /\ c \in DOMAIN t.chan
                     /\ Members(t, c) = Members(s, c) /\ Ops(t, c) \subseteq Members(s, c)
InterveneIn(s, t, c) == s.oper # {} /\ Ops(t, c) \subseteq Members(t, c)
StepIn(s, t, c) == \/ SameIn(s, t, c) \/ ProvideIn(s, t, c)
                   \/ ManageIn(s, t, c) \/ InterveneIn(s, t, c)
                   \/ \E u \in User : OpenIn(s, t, c, u) \/ EnterIn(s, t, c, u)
                   \/ \E gone \in SUBSET User : LeaveIn(s, t, c, gone)

LEMMA MemberFacts ==
    ASSUME NEW s \in Good, NEW c, NEW u
    PROVE  /\ u \in Members(s, c) <=> u \in User /\ <<c, u>> \in DOMAIN s.member
           /\ u \in Ops(s, c) <=> u \in Members(s, c) /\ s.member[<<c, u>>] \cap Op # {}
           /\ u \in Members(s, c) => c \in DOMAIN s.chan
<1>1. <<c, u>> \in DOMAIN s.member => c \in DOMAIN s.chan
  BY Pair
<1> QED BY <1>1 DEF Members, Channel_IsMemberOf, Ops, UserHas

LEMMA SameIf ==
    ASSUME NEW s \in Good, NEW t \in Good, NEW c,
           c \in DOMAIN t.chan <=> c \in DOMAIN s.chan,
           \A u \in User : /\ <<c, u>> \in DOMAIN t.member <=> <<c, u>> \in DOMAIN s.member
                           /\ <<c, u>> \in DOMAIN s.member =>
                                (t.member[<<c, u>>] \cap Op = {} <=> s.member[<<c, u>>] \cap Op = {})
    PROVE  SameIn(s, t, c)
<1>1. \A u : u \in Members(t, c) <=> u \in Members(s, c)
  BY MemberFacts, Zenon
<1>2. \A u : u \in Ops(t, c) <=> u \in Ops(s, c)
  BY <1>1, MemberFacts, Zenon
<1>3. Members(t, c) = Members(s, c)
  BY <1>1 DEF Members
<1>4. Ops(t, c) = Ops(s, c)
  BY <1>2 DEF Ops
<1> QED BY <1>3, <1>4 DEF SameIn

LEMMA JoinedStep ==
    ASSUME NEW s \in Good, NEW t \in Good, NEW u \in User, s.oper = {}, Joined(s, t, u),
           NEW c \in Chan
    PROVE  StepIn(s, t, c)
<1>1. \A v \in User : <<c, v>> \in DOMAIN t.member \ DOMAIN s.member => v = u
  BY DEF Joined
<1>2. /\ DOMAIN s.chan \subseteq DOMAIN t.chan /\ DOMAIN s.member \subseteq DOMAIN t.member
      /\ \A p \in DOMAIN s.member : t.member[p] = s.member[p]
      /\ c \in DOMAIN t.chan \ DOMAIN s.chan => <<c, u>> \in DOMAIN t.member
  BY DEF Joined
<1>3. CASE <<c, u>> \notin DOMAIN t.member \ DOMAIN s.member
  <2>1. c \in DOMAIN t.chan <=> c \in DOMAIN s.chan
    BY <1>2, <1>3, Pair
  <2>2. \A v \in User : /\ <<c, v>> \in DOMAIN t.member <=> <<c, v>> \in DOMAIN s.member
                        /\ <<c, v>> \in DOMAIN s.member =>
                             t.member[<<c, v>>] = s.member[<<c, v>>]
    BY <1>1, <1>2, <1>3
  <2>3. SameIn(s, t, c)
    BY <2>1, <2>2, SameIf
  <2> QED BY <2>3 DEF StepIn
<1>4. CASE <<c, u>> \in DOMAIN t.member \ DOMAIN s.member
  <2>1. u \in Members(t, c) /\ u \notin Members(s, c) /\ c \in DOMAIN t.chan
    BY <1>4, MemberFacts
  <2>2. \A v : v \in Members(t, c) <=> v \in Members(s, c) \/ v = u
    BY <1>1, <1>2, <2>1, MemberFacts, Zenon
  <2>3. Members(t, c) = Members(s, c) \cup {u}
    BY <2>2
  <2>4. t.member[<<c, u>>] = IF c \in DOMAIN s.chan \/ c \in Modeless THEN {} ELSE {"o"}
    BY <1>4 DEF Joined
  <2>5. ASSUME NEW v, v # u PROVE v \in Ops(t, c) <=> v \in Ops(s, c)
    <3>1. v \in Members(s, c) => t.member[<<c, v>>] = s.member[<<c, v>>]
      BY <1>2, MemberFacts
    <3>2. /\ v \in Ops(t, c) <=> v \in Members(t, c) /\ t.member[<<c, v>>] \cap Op # {}
          /\ v \in Ops(s, c) <=> v \in Members(s, c) /\ s.member[<<c, v>>] \cap Op # {}
      BY MemberFacts
    <3> QED BY <2>2, <2>5, <3>1, <3>2
  <2>6. u \notin Ops(s, c)
    BY <2>1, MemberFacts, Zenon
  <2>7. CASE c \in DOMAIN s.chan
    <3>1. u \notin Ops(t, c)
      BY <2>4, <2>7, MemberFacts
    <3>2. Ops(t, c) = Ops(s, c)
      <4>1. \A v : v \in Ops(t, c) <=> v \in Ops(s, c)
        BY <2>5, <2>6, <3>1
      <4> QED BY <4>1 DEF Ops
    <3>3. EnterIn(s, t, c, u)
      BY <2>1, <2>3, <2>7, <3>2 DEF EnterIn
    <3> QED BY <3>3 DEF StepIn
  <2>8. CASE c \notin DOMAIN s.chan
    <3>1. \A v : v \notin Members(s, c) /\ v \notin Ops(s, c)
      BY <2>8, MemberFacts, Zenon
    <3>2. Members(t, c) = {u}
      BY <2>3, <3>1
    <3>3. u \in Ops(t, c) <=> c \notin Modeless
      <4>1. "o" \in Op
        BY DEF Op
      <4>2. t.member[<<c, u>>] \cap Op # {} <=> c \notin Modeless
        BY <2>4, <2>8, <4>1
      <4> QED BY <2>1, <4>2, MemberFacts
    <3>4. \A v : v \in Ops(t, c) <=> v = u /\ c \notin Modeless
      BY <2>5, <3>1, <3>3
    <3>5. Ops(t, c) = IF c \in Chan \ Modeless THEN {u} ELSE {}
      BY <3>4
    <3>6. OpenIn(s, t, c, u)
      BY <2>1, <2>8, <3>2, <3>5 DEF OpenIn
    <3> QED BY <3>6 DEF StepIn
  <2> QED BY <2>7, <2>8
<1> QED BY <1>3, <1>4


LEMMA LeftStep ==
    ASSUME NEW s \in Good, NEW t \in Good, NEW v \in User, Left(s, t, v), NEW c \in Chan
    PROVE  StepIn(s, t, c)
<1>1. \A w \in User : <<c, w>> \in DOMAIN s.member \ DOMAIN t.member => w = v
  BY DEF Left
<1>2. /\ DOMAIN t.chan \subseteq DOMAIN s.chan /\ DOMAIN t.member \subseteq DOMAIN s.member
      /\ \A p \in DOMAIN t.member : t.member[p] = s.member[p]
      /\ c \in DOMAIN s.chan \ DOMAIN t.chan => <<c, v>> \in DOMAIN s.member
  BY DEF Left
<1>3. CASE <<c, v>> \notin DOMAIN s.member \ DOMAIN t.member
  <2>1. c \in DOMAIN t.chan <=> c \in DOMAIN s.chan
    BY <1>2, <1>3, Pair
  <2>2. \A w \in User : /\ <<c, w>> \in DOMAIN t.member <=> <<c, w>> \in DOMAIN s.member
                        /\ <<c, w>> \in DOMAIN s.member =>
                             t.member[<<c, w>>] = s.member[<<c, w>>]
    BY <1>1, <1>2, <1>3
  <2>3. SameIn(s, t, c)
    BY <2>1, <2>2, SameIf
  <2> QED BY <2>3 DEF StepIn
<1>4. CASE <<c, v>> \in DOMAIN s.member \ DOMAIN t.member
  <2>1. v \in Members(s, c) /\ v \notin Members(t, c) /\ c \in DOMAIN s.chan
    BY <1>4, MemberFacts
  <2>2. \A w : w \in Members(t, c) <=> w \in Members(s, c) /\ w # v
    BY <1>1, <1>2, <2>1, MemberFacts, Zenon
  <2>3. \A w : w \in Members(t, c) => t.member[<<c, w>>] = s.member[<<c, w>>]
    BY <1>2, MemberFacts
  <2>4. \A w : /\ w \in Ops(t, c) <=> w \in Members(t, c) /\ t.member[<<c, w>>] \cap Op # {}
               /\ w \in Ops(s, c) <=> w \in Members(s, c) /\ s.member[<<c, w>>] \cap Op # {}
    BY MemberFacts
  <2>5. \A w : w \in Ops(t, c) <=> w \in Ops(s, c) /\ w # v
    BY <2>2, <2>3, <2>4, Zenon
  <2>6. Members(t, c) = Members(s, c) \ {v} /\ Ops(t, c) = Ops(s, c) \ {v}
    BY <2>2, <2>5
  <2>7. c \in DOMAIN t.chan \/ Members(t, c) = {}
    <3>1. \A w : w \in Members(t, c) => c \in DOMAIN t.chan
      BY MemberFacts, Zenon
    <3> QED BY <3>1
  <2>8. LeaveIn(s, t, c, {v})
    BY <2>1, <2>6, <2>7 DEF LeaveIn
  <2> QED BY <2>8 DEF StepIn
<1> QED BY <1>3, <1>4

LEMMA ManageStep ==
    ASSUME NEW s \in Good, NEW t \in Good, NEW u \in User, s.oper = {}, NEW d \in Chan,
           ModeDone(s, t, d, u), NEW c \in Chan
    PROVE  StepIn(s, t, c)
<1>1. /\ c \in DOMAIN t.chan <=> c \in DOMAIN s.chan
      /\ DOMAIN t.member = DOMAIN s.member
      /\ d \in DOMAIN s.chan
      /\ \A p \in DOMAIN s.member : p[1] # d => t.member[p] = s.member[p]
  BY Zenon DEF ModeDone, Kept
<1>2. CASE d # c
  <2>1. \A v \in User : <<c, v>> \in DOMAIN s.member => t.member[<<c, v>>] = s.member[<<c, v>>]
    BY <1>1, <1>2
  <2>2. SameIn(s, t, c)
    BY <1>1, <2>1, SameIf
  <2> QED BY <2>2 DEF StepIn
<1>3. CASE d = c
  <2> DEFINE r0 == Rank(s.member[<<c, u>>])
  <2>1. /\ <<c, u>> \in DOMAIN s.member
        /\ \A p \in DOMAIN s.member, m \in HalfOp :
             (m \in t.member[p] <=> m \in s.member[p]) \/ r0 >= Need(m)
    BY <1>3 DEF ModeDone, Ruled
  <2>2. s.member[<<c, u>>] \in SUBSET UserMode /\ r0 \in 0 .. 4
    BY <2>1, SeatFacts
  <2>3. CASE r0 >= 2
    <3>1. s.member[<<c, u>>] \cap Op # {}
      BY <2>2, <2>3, RankFacts
    <3>2. u \in Ops(s, c)
      BY <2>1, <3>1, MemberFacts
    <3>3. Members(t, c) = Members(s, c)
      BY <1>1 DEF Members, Channel_IsMemberOf
    <3>4. Ops(t, c) \subseteq Members(t, c)
      BY DEF Ops
    <3>5. ManageIn(s, t, c)
      BY <1>1, <1>3, <3>2, <3>3, <3>4 DEF ManageIn
    <3> QED BY <3>5 DEF StepIn
  <2>4. CASE r0 < 2
    <3>1. \A m \in Op : m \in HalfOp /\ ~(r0 >= Need(m))
      <4>1. \A m \in Op : m \in HalfOp
        BY DEF HalfOp
      <4>2. \A m \in Op : Need(m) \in 2 .. 4
        BY <4>1, LevelFacts
      <4> QED BY <2>2, <2>4, <4>1, <4>2
    <3>2. \A p \in DOMAIN s.member, m \in Op : m \in t.member[p] <=> m \in s.member[p]
      BY <2>1, <3>1
    <3>3. \A v \in User : <<c, v>> \in DOMAIN s.member =>
             (t.member[<<c, v>>] \cap Op = {} <=> s.member[<<c, v>>] \cap Op = {})
      BY <3>2
    <3>4. SameIn(s, t, c)
      BY <1>1, <3>3, SameIf
    <3> QED BY <3>4 DEF StepIn
  <2> QED BY <2>2, <2>3, <2>4
<1> QED BY <1>2, <1>3

LEMMA DoneStep ==
    ASSUME NEW s \in Good, NEW t \in Good, NEW u \in User, Done(s, t, u), NEW c \in Chan
    PROVE  StepIn(s, t, c)
<1>1. CASE s.oper # {}
  <2>1. Ops(t, c) \subseteq Members(t, c)
    BY DEF Ops
  <2> QED BY <1>1, <2>1 DEF StepIn, InterveneIn
<1>2. CASE s.oper = {}
  <2>1. CASE t.member = s.member /\ DOMAIN t.chan = DOMAIN s.chan
    <3>1. SameIn(s, t, c)
      BY <2>1, SameIf
    <3> QED BY <3>1 DEF StepIn
  <2>2. CASE Joined(s, t, u)
    BY <1>2, <2>2, JoinedStep
  <2>3. ASSUME NEW v \in User, Left(s, t, v) PROVE StepIn(s, t, c)
    BY <2>3, LeftStep
  <2>4. ASSUME NEW d \in Chan, ModeDone(s, t, d, u) PROVE StepIn(s, t, c)
    BY <1>2, <2>4, ManageStep
  <2> QED BY <2>1, <2>2, <2>3, <2>4, Zenon DEF Done, Kicked, Rehatted, TopicSet
<1> QED BY <1>1, <1>2

LEMMA InviteStep ==
    ASSUME NEW s \in Good, NEW t \in Good, NEW d, NEW v, t = s \/ InviteSet(s, t, d, v),
           NEW c \in Chan
    PROVE  StepIn(s, t, c)
<1>1. t.member = s.member /\ DOMAIN t.chan = DOMAIN s.chan
  BY DEF InviteSet
<1>2. SameIn(s, t, c)
  BY <1>1, SameIf
<1> QED BY <1>2 DEF StepIn

LEMMA ProvidedStep ==
    ASSUME NEW s \in Good, NEW t \in Good, Provided(s, t), NEW c \in Chan
    PROVE  StepIn(s, t, c)
<1>1. t.member = s.member /\ DOMAIN s.chan \subseteq DOMAIN t.chan
  BY DEF Provided
<1>2. CASE c \in DOMAIN t.chan => c \in DOMAIN s.chan
  <2>1. SameIn(s, t, c)
    BY <1>1, <1>2, SameIf
  <2> QED BY <2>1 DEF StepIn
<1>3. CASE c \in DOMAIN t.chan \ DOMAIN s.chan
  <2>1. \A v : v \notin Members(s, c)
    BY <1>3, MemberFacts, Zenon
  <2>2. Members(t, c) = Members(s, c)
    BY <1>1 DEF Members, Channel_IsMemberOf
  <2>3. Members(t, c) = {} /\ Ops(t, c) = {}
    BY <2>1, <2>2 DEF Ops
  <2>4. ProvideIn(s, t, c)
    BY <1>3, <2>3 DEF ProvideIn
  <2> QED BY <2>4 DEF StepIn
<1> QED BY <1>2, <1>3

-----------------------------------------------------------------------------
(* Lists                                                                   *)
LEMMA ListDomain ==
    ASSUME NEW l \in List
    PROVE  /\ DOMAIN l = 1 .. Len(l) /\ Len(l) \in Nat
           /\ \A i \in DOMAIN l : /\ l[i] \in Entry /\ l[i].mask \subseteq User
                                  /\ l[i].onlyonce \in BOOLEAN
<1>1. DOMAIN l = 1 .. Len(l) /\ Len(l) \in Nat /\ \A i \in DOMAIN l : l[i] \in Entry
  BY DEF List
<1>2. \A e \in Entry : e.mask \subseteq User /\ e.onlyonce \in BOOLEAN
  BY DEF Entry
<1> QED BY <1>1, <1>2

LEMMA NewEntry ==
    ASSUME NEW mask \in SUBSET User, NEW once \in BOOLEAN
    PROVE  LET e == [mask |-> mask, onlyonce |-> once]
           IN e \in Entry /\ e.mask = mask /\ e.onlyonce = once
BY DEF Entry

\* A new entry goes to the head of the list.
LEMMA ListsAdd ==
    ASSUME NEW l \in List, NEW mask \in SUBSET User, NEW once \in BOOLEAN
    PROVE  LET m == Lists_Add(l, mask, once)
           IN /\ m \in List
              /\ \A i \in DOMAIN m : \/ \E j \in DOMAIN l : m[i] = l[j]
                                     \/ m[i] = [mask |-> mask, onlyonce |-> once] /\ m # l
              /\ Fair(l) /\ (once => \E u \in User : mask = {u}) => Fair(m)
<1> DEFINE e == [mask |-> mask, onlyonce |-> once]
           m == Lists_Add(l, mask, once)
<1>1. CASE Lists_CheckDupeMask(l, mask)
  BY <1>1 DEF Lists_Add
<1>2. CASE ~Lists_CheckDupeMask(l, mask)
  <2>1. m = <<e>> \o l
    BY <1>2 DEF Lists_Add
  <2>2. \A i \in DOMAIN l : l[i].mask # mask
    BY <1>2 DEF Lists_CheckDupeMask
  <2>3. e \in Entry /\ e.mask = mask /\ e.onlyonce = once
    BY NewEntry
  <2>4. DOMAIN l = 1 .. Len(l) /\ Len(l) \in Nat
    BY ListDomain
  <2> HIDE DEF e
  <2>5. <<e>> \in Seq(Entry) /\ Len(<<e>>) = 1 /\ <<e>>[1] = e
    BY <2>3
  <2>6. m \in List /\ Len(m) = Len(l) + 1
    BY <2>1, <2>4, <2>5 DEF List
  <2>7. m[1] = e /\ \A i \in 2 .. Len(m) : m[i] = l[i - 1]
    BY <2>1, <2>4, <2>5, <2>6 DEF List
  <2>8. DOMAIN m = 1 .. Len(m)
    BY <2>6, ListDomain
  <2> HIDE DEF m
  <2>9. m # l
    BY <2>4, <2>6
  <2>10. \A i \in DOMAIN m : (i = 1 /\ m[i] = e) \/ (i - 1 \in DOMAIN l /\ m[i] = l[i - 1])
    BY <2>4, <2>6, <2>7, <2>8
  <2>11. ASSUME Fair(l), once => \E u \in User : mask = {u} PROVE Fair(m)
    <3>1. ASSUME NEW i \in DOMAIN m, NEW j \in DOMAIN m, m[i].mask = m[j].mask PROVE i = j
      BY <2>2, <2>3, <2>4, <2>8, <2>6, <2>10, <2>11, <3>1 DEF Fair
    <3>2. \A i \in DOMAIN m : m[i].onlyonce => \E u \in User : m[i].mask = {u}
      BY <2>3, <2>10, <2>11 DEF Fair
    <3> QED BY <3>1, <3>2 DEF Fair
  <2>12. \A i \in DOMAIN m : \/ \E j \in DOMAIN l : m[i] = l[j]
                             \/ m[i] = e /\ m # l
    BY <2>9, <2>10
  <2> QED BY <2>6, <2>11, <2>12 DEF e, m
<1> QED BY <1>1, <1>2

\* Taking one entry out.
LEMMA TakeOut ==
    ASSUME NEW l \in List, NEW k \in DOMAIN l
    PROVE  /\ Without(l, k) \in List
           /\ \A i \in DOMAIN Without(l, k) :
                  LET j == IF i < k THEN i ELSE i + 1
                  IN j \in DOMAIN l \ {k} /\ Without(l, k)[i] = l[j]
<1> DEFINE m == Without(l, k)
<1>1. DOMAIN l = 1 .. Len(l) /\ Len(l) \in Nat
  BY ListDomain
<1>2. m = SubSeq(l, 1, k - 1) \o SubSeq(l, k + 1, Len(l))
  BY DEF Without
<1>3. m \in List
  BY <1>1, <1>2 DEF List
<1>4. Len(m) = Len(l) - 1 /\ \A i \in 1 .. Len(m) : m[i] = IF i < k THEN l[i] ELSE l[i + 1]
  <2> DEFINE a == SubSeq(l, 1, k - 1)
             b == SubSeq(l, k + 1, Len(l))
  <2>1. a \in Seq(Entry) /\ Len(a) = k - 1 /\ \A i \in 1 .. k - 1 : a[i] = l[i]
    BY <1>1 DEF List
  <2>a. l \in Seq(Entry)
    BY DEF List
  <2>b. b \in Seq(Entry) /\ Len(b) = Len(l) - k
    BY <1>1, <2>a
  <2>c. \A i \in 1 .. Len(l) - k : b[i] = l[k + i]
    BY <1>1, <2>a
  <2>2. b \in Seq(Entry) /\ Len(b) = Len(l) - k /\ \A i \in 1 .. Len(b) : b[i] = l[k + i]
    <3> HIDE DEF b
    <3> QED BY <2>b, <2>c
  <2> HIDE DEF a, b, m
  <2>3. m = a \o b
    BY <1>2 DEF a, b
  <2>4. /\ Len(m) = Len(a) + Len(b)
        /\ \A i \in 1 .. Len(a) + Len(b) : m[i] = IF i <= Len(a) THEN a[i] ELSE b[i - Len(a)]
    <3>1. a \in Seq(Entry) /\ b \in Seq(Entry)
      BY <2>1, <2>2
    <3>2. /\ Len(a \o b) = Len(a) + Len(b)
          /\ \A i \in 1 .. Len(a) + Len(b) :
               (a \o b)[i] = IF i <= Len(a) THEN a[i] ELSE b[i - Len(a)]
      BY <3>1
    <3> QED BY <2>3, <3>2
  <2>5. Len(m) = Len(l) - 1 /\ k \in 1 .. Len(l)
    BY <1>1, <2>1, <2>2, <2>4
  <2>6. ASSUME NEW i \in 1 .. Len(m) PROVE m[i] = IF i < k THEN l[i] ELSE l[i + 1]
    <3>1. CASE i < k
      <4>1. i \in 1 .. k - 1 /\ i \in 1 .. Len(a) + Len(b) /\ i <= Len(a)
        BY <1>1, <2>1, <2>4, <2>5, <3>1
      <4>2. m[i] = a[i]
        BY <2>4, <4>1, Zenon
      <4>3. a[i] = l[i]
        BY <2>1, <4>1, Zenon
      <4> QED BY <3>1, <4>2, <4>3
    <3>2. CASE ~(i < k)
      <4>0. /\ i \in 1 .. Len(a) + Len(b) /\ ~(i <= Len(a)) /\ Len(a) = k - 1
            /\ i - (k - 1) \in 1 .. Len(b)
        <5>1. Len(a) = k - 1 /\ Len(b) = Len(l) - k /\ Len(m) = Len(a) + Len(b)
          BY <2>1, <2>2, <2>4
        <5> QED BY <1>1, <2>5, <3>2, <5>1
      <4>1. m[i] = b[i - (k - 1)] /\ i - (k - 1) \in 1 .. Len(b)
        BY <2>4, <4>0, Zenon
      <4>2. b[i - (k - 1)] = l[k + (i - (k - 1))] /\ k + (i - (k - 1)) = i + 1
        BY <2>2, <2>5, <4>1
      <4> QED BY <3>2, <4>1, <4>2
    <3> QED BY <3>1, <3>2
  <2> QED BY <2>5, <2>6
<1>5. DOMAIN m = 1 .. Len(m)
  BY <1>3, ListDomain
<1> HIDE DEF m
<1>6. \A i \in DOMAIN m : LET j == IF i < k THEN i ELSE i + 1
                          IN j \in DOMAIN l \ {k} /\ m[i] = l[j]
  BY <1>1, <1>4, <1>5
<1> QED BY <1>3, <1>6 DEF m

LEMMA TakeOutFair ==
    ASSUME NEW l \in List, NEW k \in DOMAIN l, Fair(l)
    PROVE  Fair(Without(l, k))
<1> DEFINE m == Without(l, k)
<1>1. m \in List /\ \A i \in DOMAIN m : LET j == IF i < k THEN i ELSE i + 1
                                        IN j \in DOMAIN l \ {k} /\ m[i] = l[j]
  BY TakeOut
<1>2. DOMAIN m \subseteq Nat /\ DOMAIN l \subseteq Nat
  BY <1>1, ListDomain
<1> HIDE DEF m
<1>3. ASSUME NEW i \in DOMAIN m, NEW j \in DOMAIN m, m[i].mask = m[j].mask PROVE i = j
  BY <1>1, <1>2, <1>3 DEF Fair
<1>4. \A i \in DOMAIN m : m[i].onlyonce => \E u \in User : m[i].mask = {u}
  BY <1>1 DEF Fair
<1> QED BY <1>3, <1>4 DEF Fair, m

LEMMA FirstHit ==
    ASSUME NEW l \in List, NEW u, Hits(l, u) # {}
    PROVE  Min(Hits(l, u)) \in DOMAIN l /\ u \in l[Min(Hits(l, u))].mask
<1>1. Hits(l, u) \in SUBSET Nat
  BY ListDomain DEF Hits
<1>2. Min(Hits(l, u)) \in Hits(l, u)
  BY <1>1, MinNatural
<1> QED BY <1>2 DEF Hits

\* Looking at the invitations of a user: if one for a single use is left after that,
\* there was one for every use.
LEMMA ListsUsed ==
    ASSUME NEW l \in List, Fair(l), NEW u \in User
    PROVE  LET m == Lists_Used(l, u)
           IN /\ m \in List /\ Fair(m)
              /\ \A i \in DOMAIN m : \E j \in DOMAIN l : m[i] = l[j]
              /\ \A i \in DOMAIN m : u \in m[i].mask /\ m[i].onlyonce
                                     => \E j \in Hits(l, u) : ~l[j].onlyonce
<1> DEFINE m == Lists_Used(l, u)
           k == Min(Hits(l, u))
<1>1. CASE Hits(l, u) = {}
  <2>1. m = l
    BY <1>1 DEF Lists_Used
  <2>2. \A i \in DOMAIN l : u \notin l[i].mask
    BY <1>1 DEF Hits
  <2> QED BY <2>1, <2>2
<1>2. CASE Hits(l, u) # {} /\ ~l[k].onlyonce
  <2>1. m = l
    BY <1>2 DEF Lists_Used
  <2>2. k \in Hits(l, u)
    BY <1>2, FirstHit DEF Hits
  <2> QED BY <1>2, <2>1, <2>2
<1>3. CASE Hits(l, u) # {} /\ l[k].onlyonce
  <2>1. m = Without(l, k)
    BY <1>3 DEF Lists_Used
  <2>2. k \in DOMAIN l /\ u \in l[k].mask
    BY <1>3, FirstHit
  <2> HIDE DEF k
  <2>3. /\ m \in List /\ Fair(m)
        /\ \A i \in DOMAIN m : LET j == IF i < k THEN i ELSE i + 1
                               IN j \in DOMAIN l \ {k} /\ m[i] = l[j]
    BY <2>1, <2>2, TakeOut, TakeOutFair
  <2> HIDE DEF m
  <2>4. \A i \in DOMAIN m : \E j \in DOMAIN l \ {k} : m[i] = l[j]
    BY <2>3
  <2>5. l[k].mask = {u}
    BY <1>3, <2>2 DEF Fair
  <2>6. ASSUME NEW i \in DOMAIN m, u \in m[i].mask, m[i].onlyonce PROVE FALSE
    <3>1. PICK j \in DOMAIN l \ {k} : m[i] = l[j]
      BY <2>4
    <3>2. l[j].mask = {u}
      BY <2>6, <3>1 DEF Fair
    <3>3. l[j].mask = l[k].mask => j = k
      BY <2>2, <3>1, Zenon DEF Fair
    <3> QED BY <2>5, <3>1, <3>2, <3>3
  <2> QED BY <2>3, <2>4, <2>6 DEF m
<1> QED BY <1>1, <1>2, <1>3, Zenon

LEMMA AppendEntry ==
    ASSUME NEW r \in List, NEW e \in Entry
    PROVE  /\ Append(r, e) \in List
           /\ \A i \in DOMAIN Append(r, e) :
                  (i \in DOMAIN r /\ Append(r, e)[i] = r[i])
                  \/ (i = Len(r) + 1 /\ i \notin DOMAIN r /\ Append(r, e)[i] = e)
<1>1. Append(r, e) \in List /\ Len(Append(r, e)) = Len(r) + 1
      /\ (\A i \in 1 .. Len(r) : Append(r, e)[i] = r[i]) /\ Append(r, e)[Len(r) + 1] = e
  BY DEF List
<1>2. /\ DOMAIN Append(r, e) = 1 .. Len(r) + 1 /\ DOMAIN r = 1 .. Len(r) /\ Len(r) \in Nat
  BY <1>1, ListDomain
<1> QED BY <1>1, <1>2

\* Lists_Del leaves some of the entries.
LEMMA ListsDel ==
    ASSUME NEW l \in List, NEW mask
    PROVE  LET m == Lists_Del(l, mask)
           IN /\ m \in List /\ (Fair(l) => Fair(m))
              /\ \A i \in DOMAIN m : \E j \in DOMAIN l : m[i] = l[j]
<1> DEFINE D == DOMAIN l
           Turn(kept, e) == IF e.mask = mask THEN kept ELSE Append(kept, e)
           Sol(it) == it = [s \in SUBSET D |->
                              IF s = {} THEN <<>> ELSE Turn(it[s \ {Max(s)}], l[Max(s)])]
           it0 == CHOOSE it : Sol(it)
           pick == [s \in SUBSET D |-> Max(s)]
           step == [p \in D \X List |-> Turn(p[2], l[p[1]])]
           Part(s) == /\ it0[s] \in List
                      /\ \A i \in DOMAIN it0[s] : \E j \in s : it0[s][i] = l[j]
                      /\ Fair(l) => Fair(it0[s])
           h == [s \in SUBSET D |-> IF Part(s) THEN 0 ELSE 1]
           V == {0}
<1>1. Lists_Del(l, mask) = it0[D]
  <2>1. Lists_Del(l, mask) = ForEach(Turn, <<>>, l)
    BY Zenon DEF Lists_Del
  <2> HIDE DEF Turn
  <2>2. ForEach(Turn, <<>>, l) = it0[D]
    BY Zenon DEF ForEach, MapThenFoldSet
  <2> QED BY <2>1, <2>2
<1>2. IsFiniteSet(D) /\ D \subseteq Nat /\ \A i \in D : l[i] \in Entry
  <2>1. D = 1 .. Len(l) /\ Len(l) \in Nat /\ \A i \in D : l[i] \in Entry
    BY ListDomain
  <2>2. IsFiniteSet(1 .. Len(l))
    BY <2>1, FS_Interval
  <2> HIDE DEF D
  <2> QED BY <2>1, <2>2
<1>3. \A s \in SUBSET D : s # {} => Max(s) \in s
  BY <1>2, MaxNatural, FS_Subset
<1>4. \A i \in D, r \in List : Turn(r, l[i]) \in List
  BY <1>2, AppendEntry
<1>5. <<>> \in List
  BY DEF List
<1>6. \E it : Sol(it)
  <2> HIDE DEF Turn, D
  <2>1. step \in [D \X List -> List]
    BY <1>4
  <2>2. Folding(D, List, <<>>, pick, step)
    <3> HIDE DEF step
    <3> QED BY <1>2, <1>3, <1>5, <2>1 DEF Folding
  <2> HIDE DEF step, pick
  <2>3. PICK g \in [SUBSET D -> List] : FoldEquations(g, D, <<>>, pick, step)
    BY <2>2, FoldExists, Zenon
  <2> USE DEF FoldEquations, step, pick
  <2>4. \A s \in SUBSET D :
          g[s] = IF s = {} THEN <<>> ELSE Turn(g[s \ {Max(s)}], l[Max(s)])
    <3> TAKE s \in SUBSET D
    <3>1. CASE s # {}
      <4>1. Max(s) \in D /\ pick[s] = Max(s) /\ g[s \ {Max(s)}] \in List
        BY <1>3, <3>1
      <4>2. step[<<Max(s), g[s \ {Max(s)}]>>] = Turn(g[s \ {Max(s)}], l[Max(s)])
        BY <4>1
      <4> HIDE DEF step, pick
      <4> QED BY <2>3, <3>1, <4>1, <4>2, Zenon
    <3> QED BY <2>3, <3>1, Zenon
  <2> QED BY <2>3, <2>4, Zenon
<1>7. Sol(it0)
  <2> HIDE DEF Sol
  <2> QED BY <1>6
<1>8. Part({})
  <2> HIDE DEF it0
  <2>1. it0[{}] = <<>>
    BY <1>7
  <2> QED BY <1>5, <2>1 DEF Fair
<1>9. ASSUME NEW s \in SUBSET D, s # {}, Part(s \ {Max(s)}) PROVE Part(s)
  <2> DEFINE r == it0[s \ {Max(s)}]
             e == l[Max(s)]
  <2> HIDE DEF it0
  <2>1. it0[s] = Turn(r, e)
    BY <1>7, <1>9, Zenon
  <2>2. Max(s) \in s /\ e \in Entry /\ Max(s) \in D
    BY <1>2, <1>3, <1>9
  <2>3. /\ r \in List /\ (Fair(l) => Fair(r))
        /\ \A i \in DOMAIN r : \E j \in s \ {Max(s)} : r[i] = l[j]
    BY <1>9
  <2> HIDE DEF r
  <2>4. CASE e.mask = mask
    BY <2>1, <2>3, <2>4
  <2>5. CASE e.mask # mask
    <3> DEFINE a == Append(r, e)
    <3>1. /\ a \in List
          /\ \A i \in DOMAIN a : \/ i \in DOMAIN r /\ a[i] = r[i]
                                 \/ i = Len(r) + 1 /\ i \notin DOMAIN r /\ a[i] = e
      BY <2>2, <2>3, AppendEntry
    <3>2. it0[s] = a
      BY <2>1, <2>5
    <3> HIDE DEF a
    <3>3. \A i \in DOMAIN a : \E j \in s : a[i] = l[j]
      BY <2>2, <2>3, <3>1
    <3>4. ASSUME Fair(l) PROVE Fair(a)
      <4>1. \A i \in DOMAIN r : r[i].mask # e.mask
        BY <2>2, <2>3, <3>4 DEF Fair
      <4>2. \A i, j \in DOMAIN a : a[i].mask = a[j].mask => i = j
        BY <2>3, <3>1, <3>4, <4>1 DEF Fair
      <4>3. \A i \in DOMAIN a : a[i].onlyonce => \E u \in User : a[i].mask = {u}
        BY <3>3, <3>4, <1>9 DEF Fair
      <4> QED BY <4>2, <4>3 DEF Fair
    <3> QED BY <3>1, <3>2, <3>3, <3>4
  <2> QED BY <2>4, <2>5
<1> HIDE DEF Part, it0, D
<1>10. h[{}] \in V /\ \A s \in SUBSET D : s # {} => \E x \in s : h[s \ {x}] \in V => h[s] \in V
  BY <1>3, <1>8, <1>9
<1>11. h[D] \in V
  <2> HIDE DEF h, V
  <2> QED BY <1>2, <1>10, FoldIn
<1>12. Part(D)
  BY <1>11
<1> QED BY <1>1, <1>12 DEF Part, D

-----------------------------------------------------------------------------
(* Changing one part of a state                                            *)
LEMMA StateOf ==
    ASSUME NEW D \in SUBSET Chan, NEW f \in [D -> Room],
           NEW E \in SUBSET (Chan \X User), NEW g \in [E -> SUBSET UserMode],
           NEW o \in SUBSET Oper
    PROVE  [chan |-> f, member |-> g, oper |-> o] \in State
<1>1. f \in Rooms
  BY DEF Rooms
<1>2. g \in Seats
  BY DEF Seats
<1> QED BY <1>1, <1>2 DEF State

LEMMA NewRoom ==
    NewChannel \in Room /\ Fair(NewChannel.invites) /\ NewChannel.modes = {}
    /\ NewChannel.invites = <<>>
<1>1. <<>> \in List /\ {} \in SUBSET AnyMode /\ 0 \in Nat
  BY DEF List
<1>2. NewChannel \in Room
  BY <1>1 DEF NewChannel, Room
<1>3. NewChannel.modes = {} /\ NewChannel.invites = <<>>
  BY DEF NewChannel
<1> QED BY <1>2, <1>3 DEF Fair

\* The number of channels of a user is at most that of before if it has no new one,
\* and at most one more if it has one.
Mine(s, u) == {c \in Chan : <<c, u>> \in DOMAIN s.member}

LEMMA Counted1 ==
    ASSUME NEW s, NEW u
    PROVE  /\ Channel_CountForUser(s, u) = Cardinality(Mine(s, u))
           /\ IsFiniteSet(Mine(s, u)) /\ Cardinality(Mine(s, u)) \in Nat
<1>1. IsFiniteSet(Mine(s, u))
  BY ChannelAssumption, FS_Subset, Zenon DEF Mine
<1> QED BY <1>1, FS_CardinalityType DEF Channel_CountForUser, Channel_IsMemberOf, Mine

LEMMA FewerSeats ==
    ASSUME NEW s, NEW t, Limited(s), DOMAIN t.member \subseteq DOMAIN s.member
    PROVE  Limited(t)
<1> SUFFICES ASSUME Conf_MaxJoins > 0, NEW u \in User
             PROVE  Channel_CountForUser(t, u) <= Conf_MaxJoins
  BY DEF Limited
<1>1. Mine(t, u) \subseteq Mine(s, u)
  BY DEF Mine
<1>2. Cardinality(Mine(t, u)) <= Cardinality(Mine(s, u))
  BY <1>1, Counted1, FS_Subset
<1>3. Cardinality(Mine(s, u)) <= Conf_MaxJoins
  BY Counted1 DEF Limited
<1>4. Cardinality(Mine(t, u)) \in Nat /\ Cardinality(Mine(s, u)) \in Nat
  BY Counted1
<1>5. Cardinality(Mine(t, u)) <= Conf_MaxJoins
  BY <1>2, <1>3, <1>4, ChannelAssumption
<1> QED BY <1>5, Counted1

LEMMA OneMoreSeat ==
    ASSUME NEW s, NEW t, Limited(s), NEW c \in Chan, NEW u \in User,
           DOMAIN t.member = DOMAIN s.member \cup {<<c, u>>},
           Conf_MaxJoins > 0 => Channel_CountForUser(s, u) < Conf_MaxJoins
    PROVE  Limited(t)
<1> SUFFICES ASSUME Conf_MaxJoins > 0, NEW v \in User
             PROVE  Channel_CountForUser(t, v) <= Conf_MaxJoins
  BY DEF Limited
<1>1. CASE v # u
  <2>1. Mine(t, v) = Mine(s, v)
    BY <1>1 DEF Mine
  <2> QED BY <2>1, Counted1 DEF Limited
<1>2. CASE v = u
  <2>1. Mine(t, u) = Mine(s, u) \cup {c}
    BY DEF Mine
  <2>2. Cardinality(Mine(s, u) \cup {c}) <= Cardinality(Mine(s, u)) + 1
    <3>1. CASE c \in Mine(s, u)
      <4>1. Mine(s, u) \cup {c} = Mine(s, u)
        BY <3>1
      <4> QED BY <4>1, Counted1
    <3>2. CASE c \notin Mine(s, u)
      <4>1. Cardinality(Mine(s, u) \cup {c}) = Cardinality(Mine(s, u)) + 1
        BY <3>2, Counted1, FS_AddElement, Zenon
      <4> QED BY <4>1, Counted1
    <3> QED BY <3>1, <3>2
  <2>3. Cardinality(Mine(s, u)) < Conf_MaxJoins
    BY Counted1
  <2>4. Cardinality(Mine(t, u)) \in Nat /\ Cardinality(Mine(s, u)) \in Nat
    BY Counted1
  <2>5. Cardinality(Mine(t, u)) <= Conf_MaxJoins
    BY <2>1, <2>2, <2>3, <2>4, ChannelAssumption
  <2> QED BY <1>2, <2>5, Counted1
<1> QED BY <1>1, <1>2

\* A channel may be changed if its invitations stay fair.
LEMMA Renewed ==
    ASSUME NEW s \in Good, NEW c \in DOMAIN s.chan, NEW r \in Room, Fair(r.invites)
    PROVE  LET t == [chan |-> [s.chan EXCEPT ![c] = r], member |-> s.member, oper |-> s.oper]
           IN /\ t \in Good /\ DOMAIN t.chan = DOMAIN s.chan /\ t.chan[c] = r
              /\ \A d \in DOMAIN s.chan \ {c} : t.chan[d] = s.chan[d]
<1> DEFINE f == [s.chan EXCEPT ![c] = r]
           t == [chan |-> f, member |-> s.member, oper |-> s.oper]
<1>1. /\ s.chan \in [DOMAIN s.chan -> Room] /\ DOMAIN s.chan \subseteq Chan
      /\ s.member \in [DOMAIN s.member -> SUBSET UserMode]
      /\ DOMAIN s.member \subseteq Chan \X User
      /\ s.oper \subseteq Oper /\ Seated(s) /\ Limited(s)
      /\ \A d \in DOMAIN s.chan : Fair(s.chan[d].invites)
  BY GoodParts, StateParts
<1>2. /\ f \in [DOMAIN s.chan -> Room] /\ DOMAIN f = DOMAIN s.chan /\ f[c] = r
      /\ \A d \in DOMAIN s.chan \ {c} : f[d] = s.chan[d]
  BY <1>1
<1> HIDE DEF f
<1>3. t \in State
  BY <1>1, <1>2, StateOf, Zenon
<1>4. t.chan = f /\ t.member = s.member /\ t.oper = s.oper
  OBVIOUS
<1> HIDE DEF t
<1>5. Seated(t)
  BY <1>1, <1>2, <1>4 DEF Seated
<1>6. Limited(t)
  BY <1>1, <1>4, FewerSeats
<1>7. \A d \in DOMAIN t.chan : Fair(t.chan[d].invites)
  BY <1>1, <1>2, <1>4
<1>8. t \in Good
  BY <1>3, <1>5, <1>6, <1>7 DEF Good
<1>9. t \in Good /\ DOMAIN t.chan = DOMAIN s.chan /\ t.chan[c] = r
      /\ \A d \in DOMAIN s.chan \ {c} : t.chan[d] = s.chan[d]
  BY <1>2, <1>4, <1>8
<1> QED BY <1>9 DEF t, f

-----------------------------------------------------------------------------
(* Entering channels                                                       *)
\* A new channel has no members, no modes and no invitations.
LEMMA Created ==
    ASSUME NEW s \in Good, NEW c \in Chan \ DOMAIN s.chan
    PROVE  LET t == Channel_Create(s, c)
           IN /\ t \in Good /\ t.oper = s.oper /\ t.member = s.member
              /\ DOMAIN t.chan = DOMAIN s.chan \cup {c}
              /\ \A d \in DOMAIN s.chan : t.chan[d] = s.chan[d]
              /\ t.chan[c].invites = <<>>
<1> DEFINE f == Put(s.chan, c, NewChannel)
           t == [chan |-> f, member |-> s.member, oper |-> s.oper]
<1>1. /\ s \in State /\ Seated(s) /\ Limited(s)
      /\ \A d \in DOMAIN s.chan : Fair(s.chan[d].invites)
  BY GoodParts
<1>2. /\ s = [chan |-> s.chan, member |-> s.member, oper |-> s.oper]
      /\ s.chan \in [DOMAIN s.chan -> Room] /\ DOMAIN s.chan \subseteq Chan
      /\ s.member \in [DOMAIN s.member -> SUBSET UserMode]
      /\ DOMAIN s.member \subseteq Chan \X User
      /\ s.oper \subseteq Oper
  BY <1>1, StateParts
<1>3. Channel_Create(s, c) = t
  BY <1>2 DEF Channel_Create
<1>4. NewChannel \in Room /\ Fair(NewChannel.invites) /\ NewChannel.invites = <<>>
  BY NewRoom
<1>5. /\ f \in [DOMAIN s.chan \cup {c} -> Room] /\ DOMAIN f = DOMAIN s.chan \cup {c}
      /\ f[c] = NewChannel /\ \A d \in DOMAIN s.chan : f[d] = s.chan[d]
  BY <1>2, <1>4 DEF Put
<1> HIDE DEF f
<1>6. t \in State
  BY <1>2, <1>5, StateOf
<1>7. t.chan = f /\ t.member = s.member /\ t.oper = s.oper
  OBVIOUS
<1> HIDE DEF t
<1>8. Seated(t)
  BY <1>1, <1>5, <1>7 DEF Seated
<1>9. Limited(t)
  BY <1>1, <1>7, FewerSeats
<1>10. \A d \in DOMAIN t.chan : Fair(t.chan[d].invites)
  BY <1>1, <1>4, <1>5, <1>7
<1>11. t \in Good
  BY <1>6, <1>8, <1>9, <1>10 DEF Good
<1> QED BY <1>3, <1>4, <1>5, <1>7, <1>11, Zenon

LEMMA Moded ==
    ASSUME NEW s \in Good, NEW c \in DOMAIN s.chan, NEW ms \in SUBSET AnyMode
    PROVE  LET t == Channel_ModeAdd(s, c, ms)
           IN /\ t \in Good /\ t.oper = s.oper /\ t.member = s.member
              /\ DOMAIN t.chan = DOMAIN s.chan
              /\ \A d \in DOMAIN s.chan \ {c} : t.chan[d] = s.chan[d]
              /\ t.chan[c].invites = s.chan[c].invites
<1> DEFINE r == [s.chan[c] EXCEPT !.modes = @ \cup ms]
           t == [chan |-> [s.chan EXCEPT ![c] = r], member |-> s.member, oper |-> s.oper]
<1>1. s \in State /\ s.chan[c] \in Room /\ Fair(s.chan[c].invites)
  BY GoodParts
<1>2. s = [chan |-> s.chan, member |-> s.member, oper |-> s.oper]
      /\ s.chan \in [DOMAIN s.chan -> Room]
  BY <1>1, StateParts
<1>3. r \in Room /\ r.invites = s.chan[c].invites
  BY <1>1 DEF Room
<1>4. Channel_ModeAdd(s, c, ms) = t
  BY <1>2 DEF Channel_ModeAdd
<1> HIDE DEF r
<1>5. t.oper = s.oper /\ t.member = s.member
  OBVIOUS
<1>6. t \in Good /\ DOMAIN t.chan = DOMAIN s.chan /\ t.chan[c] = r
      /\ \A d \in DOMAIN s.chan \ {c} : t.chan[d] = s.chan[d]
  BY <1>1, <1>3, Renewed
<1> HIDE DEF t
<1> QED BY <1>3, <1>4, <1>5, <1>6

\* A user takes a seat and gets some modes.
LEMMA SeatTaken ==
    ASSUME NEW s \in Good, NEW c \in DOMAIN s.chan, NEW u \in User,
           Conf_MaxJoins > 0 => Channel_CountForUser(s, u) < Conf_MaxJoins
    PROVE  LET t == Add_Client(s, c, u)
           IN /\ t \in Good /\ t.oper = s.oper /\ t.chan = s.chan
              /\ DOMAIN t.member = DOMAIN s.member \cup {<<c, u>>}
              /\ t.member[<<c, u>>] = {}
              /\ \A p \in DOMAIN s.member \ {<<c, u>>} : t.member[p] = s.member[p]
<1> DEFINE g == Put(s.member, <<c, u>>, {})
           t == [chan |-> s.chan, member |-> g, oper |-> s.oper]
<1>1. /\ s \in State /\ Seated(s) /\ Limited(s)
      /\ \A d \in DOMAIN s.chan : Fair(s.chan[d].invites)
  BY GoodParts
<1>2. /\ s = [chan |-> s.chan, member |-> s.member, oper |-> s.oper]
      /\ s.chan \in [DOMAIN s.chan -> Room] /\ DOMAIN s.chan \subseteq Chan
      /\ s.member \in [DOMAIN s.member -> SUBSET UserMode]
      /\ DOMAIN s.member \subseteq Chan \X User
      /\ s.oper \subseteq Oper
  BY <1>1, StateParts
<1>3. Add_Client(s, c, u) = t
  BY <1>2 DEF Add_Client
<1>4. /\ g \in [DOMAIN s.member \cup {<<c, u>>} -> SUBSET UserMode]
      /\ DOMAIN g = DOMAIN s.member \cup {<<c, u>>} /\ g[<<c, u>>] = {}
      /\ \A p \in DOMAIN s.member \ {<<c, u>>} : g[p] = s.member[p]
  BY <1>2 DEF Put
<1>5. DOMAIN s.member \cup {<<c, u>>} \subseteq Chan \X User
  BY <1>2
<1> HIDE DEF g
<1>6. t \in State
  BY <1>2, <1>4, <1>5, StateOf, Zenon
<1>7. t.chan = s.chan /\ t.member = g /\ t.oper = s.oper
  OBVIOUS
<1> HIDE DEF t
<1>8. Seated(t)
  BY <1>1, <1>4, <1>7 DEF Seated
<1>9. Limited(t)
  BY <1>1, <1>2, <1>4, <1>7, OneMoreSeat
<1>10. t \in Good
  BY <1>1, <1>6, <1>7, <1>8, <1>9 DEF Good
<1> QED BY <1>3, <1>4, <1>7, <1>10

\* The modes of a member may be changed.
LEMMA Reseated ==
    ASSUME NEW s \in Good, NEW p \in DOMAIN s.member, NEW ms \in SUBSET UserMode
    PROVE  LET t == [chan |-> s.chan, member |-> [s.member EXCEPT ![p] = ms],
                     oper |-> s.oper]
           IN /\ t \in Good /\ DOMAIN t.member = DOMAIN s.member /\ t.member[p] = ms
              /\ \A q \in DOMAIN s.member \ {p} : t.member[q] = s.member[q]
<1> DEFINE g == [s.member EXCEPT ![p] = ms]
           t == [chan |-> s.chan, member |-> g, oper |-> s.oper]
<1>1. /\ s \in State /\ Seated(s) /\ Limited(s)
      /\ \A d \in DOMAIN s.chan : Fair(s.chan[d].invites)
  BY GoodParts
<1>2. /\ s.chan \in [DOMAIN s.chan -> Room] /\ DOMAIN s.chan \subseteq Chan
      /\ s.member \in [DOMAIN s.member -> SUBSET UserMode]
      /\ DOMAIN s.member \subseteq Chan \X User
      /\ s.oper \subseteq Oper
  BY <1>1, StateParts
<1>3. /\ g \in [DOMAIN s.member -> SUBSET UserMode] /\ DOMAIN g = DOMAIN s.member
      /\ g[p] = ms /\ \A q \in DOMAIN s.member \ {p} : g[q] = s.member[q]
  BY <1>2
<1> HIDE DEF g
<1>4. t \in State
  BY <1>2, <1>3, StateOf, Zenon
<1>5. t.chan = s.chan /\ t.member = g /\ t.oper = s.oper
  OBVIOUS
<1> HIDE DEF t
<1>6. Seated(t)
  BY <1>1, <1>3, <1>5 DEF Seated
<1>7. Limited(t)
  BY <1>1, <1>3, <1>5, FewerSeats
<1>8. t \in Good
  BY <1>1, <1>4, <1>5, <1>6, <1>7 DEF Good
<1>9. t \in Good /\ DOMAIN t.member = DOMAIN s.member /\ t.member[p] = ms
      /\ \A q \in DOMAIN s.member \ {p} : t.member[q] = s.member[q]
  BY <1>3, <1>5, <1>8
<1> QED BY <1>9 DEF t, g

LEMMA UserModed ==
    ASSUME NEW s \in Good, NEW c, NEW u, <<c, u>> \in DOMAIN s.member,
           NEW ms \in SUBSET UserMode
    PROVE  LET t == Channel_UserModeAdd(s, c, u, ms)
           IN /\ t \in Good /\ t.oper = s.oper /\ t.chan = s.chan
              /\ DOMAIN t.member = DOMAIN s.member
              /\ t.member[<<c, u>>] = s.member[<<c, u>>] \cup ms
              /\ \A q \in DOMAIN s.member \ {<<c, u>>} : t.member[q] = s.member[q]
<1> DEFINE p == <<c, u>>
           m == s.member[p] \cup ms
           t == [chan |-> s.chan, member |-> [s.member EXCEPT ![p] = m], oper |-> s.oper]
<1>1. s \in State
  BY GoodParts
<1>2. s = [chan |-> s.chan, member |-> s.member, oper |-> s.oper]
      /\ s.member \in [DOMAIN s.member -> SUBSET UserMode]
  BY <1>1, StateParts
<1>3. m \in SUBSET UserMode /\ p \in DOMAIN s.member
  BY <1>2
<1>4. Channel_UserModeAdd(s, c, u, ms) = t
  <2>1. Channel_UserModeAdd(s, c, u, ms) = [s EXCEPT !.member[p] = @ \cup ms]
    BY Zenon DEF Channel_UserModeAdd
  <2> HIDE DEF p
  <2>2. [s EXCEPT !.member[p] = @ \cup ms] = t
    BY <1>2
  <2> QED BY <2>1, <2>2
<1>5. t.oper = s.oper /\ t.chan = s.chan
  OBVIOUS
<1>6. t \in Good /\ DOMAIN t.member = DOMAIN s.member /\ t.member[p] = m
      /\ \A q \in DOMAIN s.member \ {p} : t.member[q] = s.member[q]
  <2> HIDE DEF p, m
  <2> QED BY <1>3, Reseated
<1> HIDE DEF t, p, m
<1>7. /\ t \in Good /\ t.oper = s.oper /\ t.chan = s.chan
      /\ DOMAIN t.member = DOMAIN s.member
      /\ t.member[<<c, u>>] = s.member[<<c, u>>] \cup ms
      /\ \A q \in DOMAIN s.member \ {<<c, u>>} : t.member[q] = s.member[q]
  BY <1>5, <1>6 DEF p, m
<1> QED BY <1>4, <1>7

\* What Enter does: one member more, perhaps in a new channel, with the modes it is
\* given and no other, unless it is an IRC operator.
Entered(s, t, c, u, flags) ==
    /\ t \in Good /\ t.oper = s.oper
    /\ DOMAIN t.chan = DOMAIN s.chan \cup {c}
    /\ \A d \in DOMAIN s.chan : t.chan[d] = s.chan[d]
    /\ c \notin DOMAIN s.chan => t.chan[c].invites = <<>>
    /\ DOMAIN t.member = DOMAIN s.member \cup {<<c, u>>}
    /\ \A p \in DOMAIN s.member : t.member[p] = s.member[p]
    /\ u \notin s.oper => t.member[<<c, u>>] = flags

LEMMA EnterDone ==
    ASSUME NEW s \in Good, NEW c \in Chan, NEW u \in User, <<c, u>> \notin DOMAIN s.member,
           Conf_MaxJoins > 0 => Channel_CountForUser(s, u) < Conf_MaxJoins,
           NEW flags \in SUBSET UserMode
    PROVE  Entered(s, Enter(s, c, u, flags), c, u, flags)
<1> DEFINE s1 == IF Exists(s, c) THEN s ELSE Channel_Create(s, c)
           s2 == Add_Client(s1, c, u)
           default == Conf_DefaultChannelModes \cup IF c \in Modeless THEN {"t", "n"} ELSE {}
           s3 == IF Exists(s, c) THEN s2 ELSE Channel_ModeAdd(s2, c, default)
           ms == flags \cup IF Has(s3, c, "P") /\ Conf_OperChanPAutoOp /\ u \in s3.oper
                            THEN {"o"} ELSE {}
           t == Channel_UserModeAdd(s3, c, u, ms)
<1>1. Enter(s, c, u, flags) = t
  BY Zenon DEF Enter, Channel_Join, join_set_channelmodes
<1>2. default \subseteq AnyMode
  <2>1. "t" \in AnyMode /\ "n" \in AnyMode
    BY DEF AnyMode, ChannelMode
  <2> QED BY <2>1, ChannelAssumption, Zenon
<1> HIDE DEF default
<1>3. /\ s1 \in Good /\ s1.oper = s.oper /\ s1.member = s.member
      /\ DOMAIN s1.chan = DOMAIN s.chan \cup {c}
      /\ \A d \in DOMAIN s.chan : s1.chan[d] = s.chan[d]
      /\ c \notin DOMAIN s.chan => s1.chan[c].invites = <<>>
  <2>1. CASE c \in DOMAIN s.chan
    BY <2>1 DEF Exists
  <2>2. CASE c \notin DOMAIN s.chan
    <3>1. s1 = Channel_Create(s, c) /\ c \in Chan \ DOMAIN s.chan
      BY <2>2 DEF Exists
    <3> HIDE DEF s1
    <3> QED BY <3>1, Created
  <2> QED BY <2>1, <2>2, Zenon
<1> HIDE DEF s1
<1>4. Conf_MaxJoins > 0 => Channel_CountForUser(s1, u) < Conf_MaxJoins
  BY <1>3 DEF Channel_CountForUser, Channel_IsMemberOf
<1>5. /\ s2 \in Good /\ s2.oper = s1.oper /\ s2.chan = s1.chan
      /\ DOMAIN s2.member = DOMAIN s1.member \cup {<<c, u>>}
      /\ s2.member[<<c, u>>] = {}
      /\ \A p \in DOMAIN s1.member \ {<<c, u>>} : s2.member[p] = s1.member[p]
  BY <1>3, <1>4, SeatTaken
<1> HIDE DEF s2
<1>6. /\ s3 \in Good /\ s3.oper = s.oper /\ s3.member = s2.member
      /\ DOMAIN s3.chan = DOMAIN s.chan \cup {c}
      /\ \A d \in DOMAIN s.chan : s3.chan[d] = s.chan[d]
      /\ c \notin DOMAIN s.chan => s3.chan[c].invites = <<>>
  <2>1. CASE Exists(s, c)
    BY <1>3, <1>5, <2>1, Zenon DEF Exists
  <2>2. CASE ~Exists(s, c)
    <3>1. s3 = Channel_ModeAdd(s2, c, default) /\ c \in DOMAIN s2.chan
          /\ c \notin DOMAIN s.chan
      BY <1>3, <1>5, <2>2 DEF Exists
    <3> HIDE DEF s3
    <3>2. /\ s3 \in Good /\ s3.oper = s2.oper /\ s3.member = s2.member
          /\ DOMAIN s3.chan = DOMAIN s2.chan
          /\ \A d \in DOMAIN s2.chan \ {c} : s3.chan[d] = s2.chan[d]
          /\ s3.chan[c].invites = s2.chan[c].invites
      BY <1>2, <1>5, <3>1, Moded
    <3> QED BY <1>3, <1>5, <3>1, <3>2, Zenon
  <2> QED BY <2>1, <2>2, Zenon
<1> HIDE DEF s3
<1>7. ms \in SUBSET UserMode /\ (u \notin s.oper => ms = flags)
  BY <1>6 DEF UserMode, HalfOp, Op
<1> HIDE DEF ms
<1>8. /\ t \in Good /\ t.oper = s3.oper /\ t.chan = s3.chan
      /\ DOMAIN t.member = DOMAIN s3.member
      /\ t.member[<<c, u>>] = s3.member[<<c, u>>] \cup ms
      /\ \A q \in DOMAIN s3.member \ {<<c, u>>} : t.member[q] = s3.member[q]
  <2>1. <<c, u>> \in DOMAIN s3.member
    BY <1>5, <1>6
  <2> QED BY <1>6, <1>7, <2>1, UserModed
<1> HIDE DEF t
<1>9. /\ t.oper = s.oper /\ DOMAIN t.chan = DOMAIN s.chan \cup {c}
      /\ \A d \in DOMAIN s.chan : t.chan[d] = s.chan[d]
      /\ c \notin DOMAIN s.chan => t.chan[c].invites = <<>>
  BY <1>6, <1>8
<1>10. /\ DOMAIN t.member = DOMAIN s.member \cup {<<c, u>>}
       /\ \A p \in DOMAIN s.member : t.member[p] = s.member[p]
       /\ u \notin s.oper => t.member[<<c, u>>] = flags
  BY <1>3, <1>5, <1>6, <1>7, <1>8
<1> QED BY <1>1, <1>8, <1>9, <1>10, Zenon DEF Entered

LEMMA InviteUsed ==
    ASSUME NEW s \in Good, NEW c \in DOMAIN s.chan, NEW u \in User
    PROVE  LET t == Use_Invite(s, c, u)
           IN /\ t \in Good /\ t.oper = s.oper /\ t.member = s.member
              /\ DOMAIN t.chan = DOMAIN s.chan
              /\ \A d \in DOMAIN s.chan \ {c} : t.chan[d] = s.chan[d]
              /\ Alike(t.chan[c], s.chan[c])
              /\ Within(t.chan[c].invites, s.chan[c].invites)
              /\ OnceMore(t.chan[c].invites, u) => Lasting(s.chan[c].invites, u)
<1> DEFINE l == s.chan[c].invites
           m == Lists_Used(l, u)
           r == [s.chan[c] EXCEPT !.invites = m]
           t == [chan |-> [s.chan EXCEPT ![c] = r], member |-> s.member, oper |-> s.oper]
<1>1. s \in State /\ s.chan[c] \in Room /\ Fair(l)
  BY GoodParts
<1>2. s = [chan |-> s.chan, member |-> s.member, oper |-> s.oper]
      /\ s.chan \in [DOMAIN s.chan -> Room]
  BY <1>1, StateParts
<1>3. l \in List
  BY <1>1, RoomFields
<1>4. /\ m \in List /\ Fair(m)
      /\ \A i \in DOMAIN m : \E j \in DOMAIN l : m[i] = l[j]
      /\ \A i \in DOMAIN m : u \in m[i].mask /\ m[i].onlyonce
                             => \E j \in Hits(l, u) : ~l[j].onlyonce
  <2> HIDE DEF l
  <2> QED BY <1>1, <1>3, ListsUsed
<1>5. Use_Invite(s, c, u) = t
  BY <1>2 DEF Use_Invite
<1> HIDE DEF m
<1>6. r \in Room /\ r.invites = m /\ Alike(r, s.chan[c])
  BY <1>1, <1>4 DEF Room, Alike
<1> HIDE DEF r
<1>7. t.oper = s.oper /\ t.member = s.member
  OBVIOUS
<1>8. t \in Good /\ DOMAIN t.chan = DOMAIN s.chan /\ t.chan[c] = r
      /\ \A d \in DOMAIN s.chan \ {c} : t.chan[d] = s.chan[d]
  BY <1>4, <1>6, Renewed
<1> HIDE DEF t, l
<1>9. Within(m, l) /\ (OnceMore(m, u) => Lasting(l, u))
  BY <1>4, Zenon DEF Within, OnceMore, Lasting
<1> QED BY <1>5, <1>6, <1>7, <1>8, <1>9 DEF l

LEMMA WithinTrans ==
    ASSUME NEW l, NEW m, NEW n, Within(l, m), Within(m, n)
    PROVE  Within(l, n)
BY DEF Within

\* Hits carry over to the list that has all entries.
LEMMA WithinHits ==
    ASSUME NEW l, NEW m, Within(l, m), NEW u
    PROVE  /\ Lists_Check(l, u) => Lists_Check(m, u)
           /\ Lasting(l, u) => Lasting(m, u)
           /\ OnceMore(l, u) => OnceMore(m, u)
<1>1. \A i \in Hits(l, u) : i \in DOMAIN l /\ u \in l[i].mask
  BY DEF Hits
<1>2. \A j \in DOMAIN m : u \in m[j].mask => j \in Hits(m, u)
  BY DEF Hits
<1>3. \A i \in DOMAIN l : \E j \in DOMAIN m : l[i] = m[j]
  BY DEF Within
<1>4. ASSUME Lists_Check(l, u) PROVE Lists_Check(m, u)
  BY <1>1, <1>2, <1>3, <1>4 DEF Lists_Check
<1>5. ASSUME Lasting(l, u) PROVE Lasting(m, u)
  BY <1>1, <1>2, <1>3, <1>5 DEF Lasting
<1>6. ASSUME OnceMore(l, u) PROVE OnceMore(m, u)
  BY <1>1, <1>2, <1>3, <1>6 DEF OnceMore
<1> QED BY <1>4, <1>5, <1>6

LEMMA JoinedUse ==
    ASSUME NEW s0 \in Good, NEW s \in Good, NEW u \in User, Joined(s0, s, u),
           NEW c \in DOMAIN s.chan, <<c, u>> \notin DOMAIN s.member
    PROVE  LET t == Use_Invite(s, c, u)
           IN t \in Good /\ Joined(s0, t, u) /\ c \in DOMAIN s0.chan /\ c \in DOMAIN t.chan
              /\ (OnceMore(t.chan[c].invites, u) => Lasting(s0.chan[c].invites, u))
              /\ t.member = s.member
<1> DEFINE t == Use_Invite(s, c, u)
<1>1. /\ t \in Good /\ t.oper = s.oper /\ t.member = s.member
      /\ DOMAIN t.chan = DOMAIN s.chan
      /\ \A d \in DOMAIN s.chan \ {c} : t.chan[d] = s.chan[d]
      /\ Alike(t.chan[c], s.chan[c])
      /\ Within(t.chan[c].invites, s.chan[c].invites)
      /\ OnceMore(t.chan[c].invites, u) => Lasting(s.chan[c].invites, u)
  BY InviteUsed, Zenon
<1> HIDE DEF t
<1>2. c \in DOMAIN s0.chan
  BY Zenon DEF Joined
<1>3. Alike(s.chan[c], s0.chan[c]) /\ Within(s.chan[c].invites, s0.chan[c].invites)
  BY <1>2, Zenon DEF Joined
<1>4. Alike(t.chan[c], s0.chan[c]) /\ Within(t.chan[c].invites, s0.chan[c].invites)
  <2>1. Alike(t.chan[c], s0.chan[c])
    BY <1>1, <1>3, Zenon DEF Alike
  <2>2. Within(t.chan[c].invites, s0.chan[c].invites)
    <3> DEFINE l == t.chan[c].invites
               m == s.chan[c].invites
               n == s0.chan[c].invites
    <3>1. Within(l, m) /\ Within(m, n)
      BY <1>1, <1>3, Zenon
    <3> HIDE DEF l, m, n
    <3>2. Within(l, n)
      BY <3>1, WithinTrans, Zenon
    <3> QED BY <3>2, Zenon DEF l, n
  <2> QED BY <2>1, <2>2, Zenon
<1>5. OnceMore(t.chan[c].invites, u) => Lasting(s0.chan[c].invites, u)
  BY <1>1, <1>3, WithinHits, Zenon
<1>6. \A d \in DOMAIN s0.chan : /\ Alike(t.chan[d], s0.chan[d])
                                /\ Within(t.chan[d].invites, s0.chan[d].invites)
  BY <1>1, <1>4, Zenon DEF Joined
<1>7. \A p \in DOMAIN s.member \ DOMAIN s0.member : p[1] # c /\ p[1] \in DOMAIN s.chan
  BY Pair, Zenon DEF Joined
<1>8. \A d \in DOMAIN t.chan \ DOMAIN s0.chan : /\ <<d, u>> \in DOMAIN t.member
                                                 /\ t.chan[d].invites = <<>>
  BY <1>1, <1>2, Zenon DEF Joined
<1>9. ASSUME NEW p \in DOMAIN t.member \ DOMAIN s0.member
      PROVE  /\ p[2] = u
             /\ u \notin s0.oper =>
                  t.member[p] = IF p[1] \in DOMAIN s0.chan \/ p[1] \in Modeless THEN {} ELSE {"o"}
             /\ p[1] \in DOMAIN s0.chan =>
                  /\ OnceMore(t.chan[p[1]].invites, u) => Lasting(s0.chan[p[1]].invites, u)
                  /\ u \notin s0.oper => Admitted(s0.chan[p[1]], u)
  <2>1. t.chan[p[1]] = s.chan[p[1]] /\ t.member[p] = s.member[p]
    BY <1>1, <1>7, Zenon
  <2> QED BY <1>1, <2>1, Zenon DEF Joined
<1>10. /\ t.oper = s0.oper
       /\ DOMAIN s0.chan \subseteq DOMAIN t.chan /\ DOMAIN s0.member \subseteq DOMAIN t.member
       /\ \A p \in DOMAIN s0.member : t.member[p] = s0.member[p]
  BY <1>1, Zenon DEF Joined
<1>11. Joined(s0, t, u)
  BY <1>6, <1>8, <1>9, <1>10, Zenon DEF Joined
<1> QED BY <1>1, <1>2, <1>5, <1>11, Zenon DEF t

\* u enters a channel that was there, or one that was not.
LEMMA JoinedEnter ==
    ASSUME NEW s0 \in Good, NEW s \in Good, NEW t, NEW u \in User, NEW c \in Chan,
           Joined(s0, s, u),
           Entered(s, t, c, u, IF c \in DOMAIN s.chan \/ c \in Modeless THEN {} ELSE {"o"}),
           c \in DOMAIN s.chan =>
              /\ c \in DOMAIN s0.chan
              /\ OnceMore(s.chan[c].invites, u) => Lasting(s0.chan[c].invites, u)
              /\ u \notin s0.oper => Admitted(s0.chan[c], u)
    PROVE  Joined(s0, t, u)
<1> DEFINE flags == IF c \in DOMAIN s.chan \/ c \in Modeless THEN {} ELSE {"o"}
<1>1. /\ t \in Good /\ t.oper = s.oper
      /\ DOMAIN t.chan = DOMAIN s.chan \cup {c}
      /\ \A d \in DOMAIN s.chan : t.chan[d] = s.chan[d]
      /\ c \notin DOMAIN s.chan => t.chan[c].invites = <<>>
      /\ DOMAIN t.member = DOMAIN s.member \cup {<<c, u>>}
      /\ \A p \in DOMAIN s.member : t.member[p] = s.member[p]
      /\ u \notin s.oper => t.member[<<c, u>>] = flags
  BY Zenon DEF Entered
<1>2. s.oper = s0.oper /\ DOMAIN s0.chan \subseteq DOMAIN s.chan
      /\ DOMAIN s0.member \subseteq DOMAIN s.member
  BY Zenon DEF Joined
<1>3. \A d \in DOMAIN s0.chan : /\ Alike(t.chan[d], s0.chan[d])
                                /\ Within(t.chan[d].invites, s0.chan[d].invites)
  BY <1>1, <1>2, Zenon DEF Joined
<1>4. \A d \in DOMAIN t.chan \ DOMAIN s0.chan : /\ <<d, u>> \in DOMAIN t.member
                                                /\ t.chan[d].invites = <<>>
  BY <1>1, <1>2, Zenon DEF Joined
<1>5. \A p \in DOMAIN s0.member : t.member[p] = s0.member[p]
  BY <1>1, <1>2, Zenon DEF Joined
<1>6. ASSUME NEW p \in DOMAIN t.member \ DOMAIN s0.member
      PROVE  /\ p[2] = u
             /\ u \notin s0.oper =>
                  t.member[p] = IF p[1] \in DOMAIN s0.chan \/ p[1] \in Modeless
                                THEN {} ELSE {"o"}
             /\ p[1] \in DOMAIN s0.chan =>
                  /\ OnceMore(t.chan[p[1]].invites, u) => Lasting(s0.chan[p[1]].invites, u)
                  /\ u \notin s0.oper => Admitted(s0.chan[p[1]], u)
  <2>1. CASE p \in DOMAIN s.member
    <3>1. t.member[p] = s.member[p]
      BY <1>1, <2>1, Zenon
    <3>2. p[1] \in DOMAIN s.chan
      BY <2>1, Pair, Zenon
    <3>3. t.chan[p[1]] = s.chan[p[1]]
      BY <1>1, <3>2, Zenon
    <3> QED BY <2>1, <3>1, <3>3, Zenon DEF Joined
  <2>2. CASE p = <<c, u>>
    <3>1. p[1] = c /\ p[2] = u
      BY <2>2, Zenon
    <3>2. c \in DOMAIN s0.chan <=> c \in DOMAIN s.chan
      BY <1>2, Zenon
    <3>3. u \notin s0.oper => t.member[p] = IF p[1] \in DOMAIN s0.chan \/ p[1] \in Modeless
                                            THEN {} ELSE {"o"}
      BY <1>1, <1>2, <2>2, <3>1, <3>2, Zenon
    <3>4. c \in DOMAIN s.chan => t.chan[c] = s.chan[c]
      BY <1>1, Zenon
    <3> HIDE DEF flags
    <3> QED BY <3>1, <3>2, <3>3, <3>4, Zenon
  <2> QED BY <1>1, <1>6, <2>1, <2>2, Zenon
<1>7. t.oper = s0.oper /\ DOMAIN s0.chan \subseteq DOMAIN t.chan
      /\ DOMAIN s0.member \subseteq DOMAIN t.member
  BY <1>1, <1>2, Zenon
<1> HIDE DEF flags
<1> QED BY <1>3, <1>4, <1>5, <1>6, <1>7, Zenon DEF Joined

LEMMA JoinTurn ==
    ASSUME NEW s0 \in Good, NEW s \in Good, NEW u \in User, Joined(s0, s, u),
           NEW c \in Chan, NEW key
    PROVE  LET t == Join_Local(s, c, u, key) IN t \in Good /\ Joined(s0, t, u)
<1> DEFINE t == Join_Local(s, c, u, key)
           s1 == Use_Invite(s, c, u)
           flags == IF c \in DOMAIN s.chan \/ c \in Modeless THEN {} ELSE {"o"}
           full == Conf_MaxJoins > 0 /\ Channel_CountForUser(s, u) >= Conf_MaxJoins
<1>1. CASE <<c, u>> \in DOMAIN s.member
  <2>1. c \in DOMAIN s.chan
    BY <1>1, Pair
  <2>2. t = s
    BY <1>1, <2>1 DEF Join_Local, Exists, Channel_IsMemberOf
  <2> QED BY <2>2
<1>2. CASE t = s
  BY <1>2
<1>3. CASE <<c, u>> \notin DOMAIN s.member /\ t # s
  <2>1. Conf_MaxJoins > 0 => Channel_CountForUser(s, u) < Conf_MaxJoins
    <3>1. ~full
      BY <1>3, Zenon DEF Join_Local
    <3>2. Channel_CountForUser(s, u) \in Nat
      BY Counted1
    <3> QED BY <3>1, <3>2, ChannelAssumption
  <2>2. CASE c \notin DOMAIN s.chan
    <3>1. t = Enter(s, c, u, IF c \in Modeless THEN {} ELSE {"o"})
      BY <1>3, <2>2, Zenon DEF Join_Local, Exists
    <3>2. flags = IF c \in Modeless THEN {} ELSE {"o"}
      BY <2>2
    <3>3. flags \in SUBSET UserMode
      BY DEF UserMode, HalfOp, Op
    <3> HIDE DEF t, flags
    <3>4. Entered(s, t, c, u, flags)
      BY <1>3, <2>1, <3>1, <3>2, <3>3, EnterDone, Zenon
    <3>5. Joined(s0, t, u)
      BY <2>2, <3>4, JoinedEnter, Zenon DEF flags
    <3> QED BY <3>4, <3>5, Zenon DEF Entered, t
  <2>3. CASE c \in DOMAIN s.chan
    <3>1. s1 \in Good /\ Joined(s0, s1, u) /\ c \in DOMAIN s0.chan /\ c \in DOMAIN s1.chan
          /\ (OnceMore(s1.chan[c].invites, u) => Lasting(s0.chan[c].invites, u))
          /\ s1.member = s.member
      BY <1>3, <2>3, JoinedUse, Zenon
    <3>2. t = s1 \/ (join_allowed(s, c, u, key) /\ t = Enter(s1, c, u, {}))
      BY <1>3, <2>3, Zenon DEF Join_Local, Exists
    <3>3. ASSUME join_allowed(s, c, u, key), u \notin s0.oper
          PROVE  Admitted(s0.chan[c], u)
      <4>1. u \notin s.oper
        BY <3>3, Zenon DEF Joined
      <4>2. Lists_Check(s.chan[c].bans, u) => \/ Lists_Check(s.chan[c].invites, u)
                                              \/ Lists_Check(s.chan[c].excepts, u)
        BY <3>3, <4>1, Zenon DEF join_allowed, Join_Check_Access
      <4>3. Alike(s.chan[c], s0.chan[c]) /\ Within(s.chan[c].invites, s0.chan[c].invites)
        BY <3>1, Zenon DEF Joined
      <4>4. Lists_Check(s.chan[c].invites, u) => Lists_Check(s0.chan[c].invites, u)
        BY <4>3, WithinHits
      <4> QED BY <4>2, <4>3, <4>4, Zenon DEF Admitted, Alike
    <3> HIDE DEF s1
    <3>4. CASE join_allowed(s, c, u, key) /\ t = Enter(s1, c, u, {})
      <4> HIDE DEF t
      <4>1. Conf_MaxJoins > 0 => Channel_CountForUser(s1, u) < Conf_MaxJoins
        BY <2>1, <3>1 DEF Channel_CountForUser, Channel_IsMemberOf
      <4>2. <<c, u>> \notin DOMAIN s1.member /\ {} \in SUBSET UserMode
        BY <1>3, <3>1
      <4>3. Entered(s1, t, c, u, {})
        BY <3>1, <3>4, <4>1, <4>2, EnterDone, Zenon
      <4>4. Entered(s1, t, c, u, IF c \in DOMAIN s1.chan \/ c \in Modeless THEN {} ELSE {"o"})
        BY <3>1, <4>3
      <4>5. Joined(s0, t, u)
        BY <3>1, <3>3, <3>4, <4>4, JoinedEnter, Zenon
      <4> QED BY <4>3, <4>5 DEF Entered, t
    <3>5. CASE t = s1
      BY <3>1, <3>5
    <3> QED BY <3>2, <3>4, <3>5
  <2> QED BY <2>2, <2>3
<1> QED BY <1>1, <1>2, <1>3, Zenon

LEMMA JoinedNone ==
    ASSUME NEW s
    PROVE  \A u : Joined(s, s, u)
BY DEF Joined, Alike, Within

\* The channels of a JOIN, one after the other.
LEMMA JoinAll ==
    ASSUME NEW s0 \in Good, NEW u \in User, NEW names \in Seq(Chan), NEW keys
    PROVE  LET t == IRC_JOIN(s0, u, names, keys) IN t \in Good /\ Joined(s0, t, u)
<1> DEFINE l == [i \in DOMAIN names |-> i]
           D == DOMAIN l
           Turn(s, i) == Join_Local(s, names[i], u, IF i \in DOMAIN keys THEN keys[i] ELSE NoArg)
           V == {t \in Good : Joined(s0, t, u)}
           Sol(it) == it = [s \in SUBSET D |->
                              IF s = {} THEN s0 ELSE Turn(it[s \ {Max(s)}], l[Max(s)])]
           it0 == CHOOSE it : Sol(it)
           pick == [s \in SUBSET D |-> Max(s)]
           step == [p \in D \X V |-> Turn(p[2], l[p[1]])]
<1>1. IRC_JOIN(s0, u, names, keys) = it0[D]
  <2>1. IRC_JOIN(s0, u, names, keys) = ForEach(Turn, s0, l)
    BY Zenon DEF IRC_JOIN
  <2> HIDE DEF Turn, l
  <2>2. ForEach(Turn, s0, l) = it0[D]
    BY Zenon DEF ForEach, MapThenFoldSet
  <2> QED BY <2>1, <2>2
<1>2. IsFiniteSet(D) /\ D \subseteq Nat /\ \A i \in D : l[i] = i /\ names[i] \in Chan
  <2>1. D = 1 .. Len(names) /\ Len(names) \in Nat
        /\ \A i \in D : l[i] = i /\ names[i] \in Chan
    OBVIOUS
  <2>2. IsFiniteSet(1 .. Len(names))
    BY <2>1, FS_Interval
  <2> HIDE DEF D, l
  <2> QED BY <2>1, <2>2
<1>3. \A s \in SUBSET D : s # {} => Max(s) \in s
  <2> HIDE DEF D
  <2> QED BY <1>2, MaxNatural, FS_Subset, Zenon
<1>4. \A i \in D, r \in V : Turn(r, l[i]) \in V
  <2> HIDE DEF l, D
  <2>1. ASSUME NEW i \in D, NEW r \in V PROVE Turn(r, l[i]) \in V
    <3>1. l[i] = i /\ names[i] \in Chan /\ r \in Good /\ Joined(s0, r, u)
      BY <1>2
    <3> HIDE DEF V
    <3>2. Turn(r, i) \in Good /\ Joined(s0, Turn(r, i), u)
      BY <3>1, JoinTurn
    <3> HIDE DEF Turn
    <3> QED BY <3>1, <3>2 DEF V
  <2> QED BY <2>1, Zenon
<1>5. s0 \in V
  BY JoinedNone
<1>6. \E it : Sol(it)
  <2> HIDE DEF Turn, D, V, l
  <2>1. step \in [D \X V -> V]
    BY <1>4
  <2>2. Folding(D, V, s0, pick, step)
    <3> HIDE DEF step
    <3> QED BY <1>2, <1>3, <1>5, <2>1 DEF Folding
  <2> HIDE DEF step, pick
  <2>3. PICK g \in [SUBSET D -> V] : FoldEquations(g, D, s0, pick, step)
    BY <2>2, FoldExists, Zenon
  <2> USE DEF FoldEquations, step, pick
  <2>4. \A s \in SUBSET D :
          g[s] = IF s = {} THEN s0 ELSE Turn(g[s \ {Max(s)}], l[Max(s)])
    <3> TAKE s \in SUBSET D
    <3>1. CASE s # {}
      <4>1. Max(s) \in D /\ pick[s] = Max(s) /\ g[s \ {Max(s)}] \in V
        BY <1>3, <3>1
      <4>2. step[<<Max(s), g[s \ {Max(s)}]>>] = Turn(g[s \ {Max(s)}], l[Max(s)])
        BY <4>1
      <4> HIDE DEF step, pick
      <4> QED BY <2>3, <3>1, <4>1, <4>2
    <3> QED BY <2>3, <3>1, Zenon
  <2> QED BY <2>3, <2>4, Zenon
<1>7. Sol(it0)
  <2> HIDE DEF Sol
  <2> QED BY <1>6
<1> HIDE DEF it0, Turn, D, V, l
<1>8. it0[{}] \in V
  BY <1>5, <1>7
<1>9. \A s \in SUBSET D : s # {} => \E x \in s : it0[s \ {x}] \in V => it0[s] \in V
  <2> SUFFICES ASSUME NEW s \in SUBSET D, s # {}, it0[s \ {Max(s)}] \in V
               PROVE  it0[s] \in V
    BY <1>3, Zenon
  <2>1. it0[s] = Turn(it0[s \ {Max(s)}], l[Max(s)])
    BY <1>7, Zenon
  <2>2. Max(s) \in D
    BY <1>3
  <2> HIDE DEF Sol
  <2> QED BY <1>4, <2>1, <2>2
<1>10. it0[D] \in V
  <2> HIDE DEF Sol
  <2> QED BY <1>2, <1>8, <1>9, FoldIn, Zenon
<1> QED BY <1>1, <1>10 DEF V

-----------------------------------------------------------------------------
(* Leaving channels                                                        *)
LEMMA SeatLeft ==
    ASSUME NEW s \in Good, NEW c \in DOMAIN s.chan, NEW u \in User
    PROVE  LET t == Remove_Client(s, c, u)
           IN /\ t \in Good /\ t.oper = s.oper
              /\ DOMAIN t.member = DOMAIN s.member \ {<<c, u>>}
              /\ \A p \in DOMAIN t.member : t.member[p] = s.member[p]
              /\ DOMAIN s.chan \ {c} \subseteq DOMAIN t.chan
              /\ DOMAIN t.chan \subseteq DOMAIN s.chan
              /\ \A d \in DOMAIN t.chan : t.chan[d] = s.chan[d]
              /\ c \notin DOMAIN t.chan => <<c, u>> \in DOMAIN s.member
<1> DEFINE E == DOMAIN s.member \ {<<c, u>>}
           g == Restrict(s.member, E)
           s1 == [chan |-> s.chan, member |-> g, oper |-> s.oper]
           D == DOMAIN s.chan \ {c}
           f == Restrict(s.chan, D)
           s2 == [chan |-> f, member |-> g, oper |-> s.oper]
           t == Remove_Client(s, c, u)
<1>1. /\ s \in State /\ Seated(s) /\ Limited(s)
      /\ \A d \in DOMAIN s.chan : Fair(s.chan[d].invites)
  BY GoodParts
<1>2. /\ s = [chan |-> s.chan, member |-> s.member, oper |-> s.oper]
      /\ s.chan \in [DOMAIN s.chan -> Room] /\ DOMAIN s.chan \subseteq Chan
      /\ s.member \in [DOMAIN s.member -> SUBSET UserMode]
      /\ DOMAIN s.member \subseteq Chan \X User
      /\ s.oper \subseteq Oper
  BY <1>1, StateParts
<1>3. CASE <<c, u>> \notin DOMAIN s.member
  <2>1. t = s
    BY <1>3 DEF Remove_Client, Channel_IsMemberOf
  <2> QED BY <1>3, <2>1
<1>4. CASE <<c, u>> \in DOMAIN s.member
  <2>1. \/ t = s1
        \/ t = s2 /\ Members(s1, c) = {}
    <3>1. [s EXCEPT !.member = Restrict(@, DOMAIN @ \ {<<c, u>>})] = s1
      BY <1>2
    <3>2. Delete_Channel(s1, c) = s2
      BY DEF Delete_Channel
    <3>3. t = IF ~Has(s, c, "P") /\ Members(s1, c) = {} THEN Delete_Channel(s1, c) ELSE s1
      BY <1>4, <3>1, Zenon DEF Remove_Client, Channel_IsMemberOf
    <3> HIDE DEF t, s1, s2
    <3> QED BY <3>2, <3>3
  <2>2. /\ g \in [E -> SUBSET UserMode] /\ DOMAIN g = E /\ E \subseteq Chan \X User
        /\ \A p \in E : g[p] = s.member[p]
    BY <1>2 DEF Restrict
  <2>3. /\ f \in [D -> Room] /\ DOMAIN f = D /\ D \subseteq Chan
        /\ \A d \in D : f[d] = s.chan[d]
    BY <1>2 DEF Restrict
  <2>4. E \subseteq DOMAIN s.member /\ D \subseteq DOMAIN s.chan
    OBVIOUS
  <2> HIDE DEF g, f
  <2>5. s1 \in State /\ s2 \in State
    <3> HIDE DEF E, D
    <3> QED BY <1>2, <2>2, <2>3, StateOf, Zenon
  <2>6. s1.chan = s.chan /\ s1.member = g /\ s1.oper = s.oper
        /\ s2.chan = f /\ s2.member = g /\ s2.oper = s.oper
    OBVIOUS
  <2> HIDE DEF s1, s2
  <2>7. Limited(s1) /\ Limited(s2)
    BY <1>1, <2>2, <2>4, <2>6, FewerSeats
  <2>8. Seated(s1)
    BY <1>1, <2>2, <2>6 DEF Seated
  <2>9. s1 \in Good
    BY <1>1, <2>5, <2>6, <2>7, <2>8 DEF Good
  <2>10. ASSUME Members(s1, c) = {} PROVE s2 \in Good
    <3>1. \A v \in User : <<c, v>> \notin E
      BY <2>2, <2>6, <2>10 DEF Members, Channel_IsMemberOf
    <3>2. \A p \in E : p[1] \in D
      <4> TAKE p \in E
      <4>1. p \in DOMAIN s.member
        OBVIOUS
      <4>2. p[2] \in User /\ p = <<p[1], p[2]>> /\ p[1] \in DOMAIN s.chan
        BY <4>1, Pair
      <4> QED BY <3>1, <4>2
    <3>3. Seated(s2)
      BY <2>2, <2>3, <2>6, <3>2, Zenon DEF Seated
    <3>4. \A d \in DOMAIN s2.chan : Fair(s2.chan[d].invites)
      BY <1>1, <2>3, <2>4, <2>6, Zenon
    <3> QED BY <2>5, <2>7, <3>3, <3>4 DEF Good
  <2>11. CASE t = s1
    <3> HIDE DEF t
    <3> QED BY <2>2, <2>6, <2>9, <2>11, Zenon DEF t
  <2>12. CASE t = s2 /\ Members(s1, c) = {}
    <3> HIDE DEF t
    <3> QED BY <1>4, <2>2, <2>3, <2>6, <2>10, <2>12, Zenon DEF t
  <2> QED BY <2>1, <2>11, <2>12, Zenon
<1> QED BY <1>3, <1>4, Zenon

LEMMA LeftOne ==
    ASSUME NEW s0, NEW s \in Good, NEW u \in User, Left(s0, s, u), NEW c \in DOMAIN s.chan
    PROVE  LET t == Remove_Client(s, c, u)
           IN /\ t \in Good /\ Left(s0, t, u) /\ t.oper = s.oper
              /\ \A p \in DOMAIN s.member \ DOMAIN t.member : p = <<c, u>>
<1> DEFINE t == Remove_Client(s, c, u)
<1>1. /\ t \in Good /\ t.oper = s.oper
      /\ DOMAIN t.member = DOMAIN s.member \ {<<c, u>>}
      /\ \A p \in DOMAIN t.member : t.member[p] = s.member[p]
      /\ DOMAIN s.chan \ {c} \subseteq DOMAIN t.chan
      /\ DOMAIN t.chan \subseteq DOMAIN s.chan
      /\ \A d \in DOMAIN t.chan : t.chan[d] = s.chan[d]
      /\ c \notin DOMAIN t.chan => <<c, u>> \in DOMAIN s.member
  BY SeatLeft, Zenon
<1> HIDE DEF t
<1>2. Left(s0, t, u)
  <2>1. \A p \in DOMAIN s0.member \ DOMAIN t.member : p[2] = u
    BY <1>1 DEF Left
  <2>2. /\ DOMAIN t.chan \subseteq DOMAIN s0.chan /\ DOMAIN t.member \subseteq DOMAIN s0.member
        /\ \A d \in DOMAIN t.chan : t.chan[d] = s0.chan[d]
        /\ \A p \in DOMAIN t.member : t.member[p] = s0.member[p]
    BY <1>1, Zenon DEF Left
  <2>3. \A d \in DOMAIN s0.chan \ DOMAIN t.chan : <<d, u>> \in DOMAIN s0.member
    BY <1>1, Zenon DEF Left
  <2>4. t.oper \subseteq s0.oper /\ s0.oper \ {u} \subseteq t.oper
    BY <1>1, Zenon DEF Left
  <2> QED BY <2>1, <2>2, <2>3, <2>4, Zenon DEF Left
<1> QED BY <1>1, <1>2, Zenon DEF t

LEMMA LeftNone ==
    ASSUME NEW s
    PROVE  \A u : Left(s, s, u)
BY Zenon DEF Left

LEMMA PartAll ==
    ASSUME NEW s0 \in Good, NEW u \in User, NEW l \in Seq(Chan)
    PROVE  LET t == ForEach(LAMBDA s, c : IF Exists(s, c) THEN Remove_Client(s, c, u) ELSE s,
                             s0, l)
           IN t \in Good /\ Left(s0, t, u)
<1> DEFINE D == DOMAIN l
           Turn(s, c) == IF Exists(s, c) THEN Remove_Client(s, c, u) ELSE s
           V == {t \in Good : Left(s0, t, u)}
           Sol(it) == it = [s \in SUBSET D |->
                              IF s = {} THEN s0 ELSE Turn(it[s \ {Max(s)}], l[Max(s)])]
           it0 == CHOOSE it : Sol(it)
           pick == [s \in SUBSET D |-> Max(s)]
           step == [p \in D \X V |-> Turn(p[2], l[p[1]])]
<1>1. ForEach(LAMBDA s, c : IF Exists(s, c) THEN Remove_Client(s, c, u) ELSE s, s0, l) = it0[D]
  <2>1. ForEach(LAMBDA s, c : IF Exists(s, c) THEN Remove_Client(s, c, u) ELSE s, s0, l) = ForEach(Turn, s0, l)
    BY Zenon
  <2> HIDE DEF Turn
  <2>2. ForEach(Turn, s0, l) = it0[D]
    BY Zenon DEF ForEach, MapThenFoldSet
  <2> QED BY <2>1, <2>2, Zenon
<1>2. IsFiniteSet(D) /\ D \subseteq Nat
  <2>1. D = 1 .. Len(l) /\ Len(l) \in Nat
    OBVIOUS
  <2>2. IsFiniteSet(1 .. Len(l))
    BY <2>1, FS_Interval
  <2> HIDE DEF D
  <2> QED BY <2>1, <2>2
<1>3. \A s \in SUBSET D : s # {} => Max(s) \in s
  <2> HIDE DEF D
  <2> QED BY <1>2, MaxNatural, FS_Subset, Zenon
<1>4. \A i \in D, r \in V : Turn(r, l[i]) \in V
  <2> HIDE DEF D
  <2>1. ASSUME NEW c, NEW r \in V PROVE Turn(r, c) \in V
    <3>1. r \in Good /\ Left(s0, r, u)
      OBVIOUS
    <3> HIDE DEF V
    <3>2. Turn(r, c) \in Good /\ Left(s0, Turn(r, c), u)
      BY <3>1, LeftOne, Zenon DEF Exists
    <3> HIDE DEF Turn
    <3> QED BY <3>2 DEF V
  <2> QED BY <2>1
<1>5. s0 \in V
  BY LeftNone
<1>6. \E it : Sol(it)
  <2> HIDE DEF Turn, D, V
  <2>1. step \in [D \X V -> V]
    BY <1>4
  <2>2. Folding(D, V, s0, pick, step)
    <3> HIDE DEF step
    <3> QED BY <1>2, <1>3, <1>5, <2>1 DEF Folding
  <2> HIDE DEF step, pick
  <2>3. PICK g \in [SUBSET D -> V] : FoldEquations(g, D, s0, pick, step)
    BY <2>2, FoldExists, Zenon
  <2> USE DEF FoldEquations, step, pick
  <2>4. \A s \in SUBSET D :
          g[s] = IF s = {} THEN s0 ELSE Turn(g[s \ {Max(s)}], l[Max(s)])
    <3> TAKE s \in SUBSET D
    <3>1. CASE s # {}
      <4>1. Max(s) \in D /\ pick[s] = Max(s) /\ g[s \ {Max(s)}] \in V
        BY <1>3, <3>1
      <4>2. step[<<Max(s), g[s \ {Max(s)}]>>] = Turn(g[s \ {Max(s)}], l[Max(s)])
        BY <4>1
      <4> HIDE DEF step, pick
      <4> QED BY <2>3, <3>1, <4>1, <4>2, Zenon
    <3> QED BY <2>3, <3>1, Zenon
  <2> QED BY <2>3, <2>4, Zenon
<1>7. Sol(it0)
  <2> HIDE DEF Sol
  <2> QED BY <1>6
<1> HIDE DEF it0, Turn, D, V
<1>8. it0[{}] \in V
  BY <1>5, <1>7
<1>9. \A s \in SUBSET D : s # {} => \E x \in s : it0[s \ {x}] \in V => it0[s] \in V
  <2> SUFFICES ASSUME NEW s \in SUBSET D, s # {}, it0[s \ {Max(s)}] \in V
               PROVE  it0[s] \in V
    BY <1>3, Zenon
  <2>1. it0[s] = Turn(it0[s \ {Max(s)}], l[Max(s)])
    BY <1>7, Zenon
  <2>2. Max(s) \in D
    BY <1>3
  <2> HIDE DEF Sol
  <2> QED BY <1>4, <2>1, <2>2
<1>10. it0[D] \in V
  <2> HIDE DEF Sol
  <2> QED BY <1>2, <1>8, <1>9, FoldIn, Zenon
<1> QED BY <1>1, <1>10, Zenon DEF V
=============================================================================
