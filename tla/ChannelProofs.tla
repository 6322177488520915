-------------------------- MODULE ChannelProofs --------------------------
(***************************************************************************)
(* Theorems about the channels of one server, for every number of users    *)
(* and channels and every list of names and changes a command may have.    *)
(* Every step is one of the relations of ChannelFacts (Steps), and the     *)
(* properties follow from the relations.                                   *)
(***************************************************************************)
EXTENDS ChannelFacts, ChannelInfo

-----------------------------------------------------------------------------
(* Leaving on the command of another, and with the connection              *)
LEMMA KickOne ==
    ASSUME NEW s0 \in Good, NEW s \in Good, NEW from, NEW u \in User, Kicked(s0, s, from, u), NEW c
    PROVE  LET t == Channel_Kick(s, c, from, u, FALSE)
           IN t \in Good /\ Kicked(s0, t, from, u)
<1> DEFINE t == Channel_Kick(s, c, from, u, FALSE)
<1>1. CASE t = s
  BY <1>1, Zenon
<1>2. CASE t # s
  <2>1. /\ t = Remove_Client(s, c, u) /\ c \in DOMAIN s.chan /\ <<c, u>> \in DOMAIN s.member
        /\ <<c, from>> \in DOMAIN s.member /\ Outranks(s, c, from, u)
    BY <1>2 DEF Channel_Kick, Exists, Channel_IsMemberOf
  <2>2. Left(s0, s, u) /\ s.oper = s0.oper
    BY DEF Kicked
  <2> HIDE DEF t
  <2>3. /\ t \in Good /\ Left(s0, t, u) /\ t.oper = s.oper
        /\ \A p \in DOMAIN s.member \ DOMAIN t.member : p = <<c, u>>
    BY <2>1, <2>2, LeftOne, Zenon
  <2>4. <<c, from>> \in DOMAIN s0.member /\ Outranks(s0, c, from, u)
    <3>1. s.member[<<c, from>>] = s0.member[<<c, from>>]
          /\ s.member[<<c, u>>] = s0.member[<<c, u>>] /\ s.oper = s0.oper
          /\ <<c, from>> \in DOMAIN s0.member
      BY <2>1, <2>2 DEF Left
    <3> QED BY <2>1, <3>1 DEF Outranks, UserHas
  <2>5. ASSUME NEW p \in DOMAIN s0.member \ DOMAIN t.member
        PROVE  <<p[1], from>> \in DOMAIN s0.member /\ Outranks(s0, p[1], from, u)
    <3>1. CASE p \in DOMAIN s.member
      BY <2>3, <2>4, <2>5, <3>1
    <3>2. CASE p \notin DOMAIN s.member
      BY <2>5, <3>2 DEF Kicked
    <3> QED BY <3>1, <3>2
  <2> QED BY <2>2, <2>3, <2>5, Zenon DEF Kicked, t
<1> QED BY <1>1, <1>2, Zenon

LEMMA KickAll ==
    ASSUME NEW s0 \in Good, NEW from \in User, NEW u \in User, NEW l \in Seq(Chan)
    PROVE  LET t == ForEach(LAMBDA s, c : Channel_Kick(s, c, from, u, FALSE), s0, l)
           IN t \in Good /\ Kicked(s0, t, from, u)
<1> DEFINE D == DOMAIN l
           Turn(s, c) == Channel_Kick(s, c, from, u, FALSE)
           V == {t \in Good : Kicked(s0, t, from, u)}
           Sol(it) == it = [s \in SUBSET D |->
                              IF s = {} THEN s0 ELSE Turn(it[s \ {Max(s)}], l[Max(s)])]
           it0 == CHOOSE it : Sol(it)
           pick == [s \in SUBSET D |-> Max(s)]
           step == [p \in D \X V |-> Turn(p[2], l[p[1]])]
<1>1. ForEach(LAMBDA s, c : Channel_Kick(s, c, from, u, FALSE), s0, l) = it0[D]
  <2>1. ForEach(LAMBDA s, c : Channel_Kick(s, c, from, u, FALSE), s0, l) = ForEach(Turn, s0, l)
    BY Zenon
  <2> HIDE DEF Turn
  <2>2. ForEach(Turn, s0, l) = it0[D]
    BY Zenon DEF ForEach, MapThenFoldSet
  <2> QED BY <2>1, <2>2, Zenon
<1>2. IsFiniteSet(D) /\ D \subseteq Nat
  <2>1. D = 1 .. Len(l) /\ Len(l) \in Nat
    OBVIOUS
  <2>2. IsFiniteSet(1 .. Len(l))
    BY <2>1, FS_Interval
  <2> HIDE DEF D
  <2> QED BY <2>1, <2>2
<1>3. \A s \in SUBSET D : s # {} => Max(s) \in s
  <2> HIDE DEF D
  <2> QED BY <1>2, MaxNatural, FS_Subset, Zenon
<1>4. \A i \in D, r \in V : Turn(r, l[i]) \in V
  <2> HIDE DEF D
  <2>1. ASSUME NEW c, NEW r \in V PROVE Turn(r, c) \in V
    <3>1. r \in Good /\ Kicked(s0, r, from, u)
      OBVIOUS
    <3> HIDE DEF V
    <3>2. Turn(r, c) \in Good /\ Kicked(s0, Turn(r, c), from, u)
      BY <3>1, KickOne, Zenon
    <3> HIDE DEF Turn
    <3> QED BY <3>2 DEF V
  <2> QED BY <2>1, Zenon
<1>5. s0 \in V
  BY LeftNone DEF Kicked
<1>6. \E it : Sol(it)
  <2> HIDE DEF Turn, D, V
  <2>1. step \in [D \X V -> V]
    BY <1>4
  <2>2. Folding(D, V, s0, pick, step)
    <3> HIDE DEF step
    <3> QED BY <1>2, <1>3, <1>5, <2>1 DEF Folding
  <2> HIDE DEF step, pick
  <2>3. PICK g \in [SUBSET D -> V] : FoldEquations(g, D, s0, pick, step)
    BY <2>2, FoldExists, Zenon
  <2> USE DEF FoldEquations, step, pick
  <2>4. \A s \in SUBSET D :
          g[s] = IF s = {} THEN s0 ELSE Turn(g[s \ {Max(s)}], l[Max(s)])
    <3> TAKE s \in SUBSET D
    <3>1. CASE s # {}
      <4>1. Max(s) \in D /\ pick[s] = Max(s) /\ g[s \ {Max(s)}] \in V
        BY <1>3, <3>1
      <4>2. step[<<Max(s), g[s \ {Max(s)}]>>] = Turn(g[s \ {Max(s)}], l[Max(s)])
        BY <4>1
      <4> HIDE DEF step, pick
      <4> QED BY <2>3, <3>1, <4>1, <4>2, Zenon
    <3> QED BY <2>3, <3>1, Zenon
  <2> QED BY <2>3, <2>4, Zenon
<1>7. Sol(it0)
  <2> HIDE DEF Sol
  <2> QED BY <1>6
<1> HIDE DEF it0, Turn, D, V
<1>8. it0[{}] \in V
  BY <1>5, <1>7
<1>9. \A s \in SUBSET D : s # {} => \E x \in s : it0[s \ {x}] \in V => it0[s] \in V
  <2> SUFFICES ASSUME NEW s \in SUBSET D, s # {}, it0[s \ {Max(s)}] \in V
               PROVE  it0[s] \in V
    BY <1>3, Zenon
  <2>1. it0[s] = Turn(it0[s \ {Max(s)}], l[Max(s)])
    BY <1>7, Zenon
  <2>2. Max(s) \in D
    BY <1>3
  <2> HIDE DEF Sol
  <2> QED BY <1>4, <2>1, <2>2
<1>10. it0[D] \in V
  <2> HIDE DEF Sol
  <2> QED BY <1>2, <1>8, <1>9, FoldIn, Zenon
<1> QED BY <1>1, <1>10, Zenon DEF V

LEMMA QuitAll ==
    ASSUME NEW s0 \in Good, NEW u \in User
    PROVE  LET t == Channel_Quit(s0, u) IN t \in Good /\ Left(s0, t, u)
<1> DEFINE D == Chan
           Turn(c, s) == IF Exists(s, c) THEN Remove_Client(s, c, u) ELSE s
           Some(s) == CHOOSE x \in s : TRUE
           V == {t \in Good : Left(s0, t, u)}
           Sol(it) == it = [s \in SUBSET D |->
                              IF s = {} THEN s0 ELSE Turn(Some(s), it[s \ {Some(s)}])]
           it0 == CHOOSE it : Sol(it)
           pick == [s \in SUBSET D |-> Some(s)]
           step == [p \in D \X V |-> Turn(p[1], p[2])]
<1>1. Channel_Quit(s0, u) = it0[D]
  <2>1. Channel_Quit(s0, u) = FoldSet(Turn, s0, D)
    BY Zenon DEF Channel_Quit
  <2> HIDE DEF Turn
  <2>2. FoldSet(Turn, s0, D) = it0[D]
    BY Zenon DEF FoldSet, MapThenFoldSet
  <2> QED BY <2>1, <2>2
<1>2. IsFiniteSet(D)
  BY ChannelAssumption
<1>3. \A s \in SUBSET D : s # {} => Some(s) \in s
  <2> HIDE DEF D
  <2> QED OBVIOUS
<1>4. \A i \in D, r \in V : Turn(i, r) \in V
  <2> HIDE DEF D
  <2>1. ASSUME NEW c, NEW r \in V PROVE Turn(c, r) \in V
    <3>1. r \in Good /\ Left(s0, r, u)
      OBVIOUS
    <3> HIDE DEF V
    <3>2. Turn(c, r) \in Good /\ Left(s0, Turn(c, r), u)
      BY <3>1, LeftOne, Zenon DEF Exists
    <3> HIDE DEF Turn
    <3> QED BY <3>2 DEF V
  <2> QED BY <2>1
<1>5. s0 \in V
  BY LeftNone
<1>6. \E it : Sol(it)
  <2> HIDE DEF Turn, D, V, Some
  <2>1. step \in [D \X V -> V]
    BY <1>4
  <2>2. Folding(D, V, s0, pick, step)
    <3> HIDE DEF step
    <3> QED BY <1>2, <1>3, <1>5, <2>1 DEF Folding
  <2> HIDE DEF step, pick
  <2>3. PICK g \in [SUBSET D -> V] : FoldEquations(g, D, s0, pick, step)
    BY <2>2, FoldExists, Zenon
  <2> USE DEF FoldEquations, step, pick
  <2>4. \A s \in SUBSET D :
          g[s] = IF s = {} THEN s0 ELSE Turn(Some(s), g[s \ {Some(s)}])
    <3> TAKE s \in SUBSET D
    <3>1. CASE s # {}
      <4>1. Some(s) \in D /\ pick[s] = Some(s) /\ g[s \ {Some(s)}] \in V
        BY <1>3, <3>1
      <4>2. step[<<Some(s), g[s \ {Some(s)}]>>] = Turn(Some(s), g[s \ {Some(s)}])
        BY <4>1
      <4> HIDE DEF step, pick
      <4> QED BY <2>3, <3>1, <4>1, <4>2
    <3> QED BY <2>3, <3>1, Zenon
  <2> HIDE DEF FoldEquations, step, pick
  <2>5. Sol(g)
    BY <2>4
  <2> HIDE DEF Sol
  <2> QED BY <2>5
<1>7. Sol(it0)
  <2> HIDE DEF Sol
  <2> QED BY <1>6
<1> HIDE DEF it0, Turn, D, V, Some
<1>8. it0[{}] \in V
  BY <1>5, <1>7
<1>9. \A s \in SUBSET D : s # {} => \E x \in s : it0[s \ {x}] \in V => it0[s] \in V
  <2> SUFFICES ASSUME NEW s \in SUBSET D, s # {}, it0[s \ {Some(s)}] \in V
               PROVE  it0[s] \in V
    BY <1>3
  <2>1. it0[s] = Turn(Some(s), it0[s \ {Some(s)}])
    BY <1>7, Zenon
  <2>2. Some(s) \in D
    BY <1>3
  <2> HIDE DEF Sol
  <2> QED BY <1>4, <2>1, <2>2
<1>10. it0[D] \in V
  <2> HIDE DEF Sol
  <2> QED BY <1>2, <1>8, <1>9, FoldIn, Zenon
<1> QED BY <1>1, <1>10 DEF V

-----------------------------------------------------------------------------
(* Channels of the configuration                                           *)
LEMMA ProvideOne ==
    ASSUME NEW s0, NEW s \in Good, Provided(s0, s), NEW c \in DOMAIN Predefined
    PROVE  LET t == IF Exists(s, c) THEN s
                    ELSE Channel_ModeAdd(Channel_Create(s, c), c,
                            {"P"} \cup IF c \in Modeless THEN {} ELSE Predefined[c])
           IN t \in Good /\ Provided(s0, t)
<1> DEFINE ms == {"P"} \cup IF c \in Modeless THEN {} ELSE Predefined[c]
           s1 == Channel_Create(s, c)
           t == Channel_ModeAdd(s1, c, ms)
<1>1. CASE Exists(s, c)
  BY <1>1
<1>2. CASE ~Exists(s, c)
  <2>1. c \in Chan \ DOMAIN s.chan
    BY <1>2, ChannelAssumption DEF Exists
  <2>2. ms \in SUBSET AnyMode
    <3>1. "P" \in AnyMode
      BY DEF AnyMode, ChannelMode
    <3> QED BY <3>1, ChannelAssumption, Zenon
  <2> HIDE DEF ms
  <2>3. /\ s1 \in Good /\ s1.oper = s.oper /\ s1.member = s.member
        /\ DOMAIN s1.chan = DOMAIN s.chan \cup {c}
        /\ \A d \in DOMAIN s.chan : s1.chan[d] = s.chan[d]
        /\ s1.chan[c].invites = <<>>
    BY <2>1, Created
  <2> HIDE DEF s1
  <2>4. /\ t \in Good /\ t.oper = s1.oper /\ t.member = s1.member
        /\ DOMAIN t.chan = DOMAIN s1.chan
        /\ \A d \in DOMAIN s1.chan \ {c} : t.chan[d] = s1.chan[d]
        /\ t.chan[c].invites = s1.chan[c].invites
    BY <2>2, <2>3, Moded, Zenon
  <2> HIDE DEF t
  <2>5. Provided(s0, t)
    BY <2>1, <2>3, <2>4 DEF Provided
  <2> QED BY <1>2, <2>4, <2>5, Zenon DEF t, s1, ms
<1> QED BY <1>1, <1>2, Zenon

LEMMA ProvideAll ==
    ASSUME NEW s0 \in Good
    PROVE  LET t == Channel_InitPredefined(s0) IN t \in Good /\ Provided(s0, t)
<1> DEFINE D == DOMAIN Predefined
           Turn(c, s) == IF Exists(s, c) THEN s
                         ELSE Channel_ModeAdd(Channel_Create(s, c), c,
                                 {"P"} \cup IF c \in Modeless THEN {} ELSE Predefined[c])
           Some(s) == CHOOSE x \in s : TRUE
           V == {t \in Good : Provided(s0, t)}
           Sol(it) == it = [s \in SUBSET D |->
                              IF s = {} THEN s0 ELSE Turn(Some(s), it[s \ {Some(s)}])]
           it0 == CHOOSE it : Sol(it)
           pick == [s \in SUBSET D |-> Some(s)]
           step == [p \in D \X V |-> Turn(p[1], p[2])]
<1>1. Channel_InitPredefined(s0) = it0[D]
  <2>1. Channel_InitPredefined(s0) = FoldSet(Turn, s0, D)
    BY Zenon DEF Channel_InitPredefined
  <2> HIDE DEF Turn
  <2>2. FoldSet(Turn, s0, D) = it0[D]
    BY Zenon DEF FoldSet, MapThenFoldSet
  <2> QED BY <2>1, <2>2
<1>2. IsFiniteSet(D)
  BY ChannelAssumption, FS_Subset
<1>3. \A s \in SUBSET D : s # {} => Some(s) \in s
  <2> HIDE DEF D
  <2> QED OBVIOUS
<1>4. \A i \in D, r \in V : Turn(i, r) \in V
  <2>1. ASSUME NEW c \in D, NEW r \in V PROVE Turn(c, r) \in V
    <3>1. r \in Good /\ Provided(s0, r)
      OBVIOUS
    <3>2. c \in DOMAIN Predefined
      OBVIOUS
    <3> HIDE DEF V, D
    <3>3. Turn(c, r) \in Good /\ Provided(s0, Turn(c, r))
      BY <3>1, <3>2, ProvideOne
    <3> HIDE DEF Turn
    <3> QED BY <3>3 DEF V
  <2> QED BY <2>1
<1>5. s0 \in V
  BY DEF Provided
<1>6. \E it : Sol(it)
  <2> HIDE DEF Turn, D, V, Some
  <2>1. step \in [D \X V -> V]
    BY <1>4
  <2>2. Folding(D, V, s0, pick, step)
    <3> HIDE DEF step
    <3> QED BY <1>2, <1>3, <1>5, <2>1 DEF Folding
  <2> HIDE DEF step, pick
  <2>3. PICK g \in [SUBSET D -> V] : FoldEquations(g, D, s0, pick, step)
    BY <2>2, FoldExists, Zenon
  <2> USE DEF FoldEquations, step, pick
  <2>4. \A s \in SUBSET D :
          g[s] = IF s = {} THEN s0 ELSE Turn(Some(s), g[s \ {Some(s)}])
    <3> TAKE s \in SUBSET D
    <3>1. CASE s # {}
      <4>1. Some(s) \in D /\ pick[s] = Some(s) /\ g[s \ {Some(s)}] \in V
        BY <1>3, <3>1
      <4>2. step[<<Some(s), g[s \ {Some(s)}]>>] = Turn(Some(s), g[s \ {Some(s)}])
        BY <4>1
      <4> HIDE DEF step, pick
      <4> QED BY <2>3, <3>1, <4>1, <4>2
    <3> QED BY <2>3, <3>1, Zenon
  <2> HIDE DEF FoldEquations, step, pick
  <2>5. Sol(g)
    BY <2>4
  <2> HIDE DEF Sol
  <2> QED BY <2>5
<1>7. Sol(it0)
  <2> HIDE DEF Sol
  <2> QED BY <1>6
<1> HIDE DEF it0, Turn, D, V, Some
<1>8. it0[{}] \in V
  BY <1>5, <1>7
<1>9. \A s \in SUBSET D : s # {} => \E x \in s : it0[s \ {x}] \in V => it0[s] \in V
  <2> SUFFICES ASSUME NEW s \in SUBSET D, s # {}, it0[s \ {Some(s)}] \in V
               PROVE  it0[s] \in V
    BY <1>3
  <2>1. it0[s] = Turn(Some(s), it0[s \ {Some(s)}])
    BY <1>7, Zenon
  <2>2. Some(s) \in D
    BY <1>3
  <2> HIDE DEF Sol
  <2> QED BY <1>4, <2>1, <2>2
<1>10. it0[D] \in V
  <2> HIDE DEF Sol
  <2> QED BY <1>2, <1>8, <1>9, FoldIn
<1> QED BY <1>1, <1>10 DEF V

LEMMA StartGood ==
    LET s == [chan |-> <<>>, member |-> <<>>, oper |-> {}]
    IN s \in Good /\ DOMAIN s.member = {} /\ DOMAIN s.chan = {}
<1> DEFINE s == [chan |-> <<>>, member |-> <<>>, oper |-> {}]
<1>1. <<>> \in [{} -> Room] /\ <<>> \in [{} -> SUBSET UserMode] /\ DOMAIN <<>> = {}
  OBVIOUS
<1>2. s.chan = <<>> /\ s.member = <<>>
  OBVIOUS
<1>3. s \in State
  <2> DEFINE e == <<>>
             n == {}
  <2>1. e \in [n -> Room] /\ e \in [n -> SUBSET UserMode] /\ n \in SUBSET Chan
        /\ n \in SUBSET (Chan \X User) /\ n \in SUBSET Oper
    BY <1>1
  <2> HIDE DEF e, n
  <2>2. [chan |-> e, member |-> e, oper |-> n] \in State
    BY <2>1, StateOf
  <2> QED BY <2>2 DEF e, n
<1> HIDE DEF s
<1>4. Seated(s) /\ \A c \in DOMAIN s.chan : Fair(s.chan[c].invites)
  BY <1>1, <1>2 DEF Seated
<1>5. Limited(s)
  <2>1. \A u \in User : Channel_CountForUser(s, u) = 0
    <3> TAKE u \in User
    <3>1. Mine(s, u) = {}
      BY <1>1, <1>2 DEF Mine
    <3>2. Cardinality(Mine(s, u)) = 0
      BY <3>1, FS_EmptySet
    <3> QED BY <3>2, Counted1
  <2> QED BY <2>1, ChannelAssumption DEF Limited
<1>6. s \in Good
  BY <1>3, <1>4, <1>5 DEF Good
<1> QED BY <1>1, <1>2, <1>6 DEF s

-----------------------------------------------------------------------------
(* MODE                                                                    *)
LEMMA FewerRefl ==
    ASSUME NEW l
    PROVE  Fewer(l, l)
BY DEF Fewer

LEMMA FewerTrans ==
    ASSUME NEW l, NEW m, NEW n, Fewer(l, m), Fewer(m, n)
    PROVE  Fewer(l, n)
<1> SUFFICES ASSUME NEW i \in DOMAIN l, l[i].onlyonce PROVE \E j \in DOMAIN n : l[i] = n[j]
  BY DEF Fewer
<1>1. PICK k \in DOMAIN m : l[i] = m[k]
  BY DEF Fewer
<1> QED BY <1>1 DEF Fewer

\* What a change of a channel's own record leaves alone.
Reroomed(s, t, c) ==
    /\ t \in Good /\ t.oper = s.oper /\ t.member = s.member
    /\ DOMAIN t.chan = DOMAIN s.chan
    /\ \A d \in DOMAIN s.chan \ {c} : t.chan[d] = s.chan[d]
    /\ Fewer(t.chan[c].invites, s.chan[c].invites)

LEMMA Relisted ==
    ASSUME NEW s \in Good, NEW c \in DOMAIN s.chan, NEW x \in {"bans", "excepts", "invites"},
           NEW l \in List,
           x = "invites" => Fair(l) /\ Fewer(l, s.chan[c].invites)
    PROVE  Reroomed(s, [s EXCEPT !.chan[c][x] = l], c)
<1> DEFINE r == [s.chan[c] EXCEPT ![x] = l]
           t == [chan |-> [s.chan EXCEPT ![c] = r], member |-> s.member, oper |-> s.oper]
<1>1. s \in State /\ s.chan[c] \in Room /\ Fair(s.chan[c].invites)
  BY GoodParts
<1>2. s = [chan |-> s.chan, member |-> s.member, oper |-> s.oper]
      /\ s.chan \in [DOMAIN s.chan -> Room]
  BY <1>1, StateParts
<1>3. [s EXCEPT !.chan[c][x] = l] = t
  BY <1>2
<1>4. r \in Room /\ r.invites = IF x = "invites" THEN l ELSE s.chan[c].invites
  <2>1. CASE x = "bans"
    BY <1>1, <2>1 DEF Room
  <2>2. CASE x = "excepts"
    BY <1>1, <2>2 DEF Room
  <2>3. CASE x = "invites"
    BY <1>1, <2>3 DEF Room
  <2> QED BY <2>1, <2>2, <2>3
<1> HIDE DEF r
<1>5. Fair(r.invites) /\ Fewer(r.invites, s.chan[c].invites)
  BY <1>1, <1>4, FewerRefl
<1>6. t.oper = s.oper /\ t.member = s.member
  OBVIOUS
<1>7. t \in Good /\ DOMAIN t.chan = DOMAIN s.chan /\ t.chan[c] = r
      /\ \A d \in DOMAIN s.chan \ {c} : t.chan[d] = s.chan[d]
  BY <1>4, <1>5, Renewed
<1> HIDE DEF t
<1>8. Reroomed(s, t, c)
  BY <1>5, <1>6, <1>7 DEF Reroomed
<1> QED BY <1>3, <1>8

LEMMA Reset ==
    ASSUME NEW s \in Good, NEW c \in DOMAIN s.chan, NEW a \in SUBSET AnyMode,
           NEW b \in Key \cup {NoArg}, NEW n \in Nat
    PROVE  Reroomed(s, [s EXCEPT !.chan[c].modes = a, !.chan[c].key = b,
                                 !.chan[c].maxusers = n], c)
<1> DEFINE r == [s.chan[c] EXCEPT !.modes = a, !.key = b, !.maxusers = n]
           t == [chan |-> [s.chan EXCEPT ![c] = r], member |-> s.member, oper |-> s.oper]
<1>1. s \in State /\ s.chan[c] \in Room /\ Fair(s.chan[c].invites)
  BY GoodParts
<1>2. s = [chan |-> s.chan, member |-> s.member, oper |-> s.oper]
      /\ s.chan \in [DOMAIN s.chan -> Room]
  BY <1>1, StateParts
<1>3. [s EXCEPT !.chan[c].modes = a, !.chan[c].key = b, !.chan[c].maxusers = n] = t
  <2> DEFINE r1 == [s.chan[c] EXCEPT !.modes = a]
             r2 == [r1 EXCEPT !.key = b]
             t1 == [chan |-> [s.chan EXCEPT ![c] = r1], member |-> s.member, oper |-> s.oper]
             t2 == [chan |-> [s.chan EXCEPT ![c] = r2], member |-> s.member, oper |-> s.oper]
  <2>1. [s EXCEPT !.chan[c].modes = a] = t1
    BY <1>2
  <2> HIDE DEF r1
  <2>2. [t1 EXCEPT !.chan[c].key = b] = t2
    BY <1>2
  <2> HIDE DEF r2
  <2>3. [t2 EXCEPT !.chan[c].maxusers = n]
          = [chan |-> [s.chan EXCEPT ![c] = [r2 EXCEPT !.maxusers = n]],
             member |-> s.member, oper |-> s.oper]
    BY <1>2
  <2>4. r = [r2 EXCEPT !.maxusers = n]
    BY DEF r1, r2
  <2> HIDE DEF t1, t2, r
  <2> QED BY <2>1, <2>2, <2>3, <2>4, Zenon
<1>4. r \in Room /\ r.invites = s.chan[c].invites
  BY <1>1, Zenon DEF Room
<1> HIDE DEF r
<1>5. Fair(r.invites) /\ Fewer(r.invites, s.chan[c].invites)
  BY <1>1, <1>4, FewerRefl
<1>6. t.oper = s.oper /\ t.member = s.member
  OBVIOUS
<1>7. t \in Good /\ DOMAIN t.chan = DOMAIN s.chan /\ t.chan[c] = r
      /\ \A d \in DOMAIN s.chan \ {c} : t.chan[d] = s.chan[d]
  BY <1>4, <1>5, Renewed
<1> HIDE DEF t
<1>8. Reroomed(s, t, c)
  BY <1>5, <1>6, <1>7 DEF Reroomed
<1> QED BY <1>3, <1>8

\* One change: of the modes of one member, or of the channel's own record.
Changed(s, t, c, m) ==
    /\ t \in Good /\ t.oper = s.oper
    /\ DOMAIN t.chan = DOMAIN s.chan /\ DOMAIN t.member = DOMAIN s.member
    /\ \A d \in DOMAIN s.chan \ {c} : t.chan[d] = s.chan[d]
    /\ Fewer(t.chan[c].invites, s.chan[c].invites)
    /\ \A p \in DOMAIN s.member :
         /\ p[1] # c => t.member[p] = s.member[p]
         /\ \A k \in UserMode \ {m} : k \in t.member[p] <=> k \in s.member[p]

LEMMA ReroomedChanged ==
    ASSUME NEW s, NEW t, NEW c, Reroomed(s, t, c)
    PROVE  \A m : Changed(s, t, c, m)
BY DEF Reroomed, Changed

LEMMA ChangedNone ==
    ASSUME NEW s \in Good
    PROVE  \A c, m : Changed(s, s, c, m)
BY FewerRefl DEF Changed

LEMMA ChangeMember ==
    ASSUME NEW s \in Good, NEW c, NEW u, <<c, u>> \in DOMAIN s.member,
           NEW m \in UserMode, NEW set \in BOOLEAN
    PROVE  Changed(s, [s EXCEPT !.member[<<c, u>>] = IF set THEN @ \cup {m} ELSE @ \ {m}], c, m)
<1> DEFINE p == <<c, u>>
           ms == IF set THEN s.member[p] \cup {m} ELSE s.member[p] \ {m}
           x == [s EXCEPT !.member[<<c, u>>] = IF set THEN @ \cup {m} ELSE @ \ {m}]
           t == [chan |-> s.chan, member |-> [s.member EXCEPT ![p] = ms], oper |-> s.oper]
<1>1. s \in State
  BY GoodParts
<1>2. s = [chan |-> s.chan, member |-> s.member, oper |-> s.oper]
      /\ s.member \in [DOMAIN s.member -> SUBSET UserMode]
  BY <1>1, StateParts
<1>3. ms \in SUBSET UserMode /\ \A k \in UserMode \ {m} : k \in ms <=> k \in s.member[p]
  BY <1>2
<1>4. p \in DOMAIN s.member /\ p[1] = c
  OBVIOUS
<1>5. x = [s EXCEPT !.member[p] = ms]
  BY Zenon
<1> HIDE DEF p, ms, x
<1>6. [s EXCEPT !.member[p] = ms] = t
  BY <1>2
<1>7. t.oper = s.oper /\ t.chan = s.chan
  OBVIOUS
<1>8. t \in Good /\ DOMAIN t.member = DOMAIN s.member /\ t.member[p] = ms
      /\ \A q \in DOMAIN s.member \ {p} : t.member[q] = s.member[q]
  BY <1>3, <1>4, Reseated
<1> HIDE DEF t
<1>9. Fewer(t.chan[c].invites, s.chan[c].invites)
  BY <1>7, FewerRefl
<1>10. \A q \in DOMAIN s.member :
         /\ q[1] # c => t.member[q] = s.member[q]
         /\ \A k \in UserMode \ {m} : k \in t.member[q] <=> k \in s.member[q]
  BY <1>3, <1>4, <1>8
<1>11. Changed(s, t, c, m)
  BY <1>7, <1>8, <1>9, <1>10 DEF Changed
<1> QED BY <1>5, <1>6, <1>11 DEF x

LEMMA ChangeMasks ==
    ASSUME NEW s \in Good, NEW c \in DOMAIN s.chan, NEW x \in {"bans", "excepts", "invites"},
           NEW mask \in SUBSET User
    PROVE  /\ Reroomed(s, [s EXCEPT !.chan[c][x] = Lists_Add(@, mask, FALSE)], c)
           /\ Reroomed(s, [s EXCEPT !.chan[c][x] = Lists_Del(@, mask)], c)
<1> DEFINE l == s.chan[c][x]
           m == Lists_Add(l, mask, FALSE)
           n == Lists_Del(l, mask)
<1>1. s.chan[c] \in Room /\ Fair(s.chan[c].invites)
  BY GoodParts
<1>2. l \in List /\ (x = "invites" => l = s.chan[c].invites)
  <2>1. s.chan[c].bans \in List /\ s.chan[c].excepts \in List /\ s.chan[c].invites \in List
    BY <1>1, RoomFields
  <2> QED BY <2>1
<1> HIDE DEF l
<1>3. m \in List /\ (Fair(l) => Fair(m)) /\ Fewer(m, l)
  <2> DEFINE off == FALSE
  <2>1. off \in BOOLEAN /\ ~off
    OBVIOUS
  <2>2. m = Lists_Add(l, mask, off)
    OBVIOUS
  <2> HIDE DEF off, m
  <2>3. /\ m \in List
        /\ \A i \in DOMAIN m : \/ \E j \in DOMAIN l : m[i] = l[j]
                               \/ m[i] = [mask |-> mask, onlyonce |-> off] /\ m # l
        /\ Fair(l) /\ (off => \E u \in User : mask = {u}) => Fair(m)
    BY <1>2, <2>1, <2>2, ListsAdd
  <2>4. [mask |-> mask, onlyonce |-> off].onlyonce = off
    OBVIOUS
  <2>5. Fewer(m, l)
    BY <2>1, <2>3, <2>4 DEF Fewer
  <2> QED BY <2>1, <2>3, <2>5
<1>4. n \in List /\ (Fair(l) => Fair(n)) /\ Fewer(n, l)
  BY <1>2, ListsDel DEF Fewer
<1> HIDE DEF m, n
<1>5. Reroomed(s, [s EXCEPT !.chan[c][x] = m], c)
  BY <1>1, <1>2, <1>3, Relisted
<1>6. Reroomed(s, [s EXCEPT !.chan[c][x] = n], c)
  BY <1>1, <1>2, <1>4, Relisted
<1> QED BY <1>5, <1>6, Zenon DEF m, n, l

LEMMA ChangeDone ==
    ASSUME NEW s \in Good, NEW c \in DOMAIN s.chan, NEW ch, IsChange(ch), ~BadArg(ch)
    PROVE  Changed(s, Change(s, c, ch, FALSE), c, ch.m)
<1> DEFINE t == Change(s, c, ch, FALSE)
<1>1. ch.set \in BOOLEAN /\ ch.m \in AnyMode \ {"r"}
      /\ (\/ ch.arg = NoArg
          \/ /\ ch.m \in UserMode => ch.arg \in User
             /\ ch.m \in DOMAIN ListOf => ch.arg \subseteq User
             /\ ch.m = "k" => ch.arg \in Key \cup {BadKey}
             /\ ch.m = "l" => ch.arg \in Nat)
  BY DEF IsChange
<1>2. DOMAIN ListOf = {"b", "e", "I"} /\ DOMAIN ListOf \cap UserMode = {}
      /\ \A m \in DOMAIN ListOf : ListOf[m] \in {"bans", "excepts", "invites"}
  BY DEF ListOf, UserMode, HalfOp, Op
<1>3. CASE ch.m \in UserMode
  <2>1. t = IF ~Channel_IsMemberOf(s, c, ch.arg) THEN s
            ELSE [s EXCEPT !.member[<<c, ch.arg>>] =
                     IF ch.set THEN @ \cup {ch.m} ELSE @ \ {ch.m}]
    BY <1>2, <1>3, Zenon DEF Change
  <2> DEFINE w == [s EXCEPT !.member[<<c, ch.arg>>] =
                     IF ch.set THEN @ \cup {ch.m} ELSE @ \ {ch.m}]
  <2>2. Channel_IsMemberOf(s, c, ch.arg) => Changed(s, w, c, ch.m)
    BY <1>1, <1>3, ChangeMember, Zenon DEF Channel_IsMemberOf
  <2> HIDE DEF w, t
  <2> QED BY <2>1, <2>2, ChangedNone, Zenon DEF w, t
<1>4. CASE ch.m \in DOMAIN ListOf
  <2> DEFINE x == ListOf[ch.m]
             a == [s EXCEPT !.chan[c][x] = Lists_Add(@, ch.arg, FALSE)]
             d == [s EXCEPT !.chan[c][x] = Lists_Del(@, ch.arg)]
  <2>1. ch.m \notin UserMode
    BY <1>2, <1>4
  <2>2. t = IF ch.arg = NoArg THEN s
            ELSE IF ch.set THEN Add_To_List(s, c, x, ch.arg, FALSE) ELSE d
    BY <1>4, <2>1, Zenon DEF Change
  <2>3. Add_To_List(s, c, x, ch.arg, FALSE) = s \/ Add_To_List(s, c, x, ch.arg, FALSE) = a
    BY Zenon DEF Add_To_List
  <2>4. x \in {"bans", "excepts", "invites"}
    BY <1>2, <1>4
  <2> HIDE DEF x
  <2>5. ch.arg # NoArg => Reroomed(s, a, c) /\ Reroomed(s, d, c)
    BY <1>1, <1>4, <2>4, ChangeMasks, Zenon
  <2> HIDE DEF a, d, t
  <2> QED BY <2>2, <2>3, <2>5, ChangedNone, ReroomedChanged, Zenon DEF t
<1>5. CASE ch.m \notin UserMode /\ ch.m \notin DOMAIN ListOf
  <2> DEFINE r == s.chan[c]
             a == IF ch.set THEN r.modes \cup {ch.m} ELSE r.modes \ {ch.m}
             b == IF ch.m = "k" /\ ch.set THEN ch.arg ELSE r.key
             n == IF ch.m = "l" /\ ch.set THEN ch.arg ELSE r.maxusers
  <2>1. t = [s EXCEPT !.chan[c].modes = IF ch.set THEN @ \cup {ch.m} ELSE @ \ {ch.m},
                      !.chan[c].key = IF ch.m = "k" /\ ch.set THEN ch.arg ELSE @,
                      !.chan[c].maxusers = IF ch.m = "l" /\ ch.set THEN ch.arg ELSE @]
    BY <1>5, Zenon DEF Change
  <2>2. r.modes \in SUBSET AnyMode /\ r.key \in Key \cup {NoArg} /\ r.maxusers \in Nat
    BY GoodParts, RoomFields
  <2>3. a \in SUBSET AnyMode
    BY <1>1, <2>2
  <2>4. b \in Key \cup {NoArg} /\ n \in Nat
    <3>1. ch.m = "k" /\ ch.set => ch.arg \notin {NoArg, BadKey}
      BY DEF BadArg
    <3>2. ch.m = "l" /\ ch.set => ch.arg # NoArg
      BY DEF BadArg
    <3>3. b \in Key \cup {NoArg}
      BY <1>1, <2>2, <3>1
    <3>4. n \in Nat
      BY <1>1, <2>2, <3>2
    <3> QED BY <3>3, <3>4
  <2>5. t = [s EXCEPT !.chan[c].modes = a, !.chan[c].key = b, !.chan[c].maxusers = n]
    BY <2>1, Zenon
  <2> HIDE DEF a, b, n, t
  <2>6. Reroomed(s, t, c)
    BY <2>3, <2>4, <2>5, Reset, Zenon
  <2> QED BY <2>6, ReroomedChanged, Zenon DEF t
<1> QED BY <1>3, <1>4, <1>5, Zenon

\* The right to make a change comes with the rank that the change needs.
LEMMA RequiredNeed ==
    ASSUME NEW ch, NEW m \in HalfOp, m \in Required(ch)
    PROVE  ch.m \in HalfOp => Level(m) >= Need(ch.m)
<1>1. CASE ch.m = "q"
  BY <1>1 DEF Required, Level, Need
<1>2. CASE ch.m = "a"
  BY <1>2 DEF Required, Level, Need
<1>3. CASE ch.m = "o" \/ ch.m = "h"
  <2>1. Required(ch) = Op
    BY <1>3 DEF Required
  <2> QED BY <1>3, <2>1 DEF Level, Need, Op
<1> QED BY <1>1, <1>2, <1>3 DEF HalfOp, Op

Managed(s0, f, c, from) ==
    /\ Kept(s0, f.st, c)
    /\ from \notin s0.oper => Ruled(s0, f.st, f.rights, c, Rank(s0.member[<<c, from>>]))

\* The record of the loop in Channel_Mode.
Loop(changes) == [st : Good, rights : SUBSET HalfOp, count : Nat, done : BOOLEAN,
                  out : Seq(Range(changes))]

LEMMA KeptChanged ==
    ASSUME NEW s0, NEW s, NEW t, NEW c, NEW m, Kept(s0, s, c), Changed(s, t, c, m)
    PROVE  Kept(s0, t, c)
<1>1. Fewer(t.chan[c].invites, s0.chan[c].invites)
  BY FewerTrans DEF Kept, Changed
<1> QED BY <1>1 DEF Kept, Changed

LEMMA RuledRights ==
    ASSUME NEW s0 \in Good, NEW s, NEW rights, NEW c, NEW from, Kept(s0, s, c),
           <<c, from>> \in DOMAIN s0.member,
           Ruled(s0, s, rights, c, Rank(s0.member[<<c, from>>]))
    PROVE  Ruled(s0, s, rights \cup (s.member[<<c, from>>] \cap HalfOp), c,
                 Rank(s0.member[<<c, from>>]))
<1> DEFINE p == <<c, from>>
           r0 == Rank(s0.member[p])
<1>1. s0 \in State
  BY GoodParts
<1>2. s0.member[p] \in SUBSET UserMode
  BY <1>1, StateParts
<1>3. r0 \in 0 .. 4 /\ \A m \in HalfOp : m \in s0.member[p] => r0 >= Level(m)
  BY <1>2, RankFacts
<1> HIDE DEF r0
<1>4. \A m \in HalfOp : m \in s.member[p] => r0 >= Level(m)
  <2> TAKE m \in HalfOp
  <2> HAVE m \in s.member[p]
  <2>1. m \in s0.member[p] \/ r0 >= Need(m)
    BY DEF Ruled, r0
  <2> QED BY <1>3, <2>1, LevelFacts
<1> QED BY <1>4 DEF Ruled, r0

\* One turn of the loop: nothing but the rights, the count and the end of the command
\* change, or a change is made that the rights allow.
TurnDone(changes, f, t, c, from, ch) ==
    LET trusted == from \in f.st.oper /\ Conf_OperCanMode
        rights == f.rights \cup IF trusted THEN {} ELSE f.st.member[<<c, from>>] \cap HalfOp
        s == Change(f.st, c, ch, FALSE)
    IN \/ t = f
       \/ t \in Loop(changes) /\ t.st = f.st /\ t.rights = rights
       \/ /\ s \in Good => t \in Loop(changes)
          /\ t.st = s /\ t.rights = rights /\ ~BadArg(ch)
          /\ trusted \/ rights \cap Required(ch) # {}

LEMMA ModeTurn ==
    ASSUME NEW changes, NEW f \in Loop(changes), NEW c, NEW from, NEW ch \in Range(changes)
    PROVE  TurnDone(changes, f, Mode_Step(f, c, from, ch, FALSE), c, from, ch)
<1> DEFINE on == TRUE
           trusted == FALSE \/ (from \in f.st.oper /\ Conf_OperCanMode)
           rights == f.rights \cup IF trusted THEN {} ELSE f.st.member[<<c, from>>] \cap HalfOp
           n == IF ch.m \in Counted THEN f.count + 1 ELSE f.count
           g == [f EXCEPT !.rights = rights, !.count = n]
           may == trusted \/ rights \cap Required(ch) # {}
           limit == ch.m \in Counted /\ ~FALSE /\ f.count >= MAX_HNDL_MODES_ARG
           s == Change(f.st, c, ch, FALSE)
           o == IF s # f.st \/ (ch.m \in {"k", "l"} /\ ch.set) THEN Append(f.out, ch) ELSE f.out
           t == Mode_Step(f, c, from, ch, FALSE)
           stop == limit \/ (~may /\ ch.m \in ExitModes) \/ BadArg(ch)
<1>1. t = IF f.done THEN f
          ELSE IF stop THEN [g EXCEPT !.done = on]
          ELSE IF ~may THEN g
          ELSE [g EXCEPT !.st = s, !.out = o]
  BY Zenon DEF Mode_Step
<1>2. /\ f.st \in Good /\ f.rights \in SUBSET HalfOp /\ f.count \in Nat /\ f.done \in BOOLEAN
      /\ f.out \in Seq(Range(changes))
  BY DEF Loop
<1>3. rights \in SUBSET HalfOp /\ n \in Nat
  BY <1>2
<1>4. o \in Seq(Range(changes))
  <2>1. Append(f.out, ch) \in Seq(Range(changes))
    BY <1>2
  <2> QED BY <1>2, <2>1, Zenon
<1>5. on \in BOOLEAN
  OBVIOUS
<1> HIDE DEF rights, n, o, s, on
<1>6. g \in Loop(changes) /\ g.st = f.st /\ g.rights = rights /\ g.out = f.out
  BY <1>3, Zenon DEF Loop
<1>7. ~stop => ~BadArg(ch)
  OBVIOUS
<1> HIDE DEF g, stop, may, t
<1>8. LET x == [g EXCEPT !.done = on]
      IN x \in Loop(changes) /\ x.st = f.st /\ x.rights = rights
  BY <1>5, <1>6 DEF Loop
<1>9. LET x == [g EXCEPT !.st = s, !.out = o]
      IN (s \in Good => x \in Loop(changes)) /\ x.st = s /\ x.rights = rights
  BY <1>4, <1>6, Zenon DEF Loop
<1>10. CASE t = f
  BY <1>10, Zenon DEF t, TurnDone
<1>11. CASE t = [g EXCEPT !.done = on] \/ t = g
  <2>1. t \in Loop(changes) /\ t.st = f.st /\ t.rights = rights
    BY <1>6, <1>8, <1>11, Zenon
  <2> QED BY <2>1, Zenon DEF t, rights, TurnDone
<1>12. CASE t = [g EXCEPT !.st = s, !.out = o] /\ ~stop /\ may
  <2>1. (s \in Good => t \in Loop(changes)) /\ t.st = s /\ t.rights = rights
    BY <1>9, <1>12
  <2>2. trusted \/ rights \cap Required(ch) # {}
    BY <1>12 DEF may
  <2> QED BY <1>7, <1>12, <2>1, <2>2, Zenon DEF t, rights, s, TurnDone
<1> QED BY <1>1, <1>10, <1>11, <1>12, Zenon

\* A change that the rights allow keeps what has changed within the rank of the sender.
LEMMA RuledChange ==
    ASSUME NEW s0 \in Good, NEW s, NEW t, NEW rights \in SUBSET HalfOp, NEW c, NEW r0 \in 0 .. 4,
           NEW ch, Kept(s0, s, c), Changed(s, t, c, ch.m), Ruled(s0, s, rights, c, r0),
           rights \cap Required(ch) # {}
    PROVE  Ruled(s0, t, rights, c, r0)
<1>1. PICK k \in rights : k \in Required(ch)
  OBVIOUS
<1>2. k \in HalfOp /\ r0 >= Level(k) /\ Level(k) \in 1 .. 4
  BY <1>1, LevelFacts DEF Ruled
<1>3. r0 # 0
  BY <1>2
<1>4. ASSUME NEW p \in DOMAIN s0.member, NEW m \in HalfOp
      PROVE  (m \in t.member[p] <=> m \in s0.member[p]) \/ r0 >= Need(m)
  <2>1. p \in DOMAIN s.member
    BY DEF Kept
  <2>2. CASE m # ch.m
    <3>1. m \in UserMode \ {ch.m}
      BY <2>2 DEF UserMode
    <3>2. m \in t.member[p] <=> m \in s.member[p]
      BY <2>1, <3>1 DEF Changed
    <3> QED BY <3>2 DEF Ruled
  <2>3. CASE m = ch.m
    <3>1. Level(k) >= Need(m)
      BY <1>1, <1>2, <2>3, RequiredNeed
    <3> QED BY <1>2, <3>1, LevelFacts
  <2> QED BY <2>2, <2>3
<1> QED BY <1>3, <1>4 DEF Ruled

LEMMA ModeOne ==
    ASSUME NEW changes, NEW s0 \in Good, NEW f \in Loop(changes), NEW c \in DOMAIN s0.chan,
           NEW from, from \notin s0.oper => <<c, from>> \in DOMAIN s0.member,
           Managed(s0, f, c, from), NEW ch \in Range(changes), IsChange(ch)
    PROVE  LET t == Mode_Step(f, c, from, ch, FALSE)
           IN t \in Loop(changes) /\ Managed(s0, t, c, from)
<1> DEFINE trusted == from \in f.st.oper /\ Conf_OperCanMode
           rights == f.rights \cup IF trusted THEN {} ELSE f.st.member[<<c, from>>] \cap HalfOp
           s == Change(f.st, c, ch, FALSE)
           t == Mode_Step(f, c, from, ch, FALSE)
           r0 == Rank(s0.member[<<c, from>>])
<1>1. f.st \in Good /\ f.rights \in SUBSET HalfOp
  BY DEF Loop
<1>2. rights \in SUBSET HalfOp
  BY <1>1
<1>3. Kept(s0, f.st, c) /\ (from \notin s0.oper => Ruled(s0, f.st, f.rights, c, r0))
  BY DEF Managed
<1>4. f.st.oper = s0.oper /\ c \in DOMAIN f.st.chan
  BY <1>3 DEF Kept
<1>5. from \notin s0.oper => ~trusted /\ Ruled(s0, f.st, rights, c, r0) /\ r0 \in 0 .. 4
  <2> SUFFICES ASSUME from \notin s0.oper
               PROVE  ~trusted /\ Ruled(s0, f.st, rights, c, r0) /\ r0 \in 0 .. 4
    OBVIOUS
  <2>1. rights = f.rights \cup (f.st.member[<<c, from>>] \cap HalfOp) /\ ~trusted
    BY <1>4
  <2>2. Ruled(s0, f.st, f.rights \cup (f.st.member[<<c, from>>] \cap HalfOp), c, r0)
    BY <1>3, RuledRights
  <2>3. s0.member[<<c, from>>] \in SUBSET UserMode
    BY GoodParts, StateParts
  <2>4. r0 \in 0 .. 4
    BY <2>3, RankFacts
  <2> HIDE DEF r0, rights
  <2> QED BY <2>1, <2>2, <2>4
<1>6. \/ t = f
      \/ t \in Loop(changes) /\ t.st = f.st /\ t.rights = rights
      \/ /\ s \in Good => t \in Loop(changes)
         /\ t.st = s /\ t.rights = rights /\ ~BadArg(ch)
         /\ trusted \/ rights \cap Required(ch) # {}
  <2>1. TurnDone(changes, f, t, c, from, ch)
    BY ModeTurn, Zenon
  <2> QED BY <2>1, Zenon DEF TurnDone
<1> HIDE DEF rights, s, t, r0, trusted
<1>7. CASE t = f
  BY <1>7, Zenon DEF t
<1>8. CASE t \in Loop(changes) /\ t.st = f.st /\ t.rights = rights
  <2>1. Managed(s0, t, c, from)
    BY <1>3, <1>5, <1>8, Zenon DEF Managed, r0
  <2> QED BY <1>8, <2>1, Zenon DEF t
<1>9. CASE /\ s \in Good => t \in Loop(changes)
           /\ t.st = s /\ t.rights = rights /\ ~BadArg(ch)
           /\ trusted \/ rights \cap Required(ch) # {}
  <2>1. Changed(f.st, s, c, ch.m)
    BY <1>1, <1>4, <1>9, ChangeDone, Zenon DEF s
  <2>2. Kept(s0, s, c) /\ s \in Good
    BY <1>3, <2>1, KeptChanged DEF Changed
  <2>3. from \notin s0.oper => Ruled(s0, s, rights, c, r0)
    BY <1>2, <1>3, <1>5, <1>9, <2>1, RuledChange
  <2>4. Managed(s0, t, c, from)
    BY <1>9, <2>2, <2>3, Zenon DEF Managed, r0
  <2> QED BY <1>9, <2>2, <2>4, Zenon DEF t
<1> QED BY <1>6, <1>7, <1>8, <1>9, Zenon

LEMMA ModeAll ==
    ASSUME NEW s0 \in Good, NEW c \in Chan, NEW from, NEW l, l \in Seq(Range(l)),
           \A ch \in Range(l) : IsChange(ch)
    PROVE  LET f == Channel_Mode(s0, c, from, l, FALSE)
           IN /\ f.st \in Good
              /\ f.st = s0 \/ /\ c \in DOMAIN s0.chan /\ c \notin Modeless
                              /\ from \notin s0.oper => <<c, from>> \in DOMAIN s0.member
                              /\ Managed(s0, f, c, from)
<1> DEFINE f0 == [st |-> s0, rights |-> {}, count |-> 0, done |-> FALSE, out |-> <<>>]
           D == DOMAIN l
           Turn(g, ch) == Mode_Step(g, c, from, ch, FALSE)
           V == {g \in Loop(l) : Managed(s0, g, c, from)}
           Sol(it) == it = [s \in SUBSET D |->
                              IF s = {} THEN f0 ELSE Turn(it[s \ {Max(s)}], l[Max(s)])]
           it0 == CHOOSE it : Sol(it)
           pick == [s \in SUBSET D |-> Max(s)]
           step == [p \in D \X V |-> Turn(p[2], l[p[1]])]
           fold == ForEach(LAMBDA g, ch : Mode_Step(g, c, from, ch, FALSE), f0, l)
           out == \/ ~Exists(s0, c) \/ c \in Modeless
                  \/ /\ ~FALSE /\ ~Channel_IsMemberOf(s0, c, from)
                     /\ ~(from \in s0.oper /\ Conf_OperCanMode)
<1>0. Channel_Mode(s0, c, from, l, FALSE) = IF out THEN f0 ELSE fold
  BY Zenon DEF Channel_Mode
<1>a. f0.st = s0
  OBVIOUS
<1> SUFFICES ASSUME ~out
             PROVE  fold.st \in Good /\ c \in DOMAIN s0.chan /\ c \notin Modeless
                    /\ (from \notin s0.oper => <<c, from>> \in DOMAIN s0.member)
                    /\ Managed(s0, fold, c, from)
  <2> HIDE DEF f0, fold, out
  <2> QED BY <1>0, <1>a, Zenon
<1>b. c \in DOMAIN s0.chan /\ c \notin Modeless
      /\ (from \notin s0.oper => <<c, from>> \in DOMAIN s0.member)
  BY DEF Exists, Channel_IsMemberOf
<1> HIDE DEF out
<1>1. fold = it0[D]
  <2>1. fold = ForEach(Turn, f0, l)
    BY Zenon
  <2> HIDE DEF Turn, f0
  <2>2. ForEach(Turn, f0, l) = it0[D]
    BY Zenon DEF ForEach, MapThenFoldSet
  <2> QED BY <2>1, <2>2, Zenon
<1>2. IsFiniteSet(D) /\ D \subseteq Nat
  <2>1. D = 1 .. Len(l) /\ Len(l) \in Nat
    OBVIOUS
  <2>2. IsFiniteSet(1 .. Len(l))
    BY <2>1, FS_Interval
  <2> HIDE DEF D
  <2> QED BY <2>1, <2>2
<1>3. \A s \in SUBSET D : s # {} => Max(s) \in s
  <2> HIDE DEF D
  <2> QED BY <1>2, MaxNatural, FS_Subset, Zenon
<1>4. \A i \in D, r \in V : Turn(r, l[i]) \in V
  <2>1. ASSUME NEW ch \in Range(l), NEW r \in V PROVE Turn(r, ch) \in V
    <3>1. r \in Loop(l) /\ Managed(s0, r, c, from)
      OBVIOUS
    <3> HIDE DEF V
    <3>2. Turn(r, ch) \in Loop(l) /\ Managed(s0, Turn(r, ch), c, from)
      BY <1>b, <3>1, ModeOne, Zenon
    <3> HIDE DEF Turn
    <3> QED BY <3>2 DEF V
  <2>2. \A i \in D : l[i] \in Range(l)
    BY DEF Range
  <2> HIDE DEF D, V, Turn
  <2> QED BY <2>1, <2>2
<1>5. f0 \in V
  <2>1. f0 \in Loop(l)
    <3> DEFINE off == FALSE
               e == <<>>
               z == {}
    <3>1. off \in BOOLEAN /\ e \in Seq(Range(l)) /\ z \in SUBSET HalfOp
      OBVIOUS
    <3> HIDE DEF off, e, z
    <3>2. [st |-> s0, rights |-> z, count |-> 0, done |-> off, out |-> e] \in Loop(l)
      BY <3>1 DEF Loop
    <3> QED BY <3>2 DEF off, e, z
  <2>2. f0.st = s0 /\ f0.rights = {}
    OBVIOUS
  <2> HIDE DEF f0
  <2>3. Managed(s0, f0, c, from)
    BY <2>2, FewerRefl DEF Managed, Kept, Ruled
  <2> QED BY <2>1, <2>3
<1>6. \E it : Sol(it)
  <2> HIDE DEF Turn, D, V, f0, fold
  <2>1. step \in [D \X V -> V]
    BY <1>4
  <2>2. Folding(D, V, f0, pick, step)
    <3> HIDE DEF step
    <3> QED BY <1>2, <1>3, <1>5, <2>1 DEF Folding
  <2> HIDE DEF step, pick
  <2>3. PICK g \in [SUBSET D -> V] : FoldEquations(g, D, f0, pick, step)
    BY <2>2, FoldExists, Zenon
  <2> USE DEF FoldEquations, step, pick
  <2>4. \A s \in SUBSET D :
          g[s] = IF s = {} THEN f0 ELSE Turn(g[s \ {Max(s)}], l[Max(s)])
    <3> TAKE s \in SUBSET D
    <3>1. CASE s # {}
      <4>1. Max(s) \in D /\ pick[s] = Max(s) /\ g[s \ {Max(s)}] \in V
        BY <1>3, <3>1
      <4>2. step[<<Max(s), g[s \ {Max(s)}]>>] = Turn(g[s \ {Max(s)}], l[Max(s)])
        BY <4>1
      <4> HIDE DEF step, pick
      <4> QED BY <2>3, <3>1, <4>1, <4>2
    <3> QED BY <2>3, <3>1, Zenon
  <2> QED BY <2>3, <2>4, Zenon
<1>7. Sol(it0)
  <2> HIDE DEF Sol
  <2> QED BY <1>6
<1> HIDE DEF it0, Turn, D, V, f0, fold
<1>8. it0[{}] \in V
  BY <1>5, <1>7
<1>9. \A s \in SUBSET D : s # {} => \E x \in s : it0[s \ {x}] \in V => it0[s] \in V
  <2> SUFFICES ASSUME NEW s \in SUBSET D, s # {}, it0[s \ {Max(s)}] \in V
               PROVE  it0[s] \in V
    BY <1>3, Zenon
  <2>1. it0[s] = Turn(it0[s \ {Max(s)}], l[Max(s)])
    BY <1>7, Zenon
  <2>2. Max(s) \in D
    BY <1>3
  <2> HIDE DEF Sol
  <2> QED BY <1>4, <2>1, <2>2
<1>10. it0[D] \in V
  <2> HIDE DEF Sol
  <2> QED BY <1>2, <1>8, <1>9, FoldIn, Zenon
<1>11. fold \in V
  BY <1>1, <1>10
<1>12. fold \in Loop(l) /\ Managed(s0, fold, c, from)
  BY <1>11 DEF V
<1> QED BY <1>b, <1>12 DEF Loop

-----------------------------------------------------------------------------
(* INVITE, TOPIC and IRC operators                                         *)
LEMMA Opered ==
    ASSUME NEW s \in Good, NEW o \in SUBSET Oper
    PROVE  LET t == [s EXCEPT !.oper = o]
           IN t \in Good /\ t.chan = s.chan /\ t.member = s.member /\ t.oper = o
<1> DEFINE t == [chan |-> s.chan, member |-> s.member, oper |-> o]
<1>1. /\ s \in State /\ Seated(s) /\ Limited(s)
      /\ \A d \in DOMAIN s.chan : Fair(s.chan[d].invites)
  BY GoodParts
<1>2. /\ s = [chan |-> s.chan, member |-> s.member, oper |-> s.oper]
      /\ s.chan \in [DOMAIN s.chan -> Room] /\ DOMAIN s.chan \subseteq Chan
      /\ s.member \in [DOMAIN s.member -> SUBSET UserMode]
      /\ DOMAIN s.member \subseteq Chan \X User
  BY <1>1, StateParts
<1>3. [s EXCEPT !.oper = o] = t
  BY <1>2
<1>4. t \in State
  BY <1>2, StateOf
<1>5. t.chan = s.chan /\ t.member = s.member /\ t.oper = o
  OBVIOUS
<1> HIDE DEF t
<1>6. Seated(t) /\ Limited(t)
  BY <1>1, <1>5, FewerSeats DEF Seated
<1>7. t \in Good
  BY <1>1, <1>4, <1>5, <1>6 DEF Good
<1> QED BY <1>3, <1>5, <1>7

LEMMA TopicDone ==
    ASSUME NEW s \in Good, NEW c, NEW u, NEW topic \in Topic \cup {NoArg}
    PROVE  LET t == IRC_TOPIC(s, c, u, topic, FALSE)
           IN t \in Good /\ (t = s \/ TopicSet(s, t, c, u))
<1> DEFINE w == IRC_TOPIC(s, c, u, topic, FALSE)
           r == [s.chan[c] EXCEPT !.topic = topic]
           t == [chan |-> [s.chan EXCEPT ![c] = r], member |-> s.member, oper |-> s.oper]
<1>1. CASE w = s
  BY <1>1, Zenon
<1>2. CASE w # s
  <2>1. /\ w = [s EXCEPT !.chan[c].topic = topic] /\ c \in DOMAIN s.chan
        /\ \/ u \in s.oper \/ "t" \notin s.chan[c].modes
           \/ <<c, u>> \in DOMAIN s.member /\ s.member[<<c, u>>] \cap HalfOp # {}
    BY <1>2 DEF IRC_TOPIC, Exists, Has, UserHas, Channel_IsMemberOf
  <2>2. s \in State /\ s.chan[c] \in Room /\ Fair(s.chan[c].invites)
    BY <2>1, GoodParts
  <2>3. s = [chan |-> s.chan, member |-> s.member, oper |-> s.oper]
        /\ s.chan \in [DOMAIN s.chan -> Room]
    BY <2>2, StateParts
  <2>4. w = t
    BY <2>1, <2>3, Zenon
  <2>5. r \in Room /\ r.invites = s.chan[c].invites /\ r.topic = topic
    BY <2>2 DEF Room
  <2>6. r = [s.chan[c] EXCEPT !.topic = topic]
    OBVIOUS
  <2> HIDE DEF r, w
  <2>7. t.oper = s.oper /\ t.member = s.member
    OBVIOUS
  <2>8. t \in Good /\ DOMAIN t.chan = DOMAIN s.chan /\ t.chan[c] = r
        /\ \A d \in DOMAIN s.chan \ {c} : t.chan[d] = s.chan[d]
    BY <2>1, <2>2, <2>5, Renewed
  <2> HIDE DEF t
  <2>9. TopicSet(s, t, c, u)
    BY <2>1, <2>5, <2>6, <2>7, <2>8 DEF TopicSet
  <2> QED BY <2>4, <2>8, <2>9, Zenon DEF w
<1> QED BY <1>1, <1>2, Zenon

LEMMA InviteDone ==
    ASSUME NEW s \in Good, NEW c, NEW u, NEW v \in User
    PROVE  LET t == IRC_INVITE(s, c, u, v)
           IN t \in Good /\ (t = s \/ InviteSet(s, t, c, v))
<1> DEFINE on == TRUE
           w == IRC_INVITE(s, c, u, v)
           l == s.chan[c].invites
           m == Lists_Add(l, {v}, on)
           r == [s.chan[c] EXCEPT !.invites = m]
           t == [chan |-> [s.chan EXCEPT ![c] = r], member |-> s.member, oper |-> s.oper]
<1>1. CASE w = s
  BY <1>1
<1>2. CASE w # s
  <2>1. w = [s EXCEPT !.chan[c].invites = Lists_Add(@, {v}, TRUE)] /\ c \in DOMAIN s.chan
    BY <1>2, Zenon DEF IRC_INVITE, Exists
  <2>2. s \in State /\ s.chan[c] \in Room /\ Fair(l)
    BY <2>1, GoodParts
  <2>3. s = [chan |-> s.chan, member |-> s.member, oper |-> s.oper]
        /\ s.chan \in [DOMAIN s.chan -> Room]
    BY <2>2, StateParts
  <2>4. l \in List
    BY <2>2, RoomFields
  <2>5. w = [s EXCEPT !.chan[c].invites = m]
    BY <2>1, Zenon
  <2>6. on \in BOOLEAN /\ {v} \in SUBSET User
    OBVIOUS
  <2> HIDE DEF on, l
  <2>7. /\ m \in List
        /\ \A i \in DOMAIN m : \/ \E j \in DOMAIN l : m[i] = l[j]
                               \/ m[i] = [mask |-> {v}, onlyonce |-> on] /\ m # l
        /\ Fair(l) /\ (on => \E x \in User : {v} = {x}) => Fair(m)
    BY <2>4, <2>6, ListsAdd, Zenon
  <2>8. Fair(m)
    BY <2>2, <2>7
  <2>9. [mask |-> {v}, onlyonce |-> on].mask = {v}
    OBVIOUS
  <2> HIDE DEF m, w
  <2>10. w = t
    BY <2>3, <2>5
  <2>11. r \in Room /\ r.invites = m /\ Alike(r, s.chan[c])
    BY <2>2, <2>7 DEF Room, Alike
  <2> HIDE DEF r
  <2>12. t.oper = s.oper /\ t.member = s.member
    OBVIOUS
  <2>13. t \in Good /\ DOMAIN t.chan = DOMAIN s.chan /\ t.chan[c] = r
         /\ \A d \in DOMAIN s.chan \ {c} : t.chan[d] = s.chan[d]
    BY <2>1, <2>8, <2>11, Renewed
  <2> HIDE DEF t
  <2>14. InviteSet(s, t, c, v)
    BY <2>1, <2>7, <2>9, <2>11, <2>12, <2>13 DEF InviteSet, l
  <2> QED BY <2>10, <2>13, <2>14 DEF w
<1> QED BY <1>1, <1>2

-----------------------------------------------------------------------------
(* What a step does                                                        *)
\* The inductive invariant: the state is sound, and an invitation for one use is one
\* that was given and not used.
IInv == st \in Good /\ by \in User \cup {NoArg} /\ TicketsIn(st, pass)

LEMMA Becoming ==
    ASSUME NEW s \in Good, Become(s)
    PROVE  st' = s
<1>1. s \in State
  BY GoodParts
<1>2. s = [chan |-> s.chan, member |-> s.member, oper |-> s.oper]
  BY <1>1, StateParts
<1> QED BY <1>2 DEF Become, st

Stepped(t) == /\ Become(t)
              /\ \/ \E u \in User : by' = u /\ pass' = Passes(t) /\ Done(st, t, u)
                 \/ \E u \in User, c \in Chan, v \in User :
                       /\ by' = u /\ (t = st \/ InviteSet(st, t, c, v))
                       /\ pass' = IF t # st THEN pass \cup {<<c, v>>} ELSE pass
                 \/ by' = NoArg /\ pass' = pass /\ Provided(st, t)

LEMMA Steps ==
    ASSUME st \in Good, Next
    PROVE  \E t \in Good : Stepped(t)
<1>1. ASSUME NEW u \in User, JOIN(u) PROVE \E t \in Good : Stepped(t)
  <2>1. PICK names \in JoinList, key \in Key \cup {NoArg} :
             Command(u, IRC_JOIN(st, u, names, <<key>>))
    BY <1>1 DEF JOIN
  <2> DEFINE t == IRC_JOIN(st, u, names, <<key>>)
  <2>2. names \in Seq(Chan)
    BY CommandAssumption
  <2>3. t \in Good /\ Joined(st, t, u)
    BY <2>2, JoinAll
  <2> HIDE DEF t
  <2>4. Command(u, t)
    BY <2>1 DEF t
  <2> QED BY <2>3, <2>4 DEF Command, Stepped, Done
<1>2. ASSUME NEW u \in User, PART(u) PROVE \E t \in Good : Stepped(t)
  <2>1. PICK names \in JoinList :
             Command(u, ForEach(LAMBDA s, c :
                IF Exists(s, c) THEN Remove_Client(s, c, u) ELSE s, st, names))
    BY <1>2, Zenon DEF PART
  <2> DEFINE t == ForEach(LAMBDA s, c :
                     IF Exists(s, c) THEN Remove_Client(s, c, u) ELSE s, st, names)
  <2>2. names \in Seq(Chan)
    BY CommandAssumption
  <2>3. t \in Good /\ Left(st, t, u)
    BY <2>2, PartAll, Zenon
  <2>4. Command(u, t)
    BY <2>1, Zenon
  <2> HIDE DEF t
  <2> QED BY <2>3, <2>4 DEF Command, Stepped, Done
<1>3. ASSUME NEW u \in User, PART_ALL(u) PROVE \E t \in Good : Stepped(t)
  <2> DEFINE t == Channel_Quit(st, u)
  <2>1. t \in Good /\ Left(st, t, u)
    BY QuitAll
  <2> HIDE DEF t
  <2>2. Command(u, t)
    BY <1>3 DEF PART_ALL, t
  <2> QED BY <2>1, <2>2 DEF Command, Stepped, Done
<1>4. ASSUME NEW u \in User, KICK(u) PROVE \E t \in Good : Stepped(t)
  <2>1. PICK names \in JoinList, target \in User :
             Command(u, ForEach(LAMBDA s, c :
                Channel_Kick(s, c, u, target, FALSE), st, names))
    BY <1>4, Zenon DEF KICK
  <2> DEFINE t == ForEach(LAMBDA s, c : Channel_Kick(s, c, u, target, FALSE), st, names)
  <2>2. names \in Seq(Chan)
    BY CommandAssumption
  <2>3. t \in Good /\ Kicked(st, t, u, target)
    BY <2>2, KickAll, Zenon
  <2>4. Command(u, t)
    BY <2>1, Zenon
  <2> HIDE DEF t
  <2> QED BY <2>3, <2>4 DEF Command, Stepped, Done
<1>5. ASSUME NEW u \in User, INVITE(u) PROVE \E t \in Good : Stepped(t)
  <2>1. PICK c \in Chan, v \in User :
             LET s == IRC_INVITE(st, c, u, v)
             IN /\ Become(s) /\ by' = u
                /\ pass' = IF s # st THEN pass \cup {<<c, v>>} ELSE pass
    BY <1>5, Zenon DEF INVITE
  <2> DEFINE t == IRC_INVITE(st, c, u, v)
  <2>2. t \in Good /\ (t = st \/ InviteSet(st, t, c, v))
    BY InviteDone
  <2> HIDE DEF t
  <2>3. Become(t) /\ by' = u /\ pass' = IF t # st THEN pass \cup {<<c, v>>} ELSE pass
    BY <2>1 DEF t
  <2> QED BY <2>2, <2>3, Zenon DEF Stepped
<1>6. ASSUME NEW u \in User, MODE(u) PROVE \E t \in Good : Stepped(t)
  <2>1. PICK c \in Chan, changes \in ChangeList :
             Command(u, Channel_Mode(st, c, u, changes, FALSE).st)
    BY <1>6, Zenon DEF MODE
  <2> DEFINE f == Channel_Mode(st, c, u, changes, FALSE)
             t == f.st
  <2>2. changes \in Seq(Range(changes)) /\ \A ch \in Range(changes) : IsChange(ch)
    BY CommandAssumption
  <2>3. /\ t \in Good
        /\ t = st \/ /\ c \in DOMAIN st.chan /\ c \notin Modeless
                     /\ u \notin st.oper => <<c, u>> \in DOMAIN st.member
                     /\ Managed(st, f, c, u)
    BY <2>2, ModeAll, Zenon
  <2> HIDE DEF f
  <2>4. Done(st, t, u)
    BY <2>3, Zenon DEF Managed, ModeDone, Done
  <2> HIDE DEF t
  <2>5. Command(u, t)
    BY <2>1, Zenon DEF t, f
  <2> QED BY <2>3, <2>4, <2>5, Zenon DEF Command, Stepped
<1>7. ASSUME NEW u \in User, TOPIC(u) PROVE \E t \in Good : Stepped(t)
  <2>1. PICK c \in Chan, x \in Topic \cup {NoArg} : Command(u, IRC_TOPIC(st, c, u, x, FALSE))
    BY <1>7, Zenon DEF TOPIC
  <2> DEFINE t == IRC_TOPIC(st, c, u, x, FALSE)
  <2>2. t \in Good /\ (t = st \/ TopicSet(st, t, c, u))
    BY TopicDone, Zenon
  <2> HIDE DEF t
  <2>3. Command(u, t)
    BY <2>1, Zenon DEF t
  <2> QED BY <2>2, <2>3 DEF Command, Stepped, Done
<1>8. ASSUME NEW u \in User, OPER(u) \/ DEOPER(u) PROVE \E t \in Good : Stepped(t)
  <2>1. PICK o \in {oper \cup {u}, oper \ {u}} :
             Command(u, [st EXCEPT !.oper = o]) /\ o \subseteq Oper
             /\ (u \in o \/ o \subseteq oper)
    <3>1. oper \subseteq Oper
      BY GoodParts, StateParts DEF st
    <3>2. CASE OPER(u)
      BY <3>1, <3>2 DEF OPER, st
    <3>3. CASE DEOPER(u)
      BY <3>1, <3>3 DEF DEOPER, st
    <3> QED BY <1>8, <3>2, <3>3
  <2> DEFINE t == [st EXCEPT !.oper = o]
  <2>2. t \in Good /\ t.chan = st.chan /\ t.member = st.member /\ t.oper = o
    BY <2>1, Opered
  <2>3. Command(u, t)
    BY <2>1
  <2> HIDE DEF t
  <2>4. st.oper = oper
    BY DEF st
  <2>5. Rehatted(st, t, u)
    BY <2>1, <2>2, <2>4 DEF Rehatted
  <2> QED BY <2>2, <2>3, <2>5, Zenon DEF Command, Stepped, Done
<1>9. ASSUME NEW u \in User, Quit(u) PROVE \E t \in Good : Stepped(t)
  <2> DEFINE s == Channel_Quit(st, u)
             t == [s EXCEPT !.oper = s.oper \ {u}]
  <2>1. s \in Good /\ Left(st, s, u)
    BY QuitAll
  <2>2. Command(u, t)
    BY <1>9, Zenon DEF Quit
  <2> HIDE DEF s
  <2>3. s.oper \ {u} \in SUBSET Oper
    BY <2>1, GoodParts, StateParts
  <2>4. t \in Good /\ t.chan = s.chan /\ t.member = s.member /\ t.oper = s.oper \ {u}
    BY <2>1, <2>3, Opered
  <2> HIDE DEF t
  <2>5. Left(st, t, u)
    BY <2>1, <2>4 DEF Left
  <2> QED BY <2>2, <2>4, <2>5 DEF Command, Stepped, Done
<1>10. ASSUME Rehash PROVE \E t \in Good : Stepped(t)
  <2> DEFINE t == Channel_InitPredefined(st)
  <2>1. t \in Good /\ Provided(st, t)
    BY ProvideAll
  <2> HIDE DEF t
  <2>2. Become(t) /\ by' = NoArg /\ pass' = pass
    BY <1>10 DEF Rehash, t
  <2> QED BY <2>1, <2>2 DEF Stepped
<1> QED BY <1>1, <1>2, <1>3, <1>4, <1>5, <1>6, <1>7, <1>8, <1>9, <1>10 DEF Next

-----------------------------------------------------------------------------
(* The inductive invariant and what it gives                               *)
LEMMA InitSound ==
    ASSUME Init
    PROVE  IInv /\ DOMAIN member = {} /\ oper = {}
<1> DEFINE s0 == [chan |-> <<>>, member |-> <<>>, oper |-> {}]
           s == Channel_InitPredefined(s0)
<1>1. s0 \in Good /\ DOMAIN s0.member = {} /\ DOMAIN s0.chan = {} /\ s0.oper = {}
  BY StartGood
<1>2. chan = s.chan /\ member = s.member /\ oper = s.oper /\ by = NoArg /\ pass = {}
  BY DEF Init
<1> HIDE DEF s0
<1>3. s \in Good /\ Provided(s0, s)
  BY <1>1, ProvideAll
<1> HIDE DEF s
<1>4. s \in State
  BY <1>3, GoodParts
<1>5. s = [chan |-> s.chan, member |-> s.member, oper |-> s.oper]
  BY <1>4, StateParts
<1>6. st = s
  BY <1>2, <1>5 DEF st
<1>7. TicketsIn(s0, {})
  BY <1>1 DEF TicketsIn
<1>8. TicketsIn(s, {})
  BY <1>3, <1>7, TicketsProvided
<1>9. DOMAIN member = {} /\ oper = {}
  BY <1>1, <1>2, <1>3 DEF Provided
<1> QED BY <1>2, <1>3, <1>6, <1>8, <1>9 DEF IInv

LEMMA NextSound ==
    ASSUME IInv, [Next]_vars
    PROVE  IInv'
<1>1. CASE UNCHANGED vars
  <2>1. st' = st /\ pass' = pass /\ by' = by
    BY <1>1 DEF vars, st
  <2> QED BY <2>1 DEF IInv
<1>2. CASE Next
  <2>1. st \in Good /\ TicketsIn(st, pass)
    BY DEF IInv
  <2>2. PICK t \in Good : Stepped(t)
    BY <1>2, <2>1, Steps
  <2>3. st' = t
    BY <2>2, Becoming DEF Stepped
  <2>4. by' \in User \cup {NoArg}
    BY <2>2 DEF Stepped
  <2>5. Passes(t) = PassesIn(st, pass, t)
    BY DEF Passes, PassesIn, Invited, Lasting, st
  <2>6. TicketsIn(t, pass')
    <3>1. ASSUME NEW u \in User, pass' = Passes(t), Done(st, t, u) PROVE TicketsIn(t, pass')
      BY <2>1, <2>5, <3>1, TicketsKept
    <3>2. ASSUME NEW c \in Chan, NEW v \in User, t = st \/ InviteSet(st, t, c, v),
                 pass' = IF t # st THEN pass \cup {<<c, v>>} ELSE pass
          PROVE  TicketsIn(t, pass')
      BY <2>1, <3>2, TicketsGiven
    <3>3. ASSUME pass' = pass, Provided(st, t) PROVE TicketsIn(t, pass')
      BY <2>1, <3>3, TicketsProvided
    <3> QED BY <2>2, <3>1, <3>2, <3>3 DEF Stepped
  <2> QED BY <2>3, <2>4, <2>6 DEF IInv
<1> QED BY <1>1, <1>2

LEMMA Sound == Spec => []IInv
<1>1. Init => IInv
  BY InitSound
<1>2. IInv /\ [Next]_vars => IInv'
  BY NextSound
<1> QED BY <1>1, <1>2, PTL DEF Spec

LEMMA GoodIsSound ==
    ASSUME IInv
    PROVE  ChannelsSound /\ DOMAIN chan \subseteq Chan /\ DOMAIN member \subseteq Chan \X User
<1>1. st \in Good /\ st.chan = chan /\ st.member = member /\ st.oper = oper
  BY DEF IInv, st
<1>2. st \in State /\ Seated(st) /\ Limited(st)
  BY <1>1, GoodParts
<1>3. /\ st.chan \in [DOMAIN st.chan -> Room] /\ DOMAIN st.chan \subseteq Chan
      /\ st.member \in [DOMAIN st.member -> SUBSET UserMode]
      /\ DOMAIN st.member \subseteq Chan \X User /\ st.oper \subseteq Oper
  BY <1>2, StateParts
<1>4. TypeOK
  BY <1>1, <1>3, Zenon DEF TypeOK, Room, List, Entry, IInv
<1>5. NoDangling
  BY <1>1, <1>2 DEF NoDangling, Seated, Limited
<1> QED BY <1>1, <1>3, <1>4, <1>5 DEF ChannelsSound

\* Channels, their members and their lists are sound after every command and rehash:
\* no member of a channel that is gone, nobody in more channels than Conf_MaxJoins
\* (channel.c, IRC_JOIN, Channel_Mode).
THEOREM ChannelsSoundHolds == Spec => []ChannelsSound
<1>1. IInv => ChannelsSound
  BY GoodIsSound
<1> QED BY <1>1, Sound, PTL

\* LIST, NAMES, WHO, WHOIS and LUSERS agree on what they show of secret channels and
\* invisible users, up to the lengths at which LIST and WHO stop (irc-info.c).
THEOREM InfoConsistentHolds == Spec => []InfoConsistent
<1>1. ASSUME IInv PROVE InfoConsistent
  <2>1. DOMAIN chan \subseteq Chan /\ DOMAIN st.chan = DOMAIN chan /\ st.oper = oper
    BY <1>1, GoodIsSound DEF st
  <2>2. ASSUME NEW v \in User \ oper, NEW list \in IRC_LIST(v)
        PROVE  /\ list \subseteq {c \in DOMAIN chan : \/ ~Has(st, c, "s")
                                                      \/ Channel_IsMemberOf(st, c, v)}
               /\ Cardinality(list) =
                    IF Conf_MaxListSize = 0 \/ Channel_CountVisible(v) <= Conf_MaxListSize
                    THEN Channel_CountVisible(v) ELSE Conf_MaxListSize
    <3> DEFINE vis == {c \in DOMAIN chan : ~Has(st, c, "s") \/ Channel_IsMemberOf(st, c, v)}
               shown == {c \in DOMAIN chan : \/ ~Has(st, c, "s") \/ Channel_IsMemberOf(st, c, v)
                                             \/ v \in oper}
    <3>1. shown = vis /\ Channel_CountVisible(v) = Cardinality(vis)
      BY DEF Channel_CountVisible
    <3>2. list \in IF Conf_MaxListSize > 0 THEN IRC_CheckListTooBig(shown, Conf_MaxListSize)
                   ELSE {shown}
      BY Zenon DEF IRC_LIST
    <3> HIDE DEF vis, shown
    <3>3. /\ list \subseteq vis
          /\ Cardinality(list) = IF Conf_MaxListSize = 0 \/ Cardinality(vis) <= Conf_MaxListSize
                                 THEN Cardinality(vis) ELSE Conf_MaxListSize
      BY <3>1, <3>2, InfoAssumption DEF IRC_CheckListTooBig
    <3> QED BY <3>1, <3>3, Zenon DEF vis
  <2>3. ASSUME NEW v \in User \ oper, NEW c \in DOMAIN chan,
               Has(st, c, "s"), ~Channel_IsMemberOf(st, c, v)
        PROVE  /\ \A list \in IRC_LIST(v) : c \notin list
               /\ IRC_Send_NAMES(v, c) \cup IRC_WHO_Channel(v, c) = {}
               /\ \A u \in User, server \in BOOLEAN :
                    c \notin IRC_WHOIS_SendReply(v, u, server)
    <3>1. \A list \in IRC_LIST(v) : c \notin list
      BY <2>2, <2>3, Zenon
    <3>2. IRC_Send_NAMES(v, c) \cup IRC_WHO_Channel(v, c) = {}
      BY <2>3 DEF IRC_Send_NAMES, IRC_WHO_Channel
    <3>3. \A u \in User, server \in BOOLEAN : c \notin IRC_WHOIS_SendReply(v, u, server)
      BY <2>3 DEF IRC_WHOIS_SendReply
    <3> QED BY <3>1, <3>2, <3>3
  <2>4. SecretHidden
    BY <2>2, <2>3, Zenon DEF SecretHidden
  <2>5. ASSUME NEW v \in User \ oper, NEW c \in DOMAIN chan, ~Conf_MorePrivacy
        PROVE  IRC_Send_NAMES(v, c) = IRC_WHO_Channel(v, c)
    BY <2>5 DEF IRC_Send_NAMES, IRC_WHO_Channel
  <2>6. ASSUME NEW v \in User \ oper, NEW who \in IRC_WHO_Mask(v)
        PROVE  \/ Cardinality(who) = MAX_RPL_WHO
               \/ (UNION {IRC_Send_NAMES(v, c) : c \in DOMAIN chan}) \cup NAMES_Rest
                    \subseteq who
    <3> DEFINE shown == UNION {IRC_Send_NAMES(v, c) : c \in DOMAIN chan}
               vis == {u \in User : \/ u \notin Invisible
                                    \/ \E c \in Chan : /\ Channel_IsMemberOf(st, c, v)
                                                       /\ Channel_IsMemberOf(st, c, u)}
    <3>1. \A c \in DOMAIN chan : IRC_Send_NAMES(v, c) \subseteq vis
      BY <2>1 DEF IRC_Send_NAMES, Members
    <3>2. NAMES_Rest \subseteq vis
      BY DEF NAMES_Rest
    <3>3. who \in IRC_CheckListTooBig(vis, MAX_RPL_WHO)
      BY Zenon DEF IRC_WHO_Mask
    <3> HIDE DEF vis
    <3>4. shown \subseteq vis
      BY <3>1
    <3> HIDE DEF shown
    <3>5. who = vis \/ Cardinality(who) = MAX_RPL_WHO
      BY <3>3 DEF IRC_CheckListTooBig
    <3>6. Cardinality(who) = MAX_RPL_WHO \/ shown \cup NAMES_Rest \subseteq who
      BY <3>2, <3>4, <3>5
    <3> QED BY <3>6 DEF shown
  <2>9. NamesAgreeWithWho
    BY <2>5, <2>6, Zenon DEF NamesAgreeWithWho
  <2> QED BY <2>4, <2>9 DEF InfoConsistent
<1> QED BY <1>1, Sound, PTL

\* A step is a stutter, or takes st to a sound state as Stepped says.
LEMMA StepOf ==
    ASSUME IInv, [Next]_vars
    PROVE  \/ UNCHANGED vars
           \/ \E t \in Good : st' = t /\ Stepped(t)
<1>1. CASE Next
  <2>1. PICK t \in Good : Stepped(t)
    BY <1>1, Steps DEF IInv
  <2>2. st' = t
    BY <2>1, Becoming DEF Stepped
  <2> QED BY <2>1, <2>2
<1> QED BY <1>1

\* No command raises anyone above the rank its sender had before it, half operators
\* raise nobody, and nobody loses a rank, or the channel, by a command of a user of
\* lower rank; only IRC operators can (Channel_Kick, Channel_Mode).
THEOREM RankSafeHolds == Spec => RankSafe
<1> DEFINE A == by' \notin oper => \A p \in Chan \X User : ~Raised(p) /\ ~Lowered(p)
<1>1. ASSUME IInv, [Next]_vars PROVE [A]_vars
  <2>1. st \in Good /\ st.member = member /\ st.oper = oper
    BY <1>1 DEF IInv, st
  <2>2. ASSUME NEW t \in Good, st' = t, Stepped(t), by' \notin oper,
               NEW p \in Chan \X User
        PROVE  ~Raised(p) /\ ~Lowered(p)
    <3>1. t.member = member'
      BY <2>2 DEF st
    <3>2. Raised(p) => RaisedIn(st, t, by', p)
      BY <2>1, <3>1, Zenon DEF Raised, RaisedIn, RankOf, RankIn
    <3>3. Lowered(p) => LoweredIn(st, t, by', p)
      BY <2>1, <3>1 DEF Lowered, LoweredIn, RankOf, RankIn
    <3>4. CASE Done(st, t, by')
      BY <2>1, <2>2, <3>2, <3>3, <3>4, RankKept, Zenon
    <3>5. CASE t.member = st.member
      BY <2>1, <3>2, <3>3, <3>5, Steady
    <3> QED BY <2>2, <3>4, <3>5, Zenon DEF Stepped, InviteSet, Provided
  <2> QED BY <1>1, <2>2, StepOf
<1> HIDE DEF A
<1>2. Spec => [][A]_vars
  BY <1>1, Sound, PTL DEF Spec
<1> QED BY <1>2 DEF RankSafe, A

\* An INVITE lets a banned user in once (IRC_INVITE, Lists_Check, join_allowed).
THEOREM InviteOnceHolds == Spec => InviteOnce
<1> DEFINE A == \A p \in DOMAIN member' \ DOMAIN member :
                  /\ p[1] \in DOMAIN chan /\ p[2] \notin oper
                  /\ Lists_Check(chan[p[1]].bans, p[2])
                  /\ ~Lists_Check(chan[p[1]].excepts, p[2])
                  /\ ~Invited(p[1], p[2])
                  => p \in pass
<1>1. ASSUME IInv, [Next]_vars PROVE [A]_vars
  <2>1. st \in Good /\ TicketsIn(st, pass)
        /\ st.chan = chan /\ st.member = member /\ st.oper = oper
    BY <1>1 DEF IInv, st
  <2>2. ASSUME NEW t \in Good, st' = t, Stepped(t),
               NEW p \in DOMAIN member' \ DOMAIN member,
               p[1] \in DOMAIN chan, p[2] \notin oper,
               Lists_Check(chan[p[1]].bans, p[2]), ~Lists_Check(chan[p[1]].excepts, p[2]),
               ~Invited(p[1], p[2])
        PROVE  p \in pass
    <3>1. p \in DOMAIN t.member \ DOMAIN st.member
      BY <2>1, <2>2, Zenon DEF st
    <3>2. PICK u \in User : Done(st, t, u)
      BY <2>2, <3>1, Zenon DEF Stepped, InviteSet, Provided
    <3>3. ~Lasting(st.chan[p[1]].invites, p[2])
      BY <2>1, <2>2, Zenon DEF Invited, Lasting
    <3> QED BY <2>1, <2>2, <3>1, <3>2, <3>3, OnceKept, Zenon
  <2> QED BY <1>1, <2>2, StepOf DEF vars
<1> HIDE DEF A
<1>2. Spec => [][A]_vars
  BY <1>1, Sound, PTL DEF Spec
<1> QED BY <1>2 DEF InviteOnce, A

\* What a channel that stays open has set changes only by one who has rights in it or
\* is an IRC operator, and nobody else makes a muted user heard (Channel_Mode,
\* IRC_TOPIC, Can_Send_To_Channel).
THEOREM AuthorisedHolds == Spec => Authorised
<1> DEFINE A == \A c \in DOMAIN chan \cap DOMAIN chan' :
                  \/ RankOf(c, by') >= 1 \/ by' \in oper'
                  \/ ~Altered(c) /\ \A u \in User : ~Unmuted(c, u)
<1>1. ASSUME IInv, [Next]_vars PROVE [A]_vars
  <2>1. st \in Good /\ st.chan = chan /\ st.member = member /\ st.oper = oper
    BY <1>1 DEF IInv, st
  <2>2. ASSUME NEW t \in Good, st' = t, Stepped(t),
               NEW c \in DOMAIN chan \cap DOMAIN chan'
        PROVE  \/ RankOf(c, by') >= 1 \/ by' \in oper'
               \/ ~Altered(c) /\ \A u \in User : ~Unmuted(c, u)
    <3>1. t.chan = chan' /\ t.oper = oper'
      BY <2>2 DEF st
    <3>2. c \in DOMAIN st.chan \cap DOMAIN t.chan
      BY <2>1, <3>1
    <3>3. RankIn(st, c, by') = RankOf(c, by')
      BY <2>1 DEF RankIn, RankOf
    <3>4. Altered(c) <=> AlteredIn(st, t, c)
      BY <2>1, <3>1 DEF Altered, AlteredIn
    <3>5. ASSUME NEW u \in User PROVE Unmuted(c, u) <=> UnmutedIn(st, t, c, u)
      BY <2>1, <2>2 DEF Unmuted, UnmutedIn
    <3>6. CASE Done(st, t, by')
      <4>1. RankIn(st, c, by') >= 1 \/ by' \in t.oper \/ Calm(st, t, c)
        BY <2>1, <3>2, <3>6, AuthorisedKept
      <4> QED BY <3>1, <3>3, <3>4, <3>5, <4>1 DEF Calm
    <3>7. CASE \E d, v : t = st \/ InviteSet(st, t, d, v)
      <4>1. t = st => Calm(st, t, c)
        BY <2>1, <3>2, FirmRefl, CalmIf
      <4>2. Calm(st, t, c)
        BY <2>1, <3>2, <3>7, <4>1, AuthorisedInvite
      <4> QED BY <3>4, <3>5, <4>2 DEF Calm
    <3>8. CASE Provided(st, t)
      <4>1. Calm(st, t, c)
        BY <2>1, <3>2, <3>8, AuthorisedProvided
      <4> QED BY <3>4, <3>5, <4>1 DEF Calm
    <3> QED BY <2>2, <3>6, <3>7, <3>8, Zenon DEF Stepped
  <2> QED BY <1>1, <2>2, StepOf DEF vars
<1> HIDE DEF A
<1>2. Spec => [][A]_vars
  BY <1>1, Sound, PTL DEF Spec
<1> QED BY <1>2 DEF Authorised, A

-----------------------------------------------------------------------------
(* The refinement of AbstractChannel                                       *)
\* Every step moves every channel as AbstractChannel allows.
LEMMA StepTaken ==
    ASSUME IInv, NEW t \in Good, Stepped(t), NEW c \in Chan
    PROVE  StepIn(st, t, c)
<1>1. st \in Good
  BY DEF IInv
<1>2. ASSUME NEW u \in User, Done(st, t, u) PROVE StepIn(st, t, c)
  BY <1>1, <1>2, DoneStep
<1>3. ASSUME NEW d \in Chan, NEW v \in User, t = st \/ InviteSet(st, t, d, v)
      PROVE  StepIn(st, t, c)
  BY <1>1, <1>3, InviteStep
<1>4. ASSUME Provided(st, t) PROVE StepIn(st, t, c)
  BY <1>1, <1>4, ProvidedStep
<1> QED BY <1>2, <1>3, <1>4 DEF Stepped

\* StepIn is what Step of AbstractChannel says under the refinement mapping.
LEMMA StepMapped ==
    ASSUME NEW c \in Chan, StepIn(st, st', c)
    PROVE  Abs!Step(c)
<1> DEFINE M == [d \in Chan |-> Members(st, d)]
           O == [d \in Chan |-> {u \in Members(st, d) : UserHas(st, d, u, Op)}]
<1>1. M[c] = Members(st, c) /\ M'[c] = Members(st', c)
  OBVIOUS
<1>2. O[c] = Ops(st, c) /\ O'[c] = Ops(st', c)
  BY DEF Ops
<1>3. DOMAIN chan = DOMAIN st.chan /\ DOMAIN chan' = DOMAIN st'.chan /\ oper = st.oper
  BY DEF st
<1>4. /\ Abs!Same(c) <=> M'[c] = M[c] /\ O'[c] = O[c] /\ (c \in DOMAIN chan' <=> c \in DOMAIN chan)
      /\ Abs!Provide(c) <=> c \notin DOMAIN chan /\ c \in DOMAIN chan' /\ M'[c] = {} /\ O'[c] = {}
      /\ Abs!Manage(c) <=> /\ O[c] # {} /\ c \in DOMAIN chan /\ c \in DOMAIN chan'
                           /\ M'[c] = M[c] /\ O'[c] \subseteq M[c]
      /\ Abs!Intervene(c) <=> oper # {} /\ O'[c] \subseteq M'[c]
  BY Zenon DEF Abs!Same, Abs!Provide, Abs!Manage, Abs!Intervene
<1>5. ASSUME NEW u
      PROVE  Abs!Open(c, u) <=> /\ c \notin DOMAIN chan /\ c \in DOMAIN chan'
                                /\ M'[c] = {u}
                                /\ O'[c] = IF c \in Chan \ Modeless THEN {u} ELSE {}
  BY Zenon DEF Abs!Open
<1>6. ASSUME NEW u
      PROVE  Abs!Enter(c, u) <=> /\ c \in DOMAIN chan /\ c \in DOMAIN chan' /\ u \notin M[c]
                                 /\ M'[c] = M[c] \cup {u} /\ O'[c] = O[c]
  BY Zenon DEF Abs!Enter
<1>7. ASSUME NEW gone
      PROVE  Abs!Leave(c, gone) <=> /\ gone # {} /\ gone \subseteq M[c]
                                    /\ M'[c] = M[c] \ gone /\ O'[c] = O[c] \ gone
                                    /\ c \in DOMAIN chan
                                    /\ c \in DOMAIN chan' \/ M'[c] = {}
  BY Zenon DEF Abs!Leave
<1> HIDE DEF M, O
<1>8. SameIn(st, st', c) => Abs!Same(c)
  BY <1>1, <1>2, <1>3, <1>4, Zenon DEF SameIn
<1>9. ProvideIn(st, st', c) => Abs!Provide(c)
  BY <1>1, <1>2, <1>3, <1>4, Zenon DEF ProvideIn
<1>10. ManageIn(st, st', c) => Abs!Manage(c)
  BY <1>1, <1>2, <1>3, <1>4, Zenon DEF ManageIn
<1>11. InterveneIn(st, st', c) => Abs!Intervene(c)
  BY <1>1, <1>2, <1>3, <1>4, Zenon DEF InterveneIn
<1>12. ASSUME NEW u, OpenIn(st, st', c, u) PROVE Abs!Open(c, u)
  BY <1>1, <1>2, <1>3, <1>5, <1>12, Zenon DEF OpenIn
<1>13. ASSUME NEW u, EnterIn(st, st', c, u) PROVE Abs!Enter(c, u)
  BY <1>1, <1>2, <1>3, <1>6, <1>13 DEF EnterIn
<1>14. ASSUME NEW gone, LeaveIn(st, st', c, gone) PROVE Abs!Leave(c, gone)
  BY <1>1, <1>2, <1>3, <1>7, <1>14 DEF LeaveIn
<1> QED BY <1>8, <1>9, <1>10, <1>11, <1>12, <1>13, <1>14, Zenon DEF StepIn, Abs!Step

\* The channels implement AbstractChannel: the one who opens a channel becomes its
\* operator, operators come from operators, and a channel without operators stays so
\* until it is closed, unless an IRC operator steps in (JOIN, PART, KICK, MODE, INVITE,
\* the end of a connection and a rehash).
THEOREM AbstractOKHolds == Spec => AbstractOK
<1>1. ASSUME Init PROVE Abs!Init
  <2>1. IInv /\ DOMAIN member = {} /\ oper = {}
    BY <1>1, InitSound
  <2>2. DOMAIN chan \subseteq Chan
    BY <2>1, GoodIsSound
  <2>3. \A c \in Chan : Members(st, c) = {}
    BY <2>1 DEF Members, Channel_IsMemberOf, st
  <2>4. \A c \in Chan : {u \in Members(st, c) : UserHas(st, c, u, Op)} = {}
    BY <2>3
  <2>5. /\ [c \in Chan |-> Members(st, c)] = [c \in Chan |-> {}]
        /\ [c \in Chan |-> {u \in Members(st, c) : UserHas(st, c, u, Op)}] = [c \in Chan |-> {}]
    BY <2>3, <2>4, Zenon
  <2> QED BY <2>1, <2>2, <2>5 DEF Abs!Init
<1>2. ASSUME IInv, [Next]_vars PROVE [Abs!Next]_(Abs!vars)
  <2>1. CASE UNCHANGED vars
    <3>1. st' = st /\ chan' = chan /\ oper' = oper
      BY <2>1 DEF vars, st
    <3> QED BY <3>1, Zenon DEF Abs!vars
  <2>2. ASSUME NEW t \in Good, st' = t, Stepped(t) PROVE Abs!Next
    <3>1. ASSUME NEW c \in Chan PROVE Abs!Step(c)
      BY <1>2, <2>2, <3>1, StepTaken, StepMapped
    <3>2. oper' \subseteq User
      BY <2>2, GoodParts, StateParts, CommandAssumption DEF st
    <3> QED BY <3>1, <3>2 DEF Abs!Next
  <2> QED BY <1>2, <2>1, <2>2, StepOf
<1> QED BY <1>1, <1>2, Sound, PTL DEF Spec, AbstractOK, Abs!Spec
=============================================================================
