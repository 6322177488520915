---------------------------- MODULE LinksProofs ----------------------------
(***************************************************************************)
(* Proofs about Links: the table Conf_Server[], the connections and the    *)
(* resolvers agree after every step, for every number of slots and of      *)
(* descriptors and for every configuration file.  LinksSound is inductive  *)
(* as it stands; the handlers are shown to keep it one operator at a time, *)
(* the loops over the table by the lemmas on folds of InductionFacts.      *)
(***************************************************************************)
EXTENDS Links, InductionFacts, TLAPS

\* The delays a slot may wait for its next try.
Due == -1 .. Max({RECONNECT_DELAY, STARTUP_DELAY, Conf_ConnectRetry + Max(Random)})

Table == [Slot -> Conf_Server]
Socks == [Fd -> [kind : Conn \cup {"free", "pipe"}, id : Name \cup {NoName}]]
Linked == {"connecting", "login", "handshake", "server"}

State == [conf : Table, sock : Socks]

\* Slot i of the table c refers to what it should among the descriptors k.
LinkOK(c, k, i) == c[i].conn_id > NONE => k[c[i].conn_id].kind \in Linked
WaitOK(c, i) == c[i].conn_id = SERVER_WAIT => c[i].pipe # NONE
PipeOK(c, k, i) ==
    c[i].pipe # NONE => /\ k[c[i].pipe].kind = "pipe"
                        /\ \A n \in Slot \ {i} : c[n].pipe # c[i].pipe
SlotOK(c, k, i) == LinkOK(c, k, i) /\ WaitOK(c, i) /\ PipeOK(c, k, i)

\* A name is used once, and a server has one.
OneName(k) ==
    /\ \A f, g \in Fd : k[f].id = k[g].id /\ k[f].id # NoName => f = g
    /\ \A f \in Fd : k[f].kind \in {"handshake", "server"} => k[f].id # NoName

\* The table c and the descriptors k agree.
Agree(c, k) == /\ c \in Table /\ k \in Socks
               /\ \A i \in Slot : SlotOK(c, k, i)
               /\ OneName(k)

Good == {st \in State : Agree(st.conf, st.sock)}

\* LinksSound, as a property of a table and descriptors.
IInv == Agree(conf, sock) /\ admin \in 0 .. MaxAdmin

\* What the delays are.
LEMMA Delays ==
    /\ Due \subseteq Int /\ -1 \in Due
    /\ STARTUP_DELAY \in Due /\ RECONNECT_DELAY \in Due /\ Conf_ConnectRetry \in Due
    /\ \A r \in Random : Conf_ConnectRetry + r \in Due
    /\ \A d \in Due : d >= 0 => d - 1 \in Due
<1>1. Max(Random) \in Nat /\ \A r \in Random : Max(Random) >= r
  BY MaxNatural, LinksAssumption, Zenon
<1> DEFINE all == {RECONNECT_DELAY, STARTUP_DELAY, Conf_ConnectRetry + Max(Random)}
<1>2. IsFiniteSet(all)
  <2>1. IsFiniteSet({RECONNECT_DELAY})
    BY FS_Singleton, Zenon
  <2>2. IsFiniteSet({RECONNECT_DELAY} \cup {STARTUP_DELAY})
    BY <2>1, FS_AddElement
  <2>3. IsFiniteSet(({RECONNECT_DELAY} \cup {STARTUP_DELAY})
                    \cup {Conf_ConnectRetry + Max(Random)})
    BY <2>2, FS_AddElement
  <2>4. all = ({RECONNECT_DELAY} \cup {STARTUP_DELAY}) \cup {Conf_ConnectRetry + Max(Random)}
    BY Zenon
  <2> QED BY <2>3, <2>4, Zenon
<1>3. all \in SUBSET Nat /\ all # {}
  BY <1>1, LinksAssumption
<1> HIDE DEF all
<1>4. Max(all) \in Nat /\ \A x \in all : Max(all) >= x
  BY <1>2, <1>3, MaxNatural, Zenon
<1>5. /\ Max(all) >= RECONNECT_DELAY /\ Max(all) >= STARTUP_DELAY
      /\ Max(all) >= Conf_ConnectRetry + Max(Random)
  BY <1>4 DEF all
<1>6. Due = -1 .. Max(all)
  BY DEF Due, all
<1> HIDE DEF Due
<1> QED
  BY <1>1, <1>4, <1>5, <1>6, LinksAssumption

LEMMA ServerType ==
    Conf_Server = [name : Name \cup {NoName}, host : BOOLEAN, port : BOOLEAN, group : Nat,
                   disabled : BOOLEAN, once : BOOLEAN, conn_id : Fd \cup {NONE, SERVER_WAIT},
                   due : Due, more : 0 .. 2, pipe : Fd \cup {NONE}]
BY DEF Conf_Server, Due

\* A change of some of the slots and descriptors keeps the agreement if every slot is
\* right, or has kept its references or dropped them and its descriptors are untouched.
Keeps(c, k, d, l, i) ==
    /\ d[i].conn_id \in {c[i].conn_id, NONE}
    /\ d[i].pipe = c[i].pipe \/ (d[i].pipe = NONE /\ d[i].conn_id # SERVER_WAIT)
    /\ d[i].conn_id > NONE => l[d[i].conn_id].kind \in Linked
    /\ d[i].pipe # NONE => l[d[i].pipe].kind = k[d[i].pipe].kind

\* The table can be changed where every slot keeps or drops what it refers to.
LEMMA KeepsAgree ==
    ASSUME NEW c, NEW k, Agree(c, k), NEW d \in Table, NEW l \in Socks, OneName(l),
           \A i \in Slot : Keeps(c, k, d, l, i)
    PROVE  Agree(d, l)
<1> SUFFICES ASSUME NEW i \in Slot PROVE SlotOK(d, l, i)
  BY DEF Agree
<1>1. SlotOK(c, k, i) /\ Keeps(c, k, d, l, i)
  BY DEF Agree
<1>2. \A n \in Slot : d[n].pipe \in {c[n].pipe, NONE}
  BY DEF Keeps
<1> QED
  BY <1>1, <1>2 DEF SlotOK, LinkOK, WaitOK, PipeOK, Keeps, NONE, SERVER_WAIT

-----------------------------------------------------------------------------
(* Single slots and descriptors                                            *)
LEMMA BlankType ==
    /\ Init_Server_Struct \in Conf_Server
    /\ Init_Server_Struct.conn_id = NONE /\ Init_Server_Struct.pipe = NONE
    /\ Init_Server_Struct.more = 0
<1> HIDE DEF Due
<1> QED
  BY ServerType, Delays, LinksAssumption DEF Init_Server_Struct, NONE

LEMMA FillType ==
    ASSUME NEW b \in Block
    PROVE  Fill(b) \in Conf_Server /\ Fill(b).conn_id = NONE /\ Fill(b).pipe = NONE
<1> DEFINE r == [b EXCEPT !.disabled = Init_Server_Struct.disabled \/ b.disabled]
           E(s, n, h, o, g, d) ==
             [s EXCEPT !.name = n, !.host = h, !.port = o, !.group = g, !.disabled = d]
<1>1. r \in Block /\ r.name = b.name /\ r.host = b.host /\ r.port = b.port /\ r.group = b.group
      /\ r.disabled = (Init_Server_Struct.disabled \/ b.disabled)
  BY Zenon DEF Block
<1>2. ASSUME NEW s \in Conf_Server, NEW n \in Name, NEW h \in BOOLEAN, NEW o \in BOOLEAN,
             NEW g \in Nat, NEW d \in BOOLEAN
      PROVE  /\ E(s, n, h, o, g, d) \in Conf_Server
             /\ E(s, n, h, o, g, d).conn_id = s.conn_id /\ E(s, n, h, o, g, d).pipe = s.pipe
  <2> HIDE DEF Due
  <2> QED BY ServerType, Zenon
<1>3. Fill(b) = E(Init_Server_Struct, r.name, r.host, r.port, r.group, r.disabled)
  BY <1>1, Zenon DEF Fill
<1> HIDE DEF E, r
<1>4. /\ r.name \in Name /\ r.host \in BOOLEAN /\ r.port \in BOOLEAN /\ r.group \in Nat
      /\ r.disabled \in BOOLEAN
  BY <1>1 DEF Block
<1>5. /\ E(Init_Server_Struct, r.name, r.host, r.port, r.group, r.disabled) \in Conf_Server
      /\ E(Init_Server_Struct, r.name, r.host, r.port, r.group, r.disabled).conn_id
           = Init_Server_Struct.conn_id
      /\ E(Init_Server_Struct, r.name, r.host, r.port, r.group, r.disabled).pipe
           = Init_Server_Struct.pipe
  BY <1>2, <1>4, BlankType
<1> QED
  BY <1>3, <1>5, BlankType, Zenon

LEMMA UnsetType ==
    ASSUME NEW s \in Conf_Server, NEW r \in Random
    PROVE  /\ Unset(s, r) \in Conf_Server /\ Unset(s, r).conn_id = NONE
           /\ Unset(s, r).pipe \in {s.pipe, NONE}
<1>1. CASE s.once
  BY <1>1, BlankType DEF Unset
<1>2. CASE ~s.once
  <2> DEFINE d == IF s.due < 0 THEN RECONNECT_DELAY ELSE Conf_ConnectRetry + r
  <2>1. d \in Due
    BY Delays
  <2> HIDE DEF d, Due
  <2>2. [s EXCEPT !.conn_id = NONE, !.due = d] \in Conf_Server
    BY <2>1, ServerType, Zenon
  <2>3. Unset(s, r) = [s EXCEPT !.conn_id = NONE, !.due = d]
    BY <1>2 DEF Unset, d
  <2> QED BY <2>2, <2>3, ServerType
<1> QED BY <1>1, <1>2

\* The assignment of conn_id in slot i.
LEMMA SetConn ==
    ASSUME NEW st \in State, NEW i \in Slot, NEW v \in Fd \cup {NONE, SERVER_WAIT}
    PROVE  LET d == [st EXCEPT !.conf[i].conn_id = v]
           IN /\ d \in State /\ d.sock = st.sock
              /\ d.conf[i].conn_id = v /\ d.conf[i].pipe = st.conf[i].pipe
              /\ d.conf[i].more = st.conf[i].more
              /\ \A n \in Slot \ {i} : d.conf[n] = st.conf[n]
<1> DEFINE s == [st.conf[i] EXCEPT !.conn_id = v]
<1>1. s \in Conf_Server /\ s.conn_id = v /\ s.pipe = st.conf[i].pipe /\ s.more = st.conf[i].more
  BY ServerType DEF State, Table
<1>2. [st EXCEPT !.conf[i].conn_id = v] = [conf |-> [st.conf EXCEPT ![i] = s], sock |-> st.sock]
  BY DEF State
<1> HIDE DEF s
<1> QED
  BY <1>1, <1>2 DEF State, Table

\* The kind of descriptor f is set.
LEMMA SetKindType ==
    ASSUME NEW st \in State, NEW f \in Fd, NEW k \in Conn \cup {"free", "pipe"}
    PROVE  /\ SetKind(st, f, k) \in State /\ SetKind(st, f, k).conf = st.conf
           /\ SetKind(st, f, k).sock[f].kind = k
           /\ \A g \in Fd \ {f} : SetKind(st, f, k).sock[g] = st.sock[g]
           /\ \A g \in Fd : SetKind(st, f, k).sock[g].id = st.sock[g].id
<1> DEFINE s == [st.sock[f] EXCEPT !.kind = k]
           l == [st.sock EXCEPT ![f] = s]
<1>1. s \in [kind : Conn \cup {"free", "pipe"}, id : Name \cup {NoName}] /\ s.kind = k
      /\ s.id = st.sock[f].id
  BY DEF State, Socks
<1>2. SetKind(st, f, k) = [conf |-> st.conf, sock |-> l]
  BY DEF SetKind, State
<1> HIDE DEF s
<1>3. l \in Socks /\ l[f] = s /\ \A g \in Fd \ {f} : l[g] = st.sock[g]
  BY <1>1 DEF State, Socks
<1> HIDE DEF l
<1> QED
  BY <1>1, <1>2, <1>3 DEF State

LEMMA LowestFree ==
    ASSUME NEW st \in State, FreeFds(st) # {}
    PROVE  Min(FreeFds(st)) \in Fd /\ st.sock[Min(FreeFds(st))].kind = "free"
<1>1. FreeFds(st) \in SUBSET Nat
  BY LinksAssumption, Zenon DEF FreeFds
<1>2. Min(FreeFds(st)) \in FreeFds(st)
  BY <1>1, MinNatural
<1> QED
  BY <1>2 DEF FreeFds, Kind

\* A connection is closed: all slots that refer to it are released.
LEMMA CloseKeeps ==
    ASSUME NEW st \in Good, NEW f \in Fd, st.sock[f].kind # "pipe", NEW r \in Random
    PROVE  /\ Conn_Close(st, f, r) \in Good
           /\ \A i \in Slot : st.conf[i].conn_id = f => Conn_Close(st, f, r).conf[i].conn_id = NONE
<1> DEFINE d == Conf_UnsetServer(st.conf, f, r)
           l == [st.sock EXCEPT ![f] = Free]
<1>1. st \in State /\ st.conf \in Table /\ st.sock \in Socks /\ Agree(st.conf, st.sock)
  BY DEF Good, Agree
<1>2. \A i \in Slot : /\ st.conf[i] \in Conf_Server
                      /\ st.conf[i].conn_id \in Fd \cup {NONE, SERVER_WAIT}
                      /\ st.conf[i].pipe \in Fd \cup {NONE}
  <2> HIDE DEF Due
  <2> QED BY <1>1, ServerType DEF Table
<1>3. d \in Table
  BY <1>2, UnsetType DEF Table, Conf_UnsetServer
<1>4. l \in Socks /\ OneName(l)
  BY <1>1 DEF Socks, Free, Agree, OneName
<1>5. ASSUME NEW i \in Slot PROVE Keeps(st.conf, st.sock, d, l, i)
  <2>1. SlotOK(st.conf, st.sock, i)
    BY <1>1 DEF Agree
  <2>2. CASE st.conf[i].conn_id = f
    <3>1. d[i] = Unset(st.conf[i], r)
      BY <2>2 DEF Conf_UnsetServer
    <3>2. d[i].conn_id = NONE /\ d[i].pipe \in {st.conf[i].pipe, NONE}
      BY <3>1, <1>2, UnsetType
    <3>3. d[i].pipe # NONE => d[i].pipe # f /\ d[i].pipe \in Fd
      BY <3>2, <2>1, <1>2 DEF SlotOK, PipeOK
    <3> HIDE DEF d
    <3> QED BY <3>2, <3>3, <1>1 DEF Keeps, NONE, SERVER_WAIT, Socks
  <2>3. CASE st.conf[i].conn_id # f
    <3>1. d[i] = st.conf[i]
      BY <2>3 DEF Conf_UnsetServer
    <3>2. \A g \in Fd \ {f} : l[g] = st.sock[g]
      BY <1>1 DEF Socks
    <3>3. d[i].conn_id > NONE => d[i].conn_id \in Fd \ {f}
      BY <3>1, <2>3, <1>2 DEF NONE, SERVER_WAIT
    <3>4. d[i].pipe # NONE => d[i].pipe \in Fd \ {f}
      BY <3>1, <2>1, <1>2 DEF SlotOK, PipeOK
    <3> HIDE DEF d, l
    <3>5. d[i].conn_id > NONE => l[d[i].conn_id].kind \in Linked
      BY <3>1, <3>2, <3>3, <2>1 DEF SlotOK, LinkOK
    <3>6. d[i].pipe # NONE => l[d[i].pipe].kind = st.sock[d[i].pipe].kind
      BY <3>2, <3>4
    <3>7. d[i].conn_id = st.conf[i].conn_id /\ d[i].pipe = st.conf[i].pipe
      BY <3>1
    <3> QED BY <3>5, <3>6, <3>7 DEF Keeps
  <2> QED BY <2>2, <2>3
<1>6. Agree(d, l)
  <2> HIDE DEF d, l
  <2> QED BY <1>1, <1>3, <1>4, <1>5, KeepsAgree
<1>7. Conn_Close(st, f, r) = [conf |-> d, sock |-> l]
  BY DEF Conn_Close
<1>8. \A i \in Slot : st.conf[i].conn_id = f => d[i].conn_id = NONE
  BY <1>2, UnsetType DEF Conf_UnsetServer
<1> HIDE DEF d, l
<1> QED BY <1>3, <1>4, <1>6, <1>7, <1>8 DEF Good, State

LEMMA Fields ==
    ASSUME NEW c \in Table, NEW i \in Slot
    PROVE  /\ c[i] \in Conf_Server /\ c[i].conn_id \in Fd \cup {NONE, SERVER_WAIT}
           /\ c[i].pipe \in Fd \cup {NONE} /\ c[i].more \in 0 .. 2
           /\ c[i].once \in BOOLEAN /\ c[i].due \in Int /\ c[i].conn_id \in Int
<1>1. Fd \cup {NONE, SERVER_WAIT} \subseteq Int
  BY LinksAssumption DEF NONE, SERVER_WAIT
<1> HIDE DEF Due
<1> QED BY <1>1, ServerType, Delays, Zenon DEF Table

\* All slots but i are right.
OthersOK(st, i) == /\ st \in State /\ OneName(st.sock)
                   /\ \A n \in Slot \ {i} : SlotOK(st.conf, st.sock, n)

\* A change of slot i that leaves the descriptors in use alone.
LEMMA OneSlotKeeps ==
    ASSUME NEW i \in Slot, NEW st, OthersOK(st, i), NEW d \in State, OneName(d.sock),
           \A n \in Slot \ {i} : d.conf[n] = st.conf[n],
           \A g \in Fd : st.sock[g].kind \in Linked \cup {"pipe"}
                         => d.sock[g].kind = st.sock[g].kind,
           LinkOK(d.conf, d.sock, i), WaitOK(d.conf, i), PipeOK(d.conf, d.sock, i)
    PROVE  d \in Good
<1>1. d.conf \in Table /\ d.sock \in Socks /\ st.conf \in Table
  BY DEF State, OthersOK
<1>2. SlotOK(d.conf, d.sock, i)
  BY DEF SlotOK
<1>3. ASSUME NEW n \in Slot \ {i} PROVE SlotOK(d.conf, d.sock, n)
  <2>1. SlotOK(st.conf, st.sock, n) /\ d.conf[n] = st.conf[n]
    BY DEF OthersOK
  <2>2. d.conf[n].conn_id \in Fd \cup {NONE, SERVER_WAIT} /\ d.conf[n].pipe \in Fd \cup {NONE}
    BY <1>1, Fields
  <2>3. LinkOK(d.conf, d.sock, n)
    BY <2>1, <2>2 DEF SlotOK, LinkOK, NONE, SERVER_WAIT
  <2>4. WaitOK(d.conf, n)
    BY <2>1 DEF SlotOK, WaitOK
  <2>5. ASSUME d.conf[n].pipe # NONE
        PROVE  /\ d.sock[d.conf[n].pipe].kind = "pipe"
               /\ \A m \in Slot \ {n} : d.conf[m].pipe # d.conf[n].pipe
    <3>1. d.sock[d.conf[n].pipe].kind = "pipe"
      BY <2>1, <2>2, <2>5 DEF SlotOK, PipeOK
    <3>2. d.conf[i].pipe # d.conf[n].pipe
      BY <2>5 DEF PipeOK
    <3>3. \A m \in Slot \ {n} : m # i => d.conf[m].pipe # d.conf[n].pipe
      BY <2>1, <2>5 DEF SlotOK, PipeOK
    <3> QED BY <3>1, <3>2, <3>3
  <2> QED BY <2>3, <2>4, <2>5 DEF SlotOK, PipeOK
<1> QED BY <1>1, <1>2, <1>3 DEF Good, Agree

LEMMA GoodOthers ==
    ASSUME NEW st \in Good, NEW i \in Slot
    PROVE  OthersOK(st, i) /\ SlotOK(st.conf, st.sock, i)
BY DEF Good, Agree, OthersOK

\* A new outgoing connection takes a free descriptor for slot i.
LEMMA NewServerKeeps ==
    ASSUME NEW i \in Slot, NEW st, OthersOK(st, i), LinkOK(st.conf, st.sock, i),
           PipeOK(st.conf, st.sock, i), NEW ok \in BOOLEAN
    PROVE  New_Server(st, i, ok) \in Good /\ New_Server(st, i, ok).conf[i].more = st.conf[i].more
<1>1. st \in State /\ st.conf \in Table
  BY DEF OthersOK, State
<1>2. /\ st.conf[i].conn_id \in Fd \cup {NONE, SERVER_WAIT} /\ st.conf[i].conn_id \in Int
      /\ st.conf[i].pipe \in Fd \cup {NONE}
  BY <1>1, Fields
<1>3. CASE st.conf[i].conn_id > NONE
  <2>1. New_Server(st, i, ok) = st
    BY <1>2, <1>3 DEF New_Server, NONE
  <2>2. WaitOK(st.conf, i)
    BY <1>3, <1>2 DEF WaitOK, NONE, SERVER_WAIT
  <2>3. st \in Good
    BY <1>1, <2>2, OneSlotKeeps DEF OthersOK
  <2> QED BY <2>1, <2>3
<1>4. CASE st.conf[i].conn_id <= NONE /\ ok /\ FreeFds(st) # {}
  <2> DEFINE f == Min(FreeFds(st))
             e == [st EXCEPT !.conf[i].conn_id = f]
             d == SetKind(e, f, "connecting")
  <2>1. f \in Fd /\ st.sock[f].kind = "free"
    BY <1>1, <1>4, LowestFree
  <2>2. New_Server(st, i, ok) = d
    BY <1>2, <1>4 DEF New_Server, NONE
  <2> HIDE DEF f
  <2>3. /\ e \in State /\ e.sock = st.sock
        /\ e.conf[i].conn_id = f /\ e.conf[i].pipe = st.conf[i].pipe
        /\ e.conf[i].more = st.conf[i].more
        /\ \A n \in Slot \ {i} : e.conf[n] = st.conf[n]
    BY <1>1, <2>1, SetConn
  <2> HIDE DEF e
  <2>4. /\ d \in State /\ d.conf = e.conf /\ d.sock[f].kind = "connecting"
        /\ \A g \in Fd \ {f} : d.sock[g] = st.sock[g]
        /\ \A g \in Fd : d.sock[g].id = st.sock[g].id
    <3>1. "connecting" \in Conn \cup {"free", "pipe"}
      BY DEF Conn
    <3> QED BY <2>1, <2>3, <3>1, SetKindType
  <2> HIDE DEF d
  <2>5. OneName(d.sock)
    BY <2>4 DEF OneName, OthersOK
  <2>6. /\ \A n \in Slot \ {i} : d.conf[n] = st.conf[n]
        /\ \A g \in Fd : st.sock[g].kind \in Linked \cup {"pipe"}
                         => d.sock[g].kind = st.sock[g].kind
    BY <2>1, <2>3, <2>4 DEF Linked
  <2>7. LinkOK(d.conf, d.sock, i)
    BY <2>3, <2>4 DEF LinkOK, Linked
  <2>8. WaitOK(d.conf, i)
    BY <2>1, <2>3, <2>4, LinksAssumption DEF WaitOK, SERVER_WAIT
  <2>9. PipeOK(d.conf, d.sock, i)
    BY <1>2, <2>1, <2>3, <2>4 DEF PipeOK
  <2>10. d \in Good
    BY <2>4, <2>5, <2>6, <2>7, <2>8, <2>9, OneSlotKeeps
  <2> QED BY <2>2, <2>3, <2>4, <2>10
<1>5. CASE st.conf[i].conn_id <= NONE /\ ~(ok /\ FreeFds(st) # {})
  <2> DEFINE e == [st EXCEPT !.conf[i].conn_id = NONE]
  <2>1. New_Server(st, i, ok) = e
    BY <1>2, <1>5 DEF New_Server, NONE
  <2>2. /\ e \in State /\ e.sock = st.sock
        /\ e.conf[i].conn_id = NONE /\ e.conf[i].pipe = st.conf[i].pipe
        /\ e.conf[i].more = st.conf[i].more
        /\ \A n \in Slot \ {i} : e.conf[n] = st.conf[n]
    BY <1>1, SetConn
  <2> HIDE DEF e
  <2>3. LinkOK(e.conf, e.sock, i) /\ WaitOK(e.conf, i) /\ PipeOK(e.conf, e.sock, i)
    BY <2>2 DEF LinkOK, WaitOK, PipeOK, NONE, SERVER_WAIT
  <2>4. e \in Good
    BY <2>2, <2>3, OneSlotKeeps DEF OthersOK
  <2> QED BY <2>1, <2>2, <2>4
<1>6. st.conf[i].conn_id > NONE \/ st.conf[i].conn_id <= NONE
  BY <1>2 DEF NONE
<1> QED BY <1>3, <1>4, <1>5, <1>6

-----------------------------------------------------------------------------
(* The table: rehash                                                       *)
LEMMA CleanUpKeeps ==
    ASSUME NEW c, NEW k, Agree(c, k), NEW i \in Slot
    PROVE  Agree(CleanUp(c, i), k)
<1>1. c \in Table /\ k \in Socks /\ OneName(k)
  BY DEF Agree
<1>2. \A n \in Slot : /\ c[n] \in Conf_Server /\ c[n].pipe \in Fd \cup {NONE}
                      /\ SlotOK(c, k, n)
  BY <1>1, Fields DEF Agree
<1>3. CASE c[i].conn_id = NONE
  <2> DEFINE d == [c EXCEPT ![i] = Init_Server_Struct]
  <2>1. CleanUp(c, i) = d
    BY <1>3 DEF CleanUp
  <2>2. d \in Table /\ \A n \in Slot : d[n] = IF n = i THEN Init_Server_Struct ELSE c[n]
    BY <1>1, BlankType DEF Table
  <2> HIDE DEF d
  <2>3. \A n \in Slot : Keeps(c, k, d, k, n)
    BY <1>2, <2>2, BlankType DEF Keeps, SlotOK, LinkOK, NONE, SERVER_WAIT
  <2> QED BY <1>1, <2>1, <2>2, <2>3, KeepsAgree
<1>4. CASE c[i].conn_id # NONE /\ c[i].once
  <2> DEFINE d == [n \in Slot |-> IF n # i /\ c[n].conn_id = c[i].conn_id
                                  THEN Init_Server_Struct ELSE c[n]]
  <2>1. CleanUp(c, i) = d
    BY <1>4 DEF CleanUp
  <2>2. d \in Table /\ \A n \in Slot : d[n] \in {Init_Server_Struct, c[n]}
    BY <1>1, BlankType DEF Table
  <2> HIDE DEF d
  <2>3. \A n \in Slot : Keeps(c, k, d, k, n)
    BY <1>2, <2>2, BlankType DEF Keeps, SlotOK, LinkOK, NONE, SERVER_WAIT
  <2> QED BY <1>1, <2>1, <2>2, <2>3, KeepsAgree
<1>5. CASE c[i].conn_id # NONE /\ ~c[i].once
  <2> DEFINE s == [c[i] EXCEPT !.once = TRUE]
             d == [c EXCEPT ![i] = s]
  <2>1. CleanUp(c, i) = d
    BY <1>5 DEF CleanUp
  <2>2. s \in Conf_Server /\ s.conn_id = c[i].conn_id /\ s.pipe = c[i].pipe
    <3> HIDE DEF Due
    <3> QED BY <1>2, ServerType, Zenon
  <2> HIDE DEF s
  <2>3. d \in Table /\ \A n \in Slot : d[n] = IF n = i THEN s ELSE c[n]
    BY <1>1, <2>2 DEF Table
  <2> HIDE DEF d
  <2>4. \A n \in Slot : Keeps(c, k, d, k, n)
    BY <1>2, <2>2, <2>3 DEF Keeps, SlotOK, LinkOK, NONE, SERVER_WAIT
  <2> QED BY <1>1, <2>1, <2>3, <2>4, KeepsAgree
<1> QED BY <1>3, <1>4, <1>5

LEMMA FirstUnused ==
    ASSUME NEW c, Unused(c) # {}
    PROVE  Min(Unused(c)) \in Slot
<1>1. Unused(c) \in SUBSET Nat
  BY LinksAssumption DEF Unused, Slot
<1> QED BY <1>1, MinNatural DEF Unused

\* A slot without references may be written over any other.
LEMMA BlankSlotKeeps ==
    ASSUME NEW c, NEW k, Agree(c, k), NEW i \in Slot, NEW s \in Conf_Server,
           s.conn_id = NONE, s.pipe = NONE
    PROVE  Agree([c EXCEPT ![i] = s], k)
<1> DEFINE d == [c EXCEPT ![i] = s]
<1>1. c \in Table /\ k \in Socks /\ OneName(k) /\ \A n \in Slot : SlotOK(c, k, n)
  BY DEF Agree
<1>2. d \in Table /\ \A n \in Slot : d[n] = IF n = i THEN s ELSE c[n]
  BY <1>1 DEF Table
<1> HIDE DEF d
<1>3. \A n \in Slot : Keeps(c, k, d, k, n)
  BY <1>1, <1>2 DEF Keeps, SlotOK, LinkOK, NONE, SERVER_WAIT
<1>4. Agree(d, k)
  BY <1>1, <1>2, <1>3, KeepsAgree
<1> QED BY <1>4 DEF d

LEMMA ReadBlockKeeps ==
    ASSUME NEW c, NEW k, Agree(c, k), NEW b \in Block
    PROVE  Agree(ReadBlock(c, b), k)
<1>1. CASE Unused(c) = {}
  BY <1>1 DEF ReadBlock
<1>2. CASE Unused(c) # {}
  <2>1. Min(Unused(c)) \in Slot
    BY <1>2, FirstUnused
  <2>2. ReadBlock(c, b) = [c EXCEPT ![Min(Unused(c))] = Fill(b)]
    BY <1>2 DEF ReadBlock
  <2>3. Agree([c EXCEPT ![Min(Unused(c))] = Fill(b)], k)
    BY <2>1, FillType, BlankSlotKeeps
  <2> QED BY <2>2, <2>3
<1> QED BY <1>1, <1>2

\* The loop over the table that keeps or drops the slots of the old configuration.
LEMMA CleanUpAll ==
    ASSUME NEW V, NEW c \in V, \A i \in Slot, e \in V : CleanUp(e, i) \in V
    PROVE  ForEach(CleanUp, c, [i \in Slot |-> i]) \in V
<1> DEFINE q == [i \in Slot |-> i]
           Sol(it) == it = [s \in SUBSET Slot |->
                              IF s = {} THEN c ELSE CleanUp(it[s \ {Max(s)}], q[Max(s)])]
           it0 == CHOOSE it : Sol(it)
           pick == [s \in SUBSET Slot |-> Max(s)]
           step == [p \in Slot \X V |-> CleanUp(p[2], p[1])]
<1>1. ForEach(CleanUp, c, q) = it0[Slot]
  BY Zenon DEF ForEach, MapThenFoldSet
<1>2. IsFiniteSet(Slot) /\ Slot \subseteq Nat
  BY FS_Interval, LinksAssumption DEF Slot
<1>3. \A s \in SUBSET Slot : s # {} => Max(s) \in s
  BY <1>2, MaxNatural, FS_Subset, Zenon
<1>4. \A i \in Slot, e \in V : CleanUp(e, i) \in V
  OBVIOUS
<1>5. \E it : Sol(it)
  <2>1. step \in [Slot \X V -> V]
    BY <1>4
  <2>2. Folding(Slot, V, c, pick, step)
    <3> HIDE DEF step
    <3> QED BY <1>2, <1>3, <2>1 DEF Folding
  <2> HIDE DEF step, pick
  <2>3. PICK g \in [SUBSET Slot -> V] : FoldEquations(g, Slot, c, pick, step)
    BY <2>2, FoldExists, Zenon
  <2> USE DEF FoldEquations, step, pick
  <2>4. \A s \in SUBSET Slot :
          g[s] = IF s = {} THEN c ELSE CleanUp(g[s \ {Max(s)}], q[Max(s)])
    <3> SUFFICES ASSUME NEW s \in SUBSET Slot
                 PROVE  g[s] = IF s = {} THEN c ELSE CleanUp(g[s \ {Max(s)}], q[Max(s)])
      BY Zenon
    <3>1. CASE s # {}
      <4>1. Max(s) \in Slot /\ pick[s] = Max(s) /\ q[Max(s)] = Max(s) /\ g[s \ {Max(s)}] \in V
        BY <1>3, <3>1
      <4>2. step[<<Max(s), g[s \ {Max(s)}]>>] = CleanUp(g[s \ {Max(s)}], Max(s))
        BY <4>1
      <4> HIDE DEF step, pick, q
      <4> QED BY <2>3, <3>1, <4>1, <4>2
    <3> QED BY <2>3, <3>1, Zenon
  <2> HIDE DEF q
  <2> QED BY <2>3, <2>4
<1>6. Sol(it0)
  <2> HIDE DEF Sol
  <2> QED BY <1>5
<1>7. it0[{}] \in V
  <2> HIDE DEF it0
  <2> QED BY <1>2, <1>6
<1>8. \A s \in SUBSET Slot : s # {} => \E x \in s : it0[s \ {x}] \in V => it0[s] \in V
  <2> SUFFICES ASSUME NEW s \in SUBSET Slot, s # {}
               PROVE  it0[s \ {Max(s)}] \in V => it0[s] \in V
    BY <1>3, Zenon
  <2>1. it0[s] = CleanUp(it0[s \ {Max(s)}], Max(s))
    <3> HIDE DEF it0
    <3> QED BY <1>3, <1>6, Zenon
  <2> HIDE DEF it0
  <2> QED BY <1>3, <1>4, <2>1
<1>9. it0[Slot] \in V
  <2> HIDE DEF it0
  <2> QED BY <1>2, <1>7, <1>8, FoldIn, Zenon
<1> QED BY <1>1, <1>9

\* The [Server] blocks of a file, one after the other.
LEMMA ReadAll ==
    ASSUME NEW V, NEW c \in V, NEW q \in Seq(Block),
           \A b \in Block, e \in V : ReadBlock(e, b) \in V
    PROVE  ForEach(ReadBlock, c, q) \in V
<1> DEFINE D == DOMAIN q
           Sol(it) == it = [s \in SUBSET D |->
                              IF s = {} THEN c ELSE ReadBlock(it[s \ {Max(s)}], q[Max(s)])]
           it0 == CHOOSE it : Sol(it)
           pick == [s \in SUBSET D |-> Max(s)]
           step == [p \in D \X V |-> ReadBlock(p[2], q[p[1]])]
<1>1. ForEach(ReadBlock, c, q) = it0[D]
  BY Zenon DEF ForEach, MapThenFoldSet
<1>2. IsFiniteSet(D) /\ D \subseteq Nat /\ \A n \in D : q[n] \in Block
  BY FS_Interval
<1> HIDE DEF D
<1>3. \A s \in SUBSET D : s # {} => Max(s) \in s
  BY <1>2, MaxNatural, FS_Subset, Zenon
<1>4. \A n \in D, e \in V : ReadBlock(e, q[n]) \in V
  BY <1>2
<1>5. \E it : Sol(it)
  <2>1. step \in [D \X V -> V]
    BY <1>4
  <2>2. Folding(D, V, c, pick, step)
    <3> HIDE DEF step
    <3> QED BY <1>2, <1>3, <2>1 DEF Folding
  <2> HIDE DEF step, pick
  <2>3. PICK g \in [SUBSET D -> V] : FoldEquations(g, D, c, pick, step)
    BY <2>2, FoldExists, Zenon
  <2> USE DEF FoldEquations, step, pick
  <2>4. \A s \in SUBSET D :
          g[s] = IF s = {} THEN c ELSE ReadBlock(g[s \ {Max(s)}], q[Max(s)])
    <3> TAKE s \in SUBSET D
    <3>1. CASE s # {}
      <4>1. Max(s) \in D /\ pick[s] = Max(s) /\ g[s \ {Max(s)}] \in V
        BY <1>3, <3>1
      <4>2. step[<<Max(s), g[s \ {Max(s)}]>>] = ReadBlock(g[s \ {Max(s)}], q[Max(s)])
        BY <4>1
      <4> HIDE DEF step, pick
      <4> QED BY <2>3, <3>1, <4>1, <4>2
    <3> QED BY <2>3, <3>1, Zenon
  <2> QED BY <2>3, <2>4, Zenon
<1>6. Sol(it0)
  <2> HIDE DEF Sol
  <2> QED BY <1>5
<1>7. it0[{}] \in V
  <2> HIDE DEF it0
  <2> QED BY <1>2, <1>6
<1>8. \A s \in SUBSET D : s # {} => \E x \in s : it0[s \ {x}] \in V => it0[s] \in V
  <2> SUFFICES ASSUME NEW s \in SUBSET D, s # {}
               PROVE  it0[s \ {Max(s)}] \in V => it0[s] \in V
    BY <1>3, Zenon
  <2>1. it0[s] = ReadBlock(it0[s \ {Max(s)}], q[Max(s)])
    <3> HIDE DEF it0
    <3> QED BY <1>3, <1>6, Zenon
  <2> HIDE DEF it0
  <2> QED BY <1>3, <1>4, <2>1
<1>9. it0[D] \in V
  <2> HIDE DEF it0
  <2> QED BY <1>2, <1>7, <1>8, FoldIn, Zenon
<1> QED BY <1>1, <1>9

LEMMA ReadConfigKeeps ==
    ASSUME NEW c, NEW k, Agree(c, k), NEW file \in Files
    PROVE  Agree(Read_Config(c, file), k)
<1> DEFINE V == {e \in Table : Agree(e, k)}
<1>1. c \in V /\ file \in Seq(Block)
  BY LinksAssumption DEF Agree
<1>2. \A i \in Slot, e \in V : CleanUp(e, i) \in V
  BY CleanUpKeeps DEF Agree
<1>3. \A b \in Block, e \in V : ReadBlock(e, b) \in V
  BY ReadBlockKeeps DEF Agree
<1> HIDE DEF V
<1>4. ForEach(CleanUp, c, [i \in Slot |-> i]) \in V
  BY <1>1, <1>2, CleanUpAll, Zenon
<1>5. Read_Config(c, file) \in V
  BY <1>1, <1>3, <1>4, ReadAll, Zenon DEF Read_Config
<1> QED BY <1>5 DEF V

\* After a rehash the slots learn of the links that are up.
LEMMA SyncKeeps ==
    ASSUME NEW st \in Good
    PROVE  Conn_SyncServerStruct(st) \in Good
<1> DEFINE links(i) == {f \in Fd : /\ Kind(st, f) = "server"
                                   /\ st.conf[i].host /\ st.sock[f].id = st.conf[i].name}
           d == [i \in Slot |-> IF links(i) = {} THEN st.conf[i]
                                ELSE [st.conf[i] EXCEPT !.conn_id = Max(links(i))]]
<1>1. st \in State /\ st.conf \in Table /\ st.sock \in Socks /\ Agree(st.conf, st.sock)
  BY DEF Good, Agree
<1>2. Conn_SyncServerStruct(st) = [conf |-> d, sock |-> st.sock]
  <2>1. Conn_SyncServerStruct(st) = [st EXCEPT !.conf = d]
    BY Zenon DEF Conn_SyncServerStruct
  <2> HIDE DEF d
  <2> QED BY <1>1, <2>1 DEF State
<1>3. ASSUME NEW i \in Slot
      PROVE  /\ d[i] \in Conf_Server /\ d[i].pipe = st.conf[i].pipe
             /\ \/ d[i].conn_id = st.conf[i].conn_id
                \/ d[i].conn_id \in Fd /\ st.sock[d[i].conn_id].kind = "server"
  <2>1. st.conf[i] \in Conf_Server
    BY <1>1, Fields
  <2>2. CASE links(i) # {}
    <3>1. links(i) \in SUBSET Nat /\ IsFiniteSet(links(i)) /\ links(i) \subseteq Fd
      <4>1. links(i) \subseteq Fd
        OBVIOUS
      <4> HIDE DEF links
      <4> QED BY <4>1, LinksAssumption, FS_Subset, Zenon
    <3>2. Max(links(i)) \in links(i)
      <4> HIDE DEF links
      <4> QED BY <2>2, <3>1, MaxNatural
    <3>3. Max(links(i)) \in Fd /\ st.sock[Max(links(i))].kind = "server"
      BY <3>2, Zenon DEF Kind
    <3>4. d[i] = [st.conf[i] EXCEPT !.conn_id = Max(links(i))]
      BY <2>2
    <3> HIDE DEF d, links, Due
    <3>5. /\ [st.conf[i] EXCEPT !.conn_id = Max(links(i))] \in Conf_Server
          /\ [st.conf[i] EXCEPT !.conn_id = Max(links(i))].conn_id = Max(links(i))
          /\ [st.conf[i] EXCEPT !.conn_id = Max(links(i))].pipe = st.conf[i].pipe
      BY <2>1, <3>3, ServerType
    <3> QED BY <3>3, <3>4, <3>5
  <2> QED BY <2>1, <2>2, Zenon
<1>4. d \in Table
  BY <1>3, Zenon DEF Table
<1> HIDE DEF d
<1>5. ASSUME NEW i \in Slot PROVE SlotOK(d, st.sock, i)
  <2>1. SlotOK(st.conf, st.sock, i)
    BY <1>1 DEF Agree
  <2>2. LinkOK(d, st.sock, i)
    BY <1>3, <2>1 DEF SlotOK, LinkOK, Linked
  <2>3. WaitOK(d, i)
    BY <1>3, <2>1, LinksAssumption DEF SlotOK, WaitOK, SERVER_WAIT
  <2>4. PipeOK(d, st.sock, i)
    BY <1>3, <2>1 DEF SlotOK, PipeOK
  <2> QED BY <2>2, <2>3, <2>4 DEF SlotOK
<1> QED BY <1>1, <1>2, <1>4, <1>5 DEF Good, Agree, State

-----------------------------------------------------------------------------
(* Lookups                                                                 *)
LEMMA SetDue ==
    ASSUME NEW st \in Good, NEW i \in Slot, NEW v \in Due
    PROVE  /\ [st EXCEPT !.conf[i].due = v] \in Good
           /\ \A n \in Slot \ {i} : [st EXCEPT !.conf[i].due = v].conf[n] = st.conf[n]
<1> DEFINE s == [st.conf[i] EXCEPT !.due = v]
           d == [st.conf EXCEPT ![i] = s]
<1>1. st \in State /\ st.conf \in Table /\ st.sock \in Socks /\ Agree(st.conf, st.sock)
      /\ OneName(st.sock)
  BY DEF Good, Agree
<1>2. s \in Conf_Server /\ s.conn_id = st.conf[i].conn_id /\ s.pipe = st.conf[i].pipe
  <2> HIDE DEF Due
  <2> QED BY <1>1, ServerType DEF Table
<1>3. [st EXCEPT !.conf[i].due = v] = [conf |-> d, sock |-> st.sock]
  BY <1>1 DEF State
<1> HIDE DEF s
<1>4. d \in Table /\ \A n \in Slot : d[n] = IF n = i THEN s ELSE st.conf[n]
  BY <1>1, <1>2 DEF Table
<1> HIDE DEF d
<1>5. \A n \in Slot : Keeps(st.conf, st.sock, d, st.sock, n)
  BY <1>1, <1>2, <1>4 DEF Agree, Keeps, SlotOK, LinkOK
<1>6. Agree(d, st.sock)
  BY <1>1, <1>4, <1>5, KeepsAgree
<1> QED BY <1>1, <1>3, <1>4, <1>6 DEF Good, State

\* A lookup begins for slot i, or cannot be begun.
LEMMA ResolveKeeps ==
    ASSUME NEW st \in Good, NEW i \in Slot, NEW ok \in BOOLEAN
    PROVE  /\ Resolve_Name(st, i, ok) \in Good
           /\ \A n \in Slot \ {i} : Resolve_Name(st, i, ok).conf[n] = st.conf[n]
<1>1. OthersOK(st, i) /\ SlotOK(st.conf, st.sock, i) /\ st \in State /\ st.conf \in Table
      /\ Agree(st.conf, st.sock)
  BY GoodOthers DEF Good, State
<1>2. CASE ok /\ FreeFds(st) # {}
  <2> DEFINE f == Min(FreeFds(st))
             s == [st.conf[i] EXCEPT !.pipe = f, !.conn_id = SERVER_WAIT]
             e == [conf |-> [st.conf EXCEPT ![i] = s], sock |-> st.sock]
             d == SetKind(e, f, "pipe")
  <2>1. f \in Fd /\ st.sock[f].kind = "free"
    BY <1>1, <1>2, LowestFree
  <2>2. Resolve_Name(st, i, ok) = d
    <3>1. [st EXCEPT !.conf[i].pipe = f, !.conf[i].conn_id = SERVER_WAIT] = e
      <4> DEFINE s1 == [st.conf[i] EXCEPT !.pipe = f]
                 c1 == [st.conf EXCEPT ![i] = s1]
                 s2 == [s1 EXCEPT !.conn_id = SERVER_WAIT]
      <4>1. [st EXCEPT !.conf[i].pipe = f] = [conf |-> c1, sock |-> st.sock]
        <5> HIDE DEF f
        <5> QED BY <1>1 DEF State
      <4>2. s2 = s
        <5> HIDE DEF f
        <5> QED BY <1>1, ServerType DEF Table
      <4>3. c1[i] = s1 /\ [c1 EXCEPT ![i] = s] = [st.conf EXCEPT ![i] = s]
        <5> HIDE DEF s, s1
        <5> QED BY <1>1 DEF Table
      <4>4. [[conf |-> c1, sock |-> st.sock] EXCEPT !.conf[i].conn_id = SERVER_WAIT]
              = [conf |-> [c1 EXCEPT ![i] = [c1[i] EXCEPT !.conn_id = SERVER_WAIT]],
                 sock |-> st.sock]
        <5> HIDE DEF c1
        <5> QED OBVIOUS
      <4>5. [[st EXCEPT !.conf[i].pipe = f] EXCEPT !.conf[i].conn_id = SERVER_WAIT] = e
        <5> HIDE DEF f, s, s1, c1
        <5> QED BY <4>1, <4>2, <4>3, <4>4, Zenon
      <4> QED BY <4>5
    <3>2. Resolve_Name(st, i, ok)
            = SetKind([st EXCEPT !.conf[i].pipe = f, !.conf[i].conn_id = SERVER_WAIT], f, "pipe")
      BY <1>2 DEF Resolve_Name
    <3> HIDE DEF f, e
    <3> QED BY <3>1, <3>2
  <2> HIDE DEF f
  <2>3. s \in Conf_Server /\ s.conn_id = SERVER_WAIT /\ s.pipe = f
    <3> HIDE DEF Due
    <3> QED BY <1>1, <2>1, ServerType, Zenon DEF Table
  <2> HIDE DEF s
  <2>4. /\ e \in State /\ e.sock = st.sock /\ e.conf[i] = s
        /\ \A n \in Slot \ {i} : e.conf[n] = st.conf[n]
    BY <1>1, <2>3 DEF State, Table
  <2> HIDE DEF e
  <2>5. /\ d \in State /\ d.conf = e.conf /\ d.sock[f].kind = "pipe"
        /\ \A g \in Fd \ {f} : d.sock[g] = st.sock[g]
        /\ \A g \in Fd : d.sock[g].id = st.sock[g].id
    <3>1. "pipe" \in Conn \cup {"free", "pipe"}
      OBVIOUS
    <3> QED BY <2>1, <2>4, <3>1, SetKindType
  <2> HIDE DEF d
  <2>6. OneName(d.sock)
    BY <1>1, <2>5 DEF OneName, OthersOK
  <2>7. /\ \A n \in Slot \ {i} : d.conf[n] = st.conf[n]
        /\ \A g \in Fd : st.sock[g].kind \in Linked \cup {"pipe"}
                         => d.sock[g].kind = st.sock[g].kind
    BY <2>1, <2>4, <2>5 DEF Linked
  <2>8. LinkOK(d.conf, d.sock, i)
    BY <2>3, <2>4, <2>5 DEF LinkOK, NONE, SERVER_WAIT
  <2>9. WaitOK(d.conf, i)
    BY <2>1, <2>3, <2>4, <2>5, LinksAssumption DEF WaitOK, NONE
  <2>10. \A n \in Slot \ {i} : st.conf[n].pipe # f
    <3> TAKE n \in Slot \ {i}
    <3>1. SlotOK(st.conf, st.sock, n)
      BY <1>1 DEF Agree
    <3> QED BY <2>1, <3>1, LinksAssumption DEF SlotOK, PipeOK, NONE
  <2>11. PipeOK(d.conf, d.sock, i)
    BY <2>3, <2>4, <2>5, <2>7, <2>10 DEF PipeOK
  <2>12. d \in Good
    BY <1>1, <2>5, <2>6, <2>7, <2>8, <2>9, <2>11, OneSlotKeeps
  <2> QED BY <2>2, <2>7, <2>12
<1>3. CASE ~(ok /\ FreeFds(st) # {})
  <2> DEFINE e == [st EXCEPT !.conf[i].conn_id = NONE]
  <2>1. Resolve_Name(st, i, ok) = e
    BY <1>3 DEF Resolve_Name
  <2>2. /\ e \in State /\ e.sock = st.sock
        /\ e.conf[i].conn_id = NONE /\ e.conf[i].pipe = st.conf[i].pipe
        /\ \A n \in Slot \ {i} : e.conf[n] = st.conf[n]
    BY <1>1, SetConn
  <2> HIDE DEF e
  <2>3. LinkOK(e.conf, e.sock, i) /\ WaitOK(e.conf, i) /\ PipeOK(e.conf, e.sock, i)
    BY <1>1, <2>2 DEF SlotOK, LinkOK, WaitOK, PipeOK, NONE, SERVER_WAIT
  <2>4. e \in Good
    BY <1>1, <2>2, <2>3, OneSlotKeeps DEF OthersOK
  <2> QED BY <2>1, <2>2, <2>4
<1> QED BY <1>2, <1>3

LEMMA MaybeStartKeeps ==
    ASSUME NEW st \in Good, NEW i \in Slot, NEW ok \in BOOLEAN
    PROVE  /\ Conn_Maybe_Start_Server_Link(st, i, ok) \in Good
           /\ \A n \in Slot : st.conf[n].conn_id # NONE
                  => Conn_Maybe_Start_Server_Link(st, i, ok).conf[n] = st.conf[n]
<1> DEFINE e == [st EXCEPT !.conf[i].due = Conf_ConnectRetry]
<1>1. e \in Good /\ \A n \in Slot \ {i} : e.conf[n] = st.conf[n]
  <2> HIDE DEF Due
  <2> QED BY Delays, SetDue
<1>2. Conn_Maybe_Start_Server_Link(st, i, ok)
        = IF Wanted(st.conf, i) THEN Resolve_Name(e, i, ok) ELSE st
  BY DEF Conn_Maybe_Start_Server_Link
<1>3. Wanted(st.conf, i) => st.conf[i].conn_id = NONE
  BY DEF Wanted
<1> HIDE DEF e
<1>4. /\ Resolve_Name(e, i, ok) \in Good
      /\ \A n \in Slot \ {i} : Resolve_Name(e, i, ok).conf[n] = st.conf[n]
  BY <1>1, ResolveKeeps
<1> QED BY <1>2, <1>3, <1>4

\* The loop over all servers at the start of a round.
LEMMA CheckServersKeeps ==
    ASSUME NEW V, NEW st \in V, NEW ok \in SUBSET Slot,
           \A e \in V, i \in Slot, o \in BOOLEAN : Conn_Maybe_Start_Server_Link(e, i, o) \in V
    PROVE  ForEach(LAMBDA e, i : Conn_Maybe_Start_Server_Link(e, i, i \in ok),
                    st, [i \in Slot |-> i]) \in V
<1> DEFINE q == [i \in Slot |-> i]
           Turn(e, i) == Conn_Maybe_Start_Server_Link(e, i, i \in ok)
           Sol(it) == it = [s \in SUBSET Slot |->
                              IF s = {} THEN st ELSE Turn(it[s \ {Max(s)}], q[Max(s)])]
           it0 == CHOOSE it : Sol(it)
           pick == [s \in SUBSET Slot |-> Max(s)]
           step == [p \in Slot \X V |-> Turn(p[2], p[1])]
<1>1. ForEach(LAMBDA e, i : Conn_Maybe_Start_Server_Link(e, i, i \in ok), st, q) = it0[Slot]
  BY Zenon DEF ForEach, MapThenFoldSet
<1>2. IsFiniteSet(Slot) /\ Slot \subseteq Nat
  BY FS_Interval, LinksAssumption DEF Slot
<1>3. \A s \in SUBSET Slot : s # {} => Max(s) \in s
  BY <1>2, MaxNatural, FS_Subset, Zenon
<1>4. \A i \in Slot, e \in V : Turn(e, i) \in V
  <2> TAKE i \in Slot, e \in V
  <2>1. (i \in ok) \in BOOLEAN
    OBVIOUS
  <2> QED BY <2>1, Zenon
<1> HIDE DEF Turn
<1>5. \E it : Sol(it)
  <2>1. step \in [Slot \X V -> V]
    BY <1>4
  <2>2. Folding(Slot, V, st, pick, step)
    <3> HIDE DEF step
    <3> QED BY <1>2, <1>3, <2>1 DEF Folding
  <2> HIDE DEF step, pick
  <2>3. PICK g \in [SUBSET Slot -> V] : FoldEquations(g, Slot, st, pick, step)
    BY <2>2, FoldExists, Zenon
  <2> USE DEF FoldEquations, step, pick
  <2>4. \A s \in SUBSET Slot :
          g[s] = IF s = {} THEN st ELSE Turn(g[s \ {Max(s)}], q[Max(s)])
    <3> SUFFICES ASSUME NEW s \in SUBSET Slot
                 PROVE  g[s] = IF s = {} THEN st ELSE Turn(g[s \ {Max(s)}], q[Max(s)])
      BY Zenon
    <3>1. CASE s # {}
      <4>1. Max(s) \in Slot /\ pick[s] = Max(s) /\ q[Max(s)] = Max(s) /\ g[s \ {Max(s)}] \in V
        BY <1>3, <3>1
      <4>2. step[<<Max(s), g[s \ {Max(s)}]>>] = Turn(g[s \ {Max(s)}], Max(s))
        BY <4>1
      <4> HIDE DEF step, pick, q
      <4> QED BY <2>3, <3>1, <4>1, <4>2
    <3> QED BY <2>3, <3>1, Zenon
  <2>5. g \in [SUBSET Slot -> V]
    OBVIOUS
  <2> HIDE DEF FoldEquations, step, pick, q
  <2>6. Sol(g)
    BY <2>4, <2>5
  <2> HIDE DEF Sol
  <2> QED BY <2>6
<1>6. Sol(it0)
  <2> HIDE DEF Sol
  <2> QED BY <1>5
<1>7. it0[{}] \in V
  <2> HIDE DEF it0
  <2> QED BY <1>2, <1>6
<1>8. \A s \in SUBSET Slot : s # {} => \E x \in s : it0[s \ {x}] \in V => it0[s] \in V
  <2> SUFFICES ASSUME NEW s \in SUBSET Slot, s # {}
               PROVE  it0[s \ {Max(s)}] \in V => it0[s] \in V
    BY <1>3, Zenon
  <2>1. it0[s] = Turn(it0[s \ {Max(s)}], Max(s))
    <3> HIDE DEF it0
    <3> QED BY <1>3, <1>6, Zenon
  <2> HIDE DEF it0
  <2> QED BY <1>3, <1>4, <2>1
<1>9. it0[Slot] \in V
  <2> HIDE DEF it0
  <2> QED BY <1>2, <1>7, <1>8, FoldIn, Zenon
<1> QED BY <1>1, <1>9, Zenon

-----------------------------------------------------------------------------
(* The steps of the daemon                                                 *)
LEMMA NowGood ==
    ASSUME IInv PROVE St \in Good
BY DEF IInv, Agree, Good, State, St

LEMMA BecomeKeeps ==
    ASSUME IInv, NEW st \in Good, Become(st)
    PROVE  IInv'
<1>1. conf' = st.conf /\ sock' = st.sock /\ admin' = admin
  BY DEF Become
<1>2. Agree(conf', sock')
  BY <1>1 DEF Good
<1> QED BY <1>1, <1>2 DEF IInv

LEMMA AdminKeeps ==
    ASSUME IInv, NEW st \in Good, Admin(st)
    PROVE  IInv'
<1>1. conf' = st.conf /\ sock' = st.sock /\ admin' = admin + 1 /\ admin < MaxAdmin
  BY DEF Admin
<1>2. Agree(conf', sock')
  BY <1>1 DEF Good
<1>3. admin' \in 0 .. MaxAdmin
  BY <1>1, LinksAssumption DEF IInv
<1> QED BY <1>2, <1>3 DEF IInv

LEMMA InitEstablishes ==
    ASSUME Init PROVE IInv
<1> DEFINE c == [i \in Slot |-> Init_Server_Struct]
           k == [f \in Fd |-> Free]
<1>1. c \in Table /\ k \in Socks
  BY BlankType DEF Table, Socks, Free
<1>2. \A i \in Slot : SlotOK(c, k, i)
  BY BlankType DEF SlotOK, LinkOK, WaitOK, PipeOK, NONE, SERVER_WAIT
<1>3. OneName(k)
  BY DEF OneName, Free
<1>4. Agree(c, k)
  BY <1>1, <1>2, <1>3 DEF Agree
<1>5. FirstFile \in Seq(Block)
  BY LinksAssumption
<1> HIDE DEF c, k
<1>6. Agree(ForEach(ReadBlock, c, FirstFile), k)
  <2> DEFINE V == {e \in Table : Agree(e, k)}
  <2>1. c \in V
    BY <1>1, <1>4
  <2>2. \A b \in Block, e \in V : ReadBlock(e, b) \in V
    BY ReadBlockKeeps DEF Agree
  <2>3. ForEach(ReadBlock, c, FirstFile) \in V
    <3> HIDE DEF V
    <3> QED BY <1>5, <2>1, <2>2, ReadAll, Zenon
  <2> QED BY <2>3
<1>7. conf = ForEach(ReadBlock, c, FirstFile) /\ sock = k /\ admin = 0
  BY DEF Init, c, k
<1> QED BY <1>6, <1>7, LinksAssumption DEF IInv

\* A step leaves every slot to its connection.
SameLinks == \A i \in Slot : conf'[i].conn_id = conf[i].conn_id

\* Only the delays change.
LEMMA TickKeeps ==
    ASSUME IInv, Tick PROVE IInv' /\ SameLinks
<1> DEFINE d == [i \in Slot |-> [conf[i] EXCEPT !.due = IF @ < 0 THEN @ ELSE @ - 1]]
<1>1. Agree(conf, sock) /\ conf \in Table /\ sock \in Socks /\ OneName(sock)
  BY DEF IInv, Agree
<1>2. ASSUME NEW i \in Slot
      PROVE  /\ d[i] \in Conf_Server /\ d[i].conn_id = conf[i].conn_id
             /\ d[i].pipe = conf[i].pipe
  <2> DEFINE v == IF conf[i].due < 0 THEN conf[i].due ELSE conf[i].due - 1
  <2> HIDE DEF Due
  <2>1. conf[i] \in Conf_Server /\ conf[i].due \in Due /\ conf[i].due \in Int
    BY <1>1, Fields, ServerType
  <2>2. v \in Due
    BY <2>1, Delays
  <2>3. d[i] = [conf[i] EXCEPT !.due = v]
    OBVIOUS
  <2> HIDE DEF v, d
  <2> QED BY <2>1, <2>2, <2>3, ServerType
<1>3. d \in Table
  BY <1>2 DEF Table
<1>4. conf' = d /\ sock' = sock /\ admin' = admin
  BY DEF Tick
<1> HIDE DEF d
<1>5. \A i \in Slot : Keeps(conf, sock, d, sock, i)
  BY <1>1, <1>2 DEF Agree, Keeps, SlotOK, LinkOK
<1>6. Agree(d, sock)
  BY <1>1, <1>3, <1>5, KeepsAgree
<1> QED BY <1>2, <1>4, <1>6 DEF IInv, SameLinks

LEMMA CheckKeeps ==
    ASSUME IInv, Check_Servers PROVE IInv'
<1>1. PICK ok \in SUBSET Slot :
        Become(ForEach(LAMBDA st, i : Conn_Maybe_Start_Server_Link(st, i, i \in ok),
                        St, [i \in Slot |-> i]))
  BY Zenon DEF Check_Servers
<1>2. ForEach(LAMBDA st, i : Conn_Maybe_Start_Server_Link(st, i, i \in ok),
               St, [i \in Slot |-> i]) \in Good
  BY NowGood, MaybeStartKeeps, CheckServersKeeps, Zenon
<1> QED BY <1>1, <1>2, BecomeKeeps, Zenon

LEMMA SetMore ==
    ASSUME NEW st \in State, NEW i \in Slot, NEW v \in 0 .. 2
    PROVE  LET d == [st EXCEPT !.conf[i].more = v]
           IN /\ d \in State /\ d.sock = st.sock
              /\ d.conf[i].conn_id = st.conf[i].conn_id /\ d.conf[i].pipe = st.conf[i].pipe
              /\ d.conf[i].more = v
              /\ \A n \in Slot \ {i} : d.conf[n] = st.conf[n]
<1> DEFINE s == [st.conf[i] EXCEPT !.more = v]
<1>1. /\ s \in Conf_Server /\ s.conn_id = st.conf[i].conn_id /\ s.pipe = st.conf[i].pipe
      /\ s.more = v
  <2> HIDE DEF Due
  <2> QED BY ServerType DEF State, Table
<1>2. [st EXCEPT !.conf[i].more = v] = [conf |-> [st.conf EXCEPT ![i] = s], sock |-> st.sock]
  BY DEF State
<1> HIDE DEF s
<1> QED
  BY <1>1, <1>2 DEF State, Table

\* The pipe of slot i is closed; the slot may still wait.
LEMMA ProcCloseKeeps ==
    ASSUME NEW st \in Good, NEW i \in Slot, st.conf[i].pipe # NONE
    PROVE  /\ OthersOK(Proc_Close(st, i), i)
           /\ LinkOK(Proc_Close(st, i).conf, Proc_Close(st, i).sock, i)
           /\ Proc_Close(st, i).conf[i].pipe = NONE
<1> DEFINE f == st.conf[i].pipe
           s == [st.conf[i] EXCEPT !.pipe = NONE]
           c == [st.conf EXCEPT ![i] = s]
           k == [st.sock EXCEPT ![f] = Free]
<1>1. /\ st \in State /\ st.conf \in Table /\ st.sock \in Socks /\ OneName(st.sock)
      /\ \A n \in Slot : SlotOK(st.conf, st.sock, n)
  BY DEF Good, Agree
<1>2. f \in Fd /\ st.sock[f].kind = "pipe"
  BY <1>1, Fields DEF SlotOK, PipeOK
<1>3. Proc_Close(st, i) = [conf |-> c, sock |-> k]
  BY DEF Proc_Close
<1>4. s \in Conf_Server /\ s.conn_id = st.conf[i].conn_id /\ s.pipe = NONE
  <2> HIDE DEF Due
  <2> QED BY <1>1, ServerType DEF Table
<1> HIDE DEF s
<1>5. c \in Table /\ c[i] = s /\ \A n \in Slot \ {i} : c[n] = st.conf[n]
  BY <1>1, <1>4 DEF Table
<1>6. k \in Socks /\ \A g \in Fd \ {f} : k[g] = st.sock[g]
  BY <1>1, <1>2 DEF Socks, Free
<1>7. OneName(k)
  BY <1>1, <1>2 DEF OneName, Socks, Free
<1>8. ASSUME NEW n \in Slot PROVE LinkOK(c, k, n) /\ (n # i => WaitOK(c, n) /\ PipeOK(c, k, n))
  <2>1. SlotOK(st.conf, st.sock, n) /\ c[n].conn_id = st.conf[n].conn_id
    BY <1>1, <1>4, <1>5
  <2>2. /\ st.conf[n].conn_id \in Fd \cup {NONE, SERVER_WAIT}
        /\ st.conf[n].pipe \in Fd \cup {NONE}
    BY <1>1, Fields
  <2>3. st.conf[n].conn_id > NONE => st.conf[n].conn_id \in Fd \ {f}
    BY <1>2, <2>1, <2>2 DEF SlotOK, LinkOK, Linked, NONE, SERVER_WAIT
  <2>4. LinkOK(c, k, n)
    <3> HIDE DEF c, k
    <3> QED BY <1>6, <2>1, <2>3 DEF SlotOK, LinkOK
  <2>5. ASSUME n # i PROVE WaitOK(c, n) /\ PipeOK(c, k, n)
    <3>1. c[n] = st.conf[n]
      BY <1>5, <2>5
    <3>2. WaitOK(c, n)
      BY <2>1, <3>1 DEF SlotOK, WaitOK
    <3>3. c[n].pipe # NONE => c[n].pipe \in Fd \ {f}
      BY <2>1, <2>2, <2>5, <3>1 DEF SlotOK, PipeOK
    <3> HIDE DEF c, k
    <3>4. PipeOK(c, k, n)
      BY <1>4, <1>5, <1>6, <2>1, <3>1, <3>3 DEF SlotOK, PipeOK
    <3> QED BY <3>2, <3>4
  <2> QED BY <2>4, <2>5
<1> HIDE DEF c, k
<1> QED BY <1>3, <1>4, <1>5, <1>6, <1>7, <1>8 DEF OthersOK, SlotOK, State

\* The answer of a resolver.
LEMMA LookupKeeps ==
    ASSUME IInv, NEW f \in Fd, cb_Connect_to_Server(f) PROVE IInv'
<1> DEFINE mine == {n \in Slot : conf[n].pipe = f}
           i == Min(mine)
           read == Proc_Close(St, i)
<1>1. /\ St \in Good /\ Agree(conf, sock) /\ conf \in Table /\ sock \in Socks /\ OneName(sock)
      /\ St.conf = conf /\ St.sock = sock /\ sock[f].kind = "pipe"
  BY NowGood, Zenon DEF IInv, Agree, St, cb_Connect_to_Server, Kind
<1>2. CASE mine = {}
  <2> DEFINE k == [sock EXCEPT ![f] = Free]
  <2>1. Become([St EXCEPT !.sock[f] = Free])
    BY <1>2 DEF cb_Connect_to_Server, Unclaimed
  <2>2. [St EXCEPT !.sock[f] = Free] = [conf |-> conf, sock |-> k]
    BY DEF St
  <2>3. k \in Socks /\ OneName(k) /\ \A g \in Fd \ {f} : k[g] = sock[g]
    BY <1>1 DEF OneName, Socks, Free
  <2> HIDE DEF k
  <2>4. ASSUME NEW n \in Slot PROVE Keeps(conf, sock, conf, k, n)
    <3>1. /\ SlotOK(conf, sock, n) /\ conf[n].conn_id \in Fd \cup {NONE, SERVER_WAIT}
          /\ conf[n].pipe \in Fd \cup {NONE} /\ conf[n].pipe # f
      BY <1>1, <1>2, Fields DEF Agree
    <3>2. conf[n].conn_id > NONE => conf[n].conn_id \in Fd \ {f}
      BY <1>1, <3>1 DEF SlotOK, LinkOK, Linked, NONE, SERVER_WAIT
    <3> QED BY <2>3, <3>1, <3>2 DEF Keeps, SlotOK, LinkOK
  <2>5. Agree(conf, k)
    BY <1>1, <2>3, <2>4, KeepsAgree
  <2>6. [conf |-> conf, sock |-> k] \in Good
    BY <2>5 DEF Good, State, Agree
  <2> QED BY <2>1, <2>2, <2>6, BecomeKeeps
<1>3. CASE mine # {}
  <2>1. i \in Slot /\ conf[i].pipe = f
    <3>1. mine \in SUBSET Nat
      BY LinksAssumption DEF Slot
    <3>2. i \in mine
      <4> HIDE DEF mine
      <4> QED BY <1>3, <3>1, MinNatural
    <3> QED BY <3>2
  <2>2. \/ Become([read EXCEPT !.conf[i].conn_id = NONE])
        \/ \E n \in 1 .. MaxAddr, ok \in BOOLEAN :
              Become(New_Server([read EXCEPT !.conf[i].more = Min({n - 1, 2})], i, ok))
    BY <1>3, Zenon DEF cb_Connect_to_Server
  <2> HIDE DEF i, mine
  <2>3. OthersOK(read, i) /\ LinkOK(read.conf, read.sock, i) /\ read.conf[i].pipe = NONE
    BY <1>1, <2>1, LinksAssumption, ProcCloseKeeps DEF NONE
  <2>4. read \in State
    BY <2>3 DEF OthersOK
  <2> HIDE DEF read
  <2>5. CASE Become([read EXCEPT !.conf[i].conn_id = NONE])
    <3> DEFINE d == [read EXCEPT !.conf[i].conn_id = NONE]
    <3>1. /\ d \in State /\ d.sock = read.sock
          /\ d.conf[i].conn_id = NONE /\ d.conf[i].pipe = NONE
          /\ \A n \in Slot \ {i} : d.conf[n] = read.conf[n]
      BY <2>1, <2>3, <2>4, SetConn
    <3> HIDE DEF d
    <3>2. LinkOK(d.conf, d.sock, i) /\ WaitOK(d.conf, i) /\ PipeOK(d.conf, d.sock, i)
      BY <3>1 DEF LinkOK, WaitOK, PipeOK, NONE, SERVER_WAIT
    <3>3. d \in Good
      BY <2>1, <2>3, <3>1, <3>2, OneSlotKeeps DEF OthersOK
    <3>4. Become(d)
      BY <2>5 DEF d
    <3> QED BY <3>3, <3>4, BecomeKeeps
  <2>6. ASSUME NEW n \in 1 .. MaxAddr, NEW ok \in BOOLEAN,
               Become(New_Server([read EXCEPT !.conf[i].more = Min({n - 1, 2})], i, ok))
        PROVE  IInv'
    <3> DEFINE v == Min({n - 1, 2})
               d == [read EXCEPT !.conf[i].more = v]
    <3>1. v \in 0 .. 2
      <4>1. {n - 1, 2} \in SUBSET Nat /\ {n - 1, 2} # {}
        OBVIOUS
      <4>2. v \in {n - 1, 2} /\ \A x \in {n - 1, 2} : v <= x
        BY <4>1, MinNatural
      <4> QED BY <4>2
    <3> HIDE DEF v
    <3>2. /\ d \in State /\ d.sock = read.sock
          /\ d.conf[i].conn_id = read.conf[i].conn_id /\ d.conf[i].pipe = NONE
          /\ \A m \in Slot \ {i} : d.conf[m] = read.conf[m]
      BY <2>1, <2>3, <2>4, <3>1, SetMore, Zenon
    <3>3. Become(New_Server(d, i, ok))
      BY <2>6 DEF v
    <3> HIDE DEF d
    <3>4. OthersOK(d, i) /\ LinkOK(d.conf, d.sock, i) /\ PipeOK(d.conf, d.sock, i)
      <4>1. \A m \in Slot \ {i} : SlotOK(d.conf, d.sock, m)
        <5> TAKE m \in Slot \ {i}
        <5>1. SlotOK(read.conf, read.sock, m)
          BY <2>3 DEF OthersOK
        <5>2. \A j \in Slot : d.conf[j].pipe = read.conf[j].pipe
          BY <2>3, <3>2
        <5> QED BY <5>1, <5>2, <3>2 DEF SlotOK, LinkOK, WaitOK, PipeOK
      <4> QED BY <2>3, <3>2, <4>1 DEF OthersOK, LinkOK, PipeOK
    <3>5. New_Server(d, i, ok) \in Good
      BY <2>1, <3>4, NewServerKeeps
    <3> QED BY <3>3, <3>5, BecomeKeeps
  <2> QED BY <2>2, <2>5, <2>6, Zenon
<1> QED BY <1>2, <1>3

\* The next address is tried after a failed connect().
LEMMA FailedKeeps ==
    ASSUME NEW st \in Good, NEW i \in Slot, NEW ok \in BOOLEAN
    PROVE  Failed(st, i, ok) \in Good
<1>1. /\ OthersOK(st, i) /\ SlotOK(st.conf, st.sock, i) /\ st.conf \in Table
      /\ st.conf[i].more \in 0 .. 2
  BY GoodOthers, Fields DEF Good, State
<1>2. CASE st.conf[i].more = 0
  BY <1>2 DEF Failed
<1>3. CASE st.conf[i].more # 0
  <2> DEFINE next == New_Server(st, i, ok)
             v == st.conf[i].more - 1
             d == [next EXCEPT !.conf[i].more = v]
  <2>1. next \in Good /\ next.conf[i].more = st.conf[i].more
    BY <1>1, NewServerKeeps DEF SlotOK
  <2>2. Failed(st, i, ok) = [next EXCEPT !.conf[i].more = next.conf[i].more - 1]
    BY <1>3 DEF Failed
  <2>3. v \in 0 .. 2
    BY <1>1, <1>3
  <2> HIDE DEF next
  <2>4. Failed(st, i, ok) = d
    BY <2>1, <2>2
  <2>5. /\ next \in State /\ OthersOK(next, i) /\ SlotOK(next.conf, next.sock, i)
        /\ OneName(next.sock)
    BY <2>1, GoodOthers DEF Good, Agree
  <2> HIDE DEF v
  <2>6. /\ d \in State /\ d.sock = next.sock
        /\ d.conf[i].conn_id = next.conf[i].conn_id /\ d.conf[i].pipe = next.conf[i].pipe
        /\ \A m \in Slot \ {i} : d.conf[m] = next.conf[m]
    BY <2>3, <2>5, SetMore, Zenon
  <2> HIDE DEF d
  <2>7. LinkOK(d.conf, d.sock, i) /\ WaitOK(d.conf, i) /\ PipeOK(d.conf, d.sock, i)
    BY <2>5, <2>6 DEF SlotOK, LinkOK, WaitOK, PipeOK
  <2>8. d \in Good
    BY <2>5, <2>6, <2>7, OneSlotKeeps
  <2> QED BY <2>4, <2>8
<1> QED BY <1>2, <1>3

\* The kind of a connection changes to another one a slot may refer to.
LEMMA LinkStepKeeps ==
    ASSUME NEW st \in Good, NEW f \in Fd, st.sock[f].kind # "pipe", NEW k \in Linked,
           k \in {"handshake", "server"} => st.sock[f].id # NoName
    PROVE  SetKind(st, f, k) \in Good
<1>1. st \in State /\ Agree(st.conf, st.sock) /\ OneName(st.sock) /\ st.conf \in Table
  BY DEF Good, Agree
<1> DEFINE d == SetKind(st, f, k)
<1>2. /\ d \in State /\ d.conf = st.conf /\ d.sock[f].kind = k
      /\ \A g \in Fd \ {f} : d.sock[g] = st.sock[g]
      /\ \A g \in Fd : d.sock[g].id = st.sock[g].id
  <2>1. k \in Conn \cup {"free", "pipe"}
    BY DEF Linked, Conn
  <2> QED BY <1>1, <2>1, SetKindType
<1> HIDE DEF d
<1>3. OneName(d.sock) /\ d.conf \in Table /\ d.sock \in Socks
  BY <1>1, <1>2 DEF OneName, State
<1>4. ASSUME NEW n \in Slot PROVE Keeps(st.conf, st.sock, d.conf, d.sock, n)
  <2>1. /\ SlotOK(st.conf, st.sock, n) /\ st.conf[n].conn_id \in Fd \cup {NONE, SERVER_WAIT}
        /\ st.conf[n].pipe \in Fd \cup {NONE}
    BY <1>1, Fields DEF Agree
  <2>2. d.conf[n].conn_id > NONE => d.sock[d.conf[n].conn_id].kind \in Linked
    BY <1>2, <2>1 DEF SlotOK, LinkOK, NONE, SERVER_WAIT
  <2>3. d.conf[n].pipe # NONE => d.sock[d.conf[n].pipe].kind = st.sock[d.conf[n].pipe].kind
    BY <1>2, <2>1 DEF SlotOK, PipeOK
  <2> QED BY <1>2, <2>2, <2>3 DEF Keeps
<1>5. Agree(d.conf, d.sock)
  BY <1>1, <1>3, <1>4, KeepsAgree
<1> QED BY <1>2, <1>5 DEF Good, d

LEMMA FirstSlot ==
    ASSUME NEW S, S \subseteq Slot, S # {}
    PROVE  Min(S) \in S /\ Min(S) \in Slot
<1>1. S \in SUBSET Nat
  BY LinksAssumption DEF Slot
<1> QED BY <1>1, MinNatural, Zenon

\* The end of connect().
LEMMA ConnectedKeeps ==
    ASSUME IInv, NEW f \in Fd, cb_connserver(f) PROVE IInv'
<1>1. St \in Good /\ St.conf = conf /\ St.sock = sock /\ sock[f].kind = "connecting"
  BY NowGood DEF St, cb_connserver, Kind
<1>2. \A r \in Random : Conn_Close(St, f, r) \in Good
  BY <1>1, CloseKeeps
<1>3. CASE InSlot(conf, f) = {}
  <2>1. PICK r \in Random : Become(Conn_Close(St, f, r))
    BY <1>3 DEF cb_connserver
  <2> QED BY <1>2, <2>1, BecomeKeeps
<1>4. CASE InSlot(conf, f) # {}
  <2> DEFINE i == Min(InSlot(conf, f))
             v == 0
             d == [St EXCEPT !.conf[i].more = v]
  <2>1. i \in Slot
    BY <1>4, FirstSlot DEF InSlot
  <2>2. \/ \E r \in Random, ok \in BOOLEAN : Become(Failed(Conn_Close(St, f, r), i, ok))
        \/ Become(SetKind(d, f, "login"))
    BY <1>4 DEF cb_connserver
  <2> HIDE DEF i
  <2>3. ASSUME NEW r \in Random, NEW ok \in BOOLEAN, Become(Failed(Conn_Close(St, f, r), i, ok))
        PROVE  IInv'
    <3>1. Failed(Conn_Close(St, f, r), i, ok) \in Good
      BY <1>2, <2>1, FailedKeeps
    <3> QED BY <2>3, <3>1, BecomeKeeps
  <2>4. CASE Become(SetKind(d, f, "login"))
    <3>1. St \in State /\ OthersOK(St, i) /\ SlotOK(St.conf, St.sock, i) /\ OneName(St.sock)
      BY <1>1, <2>1, GoodOthers DEF Good, Agree
    <3>2. /\ d \in State /\ d.sock = St.sock
          /\ d.conf[i].conn_id = St.conf[i].conn_id /\ d.conf[i].pipe = St.conf[i].pipe
          /\ \A m \in Slot \ {i} : d.conf[m] = St.conf[m]
      <4>1. v \in 0 .. 2
        OBVIOUS
      <4> HIDE DEF v
      <4> QED BY <2>1, <3>1, <4>1, SetMore, Zenon
    <3> HIDE DEF d
    <3>3. LinkOK(d.conf, d.sock, i) /\ WaitOK(d.conf, i) /\ PipeOK(d.conf, d.sock, i)
      BY <3>1, <3>2 DEF SlotOK, LinkOK, WaitOK, PipeOK
    <3>4. d \in Good /\ d.sock[f].kind # "pipe"
      <4>1. d \in Good
        BY <2>1, <3>1, <3>2, <3>3, OneSlotKeeps
      <4> QED BY <1>1, <3>2, <4>1
    <3>5. SetKind(d, f, "login") \in Good
      BY <3>4, LinkStepKeeps, "login" \in Linked, "login" \notin {"handshake", "server"} DEF Linked
    <3> QED BY <2>4, <3>5, BecomeKeeps
  <2> QED BY <2>2, <2>3, <2>4
<1> QED BY <1>3, <1>4

LEMMA EndOfMotdKeeps ==
    ASSUME IInv, NEW f \in Fd, IRC_Num_ENDOFMOTD(f) PROVE IInv'
<1>1. St \in Good /\ St.sock = sock /\ sock[f].kind = "handshake" /\ "server" \in Linked
  BY NowGood DEF St, IRC_Num_ENDOFMOTD, Kind, Linked
<1>2. sock[f].id # NoName
  BY <1>1 DEF IInv, Agree, OneName
<1>3. SetKind(St, f, "server") \in Good
  BY <1>1, <1>2, LinkStepKeeps
<1> QED BY <1>3, BecomeKeeps DEF IRC_Num_ENDOFMOTD

LEMMA LostKeeps ==
    ASSUME IInv, NEW f \in Fd, Lost(f) PROVE IInv'
<1>1. St \in Good /\ St.sock = sock /\ sock[f].kind # "pipe"
  BY NowGood DEF St, Lost, Kind, Conn
<1>2. PICK r \in Random : Become(Conn_Close(St, f, r))
  BY DEF Lost
<1>3. Conn_Close(St, f, r) \in Good
  BY <1>1, CloseKeeps
<1> QED BY <1>2, <1>3, BecomeKeeps

LEMMA NewConnectionKeeps ==
    ASSUME IInv, New_Connection PROVE IInv'
<1> DEFINE f == Min(FreeFds(St))
           d == SetKind(St, f, "unknown")
<1>1. /\ St \in Good /\ St \in State /\ Agree(St.conf, St.sock) /\ OneName(St.sock)
      /\ St.conf \in Table
  BY NowGood DEF Good, Agree
<1>2. f \in Fd /\ St.sock[f].kind = "free"
  BY <1>1, LowestFree DEF New_Connection
<1>3. Become(d)
  BY DEF New_Connection
<1> HIDE DEF f
<1>4. /\ d \in State /\ d.conf = St.conf /\ d.sock[f].kind = "unknown"
      /\ \A g \in Fd \ {f} : d.sock[g] = St.sock[g]
      /\ \A g \in Fd : d.sock[g].id = St.sock[g].id
  <2>1. "unknown" \in Conn \cup {"free", "pipe"}
    BY DEF Conn
  <2> QED BY <1>1, <1>2, <2>1, SetKindType
<1> HIDE DEF d
<1>5. OneName(d.sock) /\ d.conf \in Table /\ d.sock \in Socks
  BY <1>1, <1>4 DEF OneName, State
<1>6. ASSUME NEW n \in Slot PROVE Keeps(St.conf, St.sock, d.conf, d.sock, n)
  <2>1. /\ SlotOK(St.conf, St.sock, n) /\ St.conf[n].conn_id \in Fd \cup {NONE, SERVER_WAIT}
        /\ St.conf[n].pipe \in Fd \cup {NONE}
    BY <1>1, Fields DEF Agree
  <2>2. d.conf[n].conn_id > NONE => d.sock[d.conf[n].conn_id].kind \in Linked
    BY <1>2, <1>4, <2>1 DEF SlotOK, LinkOK, Linked, NONE, SERVER_WAIT
  <2>3. d.conf[n].pipe # NONE => d.sock[d.conf[n].pipe].kind = St.sock[d.conf[n].pipe].kind
    BY <1>2, <1>4, <2>1 DEF SlotOK, PipeOK
  <2> QED BY <1>4, <2>2, <2>3 DEF Keeps
<1>7. Agree(d.conf, d.sock)
  BY <1>1, <1>5, <1>6, KeepsAgree
<1>8. d \in Good
  BY <1>4, <1>7 DEF Good
<1> QED BY <1>3, <1>8, BecomeKeeps

\* A peer registers as a server, or is turned away.
LEMMA ServerKeeps ==
    ASSUME IInv, NEW f \in Fd, NEW n \in Name, IRC_SERVER(f, n) PROVE IInv'
<1>1. /\ St \in Good /\ St.conf = conf /\ St.sock = sock /\ sock[f].kind \in {"unknown", "login"}
      /\ conf \in Table /\ sock \in Socks /\ Agree(conf, sock) /\ OneName(sock)
  BY NowGood DEF St, IRC_SERVER, Kind, IInv, Agree
<1>2. CASE \E r \in Random : Become(Conn_Close(St, f, r))
  <2>1. PICK r \in Random : Become(Conn_Close(St, f, r))
    BY <1>2
  <2>2. Conn_Close(St, f, r) \in Good
    BY <1>1, CloseKeeps
  <2> QED BY <2>1, <2>2, BecomeKeeps
<1>3. ASSUME Accept_Server(n, f), NEW k \in {"handshake", "server"},
             Become([conf |-> [conf EXCEPT ![Min(Named(conf, n))].conn_id = f],
                     sock |-> [sock EXCEPT ![f] = [kind |-> k, id |-> n]]])
      PROVE  IInv'
  <2> DEFINE i == Min(Named(conf, n))
             s == [conf[i] EXCEPT !.conn_id = f]
             c == [conf EXCEPT ![i] = s]
             l == [sock EXCEPT ![f] = [kind |-> k, id |-> n]]
  <2>1. i \in Slot /\ ~Conf_InUse(conf, i, f) /\ \A g \in Fd : sock[g].id # n
    BY <1>1, <1>3, FirstSlot DEF Accept_Server, Named, Registered
  <2>2. Become([conf |-> c, sock |-> l])
    BY <1>3
  <2> HIDE DEF i
  <2>3. s \in Conf_Server /\ s.conn_id = f /\ s.pipe = conf[i].pipe
    <3> HIDE DEF Due
    <3> QED BY <1>1, <2>1, ServerType DEF Table
  <2> HIDE DEF s
  <2>4. c \in Table /\ c[i] = s /\ \A m \in Slot \ {i} : c[m] = conf[m]
    BY <1>1, <2>1, <2>3 DEF Table
  <2>5. l \in Socks /\ l[f].kind = k /\ \A g \in Fd \ {f} : l[g] = sock[g]
    BY <1>1 DEF Socks, Conn
  <2>6. OneName(l)
    <3>1. l[f].id = n /\ n # NoName
      BY <1>1, LinksAssumption DEF Socks
    <3> HIDE DEF l
    <3>2. ASSUME NEW g \in Fd, NEW h \in Fd, l[g].id = l[h].id, l[g].id # NoName
          PROVE  g = h
      <4>1. CASE g = f \/ h = f
        BY <2>1, <2>5, <3>1, <3>2, <4>1
      <4>2. CASE g # f /\ h # f
        BY <1>1, <2>5, <3>2, <4>2 DEF OneName
      <4> QED BY <4>1, <4>2
    <3>3. \A g \in Fd : l[g].kind \in {"handshake", "server"} => l[g].id # NoName
      BY <1>1, <2>5, <3>1 DEF OneName
    <3> QED BY <3>2, <3>3 DEF OneName
  <2> HIDE DEF c, l
  <2>7. ASSUME NEW m \in Slot PROVE SlotOK(c, l, m)
    <3>1. /\ SlotOK(conf, sock, m) /\ conf[m].conn_id \in Fd \cup {NONE, SERVER_WAIT}
          /\ conf[m].pipe \in Fd \cup {NONE}
      BY <1>1, Fields DEF Agree
    <3>2. c[m].pipe = conf[m].pipe /\ \A j \in Slot : c[j].pipe = conf[j].pipe
      BY <2>3, <2>4
    <3>3. c[m].conn_id = f \/ c[m].conn_id = conf[m].conn_id
      BY <2>3, <2>4
    <3>4. LinkOK(c, l, m)
      BY <1>3, <2>5, <3>1, <3>3 DEF SlotOK, LinkOK, Linked, NONE, SERVER_WAIT
    <3>5. WaitOK(c, m)
      BY <3>1, <3>2, <3>3, LinksAssumption DEF SlotOK, WaitOK, SERVER_WAIT
    <3>6. PipeOK(c, l, m)
      BY <1>1, <2>5, <3>1, <3>2 DEF SlotOK, PipeOK
    <3> QED BY <3>4, <3>5, <3>6 DEF SlotOK
  <2>8. [conf |-> c, sock |-> l] \in Good
    BY <2>4, <2>5, <2>6, <2>7 DEF Good, State, Agree
  <2> QED BY <2>2, <2>8, BecomeKeeps
<1> QED BY <1>2, <1>3 DEF IRC_SERVER

\* A slot is changed without its references.
LEMMA SlotFieldsKeep ==
    ASSUME NEW st \in Good, NEW i \in Slot, NEW s \in Conf_Server,
           s.conn_id = st.conf[i].conn_id, s.pipe = st.conf[i].pipe
    PROVE  [conf |-> [st.conf EXCEPT ![i] = s], sock |-> st.sock] \in Good
<1> DEFINE d == [st.conf EXCEPT ![i] = s]
<1>1. st \in State /\ st.conf \in Table /\ st.sock \in Socks /\ Agree(st.conf, st.sock)
      /\ OneName(st.sock)
  BY DEF Good, Agree
<1>2. d \in Table /\ \A n \in Slot : d[n] = IF n = i THEN s ELSE st.conf[n]
  BY <1>1 DEF Table
<1> HIDE DEF d
<1>3. \A n \in Slot : Keeps(st.conf, st.sock, d, st.sock, n)
  BY <1>1, <1>2 DEF Agree, Keeps, SlotOK, LinkOK
<1>4. Agree(d, st.sock)
  BY <1>1, <1>2, <1>3, KeepsAgree
<1>5. [conf |-> d, sock |-> st.sock] \in Good
  BY <1>1, <1>2, <1>4 DEF Good, State
<1> QED BY <1>5 DEF d

LEMMA EnablePassiveKeeps ==
    ASSUME IInv, NEW n \in Name, Conf_EnablePassiveServer(n) PROVE IInv' /\ SameLinks
<1> DEFINE has == {m \in Named(conf, n) : conf[m].port}
           i == Min(has)
           v == -1
           off == FALSE
           s == [conf[i] EXCEPT !.disabled = off, !.due = v]
           d == [conf |-> [conf EXCEPT ![i] = s], sock |-> sock]
<1>1. /\ St \in Good /\ St.conf = conf /\ St.sock = sock /\ conf \in Table
  BY NowGood DEF St, IInv, Agree
<1>2. i \in Slot
  BY FirstSlot DEF Conf_EnablePassiveServer, Named
<1>3. Admin([St EXCEPT !.conf[i].disabled = off, !.conf[i].due = v])
  BY DEF Conf_EnablePassiveServer
<1> HIDE DEF i
<1>4. v \in Due /\ off \in BOOLEAN
  BY Delays
<1> HIDE DEF v, off
<1>5. s \in Conf_Server /\ s.conn_id = conf[i].conn_id /\ s.pipe = conf[i].pipe
  <2> HIDE DEF Due
  <2> QED BY <1>1, <1>2, <1>4, ServerType, Zenon DEF Table
<1>6. [St EXCEPT !.conf[i].disabled = off, !.conf[i].due = v] = d
  <2> DEFINE s1 == [conf[i] EXCEPT !.disabled = off]
             c1 == [conf EXCEPT ![i] = s1]
  <2>1. [St EXCEPT !.conf[i].disabled = off] = [conf |-> c1, sock |-> sock]
    BY DEF St
  <2>2. [s1 EXCEPT !.due = v] = s
    OBVIOUS
  <2>3. c1[i] = s1 /\ [c1 EXCEPT ![i] = s] = [conf EXCEPT ![i] = s]
    <3> HIDE DEF s, s1
    <3> QED BY <1>1, <1>2, Zenon DEF Table
  <2>4. [[conf |-> c1, sock |-> sock] EXCEPT !.conf[i].due = v]
          = [conf |-> [c1 EXCEPT ![i] = [c1[i] EXCEPT !.due = v]], sock |-> sock]
    <3> HIDE DEF c1
    <3> QED OBVIOUS
  <2>5. [[St EXCEPT !.conf[i].disabled = off] EXCEPT !.conf[i].due = v] = d
    <3> HIDE DEF s, s1, c1
    <3> QED BY <2>1, <2>2, <2>3, <2>4, Zenon
  <2> QED BY <2>5
<1> HIDE DEF s
<1>7. d \in Good
  BY <1>1, <1>2, <1>5, SlotFieldsKeep
<1>8. \A m \in Slot : d.conf[m].conn_id = conf[m].conn_id
  BY <1>1, <1>5 DEF Table
<1> HIDE DEF d
<1>9. IInv' /\ conf' = d.conf
  BY <1>3, <1>6, <1>7, AdminKeeps, Zenon DEF Admin
<1> QED BY <1>8, <1>9 DEF SameLinks

LEMMA EnableKeeps ==
    ASSUME IInv, NEW n \in Name, Conf_EnableServer(n) PROVE IInv' /\ SameLinks
<1> DEFINE i == Min(Named(conf, n))
           on == TRUE
           off == FALSE
           s == [conf[i] EXCEPT !.port = on, !.disabled = off]
           d == [conf |-> [conf EXCEPT ![i] = s], sock |-> sock]
<1>1. /\ St \in Good /\ St.conf = conf /\ St.sock = sock /\ conf \in Table
  BY NowGood DEF St, IInv, Agree
<1>2. i \in Slot
  BY FirstSlot DEF Conf_EnableServer, Named
<1>3. Admin([St EXCEPT !.conf[i].port = on, !.conf[i].disabled = off])
  BY DEF Conf_EnableServer
<1>0. on \in BOOLEAN /\ off \in BOOLEAN
  OBVIOUS
<1> HIDE DEF i, on, off
<1>4. s \in Conf_Server /\ s.conn_id = conf[i].conn_id /\ s.pipe = conf[i].pipe
  <2> HIDE DEF Due
  <2> QED BY <1>0, <1>1, <1>2, ServerType, Zenon DEF Table
<1>5. [St EXCEPT !.conf[i].port = on, !.conf[i].disabled = off] = d
  <2> DEFINE s1 == [conf[i] EXCEPT !.port = on]
             c1 == [conf EXCEPT ![i] = s1]
  <2>1. [St EXCEPT !.conf[i].port = on] = [conf |-> c1, sock |-> sock]
    BY DEF St
  <2>2. [s1 EXCEPT !.disabled = off] = s
    OBVIOUS
  <2>3. c1[i] = s1 /\ [c1 EXCEPT ![i] = s] = [conf EXCEPT ![i] = s]
    <3> HIDE DEF s, s1
    <3> QED BY <1>1, <1>2, Zenon DEF Table
  <2>4. [[conf |-> c1, sock |-> sock] EXCEPT !.conf[i].disabled = off]
          = [conf |-> [c1 EXCEPT ![i] = [c1[i] EXCEPT !.disabled = off]], sock |-> sock]
    <3> HIDE DEF c1
    <3> QED OBVIOUS
  <2>5. [[St EXCEPT !.conf[i].port = on] EXCEPT !.conf[i].disabled = off] = d
    <3> HIDE DEF s, s1, c1
    <3> QED BY <2>1, <2>2, <2>3, <2>4, Zenon
  <2> QED BY <2>5
<1> HIDE DEF s
<1>6. d \in Good
  BY <1>1, <1>2, <1>4, SlotFieldsKeep
<1>7. \A m \in Slot : d.conf[m].conn_id = conf[m].conn_id
  BY <1>1, <1>4 DEF Table
<1> HIDE DEF d
<1>8. IInv' /\ conf' = d.conf
  BY <1>3, <1>5, <1>6, AdminKeeps, Zenon DEF Admin
<1> QED BY <1>7, <1>8 DEF SameLinks

LEMMA AddKeeps ==
    ASSUME IInv, Unused(conf) # {}, NEW b \in Added,
           Admin([St EXCEPT !.conf = Conf_AddServer(conf, b)])
    PROVE  IInv'
<1> DEFINE i == Min(Unused(conf))
           s == [Fill(b) EXCEPT !.group = 0, !.disabled = FALSE, !.once = TRUE]
<1>1. /\ Agree(conf, sock) /\ conf \in Table /\ sock \in Socks
      /\ Fill(b) \in Conf_Server /\ Fill(b).conn_id = NONE /\ Fill(b).pipe = NONE
  BY FillType, LinksAssumption DEF IInv, Agree
<1>2. i \in Slot
  BY FirstUnused
<1>3. Conf_AddServer(conf, b) = [conf EXCEPT ![i] = s]
  BY DEF Conf_AddServer
<1> HIDE DEF i
<1>4. s \in Conf_Server /\ s.conn_id = NONE /\ s.pipe = NONE
  <2> DEFINE E(r, g, o, m) == [r EXCEPT !.group = g, !.disabled = o, !.once = m]
  <2>1. ASSUME NEW r \in Conf_Server, NEW g \in Nat, NEW o \in BOOLEAN, NEW m \in BOOLEAN
        PROVE  /\ E(r, g, o, m) \in Conf_Server
               /\ E(r, g, o, m).conn_id = r.conn_id /\ E(r, g, o, m).pipe = r.pipe
    <3> HIDE DEF Due
    <3> QED BY ServerType, Zenon
  <2>2. s = E(Fill(b), 0, FALSE, TRUE)
    BY Zenon
  <2>3. 0 \in Nat /\ FALSE \in BOOLEAN /\ TRUE \in BOOLEAN
    OBVIOUS
  <2> HIDE DEF E, s
  <2>4. /\ E(Fill(b), 0, FALSE, TRUE) \in Conf_Server
        /\ E(Fill(b), 0, FALSE, TRUE).conn_id = Fill(b).conn_id
        /\ E(Fill(b), 0, FALSE, TRUE).pipe = Fill(b).pipe
    BY <1>1, <2>1, <2>3, Zenon
  <2> QED BY <1>1, <2>2, <2>4, Zenon
<1> HIDE DEF s
<1>5. Agree([conf EXCEPT ![i] = s], sock)
  BY <1>1, <1>2, <1>4, BlankSlotKeeps
<1>6. [St EXCEPT !.conf = Conf_AddServer(conf, b)] = [conf |-> [conf EXCEPT ![i] = s], sock |-> sock]
  BY <1>3 DEF St
<1>7. [conf |-> [conf EXCEPT ![i] = s], sock |-> sock] \in Good
  BY <1>5, Zenon DEF Good, State, Agree
<1> QED BY <1>6, <1>7, AdminKeeps

LEMMA DisableKeeps ==
    ASSUME IInv, NEW n \in Name, Conf_DisableServer(n) PROVE IInv'
<1> DEFINE i == Min(Named(conf, n))
           on == TRUE
           s == [conf[i] EXCEPT !.disabled = on]
           off == [St EXCEPT !.conf[i].disabled = on]
           d == [conf |-> [conf EXCEPT ![i] = s], sock |-> sock]
<1>1. /\ St \in Good /\ St.conf = conf /\ St.sock = sock /\ conf \in Table /\ Agree(conf, sock)
  BY NowGood DEF St, IInv, Agree
<1>2. i \in Slot
  BY FirstSlot DEF Conf_DisableServer, Named
<1>3. IF conf[i].conn_id > NONE
      THEN \E r \in Random : Admin(Conn_Close(off, conf[i].conn_id, r))
      ELSE Admin(off)
  BY Zenon DEF Conf_DisableServer
<1>4. on \in BOOLEAN
  OBVIOUS
<1> HIDE DEF i, on
<1>5. s \in Conf_Server /\ s.conn_id = conf[i].conn_id /\ s.pipe = conf[i].pipe
  <2> HIDE DEF Due
  <2> QED BY <1>1, <1>2, <1>4, ServerType DEF Table
<1>6. off = d
  BY DEF St
<1> HIDE DEF s
<1>7. d \in Good
  BY <1>1, <1>2, <1>5, SlotFieldsKeep
<1>8. d.sock = sock
  OBVIOUS
<1> HIDE DEF d, off
<1>9. CASE conf[i].conn_id > NONE
  <2>1. PICK r \in Random : Admin(Conn_Close(off, conf[i].conn_id, r))
    BY <1>3, <1>9
  <2>2. conf[i].conn_id \in Fd /\ sock[conf[i].conn_id].kind \in Linked
    BY <1>1, <1>2, <1>9, Fields DEF Agree, SlotOK, LinkOK, NONE, SERVER_WAIT
  <2>3. Conn_Close(d, conf[i].conn_id, r) \in Good
    BY <1>7, <1>8, <2>2, CloseKeeps DEF Linked
  <2> QED BY <1>6, <2>1, <2>3, AdminKeeps
<1>10. CASE ~(conf[i].conn_id > NONE)
  BY <1>3, <1>6, <1>7, <1>10, AdminKeeps
<1> QED BY <1>9, <1>10

LEMMA RehashKeeps ==
    ASSUME IInv, NEW file \in Files, NEW valid \in BOOLEAN, Rehash(file, valid) PROVE IInv'
<1> DEFINE read == [conf |-> Read_Config(conf, file), sock |-> sock]
<1>1. Agree(Read_Config(conf, file), sock)
  BY ReadConfigKeeps DEF IInv
<1>2. [St EXCEPT !.conf = Read_Config(conf, file)] = read
  BY DEF St
<1>3. read \in Good
  BY <1>1 DEF Good, State, Agree
<1>4. Admin(IF valid THEN Conn_SyncServerStruct(read) ELSE read)
  <2> HIDE DEF read
  <2> QED BY <1>2 DEF Rehash
<1> HIDE DEF read
<1>5. Conn_SyncServerStruct(read) \in Good
  BY <1>3, SyncKeeps
<1>6. CASE valid
  BY <1>4, <1>5, <1>6, AdminKeeps
<1>7. CASE ~valid
  BY <1>3, <1>4, <1>7, AdminKeeps
<1> QED BY <1>6, <1>7

LEMMA NextKeeps == IInv /\ [Next]_vars => IInv'
<1> SUFFICES ASSUME IInv, [Next]_vars PROVE IInv'
  OBVIOUS
<1>1. CASE Tick
  BY <1>1, TickKeeps
<1>2. CASE Check_Servers
  BY <1>2, CheckKeeps
<1>3. ASSUME NEW f \in Fd, cb_Connect_to_Server(f) PROVE IInv'
  BY <1>3, LookupKeeps
<1>4. ASSUME NEW f \in Fd, cb_connserver(f) PROVE IInv'
  BY <1>4, ConnectedKeeps
<1>5. ASSUME NEW f \in Fd, IRC_Num_ENDOFMOTD(f) PROVE IInv'
  BY <1>5, EndOfMotdKeeps
<1>6. ASSUME NEW f \in Fd, Lost(f) PROVE IInv'
  BY <1>6, LostKeeps
<1>7. ASSUME NEW f \in Fd, NEW n \in Name, IRC_SERVER(f, n) PROVE IInv'
  BY <1>7, ServerKeeps
<1>8. CASE New_Connection
  BY <1>8, NewConnectionKeeps
<1>9. CASE IRC_CONNECT
  BY <1>9, EnablePassiveKeeps, EnableKeeps, AddKeeps, Zenon DEF IRC_CONNECT
<1>10. CASE IRC_DISCONNECT
  BY <1>10, DisableKeeps DEF IRC_DISCONNECT
<1>11. ASSUME NEW file \in Files, NEW valid \in BOOLEAN, Rehash(file, valid) PROVE IInv'
  BY <1>11, RehashKeeps
<1>12. CASE UNCHANGED vars
  BY <1>12 DEF vars, IInv
<1> QED
  BY <1>1, <1>2, <1>3, <1>4, <1>5, <1>6, <1>7, <1>8, <1>9, <1>10, <1>11, <1>12 DEF Next

LEMMA InvariantHolds == Spec => []IInv
<1>1. Init => IInv
  BY InitEstablishes
<1>2. IInv /\ [Next]_vars => IInv'
  BY NextKeeps
<1> QED BY <1>1, <1>2, PTL DEF Spec

\* For every table size, every set of descriptors and every set of configuration
\* files: no slot of Conf_Server[] refers to a connection that is closed or is another
\* one by now, a slot that waits has a resolver of its own, and no two connections are
\* registered under one name, whatever order lookups, failures, incoming links,
\* rehashes and operators' commands take (conf.c, conn.c, irc-server.c).
THEOREM LinksSoundHolds == Spec => []LinksSound
<1>1. IInv => LinksSound
  <2> SUFFICES ASSUME IInv PROVE LinksSound
    OBVIOUS
  <2>1. TypeOK
    BY DEF IInv, Agree, Table, Socks, TypeOK
  <2>2. \A i \in Slot : SlotOK(conf, sock, i)
    BY DEF IInv, Agree
  <2>3. SlotLive
    BY <2>2 DEF SlotLive, SlotOK, LinkOK, Linked, Kind, St
  <2>4. WaitHasPipe
    BY <2>2 DEF WaitHasPipe, SlotOK, WaitOK, PipeOK, Kind, St
  <2>5. OneLink
    BY DEF IInv, Agree, OneName, OneLink
  <2> QED BY <2>1, <2>3, <2>4, <2>5 DEF LinksSound
<1> QED BY <1>1, InvariantHolds, PTL

-----------------------------------------------------------------------------
(* Links stay known                                                        *)
\* Some slot of the table c refers to f, and all that do have the name n.
Refers(c, f, n) ==
    /\ \E i \in Slot : c[i].conn_id = f
    /\ \A i \in Slot : c[i].conn_id = f => c[i].name = n

LEMMA CleanUpRefers ==
    ASSUME NEW c \in Table, NEW f \in Fd, NEW n, Refers(c, f, n), NEW i \in Slot
    PROVE  CleanUp(c, i) \in Table /\ Refers(CleanUp(c, i), f, n)
<1>1. f # NONE /\ f # SERVER_WAIT /\ Init_Server_Struct.conn_id = NONE
  BY LinksAssumption, BlankType DEF NONE, SERVER_WAIT
<1>2. PICK j \in Slot : c[j].conn_id = f
  BY DEF Refers
<1>3. CASE c[i].conn_id = NONE
  <2> DEFINE d == [c EXCEPT ![i] = Init_Server_Struct]
  <2>1. CleanUp(c, i) = d
    BY <1>3 DEF CleanUp
  <2>2. d \in Table /\ \A m \in Slot : d[m] = IF m = i THEN Init_Server_Struct ELSE c[m]
    BY BlankType DEF Table
  <2> HIDE DEF d
  <2> QED BY <1>1, <1>2, <1>3, <2>1, <2>2 DEF Refers
<1>4. CASE c[i].conn_id # NONE /\ c[i].once
  <2> DEFINE d == [m \in Slot |-> IF m # i /\ c[m].conn_id = c[i].conn_id
                                  THEN Init_Server_Struct ELSE c[m]]
  <2>1. CleanUp(c, i) = d
    BY <1>4 DEF CleanUp
  <2>2. d \in Table /\ \A m \in Slot : d[m] \in {Init_Server_Struct, c[m]}
    BY BlankType DEF Table
  <2>3. d[i] = c[i] /\ (c[i].conn_id # f => d[j] = c[j])
    BY <1>2
  <2> HIDE DEF d
  <2> QED BY <1>1, <1>2, <2>1, <2>2, <2>3 DEF Refers
<1>5. CASE c[i].conn_id # NONE /\ ~c[i].once
  <2> DEFINE s == [c[i] EXCEPT !.once = TRUE]
             d == [c EXCEPT ![i] = s]
  <2>1. CleanUp(c, i) = d
    BY <1>5 DEF CleanUp
  <2>2. s \in Conf_Server /\ s.conn_id = c[i].conn_id /\ s.name = c[i].name
    <3> HIDE DEF Due
    <3> QED BY ServerType, Zenon DEF Table
  <2> HIDE DEF s
  <2>3. d \in Table /\ \A m \in Slot : d[m] = IF m = i THEN s ELSE c[m]
    BY <2>2 DEF Table
  <2> HIDE DEF d
  <2> QED BY <1>2, <2>1, <2>2, <2>3 DEF Refers
<1> QED BY <1>3, <1>4, <1>5

LEMMA ReadBlockRefers ==
    ASSUME NEW c \in Table, NEW f \in Fd, NEW n, n # NoName, Refers(c, f, n), NEW b \in Block
    PROVE  ReadBlock(c, b) \in Table /\ Refers(ReadBlock(c, b), f, n)
<1>1. CASE Unused(c) = {}
  BY <1>1 DEF ReadBlock
<1>2. CASE Unused(c) # {}
  <2> DEFINE i == Min(Unused(c))
             s == Fill(b)
             d == [c EXCEPT ![i] = s]
  <2>1. i \in Slot /\ c[i].name = NoName
    BY <1>2, FirstSlot DEF Unused
  <2>2. ReadBlock(c, b) = d
    BY <1>2 DEF ReadBlock
  <2>3. s \in Conf_Server /\ s.conn_id = NONE /\ f # NONE
    BY FillType, LinksAssumption DEF NONE
  <2> HIDE DEF i, s
  <2>4. d \in Table /\ \A m \in Slot : d[m] = IF m = i THEN s ELSE c[m]
    BY <2>1, <2>3 DEF Table
  <2> HIDE DEF d
  <2> QED BY <2>1, <2>2, <2>3, <2>4 DEF Refers
<1> QED BY <1>1, <1>2

LEMMA ReadConfigRefers ==
    ASSUME NEW c \in Table, NEW f \in Fd, NEW n, n # NoName, Refers(c, f, n), NEW file \in Files
    PROVE  Refers(Read_Config(c, file), f, n)
<1> DEFINE V == {e \in Table : Refers(e, f, n)}
<1>1. c \in V /\ file \in Seq(Block)
  BY LinksAssumption
<1>2. \A i \in Slot, e \in V : CleanUp(e, i) \in V
  BY CleanUpRefers
<1>3. \A b \in Block, e \in V : ReadBlock(e, b) \in V
  BY ReadBlockRefers
<1> HIDE DEF V
<1>4. ForEach(CleanUp, c, [i \in Slot |-> i]) \in V
  BY <1>1, <1>2, CleanUpAll, Zenon
<1>5. Read_Config(c, file) \in V
  BY <1>1, <1>3, <1>4, ReadAll, Zenon DEF Read_Config
<1> QED BY <1>5 DEF V

\* The slot of a link that is up finds this link, and no other.
LEMMA SyncRefers ==
    ASSUME NEW st \in Good, NEW f \in Fd, st.sock[f].kind = "server",
           Refers(st.conf, f, st.sock[f].id)
    PROVE  \E i \in Slot : Conn_SyncServerStruct(st).conf[i].conn_id = f
<1> DEFINE links(i) == {g \in Fd : /\ Kind(st, g) = "server"
                                   /\ st.conf[i].host /\ st.sock[g].id = st.conf[i].name}
           d == [i \in Slot |-> IF links(i) = {} THEN st.conf[i]
                                ELSE [st.conf[i] EXCEPT !.conn_id = Max(links(i))]]
<1>1. st \in State /\ st.conf \in Table /\ st.sock \in Socks /\ OneName(st.sock)
  BY DEF Good, Agree
<1>2. Conn_SyncServerStruct(st).conf = d
  <2>1. Conn_SyncServerStruct(st) = [st EXCEPT !.conf = d]
    BY Zenon DEF Conn_SyncServerStruct
  <2> HIDE DEF d
  <2> QED BY <1>1, <2>1 DEF State
<1>3. PICK i \in Slot : st.conf[i].conn_id = f /\ st.conf[i].name = st.sock[f].id
  BY DEF Refers
<1>4. CASE links(i) = {}
  BY <1>2, <1>3, <1>4
<1>5. CASE links(i) # {}
  <2>1. st.sock[f].id # NoName
    BY <1>1 DEF OneName
  <2>2. links(i) = {f}
    <3>1. \A g \in links(i) : g = f
      BY <1>1, <1>3, <2>1 DEF OneName
    <3> HIDE DEF links
    <3> QED BY <1>5, <3>1
  <2>3. Max({f}) = f
    <3>1. IsFiniteSet({f}) /\ {f} \in SUBSET Nat /\ {f} # {}
      BY FS_Singleton, LinksAssumption, Zenon
    <3>2. Max({f}) \in {f}
      BY <3>1, MaxNatural
    <3> QED BY <3>2
  <2>4. d[i] = [st.conf[i] EXCEPT !.conn_id = f]
    BY <1>5, <2>2, <2>3, Zenon
  <2>5. [st.conf[i] EXCEPT !.conn_id = f].conn_id = f
    <3> HIDE DEF Due
    <3> QED BY <1>1, ServerType DEF Table
  <2> HIDE DEF d
  <2> QED BY <1>2, <2>4, <2>5, Zenon
<1> QED BY <1>4, <1>5

\* f is a link that is up, and the table knows it by its own name.
Up(f) == /\ f \in Fd /\ sock[f].kind = "server" /\ sock[f].id # NoName
         /\ Refers(conf, f, sock[f].id)

StillKnown(f) == \E i \in Slot : conf'[i].conn_id = f

LEMMA SameLinksStays ==
    ASSUME NEW f, Up(f), SameLinks PROVE StillKnown(f)
BY DEF Up, Refers, SameLinks, StillKnown

LEMMA NewServerStays ==
    ASSUME NEW st \in State, NEW i \in Slot, NEW ok \in BOOLEAN, NEW f \in Fd,
           NEW j \in Slot, st.conf[j].conn_id = f
    PROVE  New_Server(st, i, ok).conf[j].conn_id = f
<1>1. st.conf \in Table /\ st.conf[i].conn_id \in Int /\ f > NONE
  BY Fields, LinksAssumption DEF State, NONE
<1>2. CASE st.conf[i].conn_id > NONE
  BY <1>1, <1>2 DEF New_Server, NONE
<1>3. CASE st.conf[i].conn_id <= NONE /\ ok /\ FreeFds(st) # {}
  <2> DEFINE g == Min(FreeFds(st))
             e == [st EXCEPT !.conf[i].conn_id = g]
  <2>1. g \in Fd
    BY <1>3, LowestFree
  <2>2. New_Server(st, i, ok) = SetKind(e, g, "connecting")
    BY <1>1, <1>3 DEF New_Server, NONE
  <2> HIDE DEF g
  <2>3. e \in State /\ \A n \in Slot \ {i} : e.conf[n] = st.conf[n]
    BY <2>1, SetConn
  <2> HIDE DEF e
  <2>4. SetKind(e, g, "connecting").conf = e.conf
    <3>1. "connecting" \in Conn \cup {"free", "pipe"}
      BY DEF Conn
    <3> QED BY <2>1, <2>3, <3>1, SetKindType
  <2>5. j # i
    BY <1>1, <1>3 DEF NONE
  <2> QED BY <2>2, <2>3, <2>4, <2>5
<1>4. CASE st.conf[i].conn_id <= NONE /\ ~(ok /\ FreeFds(st) # {})
  <2> DEFINE e == [st EXCEPT !.conf[i].conn_id = NONE]
  <2>1. New_Server(st, i, ok) = e
    BY <1>1, <1>4 DEF New_Server, NONE
  <2>2. e \in State /\ \A n \in Slot \ {i} : e.conf[n] = st.conf[n]
    BY SetConn
  <2>3. j # i
    BY <1>1, <1>4 DEF NONE
  <2> HIDE DEF e
  <2> QED BY <2>1, <2>2, <2>3
<1>5. st.conf[i].conn_id > NONE \/ st.conf[i].conn_id <= NONE
  BY <1>1 DEF NONE
<1> QED BY <1>2, <1>3, <1>4, <1>5

\* The end of another connection.
LEMMA CloseStays ==
    ASSUME NEW st \in State, NEW f \in Fd, NEW g \in Fd, g # f, NEW r \in Random,
           NEW j \in Slot, st.conf[j].conn_id = f
    PROVE  Conn_Close(st, g, r).conf[j] = st.conf[j]
BY DEF Conn_Close, Conf_UnsetServer

\* What is closed is not as it was.
LEMMA ClosedChanges ==
    ASSUME NEW st \in State, NEW f \in Fd, NEW r \in Random
    PROVE  Conn_Close(st, f, r).sock[f].kind = "free"
BY DEF Conn_Close, Free, State, Socks

LEMMA CheckStays ==
    ASSUME IInv, Check_Servers, NEW f, Up(f) PROVE StillKnown(f)
<1>1. PICK j \in Slot : conf[j].conn_id = f
  BY DEF Up, Refers
<1> DEFINE V == {st \in Good : st.conf[j].conn_id = f}
<1>2. PICK ok \in SUBSET Slot :
        Become(ForEach(LAMBDA st, i : Conn_Maybe_Start_Server_Link(st, i, i \in ok),
                        St, [i \in Slot |-> i]))
  BY Zenon DEF Check_Servers
<1>3. f # NONE
  BY LinksAssumption DEF Up, NONE
<1>4. St \in V
  BY <1>1, NowGood DEF St
<1>5. \A e \in V, i \in Slot, o \in BOOLEAN : Conn_Maybe_Start_Server_Link(e, i, o) \in V
  BY <1>1, <1>3, MaybeStartKeeps
<1> HIDE DEF V
<1>6. ForEach(LAMBDA st, i : Conn_Maybe_Start_Server_Link(st, i, i \in ok),
               St, [i \in Slot |-> i]) \in V
  BY <1>4, <1>5, CheckServersKeeps, Zenon
<1>7. conf' \in {st.conf : st \in V}
  BY <1>2, <1>6, Zenon DEF Become
<1> QED BY <1>1, <1>7 DEF V, StillKnown

\* The one exception: the lookup of a slot that is in use by then has failed.
Taken(f) == \E i \in Slot : /\ conf[i].conn_id = f /\ conf[i].pipe # NONE
                            /\ conf'[i].conn_id = NONE /\ conf'[i].pipe = NONE

LEMMA LookupStays ==
    ASSUME IInv, NEW g \in Fd, cb_Connect_to_Server(g), NEW f, Up(f)
    PROVE  StillKnown(f) \/ Taken(f)
<1> DEFINE mine == {n \in Slot : conf[n].pipe = g}
           i == Min(mine)
           read == Proc_Close(St, i)
<1>1. /\ St \in Good /\ St.conf = conf /\ St.sock = sock /\ conf \in Table /\ f \in Fd
      /\ g # NONE
  BY NowGood, LinksAssumption DEF IInv, Agree, St, Up, NONE
<1>2. PICK j \in Slot : conf[j].conn_id = f
  BY DEF Up, Refers
<1>3. CASE mine = {}
  <2>1. Become([St EXCEPT !.sock[g] = Free])
    BY <1>3 DEF cb_Connect_to_Server, Unclaimed
  <2>2. conf' = conf
    BY <2>1 DEF Become, St
  <2> QED BY <1>2, <2>2 DEF StillKnown
<1>4. CASE mine # {}
  <2>1. i \in Slot /\ conf[i].pipe = g
    <3>1. mine \subseteq Slot
      OBVIOUS
    <3>2. i \in mine
      <4> HIDE DEF mine
      <4> QED BY <1>4, <3>1, FirstSlot
    <3> QED BY <3>2
  <2>2. \/ Become([read EXCEPT !.conf[i].conn_id = NONE])
        \/ \E n \in 1 .. MaxAddr, ok \in BOOLEAN :
              Become(New_Server([read EXCEPT !.conf[i].more = Min({n - 1, 2})], i, ok))
    BY <1>4, Zenon DEF cb_Connect_to_Server
  <2> HIDE DEF i, mine
  <2>3. read \in State /\ read.conf[i].pipe = NONE
    BY <1>1, <2>1, ProcCloseKeeps DEF OthersOK
  <2>4. read.conf[j].conn_id = f
    <3> DEFINE s == [conf[i] EXCEPT !.pipe = NONE]
    <3>1. read.conf = [conf EXCEPT ![i] = s]
      BY <1>1 DEF Proc_Close
    <3>2. s.conn_id = conf[i].conn_id
      <4> HIDE DEF Due
      <4> QED BY <1>1, <2>1, ServerType DEF Table
    <3> HIDE DEF s, read
    <3> QED BY <1>1, <1>2, <2>1, <3>1, <3>2 DEF Table
  <2> HIDE DEF read
  <2>5. CASE Become([read EXCEPT !.conf[i].conn_id = NONE])
    <3> DEFINE d == [read EXCEPT !.conf[i].conn_id = NONE]
    <3>1. /\ d \in State /\ d.sock = read.sock
          /\ d.conf[i].conn_id = NONE /\ d.conf[i].pipe = NONE
          /\ \A n \in Slot \ {i} : d.conf[n] = read.conf[n]
      BY <2>1, <2>3, SetConn
    <3>2. conf' = d.conf
      BY <2>5 DEF Become
    <3> HIDE DEF d
    <3>3. CASE j = i
      BY <1>1, <1>2, <2>1, <3>1, <3>2, <3>3 DEF Taken
    <3>4. CASE j # i
      BY <1>2, <2>4, <3>1, <3>2, <3>4 DEF StillKnown
    <3> QED BY <3>3, <3>4
  <2>6. ASSUME NEW n \in 1 .. MaxAddr, NEW ok \in BOOLEAN,
               Become(New_Server([read EXCEPT !.conf[i].more = Min({n - 1, 2})], i, ok))
        PROVE  StillKnown(f)
    <3> DEFINE v == Min({n - 1, 2})
               d == [read EXCEPT !.conf[i].more = v]
    <3>1. v \in 0 .. 2
      <4>1. {n - 1, 2} \in SUBSET Nat /\ {n - 1, 2} # {}
        OBVIOUS
      <4>2. v \in {n - 1, 2} /\ \A x \in {n - 1, 2} : v <= x
        BY <4>1, MinNatural
      <4> QED BY <4>2
    <3>2. Become(New_Server(d, i, ok))
      BY <2>6
    <3> HIDE DEF v
    <3>3. /\ d \in State /\ d.conf[i].conn_id = read.conf[i].conn_id
          /\ \A m \in Slot \ {i} : d.conf[m] = read.conf[m]
      BY <2>1, <2>3, <3>1, SetMore, Zenon
    <3>4. d.conf[j].conn_id = f
      BY <2>4, <3>3
    <3> HIDE DEF d
    <3>5. New_Server(d, i, ok).conf[j].conn_id = f
      BY <1>1, <2>1, <3>3, <3>4, NewServerStays
    <3> QED BY <3>2, <3>5 DEF Become, StillKnown
  <2> QED BY <2>2, <2>5, <2>6, Zenon
<1> QED BY <1>3, <1>4

\* connect() on another descriptor is over.
LEMMA ConnectedStays ==
    ASSUME IInv, NEW g \in Fd, cb_connserver(g), NEW f, Up(f) PROVE StillKnown(f)
<1>1. /\ St \in Good /\ St \in State /\ St.conf = conf /\ St.sock = sock /\ f \in Fd /\ g # f
  BY NowGood DEF St, cb_connserver, Kind, Good, Up
<1>2. PICK j \in Slot : conf[j].conn_id = f
  BY DEF Up, Refers
<1>3. \A r \in Random : /\ Conn_Close(St, g, r) \in Good
                        /\ Conn_Close(St, g, r).conf[j].conn_id = f
  <2> TAKE r \in Random
  <2>1. Conn_Close(St, g, r) \in Good
    BY <1>1, CloseKeeps DEF cb_connserver, Kind
  <2> QED BY <1>1, <1>2, <2>1, CloseStays
<1>4. CASE InSlot(conf, g) = {}
  <2>1. PICK r \in Random : Become(Conn_Close(St, g, r))
    BY <1>4 DEF cb_connserver
  <2> QED BY <1>2, <1>3, <2>1 DEF Become, StillKnown
<1>5. CASE InSlot(conf, g) # {}
  <2> DEFINE i == Min(InSlot(conf, g))
             v == 0
             d == [St EXCEPT !.conf[i].more = v]
  <2>1. i \in Slot
    BY <1>5, FirstSlot DEF InSlot
  <2>2. \/ \E r \in Random, ok \in BOOLEAN : Become(Failed(Conn_Close(St, g, r), i, ok))
        \/ Become(SetKind(d, g, "login"))
    BY <1>5 DEF cb_connserver
  <2> HIDE DEF i
  <2>3. ASSUME NEW r \in Random, NEW ok \in BOOLEAN, Become(Failed(Conn_Close(St, g, r), i, ok))
        PROVE  StillKnown(f)
    <3> DEFINE st == Conn_Close(St, g, r)
               next == New_Server(st, i, ok)
    <3>1. st \in Good /\ st \in State /\ st.conf[j].conn_id = f /\ st.conf \in Table
      BY <1>3 DEF Good, State
    <3> HIDE DEF st
    <3>2. CASE st.conf[i].more = 0
      BY <1>2, <2>3, <3>1, <3>2 DEF Failed, Become, StillKnown, st
    <3>3. CASE st.conf[i].more # 0
      <4>1. next.conf[j].conn_id = f
        BY <1>1, <1>2, <2>1, <3>1, NewServerStays
      <4>2. next \in Good /\ next.conf[i].more = st.conf[i].more
        <5>1. OthersOK(st, i) /\ SlotOK(st.conf, st.sock, i)
          BY <2>1, <3>1, GoodOthers
        <5> QED BY <2>1, <5>1, NewServerKeeps DEF SlotOK
      <4> DEFINE w == next.conf[i].more - 1
                 e == [next EXCEPT !.conf[i].more = w]
      <4>3. w \in 0 .. 2
        BY <2>1, <3>1, <3>3, <4>2, Fields
      <4>4. Become(e)
        BY <2>3, <3>3 DEF Failed, st
      <4> HIDE DEF next, w
      <4>5. /\ e.conf[i].conn_id = next.conf[i].conn_id
            /\ \A m \in Slot \ {i} : e.conf[m] = next.conf[m]
        BY <2>1, <4>2, <4>3, SetMore DEF Good
      <4> HIDE DEF e
      <4>6. e.conf[j].conn_id = f
        BY <1>2, <4>1, <4>5
      <4> QED BY <1>2, <4>4, <4>6 DEF Become, StillKnown
    <3> QED BY <3>2, <3>3
  <2>4. CASE Become(SetKind(d, g, "login"))
    <3>1. /\ d \in State /\ d.conf[i].conn_id = St.conf[i].conn_id
          /\ \A m \in Slot \ {i} : d.conf[m] = St.conf[m]
      <4>1. v \in 0 .. 2
        OBVIOUS
      <4> HIDE DEF v
      <4> QED BY <1>1, <2>1, <4>1, SetMore, Zenon
    <3> HIDE DEF d
    <3>2. SetKind(d, g, "login").conf = d.conf
      BY <3>1, SetKindType, "login" \in Conn \cup {"free", "pipe"} DEF Conn
    <3>3. d.conf[j].conn_id = f
      BY <1>1, <1>2, <3>1
    <3> QED BY <1>2, <2>4, <3>2, <3>3 DEF Become, StillKnown
  <2> QED BY <2>2, <2>3, <2>4
<1> QED BY <1>4, <1>5

\* A peer registers or is turned away: its slot was not in use by another link.
LEMMA ServerStays ==
    ASSUME IInv, NEW g \in Fd, NEW n \in Name, IRC_SERVER(g, n), NEW f, Up(f)
    PROVE  StillKnown(f)
<1>1. /\ St \in State /\ St.conf = conf /\ f \in Fd /\ g # f /\ conf \in Table
  BY NowGood DEF St, IRC_SERVER, Kind, Good, Up, IInv, Agree
<1>2. PICK j \in Slot : conf[j].conn_id = f
  BY DEF Up, Refers
<1>3. CASE \E r \in Random : Become(Conn_Close(St, g, r))
  BY <1>1, <1>2, <1>3, CloseStays DEF Become, StillKnown
<1>4. ASSUME Accept_Server(n, g), NEW k \in {"handshake", "server"},
             Become([conf |-> [conf EXCEPT ![Min(Named(conf, n))].conn_id = g],
                     sock |-> [sock EXCEPT ![g] = [kind |-> k, id |-> n]]])
      PROVE  StillKnown(f)
  <2> DEFINE i == Min(Named(conf, n))
  <2>1. i \in Slot /\ ~Conf_InUse(conf, i, g)
    BY <1>4, FirstSlot DEF Accept_Server, Named
  <2>2. conf' = [conf EXCEPT ![i].conn_id = g]
    BY <1>4 DEF Become
  <2> HIDE DEF i
  <2>3. j # i
    BY <1>1, <1>2, <2>1, LinksAssumption DEF Conf_InUse, NONE
  <2>4. conf'[j] = conf[j]
    BY <1>1, <1>2, <2>2, <2>3 DEF Table
  <2> QED BY <1>2, <2>4 DEF StillKnown
<1> QED BY <1>3, <1>4 DEF IRC_SERVER

\* CONNECT fills a slot without a name, which is not the slot of a server.
LEMMA AddStays ==
    ASSUME IInv, Unused(conf) # {}, NEW b \in Added,
           Admin([St EXCEPT !.conf = Conf_AddServer(conf, b)]), NEW f, Up(f)
    PROVE  StillKnown(f)
<1> DEFINE i == Min(Unused(conf))
<1>1. i \in Slot /\ conf[i].name = NoName /\ conf \in Table
  BY FirstSlot DEF Unused, IInv, Agree
<1>2. PICK j \in Slot : conf[j].conn_id = f /\ conf[j].name # NoName
  BY DEF Up, Refers
<1>3. conf' = Conf_AddServer(conf, b)
  BY DEF Admin, St
<1> HIDE DEF i
<1>4. conf'[j] = conf[j]
  BY <1>1, <1>2, <1>3 DEF Conf_AddServer, Table, i
<1> QED BY <1>2, <1>4 DEF StillKnown

\* DISCONNECT of another server.
LEMMA DisableStays ==
    ASSUME IInv, NEW n \in Name, Conf_DisableServer(n), NEW f, Up(f), sock'[f] = sock[f]
    PROVE  StillKnown(f)
<1> DEFINE i == Min(Named(conf, n))
           on == TRUE
           s == [conf[i] EXCEPT !.disabled = on]
           off == [St EXCEPT !.conf[i].disabled = on]
           d == [conf |-> [conf EXCEPT ![i] = s], sock |-> sock]
<1>1. conf \in Table /\ sock \in Socks /\ f \in Fd /\ sock[f].kind = "server"
  BY DEF IInv, Agree, Up
<1>2. i \in Slot
  BY FirstSlot DEF Conf_DisableServer, Named
<1>3. PICK j \in Slot : conf[j].conn_id = f
  BY DEF Up, Refers
<1>4. IF conf[i].conn_id > NONE
      THEN \E r \in Random : Admin(Conn_Close(off, conf[i].conn_id, r))
      ELSE Admin(off)
  BY Zenon DEF Conf_DisableServer
<1> HIDE DEF i, on
<1>5. off = d
  BY DEF St
<1> HIDE DEF off
<1>6. s.conn_id = conf[i].conn_id
  <2> HIDE DEF Due
  <2> QED BY <1>1, <1>2, ServerType DEF Table
<1> HIDE DEF s
<1>7. d.conf[j].conn_id = f /\ d.sock = sock
  BY <1>1, <1>2, <1>3, <1>6 DEF Table
<1> HIDE DEF d
<1>8. CASE conf[i].conn_id > NONE
  <2>1. PICK r \in Random : Admin(Conn_Close(off, conf[i].conn_id, r))
    BY <1>4, <1>8
  <2>2. conf' = Conf_UnsetServer(d.conf, conf[i].conn_id, r)
        /\ sock' = [sock EXCEPT ![conf[i].conn_id] = Free]
    BY <1>5, <1>7, <2>1, Zenon DEF Admin, Conn_Close
  <2>3. conf[i].conn_id # f
    BY <1>1, <2>2 DEF Free, Socks
  <2>4. conf'[j] = d.conf[j]
    BY <1>3, <1>7, <2>2, <2>3 DEF Conf_UnsetServer
  <2> QED BY <1>3, <1>7, <2>4 DEF StillKnown
<1>9. CASE ~(conf[i].conn_id > NONE)
  BY <1>3, <1>4, <1>5, <1>7, <1>9 DEF Admin, StillKnown
<1> QED BY <1>8, <1>9, Zenon

LEMMA RehashStays ==
    ASSUME IInv, NEW file \in Files, NEW valid \in BOOLEAN, Rehash(file, valid), NEW f, Up(f)
    PROVE  StillKnown(f)
<1> DEFINE read == [conf |-> Read_Config(conf, file), sock |-> sock]
<1>1. Agree(Read_Config(conf, file), sock) /\ conf \in Table
  BY ReadConfigKeeps DEF IInv, Agree
<1>2. [St EXCEPT !.conf = Read_Config(conf, file)] = read
  BY DEF St
<1>3. read \in Good
  BY <1>1 DEF Good, State, Agree
<1>4. Refers(read.conf, f, read.sock[f].id) /\ read.sock[f].kind = "server" /\ f \in Fd
  BY <1>1, ReadConfigRefers DEF Up
<1>5. Admin(IF valid THEN Conn_SyncServerStruct(read) ELSE read)
  <2> HIDE DEF read
  <2> QED BY <1>2 DEF Rehash
<1> HIDE DEF read
<1>6. CASE valid
  BY <1>3, <1>4, <1>5, <1>6, SyncRefers DEF Admin, StillKnown
<1>7. CASE ~valid
  BY <1>4, <1>5, <1>7 DEF Admin, StillKnown, Refers
<1> QED BY <1>6, <1>7

LEMMA StepStays ==
    ASSUME IInv, [Next]_vars, NEW f, Up(f), sock'[f] = sock[f]
    PROVE  StillKnown(f) \/ Taken(f)
<1>0. /\ f \in Fd /\ sock[f].kind = "server" /\ St \in State /\ St.conf = conf
      /\ St.sock = sock
  BY NowGood DEF Up, Good, St
<1>1. CASE Tick
  BY <1>1, TickKeeps, SameLinksStays
<1>2. CASE Check_Servers
  BY <1>2, CheckStays
<1>3. ASSUME NEW g \in Fd, cb_Connect_to_Server(g) PROVE StillKnown(f) \/ Taken(f)
  BY <1>3, LookupStays
<1>4. ASSUME NEW g \in Fd, cb_connserver(g) PROVE StillKnown(f)
  BY <1>4, ConnectedStays
<1>5. ASSUME NEW g \in Fd, IRC_Num_ENDOFMOTD(g) PROVE StillKnown(f)
  <2>1. SetKind(St, g, "server").conf = conf
    BY <1>0, SetKindType, "server" \in Conn \cup {"free", "pipe"}, Zenon DEF Conn
  <2> QED BY <1>5, <2>1, SameLinksStays DEF IRC_Num_ENDOFMOTD, Become, SameLinks
<1>6. ASSUME NEW g \in Fd, Lost(g) PROVE StillKnown(f)
  <2>1. PICK r \in Random : Become(Conn_Close(St, g, r))
    BY <1>6 DEF Lost
  <2>2. g # f
    BY <1>0, <2>1, ClosedChanges DEF Become
  <2> QED BY <1>0, <2>1, <2>2, CloseStays DEF Become, StillKnown, Up, Refers
<1>7. ASSUME NEW g \in Fd, NEW n \in Name, IRC_SERVER(g, n) PROVE StillKnown(f)
  BY <1>7, ServerStays
<1>8. CASE New_Connection
  <2>1. Min(FreeFds(St)) \in Fd
    BY <1>0, <1>8, LowestFree DEF New_Connection
  <2>2. SetKind(St, Min(FreeFds(St)), "unknown").conf = conf
    BY <1>0, <2>1, SetKindType, "unknown" \in Conn \cup {"free", "pipe"}, Zenon DEF Conn
  <2> QED BY <1>8, <2>2, SameLinksStays DEF New_Connection, Become, SameLinks
<1>9. CASE IRC_CONNECT
  BY <1>9, EnablePassiveKeeps, EnableKeeps, SameLinksStays, AddStays, Zenon DEF IRC_CONNECT
<1>10. CASE IRC_DISCONNECT
  BY <1>10, DisableStays DEF IRC_DISCONNECT
<1>11. ASSUME NEW file \in Files, NEW valid \in BOOLEAN, Rehash(file, valid)
       PROVE  StillKnown(f)
  BY <1>11, RehashStays
<1>12. CASE UNCHANGED vars
  BY <1>12, SameLinksStays DEF vars, SameLinks
<1> QED
  BY <1>1, <1>2, <1>3, <1>4, <1>5, <1>6, <1>7, <1>8, <1>9, <1>10, <1>11, <1>12, Zenon DEF Next

\* For every table and every file, a registered link that Conf_Server[] knows by its
\* own name stays known while it is up: no rehash, command, other link or late lookup
\* makes the daemon forget it, except the failed lookup of a slot that is in use.
THEOREM StaysKnownHolds == Spec => StaysKnown
<1> DEFINE Stays == \A f \in Fd : /\ Kind(St, f) = "server" /\ Known(f) /\ OwnName(f)
                                  /\ sock'[f] = sock[f] /\ ~Known(f)'
                                  => \E i \in Slot :
                                       /\ conf[i].conn_id = f /\ conf[i].pipe # NONE
                                       /\ conf'[i].conn_id = NONE /\ conf'[i].pipe = NONE
<1>1. IInv /\ [Next]_vars => Stays
  <2> SUFFICES ASSUME IInv, [Next]_vars, NEW f \in Fd, Kind(St, f) = "server", Known(f),
                      OwnName(f), sock'[f] = sock[f], ~Known(f)'
               PROVE  Taken(f)
    BY DEF Taken
  <2>1. Up(f)
    BY DEF Up, Refers, Known, OwnName, InSlot, Kind, St, IInv, Agree, OneName
  <2>2. ~StillKnown(f)
    BY DEF StillKnown, Known, InSlot
  <2> QED BY <2>1, <2>2, StepStays
<1>2. IInv /\ [Next]_vars => [Stays]_vars
  BY <1>1
<1> QED BY <1>2, InvariantHolds, PTL DEF Spec, StaysKnown
=============================================================================
