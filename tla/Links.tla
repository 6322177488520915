------------------------------- MODULE Links -------------------------------
(* The links of a server to other servers: the table Conf_Server[] of conf.c, *)
(* the outgoing connections conn.c makes for it, the resolver processes that  *)
(* look up the addresses, incoming links, CONNECT, DISCONNECT and rehash.     *)
(* Descriptors are one pool: a connection has the number of its socket, and   *)
(* the pipe of a resolver takes a number as well.                             *)
(*   conf  Conf_Server[]: due is lasttry + ConnectRetry relative to the clock, *)
(*         more the number of addresses left in dst_addr, pipe the resolver's *)
(*   sock  what each descriptor is: a pipe or a connection, with the kind of  *)
(*         its client and the name it has registered as a server              *)
(* A handler is an operator from st = [conf, sock] to the next one.           *)
EXTENDS Integers, Sequences, FiniteSets, FiniteSetsExt, Loops

CONSTANTS
    MAX_SERVERS,
    Fd,                    \* descriptors the process may have
    Name,                  \* names of servers
    Files,                 \* configuration files: sequences of [Server] blocks
    FirstFile,             \* the one read at the start
    Added,                 \* blocks an operator may add with CONNECT
    MaxAddr,               \* addresses the resolver may find, at most 3 are used
    NGIRCd_Passive,        \* the daemon was started with --passive
    Conf_MaxConnections,   \* incoming connections are refused when this many are open, 0: never
    Conf_ConnectRetry, RECONNECT_DELAY, STARTUP_DELAY,
    Random,                \* seconds Conf_UnsetServer may add
    MaxAdmin               \* bound: rehashes, CONNECT and DISCONNECT commands

NoName == "none"
NONE == 0
SERVER_WAIT == -1
Slot == 1 .. MAX_SERVERS
Block == [name : Name, host : BOOLEAN, port : BOOLEAN, group : Nat, disabled : BOOLEAN]

ASSUME LinksAssumption ==
    /\ MAX_SERVERS \in Nat /\ Fd \subseteq Nat \ {0} /\ IsFiniteSet(Fd)
    /\ NoName \notin Name /\ NGIRCd_Passive \in BOOLEAN
    /\ FirstFile \in Files /\ \A f \in Files : f \in Seq(Block)
    /\ Added \subseteq Block
    /\ Conf_MaxConnections \in Nat /\ MaxAddr \in Nat /\ MaxAdmin \in Nat
    /\ Random \subseteq Nat /\ IsFiniteSet(Random) /\ Random # {}
    /\ Conf_ConnectRetry \in Nat \ {0} /\ RECONNECT_DELAY \in Nat /\ STARTUP_DELAY \in Nat

VARIABLES conf, sock, admin
vars == <<conf, sock, admin>>

(* Kinds of a descriptor.  Outgoing: connecting, then login until the peer's  *)
(* SERVER.  Incoming: unknown until SERVER.  After SERVER a peer with the     *)
(* extended handshake is in it until its ENDOFMOTD, then it is a server.      *)
Conn == {"unknown", "connecting", "login", "handshake", "server"}
Free == [kind |-> "free", id |-> NoName]
Kind(st, f) == st.sock[f].kind
Registered(st, n) == \E f \in Fd : st.sock[f].id = n
FreeFds(st) == {f \in Fd : Kind(st, f) = "free"}
SetKind(st, f, k) == [st EXCEPT !.sock[f].kind = k]
-----------------------------------------------------------------------------
(* conf.c                                                                     *)
Init_Server_Struct ==
    [name |-> NoName, host |-> FALSE, port |-> FALSE, group |-> 0, disabled |-> NGIRCd_Passive,
     once |-> FALSE, conn_id |-> NONE, due |-> STARTUP_DELAY, more |-> 0, pipe |-> NONE]

Fill(b) == [Init_Server_Struct EXCEPT !.name = b.name, !.host = b.host, !.port = b.port,
                                      !.group = b.group,
                                      !.disabled = @ \/ b.disabled]

Unused(c) == {i \in Slot : c[i].name = NoName}
Named(c, n) == {i \in Slot : c[i].name = n}
InSlot(c, f) == {i \in Slot : c[i].conn_id = f}

Unset(s, r) ==
    IF s.once THEN Init_Server_Struct
    ELSE [s EXCEPT !.conn_id = NONE,
                   !.due = IF s.due < 0 THEN RECONNECT_DELAY ELSE Conf_ConnectRetry + r]

\* Mutant of Conf_UnsetServer: only the first slot of the connection is released.
Conf_UnsetServer_First(c, f, r) ==
    IF InSlot(c, f) = {} THEN c
    ELSE LET i == Min(InSlot(c, f)) IN [c EXCEPT ![i] = Unset(c[i], r)]

Conf_UnsetServer(c, f, r) ==
    [i \in Slot |-> IF c[i].conn_id = f THEN Unset(c[i], r) ELSE c[i]]

\* the slot is used by another connection: Conf_SetServer refuses
Conf_InUse(c, i, f) == c[i].conn_id > NONE /\ c[i].conn_id # f

\* rehash: what becomes of slot i of the old configuration
CleanUp(c, i) ==
    CASE c[i].conn_id = NONE -> [c EXCEPT ![i] = Init_Server_Struct]
      [] c[i].conn_id # NONE /\ c[i].once ->
            [n \in Slot |-> IF n # i /\ c[n].conn_id = c[i].conn_id
                            THEN Init_Server_Struct ELSE c[n]]
      [] OTHER -> [c EXCEPT ![i].once = TRUE]

\* a [Server] block goes to the first unused slot, or nowhere
ReadBlock(c, b) == IF Unused(c) = {} THEN c ELSE [c EXCEPT ![Min(Unused(c))] = Fill(b)]

Read_Config(c, file) ==
    ForEach(ReadBlock, ForEach(CleanUp, c, [i \in Slot |-> i]), file)

Conf_AddServer(c, b) ==
    [c EXCEPT ![Min(Unused(c))] = [Fill(b) EXCEPT !.group = 0, !.disabled = FALSE,
                                                  !.once = TRUE]]
-----------------------------------------------------------------------------
(* conn.c: what handlers do to st                                             *)
St == [conf |-> conf, sock |-> sock]

Conn_Close(st, f, r) ==
    [conf |-> Conf_UnsetServer(st.conf, f, r), sock |-> [st.sock EXCEPT ![f] = Free]]

\* Mutant of New_Server: the slot is taken even if the server has linked itself.
New_Server_Anyway(st, i, ok) ==
    IF ok /\ FreeFds(st) # {}
    THEN LET f == Min(FreeFds(st))
         IN SetKind([st EXCEPT !.conf[i].conn_id = f], f, "connecting")
    ELSE [st EXCEPT !.conf[i].conn_id = NONE]

\* ok: socket(), connect() and registering the socket succeed
New_Server(st, i, ok) ==
    CASE st.conf[i].conn_id > NONE -> st
      [] st.conf[i].conn_id <= NONE /\ ok /\ FreeFds(st) # {} ->
            LET f == Min(FreeFds(st))
            IN SetKind([st EXCEPT !.conf[i].conn_id = f], f, "connecting")
      [] OTHER -> [st EXCEPT !.conf[i].conn_id = NONE]

GroupBusy(c, i) ==
    c[i].group # 0 /\ \E n \in Slot \ {i} : c[n].conn_id # NONE /\ c[n].group = c[i].group

Wanted(c, i) ==
    /\ c[i].conn_id = NONE
    /\ c[i].host /\ c[i].port
    /\ ~c[i].disabled
    /\ c[i].due <= 0
    /\ ~GroupBusy(c, i)

\* Resolve_Name: a pipe to a new process, unless pipe() or fork() fails
Resolve_Name(st, i, ok) ==
    IF ok /\ FreeFds(st) # {}
    THEN LET f == Min(FreeFds(st))
         IN SetKind([st EXCEPT !.conf[i].pipe = f, !.conf[i].conn_id = SERVER_WAIT], f, "pipe")
    ELSE [st EXCEPT !.conf[i].conn_id = NONE]

Conn_Maybe_Start_Server_Link(st, i, ok) ==
    IF Wanted(st.conf, i)
    THEN Resolve_Name([st EXCEPT !.conf[i].due = Conf_ConnectRetry], i, ok)
    ELSE st

Proc_Close(st, i) ==
    [conf |-> [st.conf EXCEPT ![i].pipe = NONE],
     sock |-> [st.sock EXCEPT ![st.conf[i].pipe] = Free]]

\* the last link found wins, as the code goes through the connections in order
Conn_SyncServerStruct(st) ==
    LET links(i) == {f \in Fd : /\ Kind(st, f) = "server"
                                /\ st.conf[i].host /\ st.sock[f].id = st.conf[i].name}
    IN [st EXCEPT !.conf = [i \in Slot |-> IF links(i) = {} THEN st.conf[i]
                                          ELSE [st.conf[i] EXCEPT !.conn_id = Max(links(i))]]]
-----------------------------------------------------------------------------
(* The steps of the daemon                                                    *)
Become(st) == conf' = st.conf /\ sock' = st.sock /\ UNCHANGED admin
Admin(st) == /\ admin < MaxAdmin /\ admin' = admin + 1
             /\ conf' = st.conf /\ sock' = st.sock

Init ==
    /\ conf = ForEach(ReadBlock, [i \in Slot |-> Init_Server_Struct], FirstFile)
    /\ sock = [f \in Fd |-> Free]
    /\ admin = 0

\* a second passes
Tick ==
    /\ conf' = [i \in Slot |-> [conf[i] EXCEPT !.due = IF @ < 0 THEN @ ELSE @ - 1]]
    /\ UNCHANGED <<sock, admin>>

\* the start of a round of Conn_Handler; ok: the slots whose lookup can be begun
Check_Servers ==
    \E ok \in SUBSET Slot :
        Become(ForEach(LAMBDA st, i : Conn_Maybe_Start_Server_Link(st, i, i \in ok),
                        St, [i \in Slot |-> i]))

\* Mutant of Unclaimed: the pipe of a deleted slot stays open.
Unclaimed_Open(f) == UNCHANGED vars

\* no slot has the pipe f any more
Unclaimed(f) == Become([St EXCEPT !.sock[f] = Free])

\* the pipe f of a resolver is readable: n addresses, none if the lookup failed
cb_Connect_to_Server(f) ==
    /\ Kind(St, f) = "pipe"
    /\ LET mine == {i \in Slot : conf[i].pipe = f}
       IN IF mine = {}
          THEN Unclaimed(f)
          ELSE LET i == Min(mine)
                   read == Proc_Close(St, i)
               IN \/ Become([read EXCEPT !.conf[i].conn_id = NONE])
                  \/ \E n \in 1 .. MaxAddr, ok \in BOOLEAN :
                        Become(New_Server([read EXCEPT !.conf[i].more = Min({n - 1, 2})], i, ok))

\* connect() failed and the connection of slot i is closed: the next address
Failed(st, i, ok) ==
    IF st.conf[i].more = 0 THEN st
    ELSE LET next == New_Server(st, i, ok) IN [next EXCEPT !.conf[i].more = @ - 1]

\* connect() on f is over
cb_connserver(f) ==
    /\ Kind(St, f) = "connecting"
    /\ IF InSlot(conf, f) = {}
       THEN \E r \in Random : Become(Conn_Close(St, f, r))
       ELSE LET i == Min(InSlot(conf, f))
            IN \/ \E r \in Random, ok \in BOOLEAN :
                    Become(Failed(Conn_Close(St, f, r), i, ok))
               \/ Become(SetKind([St EXCEPT !.conf[i].more = 0], f, "login"))

New_Connection ==
    /\ FreeFds(St) # {}
    /\ Conf_MaxConnections > 0
          => Cardinality({f \in Fd : Kind(St, f) \in Conn}) < Conf_MaxConnections
    /\ Become(SetKind(St, Min(FreeFds(St)), "unknown"))

\* the peer on f may register as n: configured, not registered, its slot not in use
Accept_Server(n, f) ==
    /\ Named(conf, n) # {}
    /\ ~Registered(St, n)
    /\ ~Conf_InUse(conf, Min(Named(conf, n)), f)

\* PASS and SERVER from the peer on f; a bad password closes the connection
IRC_SERVER(f, n) ==
    /\ Kind(St, f) \in {"unknown", "login"}
    /\ \/ /\ Accept_Server(n, f)
          /\ \E k \in {"handshake", "server"} :
                Become([conf |-> [conf EXCEPT ![Min(Named(conf, n))].conn_id = f],
                        sock |-> [sock EXCEPT ![f] = [kind |-> k, id |-> n]]])
       \/ \E r \in Random : Become(Conn_Close(St, f, r))

IRC_Num_ENDOFMOTD(f) == Kind(St, f) = "handshake" /\ Become(SetKind(St, f, "server"))

\* a timeout, an error, SQUIT or the peer ends the connection f
Lost(f) == Kind(St, f) \in Conn /\ \E r \in Random : Become(Conn_Close(St, f, r))

\* CONNECT <name>: the first slot of that name that has a port
Conf_EnablePassiveServer(n) ==
    LET has == {i \in Named(conf, n) : conf[i].port}
    IN /\ has # {}
       /\ Admin([St EXCEPT !.conf[Min(has)].disabled = FALSE, !.conf[Min(has)].due = -1])

\* CONNECT <name> <port>
Conf_EnableServer(n) ==
    LET i == Min(Named(conf, n))
    IN /\ Named(conf, n) # {}
       /\ Admin([St EXCEPT !.conf[i].port = TRUE, !.conf[i].disabled = FALSE])

IRC_CONNECT ==
    \/ \E n \in Name : Conf_EnablePassiveServer(n) \/ Conf_EnableServer(n)
    \/ Unused(conf) # {} /\ \E b \in Added : Admin([St EXCEPT !.conf = Conf_AddServer(conf, b)])

Conf_DisableServer(n) ==
    LET i == Min(Named(conf, n))
        off == [St EXCEPT !.conf[i].disabled = TRUE]
    IN /\ Named(conf, n) # {}
       /\ IF conf[i].conn_id > NONE
          THEN \E r \in Random : Admin(Conn_Close(off, conf[i].conn_id, r))
          ELSE Admin(off)

IRC_DISCONNECT == \E n \in Name : Conf_DisableServer(n)

\* a file that is not valid leaves the new table in place but ends the rehash
Rehash(file, valid) ==
    LET read == [St EXCEPT !.conf = Read_Config(conf, file)]
        st == IF valid THEN Conn_SyncServerStruct(read) ELSE read
    IN Admin(st)

Next ==
    \/ Tick
    \/ Check_Servers
    \/ \E f \in Fd : \/ cb_Connect_to_Server(f)
                     \/ cb_connserver(f)
                     \/ IRC_Num_ENDOFMOTD(f)
                     \/ Lost(f)
                     \/ \E n \in Name : IRC_SERVER(f, n)
    \/ New_Connection
    \/ IRC_CONNECT
    \/ IRC_DISCONNECT
    \/ \E file \in Files, valid \in BOOLEAN : Rehash(file, valid)

\* a resolver answers, or is ended by its timeout, and select() reports its pipe
Fairness == \A f \in Fd : WF_vars(cb_Connect_to_Server(f))

Spec == Init /\ [][Next]_vars
FairSpec == Spec /\ Fairness
-----------------------------------------------------------------------------
(* What the links promise                                                     *)
Conf_Server ==
    [name : Name \cup {NoName}, host : BOOLEAN, port : BOOLEAN, group : Nat,
     disabled : BOOLEAN, once : BOOLEAN, conn_id : Fd \cup {NONE, SERVER_WAIT},
     due : -1 .. Max({RECONNECT_DELAY, STARTUP_DELAY, Conf_ConnectRetry + Max(Random)}),
     more : 0 .. 2, pipe : Fd \cup {NONE}]

\* Every descriptor and every slot of Conf_Server[] is of its type; in particular
\* no slot waits longer than ConnectRetry and the random delay for its next try.
TypeOK ==
    /\ conf \in [Slot -> Conf_Server]
    /\ sock \in [Fd -> [kind : Conn \cup {"free", "pipe"}, id : Name \cup {NoName}]]
    /\ admin \in 0 .. MaxAdmin

\* A slot of Conf_Server[] never refers to a closed connection, nor to one that
\* took over its descriptor: Conn_Close releases all slots of a connection before
\* the number can be used again (conn.c, conf.c).
SlotLive == \A i \in Slot : conf[i].conn_id > NONE =>
                Kind(St, conf[i].conn_id) \in {"connecting", "login", "handshake", "server"}

\* A slot that waits for a lookup has a resolver to end the wait, and no two slots
\* share a pipe or keep the number of a pipe that was closed (conn.c, proc.c).
WaitHasPipe ==
    /\ \A i \in Slot : conf[i].conn_id = SERVER_WAIT => conf[i].pipe # NONE
    /\ \A i \in Slot : conf[i].pipe # NONE =>
           /\ Kind(St, conf[i].pipe) = "pipe"
           /\ \A n \in Slot \ {i} : conf[n].pipe # conf[i].pipe

\* At most one connection is registered under the name of a server, whichever side
\* opened it and whatever rehash did to the table (IRC_SERVER, Client_CheckID).
OneLink == \A f, g \in Fd : sock[f].id = sock[g].id /\ sock[f].id # NoName => f = g

\* The table, the connections and the resolvers agree after every step, whatever
\* order lookups, incoming links, failures, rehashes and operators' commands take.
LinksSound == TypeOK /\ SlotLive /\ WaitHasPipe /\ OneLink

Known(f) == InSlot(conf, f) # {}

\* no connection made for one server was answered by another
OwnName(f) == \A i \in InSlot(conf, f) : conf[i].name = sock[f].id

\* A registered link that Conf_Server[] knows by its own name stays known as long as
\* it is up, through rehashes, CONNECT, DISCONNECT, other links and lookups that answer
\* late; only a lookup that fails takes the slot away (cb_Connect_to_Server).
StaysKnown ==
    [][\A f \in Fd : /\ Kind(St, f) = "server" /\ Known(f) /\ OwnName(f)
                     /\ sock'[f] = sock[f] /\ ~Known(f)'
                     => \E i \in Slot : /\ conf[i].conn_id = f /\ conf[i].pipe # NONE
                                        /\ conf'[i].conn_id = NONE /\ conf'[i].pipe = NONE]_vars

\* Every resolver pipe is closed in the end, also when its slot was deleted or given
\* to another server meanwhile (cb_Connect_to_Server).
PipesEnd == \A f \in Fd : Kind(St, f) = "pipe" ~> Kind(St, f) # "pipe"

Outgoing(i) == \/ conf[i].conn_id = SERVER_WAIT
               \/ conf[i].conn_id > NONE /\ Kind(St, conf[i].conn_id) \in {"connecting", "login"}

\* Of the servers of a group at most one is being connected to (the manual page
\* of ngircd.conf: never "more than one server of this group simultaneously").
\* The code does not keep this: see the README.
OneOfGroup ==
    \A i, n \in Slot : Outgoing(i) /\ Outgoing(n) /\ conf[i].group # 0
                      /\ conf[i].group = conf[n].group => conf[i].name = conf[n].name
=============================================================================
