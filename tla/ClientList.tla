----------------------------- MODULE ClientList -----------------------------
(* The list My_Clients of one server while connections fail in the middle of  *)
(* a command.  A write to a dead connection closes it there and then: its     *)
(* client, and all clients behind it, are taken out of the list while outer   *)
(* loops stand somewhere in it, and the others are told by further writes     *)
(* that may fail too.  A command is one action, the list of the calls it      *)
(* makes: a call changes the state and puts the calls it makes in turn before *)
(* the rest of the list.  The state st is                                     *)
(*   first, next  the list; a freed structure keeps what it holds, as the     *)
(*                loops that stand on it read it;                             *)
(*   cl           fields of CLIENT: type, intro(ducer), conn: it has a        *)
(*                connection, mytoken;                                        *)
(*   modes        users with the modes c, s and w;                            *)
(*   open         clients with an open connection;                            *)
(*   fail         how many connections may still fail in the command;         *)
(*   view         what each linked server was told: a server and its token,   *)
(*                a user and the server it is on;                             *)
(*   reject       linked servers that were told what they must refuse;        *)
(*   twice        the last command closed a connection twice;                 *)
(*   stuck        connections whose handler said that they are closed and     *)
(*                that are not: no further command of theirs is found.        *)
(* Channels, nick changes and services are left out.                          *)
EXTENDS Integers, Sequences, FiniteSets, FiniteSetsExt, Functions, TLC

CONSTANTS
    This, Peer, Remote, User,     \* this server, linked servers, others, users
    NULL,
    Watcher,           \* users that may set the modes c, s and w
    MaxUnknown,        \* connections that are not registered
    MaxFail            \* connections that fail in one command

ASSUME ListAssumption ==
    Watcher \subseteq User /\ MaxUnknown \in Nat /\ MaxFail \in Nat

VARIABLE st
vars == <<st>>

Client == {This} \cup Peer \cup Remote \cup User
Gone == [type |-> "NONE", intro |-> NULL, conn |-> FALSE, mytoken |-> -1]

\* the clients from c on
RECURSIVE Follow(_, _)
Follow(s, c) == IF c = NULL THEN {} ELSE {c} \cup Follow(s, s.next[c])
InList(s) == Follow(s, s.first)
Client_Next(s, c) == IF c = NULL THEN s.first ELSE s.next[c]
-----------------------------------------------------------------------------
(* Clients                                                                    *)
\* the least token from 2 on that no client has
Generate_MyToken(s) ==
    Min({t \in 2 .. Cardinality(Client) + 2 : \A c \in InList(s) : s.cl[c].mytoken # t})

Init_New_Client(s, c, conn, intro, type) ==
    [s EXCEPT !.cl[c] = [type |-> type, intro |-> intro, conn |-> conn,
                         mytoken |-> IF type = "SERVER" THEN Generate_MyToken(s) ELSE -1],
              !.next[c] = s.first, !.first = c]

Client_SetType(s, c, type) ==
    [s EXCEPT !.cl[c].type = type,
              !.cl[c].mytoken = IF type = "SERVER" THEN Generate_MyToken(s) ELSE @]

RECURSIVE Client_NextHop(_, _)
Client_NextHop(s, c) ==
    IF s.cl[c].intro \in {NULL, c, This} THEN c ELSE Client_NextHop(s, s.cl[c].intro)
-----------------------------------------------------------------------------
(* A linked server that runs this code and is told m; v is what it knows      *)
ByToken(v, t) == {x \in DOMAIN v : x \notin User /\ v[x] = t}

Refuses(v, m) ==
    \/ m.t \in {"NICK", "SERVER"} /\ m.c \in DOMAIN v
    \/ m.t = "NICK" /\ ByToken(v, m.token) = {}

Receive(v, m) ==
    CASE m.t = "NICK" /\ ~Refuses(v, m) -> (m.c :> CHOOSE x \in ByToken(v, m.token) : TRUE) @@ v
      [] m.t = "SERVER" /\ ~Refuses(v, m) -> (m.c :> m.token) @@ v
      [] m.t \in {"QUIT", "KILL"} -> Restrict(v, DOMAIN v \ {m.c})
      [] m.t = "SQUIT" -> Restrict(v, {x \in DOMAIN v : x # m.c /\ (x \in User => v[x] # m.c)})
      [] OTHER -> v
-----------------------------------------------------------------------------
(* Calls                                                                      *)
Write(c, m) == [f |-> "write", c |-> c, m |-> m]
Closing(c) == [f |-> "close", c |-> c]
Destroy(c, SendQuit) == [f |-> "destroy", c |-> c, quit |-> SendQuit]
Announce(from, c) == [f |-> "announce", from |-> from, c |-> c]
Kill(by, from, c) == [f |-> "kill", by |-> by, from |-> from, c |-> c]
Remove(c) == [f |-> "remove", c |-> c]
Squit(c) == [f |-> "squit", c |-> c]

\* a loop over the list that stands behind the client after, or before the first
Loop(to, except, m) == [f |-> "loop", to |-> to, except |-> except, m |-> m, after |-> NULL]
IRC_WriteStrServersPrefixFlag_CB(except, m) == Loop("servers", except, m)
Log_ServerNotice == Loop("notices", NULL, [t |-> "NOTICE", c |-> This])
IRC_SendWallops == Loop("wallops", NULL, [t |-> "WALLOPS", c |-> This])

\* the burst to server new: pass 1 and 2 for servers 1 and 2 hops away, pass 3 for users
Burst(new, i, after) == [f |-> "burst", new |-> new, i |-> i, after |-> after]
Announced(new, i, c) == [f |-> "announced", new |-> new, i |-> i, c |-> c]
Told(new, i, c) == [f |-> "told", new |-> new, i |-> i, c |-> c]

\* the state s, and the calls to make next
Then(s, calls) == [st |-> s, calls |-> calls]
-----------------------------------------------------------------------------
(* Writing and closing                                                        *)
\* Conn_Write, all it may come to: nothing is written to a closed connection, and a write to
\* an open one may fail and then closes it
Conn_WriteStr(s, c, m) ==
    IF c \notin s.open THEN {Then(s, <<>>)}
    ELSE {Then(IF c \notin Peer THEN s
               ELSE [s EXCEPT !.view[c] = Receive(@, m),
                              !.reject = IF Refuses(s.view[c], m) THEN @ \cup {c} ELSE @],
               <<>>)}
         \cup {Then([s EXCEPT !.fail = n], <<Closing(c)>>) : n \in (0 .. MaxFail) \cap {s.fail - 1}}

\* the connection is marked and its socket closed before its client is destroyed
Conn_Close(s, c) ==
    IF c \notin s.open THEN Then([s EXCEPT !.twice = TRUE], <<>>)
    ELSE Then([s EXCEPT !.open = @ \ {c}], <<Destroy(c, TRUE)>>)

\* those a loop writes to: the linked servers but one, the local users that asked for notices,
\* the linked servers and the local users that asked for wallops
Recipient(s, k, c) ==
    /\ s.cl[c].conn
    /\ \/ k.to = "servers" /\ s.cl[c].type = "SERVER" /\ c \notin {This, k.except}
       \/ k.to = "notices" /\ c \in s.modes
       \/ k.to = "wallops" /\ (s.cl[c].type = "SERVER" \/ c \in s.modes)

\* the first one from c on
RECURSIVE NextRecipient(_, _, _)
NextRecipient(s, k, c) == IF c = NULL \/ Recipient(s, k, c) THEN c ELSE NextRecipient(s, k, s.next[c])

\* Mutant of WriteOn: the loop ends when it stands on a client that is gone.
WriteOn_Stop(s, k) ==
    LET c == NextRecipient(s, k, Client_Next(s, k.after))
    IN Then(s, IF c = NULL \/ (k.after # NULL /\ k.after \notin InList(s)) THEN <<>>
               ELSE <<Write(c, k.m), [k EXCEPT !.after = c]>>)

\* such a loop goes on to its next write; the client it stands behind may be freed by then
WriteOn(s, k) ==
    LET c == NextRecipient(s, k, Client_Next(s, k.after))
    IN Then(s, IF c = NULL THEN <<>> ELSE <<Write(c, k.m), [k EXCEPT !.after = c]>>)

Destroy_UserOrService(s, c, SendQuit) ==
    LET except == IF s.cl[c].conn THEN NULL ELSE Client_NextHop(s, c)
    IN (IF s.cl[c].conn THEN <<Log_ServerNotice>> ELSE <<>>) \o
       (IF SendQuit THEN <<IRC_WriteStrServersPrefixFlag_CB(except, [t |-> "QUIT", c |-> c])>> ELSE <<>>)

\* client c is out of the list, tell the others
Announce_Gone(s, c, SendQuit) ==
    CASE s.cl[c].type = "USER" -> Destroy_UserOrService(s, c, SendQuit)
      [] s.cl[c].type = "SERVER" ->
            <<Log_ServerNotice,
              IRC_WriteStrServersPrefixFlag_CB(Client_NextHop(s, c), [t |-> "SQUIT", c |-> c])>>
      [] OTHER -> <<>>

\* Mutant of Introduced: users are left to the servers they are on.
Introduced_Servers(s, Client_, c) == s.cl[Client_].type = "SERVER" /\ s.cl[c].intro = Client_ /\ c \notin User

Introduced(s, Client_, c) == s.cl[Client_].type = "SERVER" /\ s.cl[c].intro = Client_ /\ c # Client_

\* the loop of Client_Destroy at c, behind last: it ends at the client itself, and before at
\* a client that the server introduced
RECURSIVE Search(_, _, _, _)
Search(s, Client_, c, last) ==
    IF c = NULL \/ c = Client_ \/ Introduced(s, Client_, c) THEN [c |-> c, last |-> last]
    ELSE Search(s, Client_, s.next[c], c)

\* a client that the server introduced is destroyed and the loop starts again
Client_Destroy(s, Client_, SendQuit) ==
    LET at == Search(s, Client_, s.first, NULL)
        cut == IF at.last = NULL THEN [s EXCEPT !.first = s.next[Client_]]
               ELSE [s EXCEPT !.next[at.last] = s.next[Client_]]
    IN CASE at.c = NULL -> Then(s, <<>>)
         [] at.c = Client_ -> Then(cut, Announce_Gone(cut, Client_, SendQuit))
         [] OTHER -> Then(s, <<Destroy(at.c, FALSE), Destroy(Client_, SendQuit)>>)
-----------------------------------------------------------------------------
(* Introducing                                                                *)
NickMsg(s, c) == [t |-> "NICK", c |-> c, token |-> s.cl[s.cl[c].intro].mytoken]
ServerMsg(s, c) == [t |-> "SERVER", c |-> c, token |-> s.cl[c].mytoken]

Announce_Client(s, from, c) ==
    Then(s, <<IRC_WriteStrServersPrefixFlag_CB(from, IF c \in User THEN NickMsg(s, c) ELSE ServerMsg(s, c))>>)

\* from is the server that introduces the user, NULL for a local one
Client_Introduce(s, from, c) ==
    Then(Client_SetType(s, c, "USER"),
         (IF from = NULL THEN <<Log_ServerNotice>> ELSE <<>>) \o <<Announce(from, c)>>)

Hops(s, c) == IF c = This THEN 0 ELSE IF s.cl[c].conn THEN 1 ELSE 2

\* one turn of a pass of the burst: a linked server is told of the new one, then the new one
\* of it; after the users comes a PING
IRC_Num_ENDOFMOTD(s, new, i, after) ==
    LET c == Client_Next(s, after)
    IN Then(s,
         IF c = NULL THEN IF i < 3 THEN <<Burst(new, i + 1, NULL)>>
                          ELSE <<Write(new, [t |-> "PING", c |-> This])>>
         ELSE IF i < 3 /\ s.cl[c].type = "SERVER" /\ Hops(s, c) = i /\ c \notin {new, This} THEN
             (IF s.cl[c].conn THEN <<Write(c, ServerMsg(s, new))>> ELSE <<>>) \o <<Announced(new, i, c)>>
         ELSE IF i = 3 /\ s.cl[c].type = "USER" THEN <<Write(new, NickMsg(s, c)), Told(new, i, c)>>
         ELSE <<Burst(new, i, c)>>)

\* server c was told of the new one; if that failed the handler says that the new one is closed
Announce_Server(s, new, i, c) ==
    IF s.cl[c].conn /\ c \notin s.open THEN Then([s EXCEPT !.stuck = @ \cup {new}], <<>>)
    ELSE Then(s, <<Write(new, ServerMsg(s, c)), Told(new, i, c)>>)

\* the new one was told of c; the burst ends if that failed
Burst_Next(s, new, i, c) == Then(s, IF new \in s.open THEN <<Burst(new, i, c)>> ELSE <<>>)
-----------------------------------------------------------------------------

(* IRC_KillClient; from is FALSE if this server is the origin, by the link it  *)
(* came from or NULL.  c may be gone when it is removed                        *)
IRC_KillClient(s, by, from, c) ==
    Then(s, IF c \notin InList(s) \/ s.cl[c].type # "USER" THEN <<>>
            ELSE <<IRC_WriteStrServersPrefixFlag_CB(IF from THEN by ELSE NULL, [t |-> "KILL", c |-> c]),
                   Remove(c)>>)

Kill_Now(s, c) == Then(s, <<IF s.cl[c].conn THEN Closing(c) ELSE Destroy(c, FALSE)>>)

\* the link to c is taken down, if the notice left it
Squit_Link(s, c) == Then(s, IF c \in InList(s) THEN <<IRC_SendWallops, Closing(c)>> ELSE <<>>)

\* what a call may change, and the calls it makes
Call(s, k) ==
    IF k.f = "write" THEN Conn_WriteStr(s, k.c, k.m)
    ELSE {CASE k.f = "loop" -> WriteOn(s, k)
            [] k.f = "destroy" -> Client_Destroy(s, k.c, k.quit)
            [] k.f = "close" -> Conn_Close(s, k.c)
            [] k.f = "announce" -> Announce_Client(s, k.from, k.c)
            [] k.f = "burst" -> IRC_Num_ENDOFMOTD(s, k.new, k.i, k.after)
            [] k.f = "announced" -> Announce_Server(s, k.new, k.i, k.c)
            [] k.f = "told" -> Burst_Next(s, k.new, k.i, k.c)
            [] k.f = "kill" -> IRC_KillClient(s, k.by, k.from, k.c)
            [] k.f = "remove" -> Kill_Now(s, k.c)
            [] k.f = "squit" -> Squit_Link(s, k.c)}

\* the states after all calls
RECURSIVE Run(_, _)
Run(s, calls) == IF calls = <<>> THEN {s}
                 ELSE UNION {Run(r.st, r.calls \o Tail(calls)) : r \in Call(s, Head(calls))}
-----------------------------------------------------------------------------
Init == st = [first |-> This, next |-> [c \in Client |-> NULL],
              cl |-> [c \in Client |-> IF c = This THEN [type |-> "SERVER", intro |-> NULL,
                                                         conn |-> FALSE, mytoken |-> 1]
                                       ELSE Gone],
              modes |-> {}, open |-> {}, fail |-> 0, view |-> [p \in Peer |-> <<>>],
              reject |-> {}, twice |-> FALSE, stuck |-> {}]

\* between commands nothing stands on a freed structure
Settled(s) ==
    LET in == InList(s)
    IN [s EXCEPT !.cl = [c \in Client |-> IF c \in in THEN s.cl[c] ELSE Gone],
                 !.next = [c \in Client |-> IF c \in in THEN s.next[c] ELSE NULL],
                 !.modes = @ \cap in, !.fail = 0, !.stuck = @ \cap s.open,
                 !.view = [p \in Peer |-> IF p \in s.open THEN s.view[p] ELSE <<>>],
                 !.reject = @ \cap s.open]

\* a command is handled, t being what it changes and calls, while connections may fail
Do(t) ==
    \E r \in Run([t.st EXCEPT !.fail = MaxFail, !.twice = FALSE], t.calls) : st' = Settled(r)

Linked == {p \in (Peer \cap st.open) \ st.stuck : st.cl[p].type = "SERVER"}
\* the clients in the list, between commands
Known == {c \in Client : st.cl[c] # Gone}

\* a connection is accepted; a peer has sent PASS and SERVER
Connect(c) ==
    /\ c \in (Peer \cup User) \ Known
    /\ Cardinality({d \in st.open : st.cl[d].type = "UNKNOWN"}) < MaxUnknown
    /\ LET new == Init_New_Client(st, c, TRUE, IF c \in Peer THEN c ELSE This, "UNKNOWN")
       IN st' = [new EXCEPT !.twice = FALSE, !.open = @ \cup {c},
                            !.view = IF c \in Peer THEN [@ EXCEPT ![c] = This :> 1] ELSE @]

Login(u) ==
    /\ u \in User \cap st.open /\ st.cl[u].type = "UNKNOWN"
    /\ Do(Client_Introduce(st, NULL, u))

MODE(u) ==
    /\ u \in (Watcher \cap st.open) \ st.modes /\ st.cl[u].type = "USER"
    /\ st' = [st EXCEPT !.modes = @ \cup {u}, !.twice = FALSE]

\* the handshake with a peer is complete
Register(p) ==
    /\ p \in (Peer \cap st.open) \ st.stuck /\ st.cl[p].type = "UNKNOWN"
    /\ Do(Then(Client_SetType(st, p, "SERVER"), <<Log_ServerNotice, Burst(p, 1, NULL)>>))

\* peer p introduces a server; one that is known already closes the link
IRC_SERVER(p, r) ==
    /\ p \in Linked
    /\ Do(IF r \in Known THEN Then(st, <<Closing(p)>>)
          ELSE Then(Init_New_Client(st, r, FALSE, p, "SERVER"),
                    <<Log_ServerNotice, Announce(p, r)>>))

\* peer p introduces a user on itself or on a server behind it; a nick in use is killed
IRC_NICK(p, i, u) ==
    /\ p \in Linked /\ i \in Known \ {This} /\ st.cl[i].type = "SERVER" /\ st.cl[i].intro = p
    /\ u \in Known => Client_NextHop(st, u) # p
    /\ Do(IF u \in Known THEN Then(st, <<Kill(p, FALSE, u)>>)
          ELSE Client_Introduce(Init_New_Client(st, u, FALSE, i, "USER"), p, u))

\* Validate_Prefix: a command of a client that comes from another direction is ignored
Behind(p, c) == c \in Known \ {This} /\ c # p /\ Client_NextHop(st, c) = p

IRC_QUIT(p, u) == /\ p \in Linked /\ u \in User /\ Behind(p, u)
                  /\ Do(Then(st, <<Destroy(u, TRUE)>>))

IRC_SQUIT(p, r) == /\ p \in Linked /\ r \in Remote /\ Behind(p, r)
                   /\ Do(Then(st, <<Destroy(r, FALSE)>>))

\* an operator on this server takes down a link
OperSquit(p) == /\ p \in Linked
                /\ Do(Then(st, <<Log_ServerNotice, Squit(p)>>))

\* peer p killed a user, and does not know it any more
IRC_KILL(p, u) ==
    /\ p \in Linked /\ u \in Known /\ st.cl[u].type = "USER"
    /\ Do(Then([st EXCEPT !.view[p] = Restrict(@, DOMAIN @ \ {u})],
               <<Log_ServerNotice, Kill(p, TRUE, u)>>))

\* a connection ends: QUIT, ERROR, a timeout, a failed read
Close(c) == /\ c \in st.open /\ Do(Then(st, <<Closing(c)>>))

Next ==
    \/ \E c \in Peer \cup User : Connect(c) \/ Close(c)
    \/ \E u \in User : Login(u) \/ MODE(u)
    \/ \E p \in Peer : Register(p) \/ OperSquit(p)
    \/ \E p \in Peer, r \in Remote : IRC_SERVER(p, r) \/ IRC_SQUIT(p, r)
    \/ \E p \in Peer, u \in User : IRC_QUIT(p, u) \/ IRC_KILL(p, u)
    \/ \E p \in Peer, u \in User, i \in Peer \cup Remote : IRC_NICK(p, i, u)

Spec == Init /\ [][Next]_vars
-----------------------------------------------------------------------------
\* The list ends, and what the structures hold is of its type.
TypeOK ==
    /\ st.first \in Client /\ This \in InList(st)
    /\ \A c \in Client : /\ st.next[c] \in (Client \cup {NULL}) \ {c}
                         /\ c \in InList(st) <=> st.cl[c] # Gone
    /\ st.open \subseteq Peer \cup User

\* A connection is open exactly as long as its client is in the list.
OpenHasClient == st.open = {c \in InList(st) : st.cl[c].conn}

\* No client is left whose server is gone: Client_Destroy() finds all of them, however
\* the list was changed by the connections that failed while it worked.
NoOrphan == \A c \in InList(st) \ {This} : st.cl[c].intro \in InList(st)

\* Servers that are known at the same time have different tokens.
TokensUnique ==
    \A c, d \in {c \in InList(st) : st.cl[c].type = "SERVER"} : st.cl[c].mytoken = st.cl[d].mytoken => c = d

\* The list of clients is sound after every command, whichever connections failed at
\* whichever write in it: it ends, its clients and the open connections are the same,
\* nobody is left behind a lost server, tokens are unique (client.c, Conn_Close()).
ListSound == TypeOK /\ OpenHasClient /\ NoOrphan /\ TokensUnique

\* Every linked server knows all clients that are not behind itself, and no others, each
\* user on its server and each server by its token; it was told each of them once.  Not
\* so for a server that is stuck in its burst.
ViewExact ==
    /\ st.reject \subseteq st.stuck
    /\ \A p \in Linked : Restrict(st.view[p], DOMAIN st.view[p] \ st.stuck) =
          [c \in {c \in InList(st) \ st.stuck : /\ st.cl[c].type \in {"SERVER", "USER"}
                                                /\ Client_NextHop(st, c) # p} |->
              IF c \in User THEN st.cl[c].intro ELSE st.cl[c].mytoken]

=============================================================================
