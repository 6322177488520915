---------------------------- MODULE Registration ----------------------------
(***************************************************************************)
(* Registration of local clients: the handlers of PASS, NICK, USER, CAP,   *)
(* PONG and QUIT in server/proto/irc/irc-login.c and irc-cap.c, the login   *)
(* flow of server/proto/login/login_flow.c, Login_User() of                *)
(* state/login/login.c, and the nick collisions a linked server can cause  *)
(* by introducing a remote user.                                           *)
(*                                                                         *)
(* The daemon is one thread that handles one command at a time, so one     *)
(* command is one action.  A handler may call Conn_Close(), directly or    *)
(* through a write that fails; it is therefore an operator from the client *)
(* record to the set of its outcomes: the record the connection is left    *)
(* with and the value (CONNECTED or DISCONNECTED) the handler returns.     *)
(***************************************************************************)
EXTENDS Naturals

CONSTANTS
    Conn,        \* connections
    Nick,        \* nick names, compared as the code does: ignoring case
    NoNick,      \* the empty id of a client without a nick ("*" on the wire)
    Blocked,     \* the nicks that are malformed or blocked by the configuration
    Token,       \* the values rand() can give an authentication PING
    AuthPing,    \* Conf_AuthPing: RequireAuthPing is configured
    ServerPwd,   \* Conf_ServerPwd is not empty
    CapConn      \* the connections whose client negotiates capabilities

ASSUME NickAssumption == NoNick \notin Nick
ASSUME BlockedAssumption == Blocked \subseteq Nick
ASSUME TokenAssumption == Token \subseteq Nat
ASSUME ConfAssumption == AuthPing \in BOOLEAN /\ ServerPwd \in BOOLEAN

VARIABLES
    client,      \* [Conn -> Client]: what is known of each local connection
    last,        \* the last command handled: its connection and its result
    remote,      \* nicks of the remote users known to this server
    online,      \* nicks of the users the linked servers have online
    missed       \* those of them whose collision with a local client the kill left
                 \* alone, with the type of that client (history)

vars == <<client, last, remote, online, missed>>

Unregistered == {"UNKNOWN", "GOTPASS", "GOTPASS_2813", "GOTNICK", "GOTUSER", "WAITAUTHPING"}
Types == Unregistered \cup {"USER", "NONE"}

\* A local client.  type "NONE" is a free connection slot; user: a USER
\* command was accepted; cap: CLIENT_CAP_PENDING; ping: auth_ping (0: none);
\* asked, ponged: the token of the last authentication PING, and whether the client
\* answered it (history); pwd: the password of the connection is the one configured.
Client == [type: Types, id: Nick \cup {NoNick}, user: BOOLEAN, cap: BOOLEAN,
           ping: Nat, asked: Nat, ponged: BOOLEAN, pwd: BOOLEAN]

NoClient == [type |-> "NONE", id |-> NoNick, user |-> FALSE, cap |-> FALSE,
             ping |-> 0, asked |-> 0, ponged |-> FALSE, pwd |-> FALSE]

\* Client_NewLocal(): the client of a connection just accepted.
NewLocal == [NoClient EXCEPT !.type = "UNKNOWN"]

Results == {"CONNECTED", "DISCONNECTED"}
NoCommand == [conn |-> {}, ret |-> "CONNECTED"]
Missed == [nick: Nick, type: Types]

-----------------------------------------------------------------------------
(* Outcomes of a handler. *)

Outcome(cl, ret) == [cl |-> cl, ret |-> ret]

\* The handler returns the result of its last write: a write error has closed
\* the connection and gives DISCONNECTED.
Write(cl) == {Outcome(cl, "CONNECTED"), Outcome(NoClient, "DISCONNECTED")}

\* The handler ignores the results of its writes and returns CONNECTED.
WriteIgnored(cl) == {Outcome(cl, "CONNECTED"), Outcome(NoClient, "CONNECTED")}

\* The connection is closed and the handler says so.
Reject == {Outcome(NoClient, "DISCONNECTED")}

-----------------------------------------------------------------------------
(* The login flow. *)

\* login_flow_decide() with registration_allowed, which every caller passes.
login_flow_decide(received, capPending, pingPending, setState) ==
    IF pingPending \/ capPending \/ ~received THEN setState ELSE "LOGIN_NOW"

\* Mutant of Login_Flow_OnNick(): PASS counts as USER.
Login_Flow_OnNick_Pass(cl) ==
    login_flow_decide(cl.type \in {"GOTUSER", "GOTPASS"}, cl.cap, cl.ping # 0, "SET_GOTNICK")

Login_Flow_OnNick(cl) ==
    login_flow_decide(cl.type = "GOTUSER", cl.cap, cl.ping # 0, "SET_GOTNICK")

Login_Flow_OnUser(cl) ==
    login_flow_decide(cl.type = "GOTNICK", cl.cap, cl.ping # 0, "SET_GOTUSER")

\* The action the login state calls for (login_state.c): the table the code
\* base states and tests separately from the handlers.
Login_State_Resolve(cl) ==
    CASE cl.type = "USER" -> "NONE"
      [] cl.type # "USER" /\ cl.ping # 0 -> "WAIT"
      [] cl.type # "USER" /\ cl.ping = 0 /\ cl.id # NoNick /\ cl.user -> "REGISTER"
      [] OTHER -> IF cl.cap THEN "WAIT" ELSE "NONE"

\* A server ban rejects the client; otherwise it is introduced as a user and
\* gets the welcome messages (results checked), the default modes and the
\* autojoin channels (results ignored).
Login_User_PostAuth(cl) ==
    Reject \cup Write([cl EXCEPT !.type = "USER"])
           \cup WriteIgnored([cl EXCEPT !.type = "USER"])

\* Mutants of Login_User(): no check of the password, no wait for the PONG,
\* and a wrong password that is reported without closing the connection.
Login_User_NoPassword(cl) ==
    IF AuthPing /\ cl.ping # 0
    THEN {Outcome([cl EXCEPT !.type = "WAITAUTHPING"], "CONNECTED")}
    ELSE Login_User_PostAuth([cl EXCEPT !.cap = FALSE])
Login_User_NoPing(cl) ==
    IF ServerPwd /\ ~cl.pwd THEN Reject ELSE Login_User_PostAuth([cl EXCEPT !.cap = FALSE])
Login_User_NoClose(cl) ==
    IF AuthPing /\ cl.ping # 0
    THEN {Outcome([cl EXCEPT !.type = "WAITAUTHPING"], "CONNECTED")}
    ELSE IF ServerPwd /\ ~cl.pwd
         THEN {Outcome(cl, "DISCONNECTED")}
         ELSE Login_User_PostAuth([cl EXCEPT !.cap = FALSE])

Login_User(cl) ==
    IF AuthPing /\ cl.ping # 0
    THEN {Outcome([cl EXCEPT !.type = "WAITAUTHPING"], "CONNECTED")}
    ELSE IF ServerPwd /\ ~cl.pwd
         THEN Reject
         ELSE Login_User_PostAuth([cl EXCEPT !.cap = FALSE])

-----------------------------------------------------------------------------
(* The command handlers. *)

Live(c) == client[c].type # "NONE"

\* Client_Search() for a nick: local clients in any state, and remote users.
InUse(n) == n \in remote \/ \E c \in Conn : client[c].id = n

\* Mutant of Client_CheckNick(): only nicks of registered clients are in use.
Client_CheckNick_Registered(n) ==
    /\ n \notin Blocked \cup remote
    /\ \A c \in Conn : client[c].type = "USER" => client[c].id # n

\* A client may take nick n.  When it may not it is told so, and the result of
\* that write is ignored.
Client_CheckNick(n) == n \notin Blocked /\ ~InUse(n)

\* A registered user may be refused: user mode r, or member of a +N channel.
Refused(cl) == IF cl.type = "USER" THEN Write(cl) ELSE {}

\* The command of connection c ends with one of the given outcomes.
Handle(c, outcomes) ==
    \E o \in outcomes :
        /\ client' = [client EXCEPT ![c] = o.cl]
        /\ last' = [conn |-> {c}, ret |-> o.ret]
        /\ UNCHANGED <<remote, online, missed>>

\* Mutant of IRC_PASS(): it is accepted at any time.
IRC_PASS_AnyTime(c, good, rfc2813) ==
    /\ Live(c)
    /\ Handle(c, {Outcome([client[c] EXCEPT !.pwd = good,
                             !.type = IF rfc2813 THEN "GOTPASS_2813" ELSE "GOTPASS"],
                          "CONNECTED")})

\* PASS is for connections that sent nothing else yet; argv[1] of at least
\* four characters is the version of an RFC 2813 server.
IRC_PASS(c, good, rfc2813) ==
    /\ Live(c)
    /\ Handle(c, IF client[c].type = "UNKNOWN"
                 THEN {Outcome([client[c] EXCEPT !.pwd = good,
                                  !.type = IF rfc2813 THEN "GOTPASS_2813" ELSE "GOTPASS"],
                               "CONNECTED")}
                 ELSE Write(client[c]))

\* The nick of an unregistered client: authentication PING, then the flow.  When
\* the PING cannot be written the connection is closed and its client freed, and the
\* handler goes on with the freed client: it may find either type in it and return
\* either value, and the connection stays closed.
NickLogin(cl, n, tok) ==
    LET named == [cl EXCEPT !.id = n]
        asked == IF AuthPing THEN [named EXCEPT !.ping = tok, !.asked = tok, !.ponged = FALSE]
                             ELSE named
        next  == IF Login_Flow_OnNick(asked) = "LOGIN_NOW"
                 THEN Login_User(asked)
                 ELSE {Outcome([asked EXCEPT !.type = "GOTNICK"], "CONNECTED")}
    IN  IF AuthPing THEN next \cup {Outcome(NoClient, ret) : ret \in Results} ELSE next

\* exact: the nick is spelled as the present one.  A change of case alone
\* skips Client_CheckNick().
IRC_NICK(c, n, exact, tok) ==
    LET cl == client[c] IN
    /\ Live(c)
    /\ exact => n = cl.id
    /\ Handle(c,
         IF cl.type \in {"GOTPASS_2813", "WAITAUTHPING"} THEN Write(cl)
         ELSE Refused(cl) \cup
              IF exact THEN {Outcome(cl, "CONNECTED")}
              ELSE IF n # cl.id /\ ~Client_CheckNick(n) THEN WriteIgnored(cl)
              ELSE IF cl.type = "USER" THEN WriteIgnored([cl EXCEPT !.id = n])
              ELSE NickLogin(cl, n, tok))

\* valid: the user name has no forbidden character.
IRC_USER(c, valid) ==
    LET cl == client[c]
        named == [cl EXCEPT !.user = TRUE]
    IN
    /\ Live(c)
    /\ Handle(c,
         IF cl.type \notin {"UNKNOWN", "GOTPASS", "GOTNICK"} THEN Write(cl)
         ELSE IF ~valid THEN Reject
         ELSE IF Login_Flow_OnUser(cl) = "LOGIN_NOW" THEN Login_User(named)
         ELSE {Outcome([named EXCEPT !.type = "GOTUSER"], "CONNECTED")})

\* CAP LS and CAP REQ start (or repeat) the negotiation.
CAP_Negotiate(c) ==
    /\ Live(c) /\ c \in CapConn
    /\ Handle(c, Write([client[c] EXCEPT !.cap = client[c].cap \/ client[c].type # "USER"]))

Handle_CAP_END(c) ==
    LET cl == [client[c] EXCEPT !.cap = FALSE] IN
    /\ Live(c) /\ c \in CapConn
    /\ Handle(c, IF client[c].type = "USER" THEN {Outcome(client[c], "CONNECTED")}
                 ELSE IF cl.id # NoNick THEN Login_User(cl)
                 ELSE {Outcome(cl, "CONNECTED")})

\* PONG with the token tok.  The result of Login_User() is ignored.
IRC_PONG(c, tok) ==
    LET cl == client[c]
        answered == [cl EXCEPT !.ping = 0, !.ponged = TRUE]
    IN
    /\ Live(c)
    /\ Handle(c,
         IF cl.ping = 0 THEN {Outcome(cl, "CONNECTED")}
         ELSE IF tok # cl.ping THEN Write(cl)
         ELSE IF cl.type # "WAITAUTHPING" THEN {Outcome(answered, "CONNECTED")}
         ELSE {Outcome(o.cl, "CONNECTED") : o \in Login_User(answered)})

\* QUIT closes the connection.
IRC_QUIT(c) == Live(c) /\ Handle(c, Reject)

-----------------------------------------------------------------------------
(* What happens between commands. *)

\* New_Connection() gives the slot a client of type CLIENT_UNKNOWN.
New_Connection(c) ==
    /\ ~Live(c)
    /\ client' = [client EXCEPT ![c] = NewLocal]
    /\ last' = NoCommand
    /\ UNCHANGED <<remote, online, missed>>

\* The peer closes, an I/O error, or a ping timeout of a registered client.
Conn_Close(c) ==
    /\ Live(c)
    /\ client' = [client EXCEPT ![c] = NoClient]
    /\ last' = NoCommand
    /\ UNCHANGED <<remote, online, missed>>

\* A client that does not register in time: lastdata is only renewed for
\* registered clients.
Login_Timeout(c) == client[c].type \in Unregistered /\ Conn_Close(c)

\* The linked servers have no user n any more.
Gone(n) == online' = online \ {n} /\ missed' = {m \in missed : m.nick # n}

\* Mutant of IRC_KillClient(): only registered clients are closed.
IRC_KillClient_Users(n) ==
    /\ last' = NoCommand
    /\ IF n \in remote
       THEN remote' = remote \ {n} /\ UNCHANGED client /\ Gone(n)
       ELSE \E c \in Conn :
            /\ client[c].id = n
            /\ IF client[c].type = "USER"
               THEN client' = [client EXCEPT ![c] = NoClient] /\ Gone(n)
               ELSE /\ online' = online \cup {n}
                    /\ missed' = missed \cup {[nick |-> n, type |-> client[c].type]}
                    /\ UNCHANGED client
            /\ UNCHANGED remote

\* IRC_KillClient() for the server that introduced a nick in use: the old
\* client goes and all servers are told to remove the nick, but a local
\* client that is neither a user nor in GOTNICK is left alone.
IRC_KillClient(n) ==
    /\ last' = NoCommand
    /\ IF n \in remote
       THEN remote' = remote \ {n} /\ UNCHANGED client /\ Gone(n)
       ELSE \E c \in Conn :
            /\ client[c].id = n
            /\ IF client[c].type \in {"USER", "GOTNICK"}
               THEN client' = [client EXCEPT ![c] = NoClient] /\ Gone(n)
               ELSE /\ online' = online \cup {n}
                    /\ missed' = missed \cup {[nick |-> n, type |-> client[c].type]}
                    /\ UNCHANGED client
            /\ UNCHANGED remote

\* NICK from a linked server: its user n is new in the network.
Introduce(n) ==
    \/ InUse(n) /\ IRC_KillClient(n)
    \/ /\ ~InUse(n)
       /\ remote' = remote \cup {n}
       /\ online' = online \cup {n}
       /\ last' = NoCommand
       /\ UNCHANGED <<client, missed>>

\* QUIT from a linked server for its user n.
RemoteQuit(n) ==
    /\ n \in online
    /\ Gone(n)
    /\ remote' = remote \ {n}
    /\ last' = NoCommand
    /\ UNCHANGED client

-----------------------------------------------------------------------------
Init ==
    /\ client = [c \in Conn |-> NoClient]
    /\ last = NoCommand
    /\ remote = {}
    /\ online = {} /\ missed = {}

Next ==
    \/ \E c \in Conn :
         \/ New_Connection(c) \/ Conn_Close(c) \/ Login_Timeout(c) \/ IRC_QUIT(c)
         \/ \E good, rfc2813 \in BOOLEAN : IRC_PASS(c, good, rfc2813)
         \/ \E n \in Nick, exact \in BOOLEAN, tok \in Token : IRC_NICK(c, n, exact, tok)
         \/ \E valid \in BOOLEAN : IRC_USER(c, valid)
         \/ CAP_Negotiate(c) \/ Handle_CAP_END(c)
         \/ \E tok \in Token : IRC_PONG(c, tok)
    \/ \E n \in Nick : Introduce(n) \/ RemoteQuit(n)

Spec == Init /\ [][Next]_vars

-----------------------------------------------------------------------------
(* Properties. *)

\* The variables keep their types, and only a live client has any data.
TypeOK ==
    /\ client \in [Conn -> Client]
    /\ \A c \in Conn : ~Live(c) => client[c] = NoClient
    /\ last \in [conn: SUBSET Conn, ret: Results]
    /\ remote \subseteq Nick /\ online \subseteq Nick /\ missed \subseteq Missed

\* Client_CheckNick() and the collision handling keep nicks unique: no two
\* local clients, in whatever state of registration, have the same nick, and
\* none has the nick of a remote user.
NickUnique ==
    \A c \in Conn :
        client[c].id # NoNick =>
            /\ client[c].id \notin remote
            /\ \A d \in Conn \ {c} : client[d].id # client[c].id

\* No order of the commands gets a client registered without a nick, or
\* without the server password when one is configured (Login_User()).
RegisteredChecked ==
    \A c \in Conn :
        client[c].type = "USER" =>
            /\ client[c].id # NoNick
            /\ ServerPwd => client[c].pwd

\* With RequireAuthPing, a client is registered only when it answered the
\* last authentication PING it was sent, unless the random token of that PING was
\* 0, the value that means that no PING is pending (IRC_NICK(), IRC_PONG()).
PongRequired ==
    AuthPing => \A c \in Conn :
        client[c].type = "USER" => client[c].ponged \/ client[c].asked = 0

\* A registered client never falls back into the registration: NICK, USER,
\* PASS, CAP and PONG leave its type alone, and the only other end is closing.
RegistrationFinal ==
    [][\A c \in Conn :
          client[c].type = "USER" => client'[c].type \in {"USER", "NONE"}]_vars

\* A handler of the registration that returns DISCONNECTED has closed its
\* connection: else Conn_Process_Buffer() would leave the line in the buffer with a
\* NUL for its end, and find no line in it any more.
DisconnectedIsClosed ==
    \A c \in last.conn : last.ret = "DISCONNECTED" => ~Live(c)

\* The handlers register a client as soon as Login_State_Resolve() says so.
\* IRC_PONG() does not, see the README.
ResolveFollowed ==
    \A c \in Conn : Live(c) => Login_State_Resolve(client[c]) # "REGISTER"

\* A nick that a linked server introduces while a local client has it is taken
\* from both, "the new and the old one have to be disconnected" (IRC_NICK()), or
\* the kill left alone a client that was neither a user nor in GOTNICK.
CollisionResolved ==
    \A c \in Conn : client[c].id \in online =>
        \E m \in missed : m.nick = client[c].id /\ m.type \notin {"USER", "GOTNICK"}

\* A client that does not negotiate capabilities is registered when the table of
\* login_state.c says so, at once and not before: no order of NICK, USER, PASS and
\* PONG, repeated or refused, registers it without USER or makes the handlers of
\* NICK and USER miss the moment.  With RequireAuthPing the moment is missed when
\* only the PONG was missing (ResolveFollowed), or a PING with the token 0.
LoginExact ==
    \A c \in Conn \ CapConn :
        /\ client[c].type = "USER" => client[c].user
        /\ Login_State_Resolve(client[c]) = "REGISTER" =>
               AuthPing /\ (client[c].ponged \/ client[c].asked = 0)
=============================================================================
