------------------------- MODULE RegistrationProofs -------------------------
(***************************************************************************)
(* Theorems about Registration, for every set of connections and nicks and *)
(* every configuration.                                                    *)
(*                                                                         *)
(* The invariants of the runs are not inductive by themselves: whether     *)
(* Login_User() may register a client depends on what the commands before  *)
(* it left in the client record.  GoodClient states that for one record,   *)
(* and IInv is GoodClient for every connection with the uniqueness of      *)
(* nicks.  Every handler maps a good record to good records and takes over *)
(* no nick but a free one (GoodOutcome); a step with such an outcome       *)
(* preserves IInv (HandlePreserves).                                       *)
(***************************************************************************)
EXTENDS Registration, TLAPS

\* What every handler keeps true of a client record.
GoodClient(cl) ==
    /\ cl \in Client
    /\ cl.type = "NONE" => cl = NoClient
    /\ cl.type \in {"GOTNICK", "WAITAUTHPING", "USER"} => cl.id # NoNick
    /\ cl.type = "USER" /\ ServerPwd => cl.pwd
    /\ AuthPing /\ cl.id # NoNick /\ cl.ping = 0 => cl.ponged \/ cl.asked = 0
    /\ AuthPing /\ cl.type = "USER" => cl.ping = 0

\* An outcome of a command of connection c in the present state.
GoodOutcome(c, o) ==
    /\ GoodClient(o.cl)
    /\ o.ret \in Results
    /\ o.ret = "DISCONNECTED" => o.cl = NoClient
    /\ o.cl.id \in {NoNick, client[c].id} \/ ~InUse(o.cl.id)
    /\ client[c].type = "USER" => o.cl.type \in {"USER", "NONE"}

IInv ==
    /\ client \in [Conn -> Client]
    /\ \A c \in Conn : GoodClient(client[c])
    /\ last \in [conn: SUBSET Conn, ret: Results]
    /\ remote \subseteq Nick /\ online \subseteq Nick
    /\ NickUnique
    /\ DisconnectedIsClosed

\* A free slot is a good record.
LEMMA NoClientGood ==
    GoodClient(NoClient) /\ NoClient.id = NoNick /\ NoClient.type = "NONE"
BY NickAssumption DEF GoodClient, NoClient, Client, Types, Unregistered

\* Login_User() keeps the nick, the password and the PING state of the client,
\* and registers it only when password and PING allow it.
LEMMA LoginOutcome ==
    ASSUME NEW cl \in Client, cl.id # NoNick,
           AuthPing /\ cl.ping = 0 => cl.ponged \/ cl.asked = 0,
           NEW o \in Login_User(cl)
    PROVE  /\ GoodClient(o.cl)
           /\ o.ret \in Results
           /\ o.ret = "DISCONNECTED" => o.cl = NoClient
           /\ o.cl.id \in {NoNick, cl.id}
<1> USE ConfAssumption
<1>1. CASE AuthPing /\ cl.ping # 0
  BY <1>1 DEF Login_User, Outcome, GoodClient, Client, Types, Unregistered, NoClient, Results
<1>2. CASE ~(AuthPing /\ cl.ping # 0) /\ ServerPwd /\ ~cl.pwd
  <2>1. o = Outcome(NoClient, "DISCONNECTED")
    BY <1>2 DEF Login_User, Reject
  <2>2. o.cl = NoClient /\ o.ret = "DISCONNECTED"
    BY <2>1 DEF Outcome
  <2> QED BY <2>2, NoClientGood DEF Results
<1>3. CASE ~(AuthPing /\ cl.ping # 0) /\ ~(ServerPwd /\ ~cl.pwd)
  <2> DEFINE user == [[cl EXCEPT !.cap = FALSE] EXCEPT !.type = "USER"]
  <2>1. user \in Client /\ user.type = "USER" /\ user.id = cl.id /\ user.pwd = cl.pwd
        /\ user.ping = cl.ping /\ user.ponged = cl.ponged /\ user.asked = cl.asked
    BY Zenon DEF Client, Types, Unregistered
  <2>2. GoodClient(user)
    BY <2>1, <1>3 DEF GoodClient, Client
  <2>3. o \in {Outcome(user, "CONNECTED"), Outcome(NoClient, "DISCONNECTED"),
               Outcome(NoClient, "CONNECTED")}
    BY <1>3 DEF Login_User, Login_User_PostAuth, Reject, Write, WriteIgnored
  <2>4. \/ o.cl = user /\ o.ret = "CONNECTED"
        \/ o.cl = NoClient /\ o.ret \in Results
    BY <2>3 DEF Outcome, Results
  <2> HIDE DEF user
  <2> QED BY <2>1, <2>2, <2>4, NoClientGood DEF Results
<1> QED BY <1>1, <1>2, <1>3

\* The outcomes of a handler that writes a reply, or closes, are good when the
\* record it stores is.
LEMMA ReplyGood ==
    ASSUME NEW c \in Conn, NEW cl, GoodClient(cl),
           cl.id \in {NoNick, client[c].id} \/ ~InUse(cl.id),
           client[c].type = "USER" => cl.type \in {"USER", "NONE"},
           NEW o, o \in {Outcome(cl, "CONNECTED")} \cup Write(cl)
                        \cup WriteIgnored(cl) \cup Reject
    PROVE  GoodOutcome(c, o)
<1>1. \/ o.cl = cl /\ o.ret = "CONNECTED"
      \/ o.cl = NoClient /\ o.ret \in Results
  BY DEF Outcome, Write, WriteIgnored, Reject, Results
<1> QED BY <1>1, NoClientGood DEF GoodOutcome, Results

\* So are those of Login_User() for a client that is not registered yet.
LEMMA LoginGood ==
    ASSUME NEW c \in Conn, NEW cl \in Client, cl.id # NoNick,
           AuthPing /\ cl.ping = 0 => cl.ponged \/ cl.asked = 0,
           cl.id = client[c].id \/ ~InUse(cl.id),
           client[c].type # "USER",
           NEW o \in Login_User(cl)
    PROVE  GoodOutcome(c, o)
BY LoginOutcome DEF GoodOutcome

\* What a step may do to registered clients (RegistrationFinal).
StaysRegistered ==
    \A c \in Conn : client[c].type = "USER" => client'[c].type \in {"USER", "NONE"}

\* A slot takes a good record with no nick, its own nick or a free one: the
\* invariant is preserved.
LEMMA SlotPreserves ==
    ASSUME IInv, NEW c \in Conn, NEW cl, GoodClient(cl),
           cl.id \in {NoNick, client[c].id} \/ ~InUse(cl.id),
           client' = [client EXCEPT ![c] = cl],
           remote' \subseteq remote, online' \subseteq Nick,
           last' \in [conn: SUBSET {c}, ret: Results],
           last'.ret = "DISCONNECTED" => cl = NoClient
    PROVE  IInv'
<1> USE DEF IInv
<1>1. cl \in Client
  BY DEF GoodClient
<1>2. client'[c] = cl /\ \A d \in Conn : d # c => client'[d] = client[d]
  OBVIOUS
<1>3. client' \in [Conn -> Client]
  BY <1>1
<1>4. \A d \in Conn : GoodClient(client[d])'
  BY <1>2 DEF GoodClient
<1>5. last' \in [conn: SUBSET Conn, ret: Results]
  OBVIOUS
<1>6. NickUnique'
  BY <1>2, NickAssumption DEF NickUnique, InUse
<1>7. DisconnectedIsClosed'
  BY <1>2, NoClientGood DEF DisconnectedIsClosed, Live
<1> QED BY <1>3, <1>4, <1>5, <1>6, <1>7

\* A command all of whose outcomes are good preserves the invariant.
LEMMA HandlePreserves ==
    ASSUME IInv, NEW c \in Conn, NEW S, \A o \in S : GoodOutcome(c, o), Handle(c, S)
    PROVE  IInv' /\ StaysRegistered
<1>1. PICK o \in S : /\ client' = [client EXCEPT ![c] = o.cl]
                     /\ last' = [conn |-> {c}, ret |-> o.ret]
                     /\ UNCHANGED <<remote, online, missed>>
  BY Zenon DEF Handle
<1>2. GoodOutcome(c, o)
  OBVIOUS
<1>3. IInv'
  <2>1. last' \in [conn: SUBSET {c}, ret: Results] /\ (last'.ret = "DISCONNECTED" => o.cl = NoClient)
    BY <1>1, <1>2 DEF GoodOutcome
  <2>2. remote' \subseteq remote /\ online' \subseteq Nick
    BY <1>1 DEF IInv
  <2> QED BY <1>1, <1>2, <2>1, <2>2, SlotPreserves, Zenon DEF GoodOutcome
<1>4. StaysRegistered
  BY <1>1, <1>2 DEF StaysRegistered, GoodOutcome, IInv
<1> QED BY <1>3, <1>4

-----------------------------------------------------------------------------
(* One lemma per action. *)

\* PASS stores a password and a type below USER.
LEMMA PassPreserves ==
    ASSUME IInv, NEW c \in Conn, NEW good \in BOOLEAN, NEW rfc2813 \in BOOLEAN,
           IRC_PASS(c, good, rfc2813)
    PROVE  IInv' /\ StaysRegistered
<1> DEFINE cl == [client[c] EXCEPT !.pwd = good,
                                   !.type = IF rfc2813 THEN "GOTPASS_2813" ELSE "GOTPASS"]
           S == IF client[c].type = "UNKNOWN" THEN {Outcome(cl, "CONNECTED")}
                                              ELSE Write(client[c])
<1>1. client[c] \in Client /\ GoodClient(client[c])
  BY DEF IInv
<1>2. client[c].type = "UNKNOWN" => GoodClient(cl) /\ cl.id = client[c].id
  BY <1>1, Zenon DEF GoodClient, Client, Types, Unregistered
<1>3. \A o \in S : GoodOutcome(c, o)
  <2>1. CASE client[c].type = "UNKNOWN"
    BY <2>1, <1>2, ReplyGood, Zenon
  <2>2. CASE client[c].type # "UNKNOWN"
    BY <2>2, <1>1, ReplyGood DEF GoodClient, Client, Types
  <2> QED BY <2>1, <2>2
<1>4. Handle(c, S)
  BY DEF IRC_PASS
<1> HIDE DEF S
<1> QED BY <1>3, <1>4, HandlePreserves

\* USER logs in, waits, or changes nothing.
LEMMA UserPreserves ==
    ASSUME IInv, NEW c \in Conn, NEW valid \in BOOLEAN, IRC_USER(c, valid)
    PROVE  IInv' /\ StaysRegistered
<1> DEFINE cl == client[c]
           named == [cl EXCEPT !.user = TRUE]
           got == [named EXCEPT !.type = "GOTUSER"]
           S == IF cl.type \notin {"UNKNOWN", "GOTPASS", "GOTNICK"} THEN Write(cl)
                ELSE IF ~valid THEN Reject
                ELSE IF Login_Flow_OnUser(cl) = "LOGIN_NOW" THEN Login_User(named)
                ELSE {Outcome(got, "CONNECTED")}
<1>1. cl \in Client /\ GoodClient(cl) /\ client[c].type \in Types
  BY DEF IInv, Client
<1>2. /\ named \in Client /\ named.id = cl.id /\ named.ping = cl.ping
      /\ named.ponged = cl.ponged /\ named.asked = cl.asked /\ named.type = cl.type
  BY <1>1, Zenon DEF Client
<1>3. GoodClient(got) /\ got.id = cl.id
  BY <1>1, Zenon DEF GoodClient, Client, Types, Unregistered
<1>4. \A o \in S : GoodOutcome(c, o)
  <2>1. CASE cl.type \notin {"UNKNOWN", "GOTPASS", "GOTNICK"}
    BY <2>1, <1>1, ReplyGood DEF GoodClient
  <2>2. CASE cl.type \in {"UNKNOWN", "GOTPASS", "GOTNICK"} /\ ~valid
    BY <2>2, <1>1, ReplyGood
  <2>3. CASE cl.type \in {"UNKNOWN", "GOTPASS", "GOTNICK"} /\ valid
             /\ Login_Flow_OnUser(cl) = "LOGIN_NOW"
    <3>1. cl.type = "GOTNICK"
      BY <2>3 DEF Login_Flow_OnUser, login_flow_decide
    <3>2. named.id # NoNick /\ (AuthPing /\ named.ping = 0 => named.ponged \/ named.asked = 0)
      BY <3>1, <1>1, <1>2 DEF GoodClient
    <3> HIDE DEF named
    <3> QED BY <2>3, <3>1, <3>2, <1>2, LoginGood
  <2>4. CASE cl.type \in {"UNKNOWN", "GOTPASS", "GOTNICK"} /\ valid
             /\ Login_Flow_OnUser(cl) # "LOGIN_NOW"
    BY <2>4, <1>3, ReplyGood, Zenon
  <2> QED BY <2>1, <2>2, <2>3, <2>4, Zenon
<1>5. Handle(c, S)
  BY DEF IRC_USER
<1> HIDE DEF S
<1> QED BY <1>4, <1>5, HandlePreserves

\* The nick of an unregistered client: its outcomes are good, and only the nick
\* asked for is taken.
LEMMA NickLoginGood ==
    ASSUME IInv, NEW c \in Conn, NEW n \in Nick, NEW tok \in Token,
           client[c].type \in {"UNKNOWN", "GOTPASS", "GOTNICK", "GOTUSER"},
           n = client[c].id \/ ~InUse(n),
           NEW o \in NickLogin(client[c], n, tok)
    PROVE  GoodOutcome(c, o)
<1> USE ConfAssumption, TokenAssumption, NickAssumption
<1> DEFINE cl == client[c]
           named == [cl EXCEPT !.id = n]
           asked == IF AuthPing THEN [named EXCEPT !.ping = tok, !.asked = tok, !.ponged = FALSE]
                                ELSE named
           got == [asked EXCEPT !.type = "GOTNICK"]
<1>1. cl \in Client /\ GoodClient(cl)
  BY DEF IInv
<1>2. asked \in Client /\ asked.id = n /\ n # NoNick
      /\ (AuthPing => asked.ping = tok /\ asked.asked = tok)
  BY <1>1, Zenon DEF Client
<1>3. AuthPing /\ asked.ping = 0 => asked.ponged \/ asked.asked = 0
  BY <1>2
<1>4. GoodClient(got) /\ got.id = n /\ got.type = "GOTNICK"
  BY <1>2, <1>3 DEF GoodClient, Client, Types, Unregistered
<1>5. \/ o \in Login_User(asked)
      \/ o \in {Outcome(got, "CONNECTED")}
      \/ o \in Write(NoClient)
  <2>1. {Outcome(NoClient, ret) : ret \in Results} = Write(NoClient)
    BY DEF Results, Write
  <2> QED
    BY <2>1, Zenon DEF NickLogin
<1>6. CASE o \in Login_User(asked)
  <2> HIDE DEF asked
  <2> QED BY <1>6, <1>2, <1>3, LoginGood
<1>7. CASE o \in {Outcome(got, "CONNECTED")}
  <2> HIDE DEF got
  <2> QED BY <1>7, <1>4, ReplyGood
<1>8. CASE o \in Write(NoClient)
  BY <1>8, NoClientGood, ReplyGood
<1> QED BY <1>5, <1>6, <1>7, <1>8

\* NICK takes a nick only when no other client known here has it.
LEMMA NickPreserves ==
    ASSUME IInv, NEW c \in Conn, NEW n \in Nick, NEW exact \in BOOLEAN, NEW tok \in Token,
           IRC_NICK(c, n, exact, tok)
    PROVE  IInv' /\ StaysRegistered
<1> USE NickAssumption
<1> DEFINE cl == client[c]
           new == [cl EXCEPT !.id = n]
           S == IF cl.type \in {"GOTPASS_2813", "WAITAUTHPING"} THEN Write(cl)
                ELSE Refused(cl) \cup
                     IF exact THEN {Outcome(cl, "CONNECTED")}
                     ELSE IF n # cl.id /\ ~Client_CheckNick(n) THEN WriteIgnored(cl)
                     ELSE IF cl.type = "USER" THEN WriteIgnored(new)
                     ELSE NickLogin(cl, n, tok)
<1>1. cl \in Client /\ GoodClient(cl) /\ cl.type \in Types /\ cl.type # "NONE"
  BY DEF IInv, Client, IRC_NICK, Live
<1>2. cl.type = "USER" => GoodClient(new) /\ new.id = n /\ new.type = "USER"
  BY <1>1 DEF GoodClient, Client
<1>3. \A o \in S : GoodOutcome(c, o)
  <2> SUFFICES ASSUME NEW o \in S PROVE GoodOutcome(c, o)
    OBVIOUS
  <2>1. CASE o \in {Outcome(cl, "CONNECTED")} \cup Write(cl) \cup WriteIgnored(cl)
    BY <2>1, <1>1, ReplyGood DEF Types
  <2>2. CASE o \in WriteIgnored(new) /\ cl.type = "USER" /\ (n = cl.id \/ ~InUse(n))
    <3> HIDE DEF new
    <3> QED BY <2>2, <1>2, ReplyGood
  <2>3. CASE o \in NickLogin(cl, n, tok) /\ (n = cl.id \/ ~InUse(n))
             /\ cl.type \in {"UNKNOWN", "GOTPASS", "GOTNICK", "GOTUSER"}
    BY <2>3, NickLoginGood
  <2>4. n = cl.id \/ ~InUse(n) \/ ~Client_CheckNick(n)
    BY DEF Client_CheckNick
  <2> QED BY <1>1, <2>1, <2>2, <2>3, <2>4 DEF Refused, Types, Unregistered
<1>4. Handle(c, S)
  BY DEF IRC_NICK
<1> HIDE DEF S
<1> QED BY <1>3, <1>4, HandlePreserves

\* CAP LS and CAP REQ change only the state of the negotiation.
LEMMA CapPreserves ==
    ASSUME IInv, NEW c \in Conn, CAP_Negotiate(c)
    PROVE  IInv' /\ StaysRegistered
<1> DEFINE cl == [client[c] EXCEPT !.cap = client[c].cap \/ client[c].type # "USER"]
<1>1. GoodClient(cl) /\ cl.id = client[c].id /\ cl.type = client[c].type
  BY Zenon DEF IInv, GoodClient, Client, CAP_Negotiate, Live
<1>2. Handle(c, Write(cl))
  BY DEF CAP_Negotiate
<1>3. \A o \in Write(cl) : GoodOutcome(c, o)
  <2> HIDE DEF cl
  <2> QED BY <1>1, ReplyGood
<1> HIDE DEF cl
<1> QED BY <1>2, <1>3, HandlePreserves

\* CAP END may log the client in, through the checks of Login_User().
LEMMA CapEndPreserves ==
    ASSUME IInv, NEW c \in Conn, Handle_CAP_END(c)
    PROVE  IInv' /\ StaysRegistered
<1> DEFINE cl == [client[c] EXCEPT !.cap = FALSE]
           S == IF client[c].type = "USER" THEN {Outcome(client[c], "CONNECTED")}
                ELSE IF cl.id # NoNick THEN Login_User(cl)
                ELSE {Outcome(cl, "CONNECTED")}
<1>1. client[c] \in Client /\ GoodClient(client[c]) /\ client[c].type # "NONE"
  BY DEF IInv, Handle_CAP_END, Live
<1>2. cl \in Client /\ GoodClient(cl) /\ cl.id = client[c].id /\ cl.type = client[c].type
  BY <1>1, Zenon DEF GoodClient, Client
<1>3. \A o \in S : GoodOutcome(c, o)
  <2>1. CASE client[c].type = "USER"
    BY <2>1, <1>1, ReplyGood
  <2>2. CASE client[c].type # "USER" /\ cl.id # NoNick
    <3>1. AuthPing /\ cl.ping = 0 => cl.ponged \/ cl.asked = 0
      BY <1>2, <2>2 DEF GoodClient
    <3> HIDE DEF cl
    <3> QED BY <2>2, <1>2, <3>1, LoginGood
  <2>3. CASE client[c].type # "USER" /\ cl.id = NoNick
    <3> HIDE DEF cl
    <3> QED BY <2>3, <1>2, ReplyGood
  <2> QED BY <2>1, <2>2, <2>3, Zenon
<1>4. Handle(c, S)
  BY DEF Handle_CAP_END
<1> HIDE DEF S
<1> QED BY <1>3, <1>4, HandlePreserves

\* PONG clears the PING it answers and may log the client in.
LEMMA PongPreserves ==
    ASSUME IInv, NEW c \in Conn, NEW tok \in Token, IRC_PONG(c, tok)
    PROVE  IInv' /\ StaysRegistered
<1> DEFINE cl == client[c]
           answered == [cl EXCEPT !.ping = 0, !.ponged = TRUE]
           S == IF cl.ping = 0 THEN {Outcome(cl, "CONNECTED")}
                ELSE IF tok # cl.ping THEN Write(cl)
                ELSE IF cl.type # "WAITAUTHPING" THEN {Outcome(answered, "CONNECTED")}
                ELSE {Outcome(o.cl, "CONNECTED") : o \in Login_User(answered)}
<1>1. cl \in Client /\ GoodClient(cl) /\ cl.type # "NONE"
  BY DEF IInv, IRC_PONG, Live
<1>2. answered \in Client /\ answered.id = cl.id /\ answered.type = cl.type /\ answered.ponged
  BY <1>1, Zenon DEF Client
<1>3. GoodClient(answered)
  BY <1>1, <1>2 DEF GoodClient, Client
<1>4. \A o \in S : GoodOutcome(c, o)
  <2> SUFFICES ASSUME NEW o \in S PROVE GoodOutcome(c, o)
    OBVIOUS
  <2>1. CASE o \in {Outcome(cl, "CONNECTED")} \cup Write(cl)
    BY <2>1, <1>1, ReplyGood
  <2>2. CASE o \in {Outcome(answered, "CONNECTED")}
    <3> HIDE DEF answered
    <3> QED BY <2>2, <1>2, <1>3, ReplyGood
  <2>3. CASE cl.type = "WAITAUTHPING" /\ o \in {Outcome(p.cl, "CONNECTED") : p \in Login_User(answered)}
    <3>1. PICK p \in Login_User(answered) : o = Outcome(p.cl, "CONNECTED")
      BY <2>3
    <3>2. answered.id # NoNick
      BY <2>3, <1>1, <1>2 DEF GoodClient
    <3> HIDE DEF answered
    <3>3. GoodOutcome(c, p)
      BY <3>2, <1>2, <2>3, LoginGood
    <3>4. o.cl = p.cl /\ o.ret = "CONNECTED"
      BY <3>1 DEF Outcome
    <3> QED BY <3>3, <3>4 DEF GoodOutcome, Results
  <2> QED BY <2>1, <2>2, <2>3
<1>5. Handle(c, S)
  BY DEF IRC_PONG
<1> HIDE DEF S
<1> QED BY <1>4, <1>5, HandlePreserves

\* QUIT frees the slot.
LEMMA QuitPreserves ==
    ASSUME IInv, NEW c \in Conn, IRC_QUIT(c)
    PROVE  IInv' /\ StaysRegistered
<1>1. \A o \in Reject : GoodOutcome(c, o)
  BY NoClientGood, ReplyGood
<1>2. Handle(c, Reject)
  BY DEF IRC_QUIT
<1> QED BY <1>1, <1>2, HandlePreserves

\* Opening or closing a slot outside of a command.
LEMMA SlotChangePreserves ==
    ASSUME IInv, NEW c \in Conn, New_Connection(c) \/ Conn_Close(c)
    PROVE  IInv' /\ StaysRegistered
<1>1. PICK cl \in {NewLocal, NoClient} : client' = [client EXCEPT ![c] = cl]
  BY DEF New_Connection, Conn_Close
<1>2. GoodClient(NewLocal) /\ NewLocal.id = NoNick
  BY NickAssumption, Zenon DEF GoodClient, NewLocal, NoClient, Client, Types, Unregistered
<1>3. last' \in [conn: SUBSET {c}, ret: Results] /\ last'.ret = "CONNECTED"
  BY DEF New_Connection, Conn_Close, NoCommand, Results
<1>4. remote' \subseteq remote /\ online' \subseteq Nick
  BY DEF New_Connection, Conn_Close, IInv
<1>5. GoodClient(cl) /\ cl.id = NoNick
  BY <1>1, <1>2, NoClientGood
<1>6. IInv'
  BY <1>1, <1>3, <1>4, <1>5, SlotPreserves, Zenon
<1>7. StaysRegistered
  BY NoClientGood DEF StaysRegistered, New_Connection, Conn_Close, IInv, Live
<1> QED BY <1>6, <1>7

\* The linked server changes the set of remote users only.
LEMMA RemotePreserves ==
    ASSUME IInv, UNCHANGED client, last' = NoCommand, online' \subseteq Nick,
           remote' \subseteq Nick, \A n \in remote' \ remote : ~InUse(n)
    PROVE  IInv' /\ StaysRegistered
<1>1. \A c \in Conn : GoodClient(client[c])'
  BY DEF IInv, GoodClient
<1>2. NickUnique'
  BY DEF IInv, NickUnique, InUse
<1>3. last' \in [conn: SUBSET Conn, ret: Results] /\ DisconnectedIsClosed'
  BY DEF NoCommand, Results, DisconnectedIsClosed
<1>4. StaysRegistered
  BY DEF StaysRegistered
<1> QED BY <1>1, <1>2, <1>3, <1>4 DEF IInv

\* A remote user is added only when its nick is free here.
LEMMA IntroducePreserves ==
    ASSUME IInv, NEW n \in Nick, Introduce(n)
    PROVE  IInv' /\ StaysRegistered
<1>1. CASE ~InUse(n)
  BY <1>1, RemotePreserves DEF Introduce, IInv
<1>2. CASE InUse(n) /\ UNCHANGED client
  BY <1>2, RemotePreserves DEF Introduce, IRC_KillClient, Gone, IInv
<1>3. CASE InUse(n) /\ client' # client
  <2>1. PICK c \in Conn : /\ client' = [client EXCEPT ![c] = NoClient]
                          /\ online' = online \ {n} /\ remote' = remote /\ last' = NoCommand
    BY <1>3 DEF Introduce, IRC_KillClient, Gone
  <2>2. last' \in [conn: SUBSET {c}, ret: Results] /\ last'.ret = "CONNECTED"
    BY <2>1 DEF NoCommand, Results
  <2>3. remote' \subseteq remote /\ online' \subseteq Nick
    BY <2>1 DEF IInv
  <2>4. IInv'
    BY <2>1, <2>2, <2>3, NoClientGood, SlotPreserves, Zenon
  <2>5. StaysRegistered
    BY <2>1, NoClientGood DEF StaysRegistered, IInv
  <2> QED BY <2>4, <2>5
<1> QED BY <1>1, <1>2, <1>3

-----------------------------------------------------------------------------
\* The invariant holds at the start ...
LEMMA InitIInv == Init => IInv
<1> SUFFICES ASSUME Init PROVE IInv
  OBVIOUS
<1>1. \A c \in Conn : client[c] = NoClient
  BY Zenon DEF Init
<1>2. client \in [Conn -> Client]
  BY NoClientGood DEF Init, GoodClient
<1>3. \A c \in Conn : GoodClient(client[c])
  BY <1>1, NoClientGood, Zenon
<1>4. NickUnique
  BY <1>1, NoClientGood DEF NickUnique
<1>5. last \in [conn: SUBSET Conn, ret: Results] /\ DisconnectedIsClosed
  BY DEF Init, NoCommand, Results, DisconnectedIsClosed
<1> QED BY <1>2, <1>3, <1>4, <1>5 DEF Init, IInv

\* ... and every step preserves it and leaves registered clients registered.
LEMMA NextIInv == IInv /\ [Next]_vars => IInv' /\ [StaysRegistered]_vars
<1> SUFFICES ASSUME IInv, [Next]_vars PROVE IInv' /\ [StaysRegistered]_vars
  OBVIOUS
<1>1. ASSUME NEW c \in Conn, New_Connection(c) \/ Conn_Close(c) \/ Login_Timeout(c)
      PROVE  IInv' /\ StaysRegistered
  BY <1>1, SlotChangePreserves DEF Login_Timeout
<1>2. ASSUME NEW c \in Conn, IRC_QUIT(c) PROVE IInv' /\ StaysRegistered
  BY <1>2, QuitPreserves
<1>3. ASSUME NEW c \in Conn, NEW good \in BOOLEAN, NEW rfc2813 \in BOOLEAN, IRC_PASS(c, good, rfc2813)
      PROVE  IInv' /\ StaysRegistered
  BY <1>3, PassPreserves
<1>4. ASSUME NEW c \in Conn, NEW n \in Nick, NEW exact \in BOOLEAN, NEW tok \in Token,
             IRC_NICK(c, n, exact, tok)
      PROVE  IInv' /\ StaysRegistered
  BY <1>4, NickPreserves
<1>5. ASSUME NEW c \in Conn, NEW valid \in BOOLEAN, IRC_USER(c, valid)
      PROVE  IInv' /\ StaysRegistered
  BY <1>5, UserPreserves
<1>6. ASSUME NEW c \in Conn, CAP_Negotiate(c) \/ Handle_CAP_END(c)
      PROVE  IInv' /\ StaysRegistered
  BY <1>6, CapPreserves, CapEndPreserves
<1>7. ASSUME NEW c \in Conn, NEW tok \in Token, IRC_PONG(c, tok)
      PROVE  IInv' /\ StaysRegistered
  BY <1>7, PongPreserves
<1>8. ASSUME NEW n \in Nick, Introduce(n) \/ RemoteQuit(n)
      PROVE  IInv' /\ StaysRegistered
  <2>1. CASE Introduce(n)
    BY <2>1, IntroducePreserves
  <2>2. CASE RemoteQuit(n)
    BY <2>2, RemotePreserves DEF RemoteQuit, Gone, IInv
  <2> QED BY <1>8, <2>1, <2>2
<1>9. CASE UNCHANGED vars
  <2>1. \A c \in Conn : GoodClient(client[c])'
    BY <1>9 DEF IInv, GoodClient, vars
  <2>2. NickUnique' /\ DisconnectedIsClosed'
    BY <1>9 DEF IInv, NickUnique, DisconnectedIsClosed, Live, vars
  <2> QED BY <1>9, <2>1, <2>2 DEF IInv, vars
<1> QED BY <1>1, <1>2, <1>3, <1>4, <1>5, <1>6, <1>7, <1>8, <1>9 DEF Next

\* The inductive invariant holds in every reachable state.
THEOREM Invariant == Spec => []IInv
BY InitIInv, NextIInv, PTL DEF Spec

\* The users of the linked servers: each is known here, or its collision with a
\* local client that could not be killed was noted.
OnlineKnown ==
    /\ missed \subseteq [nick: Nick, type: Types \ {"USER", "GOTNICK"}]
    /\ \A n \in online : n \in remote \/ \E m \in missed : m.nick = n

\* A nick leaves the network: the others are known as before.
LEMMA GoneKnown ==
    ASSUME OnlineKnown, NEW n, Gone(n), remote' = remote \ {n} \/ remote' = remote
    PROVE  OnlineKnown'
BY Zenon DEF OnlineKnown, Gone

\* A linked server introduces a user.
LEMMA IntroduceKnown ==
    ASSUME IInv, OnlineKnown, NEW n \in Nick, Introduce(n)
    PROVE  OnlineKnown'
<1>1. CASE ~InUse(n)
  BY <1>1, Zenon DEF Introduce, OnlineKnown
<1>2. CASE Gone(n) /\ (remote' = remote \ {n} \/ remote' = remote)
  BY <1>2, GoneKnown
<1>3. ASSUME NEW c \in Conn, client[c].type \notin {"USER", "GOTNICK"},
             online' = online \cup {n}, remote' = remote,
             missed' = missed \cup {[nick |-> n, type |-> client[c].type]}
      PROVE  OnlineKnown'
  <2>1. client[c].type \in Types \ {"USER", "GOTNICK"}
    BY <1>3 DEF IInv, Client
  <2> DEFINE new == [nick |-> n, type |-> client[c].type]
  <2>2. new \in [nick: Nick, type: Types \ {"USER", "GOTNICK"}] /\ new.nick = n
    BY <2>1
  <2>3. missed' = missed \cup {new}
    BY <1>3
  <2> HIDE DEF new
  <2>4. missed' \subseteq [nick: Nick, type: Types \ {"USER", "GOTNICK"}]
    BY <2>2, <2>3 DEF OnlineKnown
  <2>5. \A x \in online' : x \in remote' \/ \E m \in missed' : m.nick = x
    BY <1>3, <2>2, <2>3, Zenon DEF OnlineKnown
  <2> QED
    BY <2>4, <2>5 DEF OnlineKnown, Types, Unregistered
<1> QED
  BY <1>1, <1>2, <1>3, Zenon DEF Introduce, IRC_KillClient

\* Every step keeps what is known of the users of the linked servers.
LEMMA NextKnown ==
    ASSUME IInv, OnlineKnown, [Next]_vars
    PROVE  OnlineKnown'
<1>1. CASE UNCHANGED <<remote, online, missed>>
  BY <1>1, Zenon DEF OnlineKnown, Types, Unregistered
<1>2. ASSUME NEW n \in Nick, Introduce(n)
      PROVE  OnlineKnown'
  BY <1>2, IntroduceKnown
<1>3. ASSUME NEW n \in Nick, RemoteQuit(n)
      PROVE  OnlineKnown'
  BY <1>3, GoneKnown DEF RemoteQuit
<1>4. ASSUME NEW c \in Conn, New_Connection(c) \/ Conn_Close(c) \/ Login_Timeout(c)
      PROVE  UNCHANGED <<remote, online, missed>>
  BY <1>4 DEF New_Connection, Conn_Close, Login_Timeout
<1>5. \A c \in Conn : \A S : Handle(c, S) => UNCHANGED <<remote, online, missed>>
  BY Zenon DEF Handle
<1>6. ASSUME NEW c \in Conn, \E good, rfc2813 \in BOOLEAN : IRC_PASS(c, good, rfc2813)
      PROVE  UNCHANGED <<remote, online, missed>>
  BY <1>5, <1>6, Zenon DEF IRC_PASS
<1>7. ASSUME NEW c \in Conn, NEW n \in Nick, NEW exact \in BOOLEAN, NEW tok \in Token,
             IRC_NICK(c, n, exact, tok)
      PROVE  UNCHANGED <<remote, online, missed>>
  BY <1>5, <1>7, Zenon DEF IRC_NICK
<1>8. ASSUME NEW c \in Conn, \E valid \in BOOLEAN : IRC_USER(c, valid)
      PROVE  UNCHANGED <<remote, online, missed>>
  BY <1>5, <1>8, Zenon DEF IRC_USER
<1>9. ASSUME NEW c \in Conn, IRC_QUIT(c) \/ CAP_Negotiate(c) \/ Handle_CAP_END(c)
      PROVE  UNCHANGED <<remote, online, missed>>
  BY <1>5, <1>9, Zenon DEF IRC_QUIT, CAP_Negotiate, Handle_CAP_END
<1>10. ASSUME NEW c \in Conn, NEW tok \in Token, IRC_PONG(c, tok)
      PROVE  UNCHANGED <<remote, online, missed>>
  BY <1>5, <1>10, Zenon DEF IRC_PONG
<1>11. CASE UNCHANGED vars
  BY <1>1, <1>11 DEF vars
<1> QED
  BY <1>1, <1>2, <1>3, <1>4, <1>6, <1>7, <1>8, <1>9, <1>10, <1>11 DEF Next

LEMMA KnownHolds == Spec => []OnlineKnown
<1>1. Init => OnlineKnown
  BY Zenon DEF Init, OnlineKnown
<1>2. IInv /\ OnlineKnown /\ [Next]_vars => OnlineKnown'
  BY NextKnown
<1> QED BY <1>1, <1>2, Invariant, PTL DEF Spec

\* The type invariant of the registration.
THEOREM TypeCorrect == Spec => []TypeOK
<1>1. IInv /\ OnlineKnown => TypeOK
  BY DEF IInv, OnlineKnown, Missed, TypeOK, GoodClient, Live
<1> QED BY <1>1, Invariant, KnownHolds, PTL

\* Whatever the interleaving of commands, disconnects and collisions, a nick
\* has at most one owner known to this server.
THEOREM NicksAreUnique == Spec => []NickUnique
<1>1. IInv => NickUnique
  BY DEF IInv
<1> QED BY <1>1, Invariant, PTL

\* No order of commands registers a client without a nick or without the
\* configured password.
THEOREM RegistrationIsChecked == Spec => []RegisteredChecked
<1>1. IInv => RegisteredChecked
  BY DEF IInv, GoodClient, RegisteredChecked
<1> QED BY <1>1, Invariant, PTL

\* With RequireAuthPing no order of commands registers a client before it answered
\* its last PING, except one whose token is 0.
THEOREM PongIsRequired == Spec => []PongRequired
<1>1. IInv => PongRequired
  BY DEF IInv, GoodClient, PongRequired
<1> QED BY <1>1, Invariant, PTL

\* A nick that a linked server introduces while a local client has it is taken from
\* both, whatever else delays the registration of that client, except from a client
\* that IRC_KillClient() does not take for one that can be killed.
THEOREM CollisionResolvedHolds == Spec => []CollisionResolved
<1>1. IInv /\ OnlineKnown => CollisionResolved
  <2> SUFFICES ASSUME IInv, OnlineKnown, NEW c \in Conn, client[c].id \in online
               PROVE  \E m \in missed : m.nick = client[c].id /\ m.type \notin {"USER", "GOTNICK"}
    BY DEF CollisionResolved
  <2>1. client[c].id # NoNick
    BY NickAssumption DEF IInv
  <2>2. client[c].id \notin remote
    BY <2>1 DEF IInv, NickUnique
  <2>3. PICK m \in missed : m.nick = client[c].id
    BY <2>2 DEF OnlineKnown
  <2>4. m.type \notin {"USER", "GOTNICK"}
    BY <2>3 DEF OnlineKnown
  <2> QED BY <2>3, <2>4
<1> QED BY <1>1, Invariant, KnownHolds, PTL

\* A handler that reports DISCONNECTED has closed its connection.
THEOREM DisconnectedClosed == Spec => []DisconnectedIsClosed
<1>1. IInv => DisconnectedIsClosed
  BY DEF IInv
<1> QED BY <1>1, Invariant, PTL

\* No step takes a registered client back into the registration.
THEOREM RegistrationIsFinal == Spec => RegistrationFinal
<1>1. IInv /\ [Next]_vars => [StaysRegistered]_vars
  BY NextIInv
<1>2. Spec => [][StaysRegistered]_vars
  BY <1>1, Invariant, PTL DEF Spec
<1> QED BY <1>2 DEF RegistrationFinal, StaysRegistered

-----------------------------------------------------------------------------
(* Clients that do not negotiate capabilities.  Each command that can be the  *)
(* last of NICK and USER logs such a client in; only a PONG, and a NICK that   *)
(* repeats the PING with the token 0, leave it with all that is needed.       *)

PlainClient(cl) ==
    /\ ~cl.cap /\ cl.type # "WAITAUTHPING"
    /\ cl.type \in {"UNKNOWN", "GOTPASS", "GOTPASS_2813", "NONE"} => ~cl.user /\ cl.id = NoNick
    /\ cl.type \in {"GOTUSER", "USER"} => cl.user
    /\ ~AuthPing => cl.ping = 0
    /\ cl.type # "USER" /\ cl.ping = 0 /\ cl.id # NoNick /\ cl.user =>
          AuthPing /\ (cl.ponged \/ cl.asked = 0)

PlainInv == \A c \in Conn \ CapConn : PlainClient(client[c])

LEMMA FreePlain == PlainClient(NoClient) /\ PlainClient(NewLocal)
BY DEF PlainClient, NoClient, NewLocal

\* Without a PING to wait for, Login_User() registers the client or closes it.
LEMMA LoginPlain ==
    ASSUME NEW cl \in Client, cl.user, cl.ping = 0, NEW o \in Login_User(cl)
    PROVE  PlainClient(o.cl)
<1> DEFINE user == [[cl EXCEPT !.cap = FALSE] EXCEPT !.type = "USER"]
<1>1. o.cl = NoClient \/ o.cl = user
  BY DEF Login_User, Login_User_PostAuth, Reject, Write, WriteIgnored, Outcome
<1>2. PlainClient(user)
  BY DEF PlainClient, Client
<1> HIDE DEF user
<1> QED BY <1>1, <1>2, FreePlain

\* A slot takes a plain record, or is that of a client with capabilities.
LEMMA SlotPlain ==
    ASSUME IInv, PlainInv, NEW c \in Conn, NEW cl, c \in CapConn \/ PlainClient(cl),
           client' = [client EXCEPT ![c] = cl]
    PROVE  PlainInv'
<1>1. client'[c] = cl /\ \A d \in Conn : d # c => client'[d] = client[d]
  BY DEF IInv
<1>2. ASSUME NEW d \in Conn \ CapConn PROVE PlainClient(client'[d])
  <2>1. CASE d = c
    BY <1>1, <2>1
  <2>2. CASE d # c
    BY <1>1, <2>2 DEF PlainInv
  <2> QED BY <2>1, <2>2
<1> QED BY <1>2 DEF PlainInv, PlainClient

LEMMA HandlePlain ==
    ASSUME IInv, PlainInv, NEW c \in Conn, NEW S, Handle(c, S),
           c \in CapConn \/ \A o \in S : PlainClient(o.cl)
    PROVE  PlainInv'
<1>1. PICK o \in S : client' = [client EXCEPT ![c] = o.cl]
  BY Zenon DEF Handle
<1> QED BY <1>1, SlotPlain, Zenon

LEMMA ReplyPlain ==
    ASSUME NEW cl, PlainClient(cl),
           NEW o \in {Outcome(cl, "CONNECTED")} \cup Write(cl) \cup WriteIgnored(cl) \cup Reject
    PROVE  PlainClient(o.cl)
<1>1. o.cl = cl \/ o.cl = NoClient
  BY DEF Outcome, Write, WriteIgnored, Reject
<1> QED BY <1>1, FreePlain

LEMMA PassPlain ==
    ASSUME IInv, PlainInv, NEW c \in Conn, NEW good \in BOOLEAN, NEW rfc2813 \in BOOLEAN,
           IRC_PASS(c, good, rfc2813)
    PROVE  PlainInv'
<1> DEFINE cl == [client[c] EXCEPT !.pwd = good,
                                   !.type = IF rfc2813 THEN "GOTPASS_2813" ELSE "GOTPASS"]
           S == IF client[c].type = "UNKNOWN" THEN {Outcome(cl, "CONNECTED")}
                                              ELSE Write(client[c])
<1>3. Handle(c, S)
  BY DEF IRC_PASS
<1> SUFFICES ASSUME c \notin CapConn
             PROVE  \A o \in S : PlainClient(o.cl)
  <2> HIDE DEF S
  <2> QED BY <1>3, HandlePlain
<1>1. client[c] \in Client /\ PlainClient(client[c])
  BY DEF IInv, PlainInv
<1>2. client[c].type = "UNKNOWN" => PlainClient(cl)
  BY <1>1 DEF PlainClient, Client
<1> HIDE DEF cl
<1> QED BY <1>1, <1>2, ReplyPlain

LEMMA UserPlain ==
    ASSUME IInv, PlainInv, NEW c \in Conn, NEW valid \in BOOLEAN, IRC_USER(c, valid)
    PROVE  PlainInv'
<1> DEFINE cl == client[c]
           named == [cl EXCEPT !.user = TRUE]
           got == [named EXCEPT !.type = "GOTUSER"]
           S == IF cl.type \notin {"UNKNOWN", "GOTPASS", "GOTNICK"} THEN Write(cl)
                ELSE IF ~valid THEN Reject
                ELSE IF Login_Flow_OnUser(cl) = "LOGIN_NOW" THEN Login_User(named)
                ELSE {Outcome(got, "CONNECTED")}
<1>1. Handle(c, S)
  BY DEF IRC_USER
<1> SUFFICES ASSUME c \notin CapConn
             PROVE  \A o \in S : PlainClient(o.cl)
  <2> HIDE DEF S
  <2> QED BY <1>1, HandlePlain
<1>2. cl \in Client /\ PlainClient(cl)
  BY DEF IInv, PlainInv
<1>3. named \in Client /\ named.user /\ named.ping = cl.ping
  BY <1>2, Zenon DEF Client
<1>4. Login_Flow_OnUser(cl) = "LOGIN_NOW" <=> cl.type = "GOTNICK" /\ cl.ping = 0
  BY <1>2 DEF PlainClient, Login_Flow_OnUser, login_flow_decide
<1>5. /\ got.cap = cl.cap /\ got.ping = cl.ping /\ got.id = cl.id
      /\ got.type = "GOTUSER" /\ got.user
  BY <1>2 DEF Client
<1> HIDE DEF named, got
<1>6. CASE cl.type \notin {"UNKNOWN", "GOTPASS", "GOTNICK"} \/ ~valid
  BY <1>2, <1>6, ReplyPlain
<1>7. CASE S = Login_User(named) /\ cl.ping = 0
  BY <1>3, <1>7, LoginPlain
<1>8. CASE /\ S = {Outcome(got, "CONNECTED")} /\ cl.type \in {"UNKNOWN", "GOTPASS", "GOTNICK"}
           /\ ~(cl.type = "GOTNICK" /\ cl.ping = 0)
  <2>1. PlainClient(got)
    BY <1>2, <1>5, <1>8 DEF PlainClient
  <2> QED BY <1>8, <2>1, ReplyPlain
<1> QED BY <1>4, <1>6, <1>7, <1>8

LEMMA NickLoginPlain ==
    ASSUME NEW cl \in Client, PlainClient(cl), cl.type \in {"UNKNOWN", "GOTPASS", "GOTNICK", "GOTUSER"},
           cl.type = "GOTNICK" => cl.id # NoNick,
           NEW n \in Nick, NEW tok \in Token, NEW o \in NickLogin(cl, n, tok)
    PROVE  PlainClient(o.cl)
<1> DEFINE named == [cl EXCEPT !.id = n]
           asked == IF AuthPing THEN [named EXCEPT !.ping = tok, !.asked = tok, !.ponged = FALSE]
                                ELSE named
           got == [asked EXCEPT !.type = "GOTNICK"]
<1>1. tok \in Nat
  BY TokenAssumption
<1>2. /\ asked \in Client /\ asked.type = cl.type /\ asked.user = cl.user /\ asked.cap = cl.cap
      /\ (AuthPing => asked.ping = tok /\ asked.asked = tok)
      /\ (~AuthPing => asked.ping = cl.ping)
  BY <1>1, Zenon DEF Client
<1>3. /\ got.type = "GOTNICK" /\ got.user = cl.user /\ got.cap = cl.cap
      /\ got.ping = asked.ping /\ got.asked = asked.asked
  BY <1>2 DEF Client
<1>4. \/ o \in Login_User(asked) /\ Login_Flow_OnNick(asked) = "LOGIN_NOW"
      \/ o = Outcome(got, "CONNECTED") /\ Login_Flow_OnNick(asked) # "LOGIN_NOW"
      \/ \E ret \in Results : o = Outcome(NoClient, ret)
  BY Zenon DEF NickLogin
<1> HIDE DEF asked, got
<1>5. Login_Flow_OnNick(asked) = "LOGIN_NOW" <=> cl.type = "GOTUSER" /\ asked.ping = 0
  BY <1>2 DEF PlainClient, Login_Flow_OnNick, login_flow_decide
<1>6. CASE o \in Login_User(asked) /\ cl.type = "GOTUSER" /\ asked.ping = 0
  BY <1>2, <1>6, LoginPlain DEF PlainClient
<1>7. CASE o = Outcome(got, "CONNECTED") /\ ~(cl.type = "GOTUSER" /\ asked.ping = 0)
  <2>1. ~AuthPing => ~cl.user
    BY <1>2, <1>7, NickAssumption DEF PlainClient
  <2>2. PlainClient(got)
    BY <1>2, <1>3, <2>1 DEF PlainClient
  <2> QED BY <1>7, <2>2 DEF Outcome
<1>8. CASE \E ret \in Results : o = Outcome(NoClient, ret)
  BY <1>8, FreePlain DEF Outcome
<1> QED BY <1>4, <1>5, <1>6, <1>7, <1>8

LEMMA NickPlain ==
    ASSUME IInv, PlainInv, NEW c \in Conn, NEW n \in Nick, NEW exact \in BOOLEAN,
           NEW tok \in Token, IRC_NICK(c, n, exact, tok)
    PROVE  PlainInv'
<1> DEFINE cl == client[c]
           new == [cl EXCEPT !.id = n]
           S == IF cl.type \in {"GOTPASS_2813", "WAITAUTHPING"} THEN Write(cl)
                ELSE Refused(cl) \cup
                     IF exact THEN {Outcome(cl, "CONNECTED")}
                     ELSE IF n # cl.id /\ ~Client_CheckNick(n) THEN WriteIgnored(cl)
                     ELSE IF cl.type = "USER" THEN WriteIgnored(new)
                     ELSE NickLogin(cl, n, tok)
<1>1. Handle(c, S)
  BY DEF IRC_NICK
<1> SUFFICES ASSUME c \notin CapConn, NEW o \in S
             PROVE  PlainClient(o.cl)
  <2> HIDE DEF S
  <2> QED BY <1>1, HandlePlain
<1>2. /\ cl \in Client /\ PlainClient(cl) /\ cl.type # "NONE"
      /\ cl.type = "GOTNICK" => cl.id # NoNick
  BY DEF IInv, GoodClient, PlainInv, IRC_NICK, Live
<1>3. CASE o \in {Outcome(cl, "CONNECTED")} \cup Write(cl) \cup WriteIgnored(cl)
  BY <1>2, <1>3, ReplyPlain
<1>4. CASE o \in WriteIgnored(new) /\ cl.type = "USER"
  <2>1. PlainClient(new)
    BY <1>2, <1>4 DEF PlainClient, Client
  <2> HIDE DEF new
  <2> QED BY <1>4, <2>1, ReplyPlain
<1>5. CASE /\ o \in NickLogin(cl, n, tok)
           /\ cl.type \in {"UNKNOWN", "GOTPASS", "GOTNICK", "GOTUSER"}
  BY <1>2, <1>5, NickLoginPlain
<1> HIDE DEF new
<1> QED BY <1>2, <1>3, <1>4, <1>5 DEF Refused, Client, Types, Unregistered

LEMMA PongPlain ==
    ASSUME IInv, PlainInv, NEW c \in Conn, NEW tok \in Token, IRC_PONG(c, tok)
    PROVE  PlainInv'
<1> DEFINE cl == client[c]
           answered == [cl EXCEPT !.ping = 0, !.ponged = TRUE]
           S == IF cl.ping = 0 THEN {Outcome(cl, "CONNECTED")}
                ELSE IF tok # cl.ping THEN Write(cl)
                ELSE IF cl.type # "WAITAUTHPING" THEN {Outcome(answered, "CONNECTED")}
                ELSE {Outcome(o.cl, "CONNECTED") : o \in Login_User(answered)}
<1>1. Handle(c, S)
  BY DEF IRC_PONG
<1> SUFFICES ASSUME c \notin CapConn
             PROVE  \A o \in S : PlainClient(o.cl)
  <2> HIDE DEF S
  <2> QED BY <1>1, HandlePlain
<1>2. cl \in Client /\ PlainClient(cl)
  BY DEF IInv, PlainInv
<1>3. cl.ping # 0 => PlainClient(answered)
  BY <1>2 DEF PlainClient, Client
<1> HIDE DEF answered
<1> QED BY <1>1, <1>2, <1>3, ReplyPlain DEF PlainClient

\* Every step keeps the plain clients plain.
LEMMA NextPlain ==
    ASSUME IInv, PlainInv, [Next]_vars
    PROVE  PlainInv'
<1>1. ASSUME NEW c \in Conn, NEW cl \in {NewLocal, NoClient}, client' = [client EXCEPT ![c] = cl]
      PROVE  PlainInv'
  BY <1>1, FreePlain, SlotPlain, Zenon
<1>2. CASE client' = client
  BY <1>2 DEF PlainInv, PlainClient
<1>3. ASSUME NEW c \in Conn, New_Connection(c) \/ Conn_Close(c) \/ Login_Timeout(c)
      PROVE  PlainInv'
  BY <1>1, <1>3 DEF New_Connection, Conn_Close, Login_Timeout
<1>4. ASSUME NEW c \in Conn, IRC_QUIT(c) PROVE PlainInv'
  <2>1. \A o \in Reject : PlainClient(o.cl)
    BY FreePlain, ReplyPlain
  <2> QED BY <1>4, <2>1, HandlePlain DEF IRC_QUIT
<1>5. ASSUME NEW c \in Conn, CAP_Negotiate(c) \/ Handle_CAP_END(c) PROVE PlainInv'
  BY <1>5, HandlePlain, Zenon DEF CAP_Negotiate, Handle_CAP_END
<1>6. ASSUME NEW n \in Nick, Introduce(n) \/ RemoteQuit(n) PROVE PlainInv'
  BY <1>1, <1>2, <1>6 DEF Introduce, IRC_KillClient, RemoteQuit
<1>7. CASE UNCHANGED vars
  BY <1>2, <1>7 DEF vars
<1> QED BY <1>3, <1>4, <1>5, <1>6, <1>7, PassPlain, NickPlain, UserPlain, PongPlain DEF Next

LEMMA PlainHolds == Spec => []PlainInv
<1>1. Init => PlainInv
  BY FreePlain, Zenon DEF Init, PlainInv
<1>2. IInv /\ PlainInv /\ [Next]_vars => PlainInv'
  BY NextPlain
<1> QED BY <1>1, <1>2, Invariant, PTL DEF Spec

\* No order of NICK, USER, PASS and PONG makes the handlers of NICK and USER miss the
\* moment the table of login_state.c registers a client without capabilities, or
\* register it without USER; a PONG that comes last does miss it.
THEOREM LoginExactHolds == Spec => []LoginExact
<1>1. ASSUME PlainInv, NEW c \in Conn \ CapConn
      PROVE  /\ client[c].type = "USER" => client[c].user
             /\ Login_State_Resolve(client[c]) = "REGISTER" =>
                    AuthPing /\ (client[c].ponged \/ client[c].asked = 0)
  <2>1. PlainClient(client[c])
    BY <1>1 DEF PlainInv
  <2> QED BY <2>1 DEF PlainClient, Login_State_Resolve
<1>2. PlainInv => LoginExact
  BY <1>1, Zenon DEF LoginExact
<1> QED BY <1>2, PlainHolds, PTL
=============================================================================
