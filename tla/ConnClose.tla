----------------------------- MODULE ConnClose -----------------------------
(***************************************************************************)
(* Writing to connections and closing them: Conn_Write(), Handle_Write()   *)
(* and Conn_Close() of state/connection/conn.c, and the messages to marked  *)
(* connections of server/proto/irc/irc-write.c.                            *)
(*                                                                         *)
(* A message for a channel goes to every connection that carries a flag,   *)
(* in the order of the connection numbers.  A write that fails closes its   *)
(* connection then and there, and Conn_Close() sends a QUIT to the clients  *)
(* related to the one it closes: it sets the same flags again and runs     *)
(* the same loop, inside the loop that is under way.  The calls under way   *)
(* are the frames of the variable stack.                                   *)
(*                                                                         *)
(* The connections are those of registered local users; one message is one *)
(* unit of the write buffer.                                               *)
(***************************************************************************)
EXTENDS Integers, Sequences, FiniteSets

CONSTANTS
    N,                      \* the connections are 1..N, socket and index are the same
    Channel,
    Conf_MaxConnections,    \* 0: no limit
    WRITEBUFFER_FLUSH_LEN,
    WRITEBUFFER_MAX_LEN

ASSUME LimitAssumption == N \in Nat /\ Conf_MaxConnections \in Nat
ASSUME BufferAssumption ==
    /\ WRITEBUFFER_FLUSH_LEN \in Nat \ {0} /\ WRITEBUFFER_MAX_LEN \in Nat
    /\ WRITEBUFFER_FLUSH_LEN < WRITEBUFFER_MAX_LEN

Conn == 1..N

VARIABLES
    open,      \* the connections with a socket
    closing,   \* the connections with CONN_ISCLOSING whose socket is closed
    num,       \* NumConnections
    member,    \* [Channel -> SUBSET Conn]: My_Cl2Chan
    flag,      \* the connections marked SEND_TO_USER
    wlen,      \* [Conn -> Nat]: bytes in the write buffer
    stack      \* the calls of Send_Marked_Connections() under way, innermost last

vars == <<open, closing, num, member, flag, wlen, stack>>

\* A frame: the QUIT of a connection that is closed ("quit") or another message
\* of it, which may be repeated to itself afterwards ("echo") or not ("msg"),
\* and the place in the loop.  owed and told are history: those the message is
\* for, and those that got it into their write buffer.
Frame == [kind: {"quit", "echo", "msg"}, conn: Conn, at: 0..N,
          owed: SUBSET Conn, told: SUBSET Conn]

Top == stack[Len(stack)]
Under == SubSeq(stack, 1, Len(stack) - 1)

\* The clients that share a channel with the client of c.
Related(c) == {d \in Conn \ {c} : \E ch \in Channel : {c, d} \subseteq member[ch]}

\* Conn_ClearFlags(), Conn_SetFlag() for the targets, and the loop begins.
Call(frames, kind, c, targets) ==
    /\ flag' = targets
    /\ stack' = Append(frames, [kind |-> kind, conn |-> c, at |-> 0,
                                owed |-> targets, told |-> {}])

\* Mutant of Conn_Close(): the socket is marked invalid only at the end.
Conn_Close_LateSocket(frames, c) ==
    /\ closing' = closing \cup {c}
    /\ wlen' = [wlen EXCEPT ![c] = 0]
    /\ Call(frames, "quit", c, Related(c))
    /\ UNCHANGED <<open, num, member>>

\* Conn_Close() up to the QUIT of its client: what can be sent of the write
\* buffer is sent, the socket is closed.  An outer loop goes on with frames.
Conn_Close(frames, c) ==
    /\ open' = open \ {c}
    /\ closing' = closing \cup {c}
    /\ wlen' = [wlen EXCEPT ![c] = 0]
    /\ Call(frames, "quit", c, Related(c))
    /\ UNCHANGED <<num, member>>

\* Conn_Write(): the possible lengths of the write buffer of d when the message
\* was queued, after a flush that may have sent any part of it ...
Queued(d) ==
    IF wlen[d] + 1 < WRITEBUFFER_FLUSH_LEN THEN {wlen[d] + 1}
    ELSE {left + 1 : left \in {l \in 0..wlen[d] : l + 1 < WRITEBUFFER_MAX_LEN}}

\* ... and whether it can fail: the flush fails, or sends too little.
WriteFails(d) == wlen[d] + 1 >= WRITEBUFFER_FLUSH_LEN /\ wlen[d] > 0
-----------------------------------------------------------------------------
(* Send_Marked_Connections(). *)

\* Mutant of Marked: Conn_Next() returns its argument again.
Marked_Again == {d \in open \cap flag : d >= Top.at}

\* Conn_First() and Conn_Next(): open connections, here those with a flag.
Marked == {d \in open \cap flag : d > Top.at}

Send_Marked_Connections ==
    /\ stack # <<>> /\ Marked # {}
    /\ LET d == CHOOSE m \in Marked : \A o \in Marked : m <= o IN
       \/ /\ \E len \in Queued(d) : wlen' = [wlen EXCEPT ![d] = len]
          /\ stack' = Append(Under, [Top EXCEPT !.at = d, !.told = @ \cup {d}])
          /\ UNCHANGED <<open, closing, num, member, flag>>
       \/ /\ WriteFails(d)
          /\ Conn_Close(Append(Under, [Top EXCEPT !.at = d]), d)

\* Mutant of Finish_Close: a close nested in another one is not counted down.
Finish_Close_NestedUncounted ==
    /\ stack # <<>> /\ Marked = {} /\ Top.kind = "quit"
    /\ member' = [ch \in Channel |-> member[ch] \ {Top.conn}]
    /\ closing' = closing \ {Top.conn}
    /\ flag' = flag \ {Top.conn}
    /\ num' = IF Len(stack) > 1 THEN num ELSE num - 1
    /\ stack' = Under
    /\ UNCHANGED <<open, wlen>>

\* The rest of Channel_Quit(), Client_Destroy() and Conn_Close().
Finish_Close ==
    /\ stack # <<>> /\ Marked = {} /\ Top.kind = "quit"
    /\ member' = [ch \in Channel |-> member[ch] \ {Top.conn}]
    /\ closing' = closing \ {Top.conn}
    /\ flag' = flag \ {Top.conn}
    /\ num' = IF num > 0 THEN num - 1 ELSE 0
    /\ stack' = Under
    /\ UNCHANGED <<open, wlen>>

\* The message is out.  JOIN and PART are repeated to their sender; when its
\* connection was closed in the cascade there is nothing to write to.
Finish_Message ==
    /\ stack # <<>> /\ Marked = {} /\ Top.kind # "quit"
    /\ LET c == Top.conn IN
       \/ /\ Top.kind = "msg" \/ c \notin open
          /\ stack' = Under
          /\ UNCHANGED <<open, closing, num, member, flag, wlen>>
       \/ /\ Top.kind = "echo" /\ c \in open
          /\ \E len \in Queued(c) : wlen' = [wlen EXCEPT ![c] = len]
          /\ stack' = Under
          /\ UNCHANGED <<open, closing, num, member, flag>>
       \/ /\ Top.kind = "echo" /\ c \in open /\ WriteFails(c)
          /\ Conn_Close(Under, c)
-----------------------------------------------------------------------------
(* The main loop: nothing else is under way. *)

Idle == stack = <<>>

\* accept() returns a free descriptor; above the limit it is closed again.
New_Connection(c) ==
    /\ Idle /\ c \notin open
    /\ Conf_MaxConnections > 0 => num < Conf_MaxConnections
    /\ open' = open \cup {c}
    /\ num' = num + 1
    /\ UNCHANGED <<closing, member, flag, wlen, stack>>

\* QUIT, a read error, a timeout, a KILL.
Close(c) == Idle /\ c \in open /\ Conn_Close(stack, c)

\* IRC_WriteStrChannelPrefix() for a message of c to the members.
Tell(kind, c, ch, members) ==
    /\ member' = [member EXCEPT ![ch] = members]
    /\ Call(stack, kind, c, members \ {c})
    /\ UNCHANGED <<open, closing, num, wlen>>

Channel_Join(c, ch) ==
    Idle /\ c \in open \ member[ch] /\ Tell("echo", c, ch, member[ch] \cup {c})

Channel_Part(c, ch) ==
    Idle /\ c \in member[ch] /\ Tell("echo", c, ch, member[ch] \ {c})

\* The sender need not be a member: not every channel has mode n.
Channel_Write(c, ch) ==
    Idle /\ c \in open /\ member[ch] # {} /\ Tell("msg", c, ch, member[ch])

\* The server answers a command: IRC_WriteStrClient().
Reply(c) ==
    /\ Idle /\ c \in open
    /\ \/ /\ \E len \in Queued(c) : wlen' = [wlen EXCEPT ![c] = len]
          /\ UNCHANGED <<open, closing, num, member, flag, stack>>
       \/ WriteFails(c) /\ Conn_Close(stack, c)

\* select() reports that the socket can be written to.
Handle_Write(c) ==
    /\ Idle /\ c \in open /\ wlen[c] > 0
    /\ \/ /\ \E left \in 0..wlen[c] : wlen' = [wlen EXCEPT ![c] = left]
          /\ UNCHANGED <<open, closing, num, member, flag, stack>>
       \/ Conn_Close(stack, c)
-----------------------------------------------------------------------------
Init ==
    /\ open = {} /\ closing = {} /\ num = 0
    /\ member = [ch \in Channel |-> {}]
    /\ flag = {} /\ wlen = [c \in Conn |-> 0]
    /\ stack = <<>>

Calls == Send_Marked_Connections \/ Finish_Close \/ Finish_Message

Next ==
    \/ Calls
    \/ \E c \in Conn :
         \/ New_Connection(c) \/ Close(c) \/ Reply(c) \/ Handle_Write(c)
         \/ \E ch \in Channel : Channel_Join(c, ch) \/ Channel_Part(c, ch) \/ Channel_Write(c, ch)

Spec == Init /\ [][Next]_vars

\* A call that was begun goes on.
FairSpec == Spec /\ WF_vars(Calls)
-----------------------------------------------------------------------------
(* Properties. *)

\* The variables keep their types.
TypeOK ==
    /\ open \subseteq Conn /\ closing \subseteq Conn /\ num \in Nat
    /\ member \in [Channel -> SUBSET Conn]
    /\ flag \subseteq Conn /\ wlen \in [Conn -> Nat]
    /\ stack \in Seq(Frame)

\* NumConnections is the number of connections that are open or being closed,
\* however closes nest: it is what New_Connection() and the idle shutdown use.
CountExact == num = Cardinality(open \cup closing)

\* The limit on connections holds.
LimitHeld == Conf_MaxConnections > 0 => num <= Conf_MaxConnections

\* No close is begun twice for the same connection, and a connection is closing
\* exactly as long as its Conn_Close() is under way.
OneCloseEach ==
    /\ closing \cap open = {}
    /\ closing = {stack[i].conn : i \in {j \in DOMAIN stack : stack[j].kind = "quit"}}
    /\ \A i, j \in DOMAIN stack :
         (stack[i].kind = "quit" /\ stack[j].kind = "quit" /\ stack[i].conn = stack[j].conn)
            => i = j

\* No channel keeps a client whose connection is gone.
MembersConnected == \A ch \in Channel : member[ch] \subseteq open \cup closing

\* Pending output stays below the limit and goes with the connection.
WriteBufferBound ==
    \A c \in Conn : wlen[c] < WRITEBUFFER_MAX_LEN /\ (c \notin open => wlen[c] = 0)

\* The pool is sound however closes nest: NumConnections is exact and within its
\* limit, and write buffers are bounded and go with their connection (Conn_Close(),
\* Conn_Write(), New_Connection()).
PoolSound == TypeOK /\ CountExact /\ LimitHeld /\ WriteBufferBound

\* A cascade of closes treats each connection once, and none of them stays behind in
\* a channel (Conn_Close(), Channel_Quit()).
ClosesSound == OneCloseEach /\ MembersConnected

\* A message is sent to all the clients it is for, unless their connection was
\* closed meanwhile (comment of IRC_WriteStrRelatedPrefix()).
\* The code does not keep this: see the README.
AllRelatedTold ==
    (stack # <<>> /\ Marked = {}) => Top.owed \cap open \subseteq Top.told

\* However many writes fail, the cascade of closes comes to its end.
CascadeEnds == stack # <<>> ~> stack = <<>>
=============================================================================
