------------------------------ MODULE ConnRead ------------------------------
(***************************************************************************)
(* The read side of a connection in the main loop of state/connection/     *)
(* conn.c: timers, read buffer, command processing, penalties, select() and *)
(* the callbacks of the socket and of the resolver pipe.                   *)
(*                                                                         *)
(* The loop handles connections one after the other and a pass over one    *)
(* does not look at another, so the module follows one connection slot;    *)
(* what the commands of other clients do to it are Killed and Remoded.     *)
(* The steps of the loop are actions, the loop's place is pc, and the      *)
(* clock may tick between any two of them.  Times are kept relative to the *)
(* clock: delay = delaytime - now, idle = now - lastdata, and so on.       *)
(***************************************************************************)
EXTENDS Integers, Sequences

CONSTANTS
    COMMAND_LEN,      \* longest line, and one more
    READBUFFER_LEN,   \* most bytes of one recv(), and limit of the read buffer
    MAX_COMMANDS,     \* most commands of one pass
    FreeCommands,     \* the same for servers, services and users with mode F
    Conf_PingTimeout,
    Conf_PongTimeout,
    Conf_MaxPenaltyTime, \* limit of a single penalty, negative for none
    Penalties,        \* the penalties, in seconds, a command can cause; 0 is no call
    Data              \* what one recv() can deliver

\* A character, an end of line, and NUL, at which the string functions that
\* look for an end of line stop.
Byte == {"x", "e", "0"}

ASSUME SizeAssumption ==
    /\ COMMAND_LEN \in Nat \ {0, 1} /\ READBUFFER_LEN \in Nat /\ COMMAND_LEN < READBUFFER_LEN
    /\ MAX_COMMANDS \in Nat \ {0} /\ FreeCommands \subseteq Nat \ {0}
ASSUME TimeAssumption ==
    /\ Conf_PingTimeout \in Nat /\ Conf_PongTimeout \in Nat
    /\ Conf_MaxPenaltyTime \in Int /\ Penalties \subseteq Nat
ASSUME DataAssumption ==
    \A d \in Data : d \in Seq(Byte) /\ Len(d) \in 1..READBUFFER_LEN

VARIABLES
    pc,        \* what the main loop does next
    ready,     \* descriptors select() found ready and not yet served
    open,      \* the connection slot has a socket
    reg,       \* its client is registered
    free,      \* Throttle_Connection() spares it: a server, registered or not,
               \* a service, or a user with mode F
    want,      \* IO_WANTREAD is set for the socket
    rbuf,      \* the read buffer
    delay,     \* seconds of penalty left
    held,      \* delaytime is after the time t this round began with
    proc,      \* Proc_InProgress(): the resolver runs for the connection
    pipe,      \* a resolver pipe is registered with the I/O layer
    idle,      \* seconds since lastdata
    ping,      \* seconds since an unanswered PING, or NONE
    bps,       \* bytes handled in this second, up to maxbps
    pass,      \* the pass of Conn_Process_Buffer() under way
    spared,    \* the last pass ended with more data and without a penalty (history)
    msg        \* parity of the number of lines handled (history)

conn == <<open, reg, free, want, rbuf, delay, held, proc, pipe, idle, ping, bps, spared, msg>>
vars == <<pc, ready, conn, pass>>

NONE == -1
maxbps == COMMAND_LEN \div 2
Smaller(a, b) == IF a < b THEN a ELSE b
Larger(a, b) == IF a < b THEN b ELSE a
MaxAge == Larger(Conf_PingTimeout, Conf_PongTimeout) + 1   \* ages count up to here

\* The pass: lines it may still take, bytes it handled, whether delaytime is
\* after its starttime, who called it, and the bps of before: Read_Request()
\* adds the result with "bps += Handle_Buffer()", where C leaves open whether
\* bps is read before or after the call.
Passes == [left: Nat, len: Nat, late: BOOLEAN, from: {"loop", "read"},
           bps: 0..maxbps]
NoPass == [left |-> 0, len |-> 0, late |-> FALSE, from |-> "loop", bps |-> 0]

\* The ends of line that strstr() and strchr() find.
Ends(s) == {i \in 1..Len(s) : s[i] = "e" /\ \A j \in 1..i : s[j] # "0"}
HasLine(s) == Ends(s) # {}

\* Length of the first line of s with its end; s has one.
LineLen(s) == CHOOSE i \in Ends(s) : \A j \in Ends(s) : i <= j

\* The new penalty is limited, unless it is one of 10 seconds or more.
Limited(s) ==
    IF Conf_MaxPenaltyTime >= 0 /\ s > Conf_MaxPenaltyTime /\ s < 10
    THEN Conf_MaxPenaltyTime ELSE s

\* Conn_SetPenalty(): penalties add up.  delaytime is first raised to the current
\* time, which may be after t, also when nothing is added then.
Conn_SetPenalty(s) ==
    /\ delay' = delay + Limited(s)
    /\ IF delay' > 0 THEN held' = TRUE ELSE held' \in {held, TRUE}

\* Mutant of Conn_Close(): the state of the resolver stays.
Conn_Close_KeepsResolver ==
    /\ open' = FALSE /\ reg' = FALSE /\ free' = FALSE /\ want' = FALSE /\ rbuf' = <<>>
    /\ delay' = 0 /\ held' = FALSE /\ idle' = 0 /\ ping' = NONE /\ bps' = 0
    /\ spared' = FALSE
    /\ UNCHANGED <<proc, pipe, msg>>

\* Init_Conn_Struct() at the end of Conn_Close().  io_close() has removed the
\* socket from the I/O layer; the pipe of a resolver is left there.
Conn_Close ==
    /\ open' = FALSE /\ reg' = FALSE /\ free' = FALSE /\ want' = FALSE /\ rbuf' = <<>>
    /\ delay' = 0 /\ held' = FALSE /\ proc' = FALSE
    /\ idle' = 0 /\ ping' = NONE /\ bps' = 0 /\ spared' = FALSE
    /\ UNCHANGED <<pipe, msg>>

Goto(place) == pc' = place

\* Most commands of the pass that begins.
maxcmd == IF reg /\ free THEN FreeCommands ELSE {MAX_COMMANDS}

\* Mutant of BeginPass: penalties of before are ignored.
BeginPass_NoPenalty(from) ==
    /\ Goto("pass") /\ spared' = FALSE
    /\ \E n \in maxcmd :
          pass' = [left |-> n, len |-> 0, late |-> FALSE, from |-> from, bps |-> bps]

\* Handle_Buffer() is called; starttime is now.
BeginPass(from) ==
    /\ Goto("pass") /\ spared' = FALSE
    /\ \E n \in maxcmd :
          pass' = [left |-> n, len |-> 0, late |-> delay > 0, from |-> from, bps |-> bps]
-----------------------------------------------------------------------------
(* One round of Conn_Handler(). *)

\* Mutants of TimedOut: registered clients are never closed; unregistered
\* clients are treated like registered ones.
TimedOut_OnlyUnregistered == ~reg /\ idle > Conf_PongTimeout
TimedOut_OnlyPinged == ping # NONE /\ ping > Conf_PongTimeout

\* A registered client did not answer a PING, an unregistered one took too long.
TimedOut == IF reg THEN ping # NONE /\ ping > Conf_PongTimeout ELSE idle > Conf_PongTimeout

\* A registered client is silent.
NeedsPing == reg /\ ping = NONE /\ idle > Conf_PingTimeout

\* The time t of the round is taken first.
Check_Connections ==
    /\ pc = "timers"
    /\ Goto("buffers")
    /\ UNCHANGED <<ready, pass>>
    /\ \/ open /\ TimedOut /\ Conn_Close
       \/ /\ open /\ NeedsPing
          /\ \/ /\ ping' = 0 /\ held' = (delay > 0)
                /\ UNCHANGED <<open, reg, free, want, rbuf, delay, proc, pipe, idle, bps,
                               spared, msg>>
             \/ Conn_Close     \* the write of the PING fails
       \/ /\ open => ~TimedOut /\ ~NeedsPing
          /\ held' = (delay > 0)
          /\ UNCHANGED <<open, reg, free, want, rbuf, delay, proc, pipe, idle, ping, bps,
                         spared, msg>>

\* Handle_Buffer() is called for a connection with a non-empty read buffer.
Look_For_Buffers ==
    /\ pc = "buffers"
    /\ IF open /\ rbuf # <<>>
       THEN BeginPass("loop")
       ELSE Goto("interest") /\ UNCHANGED <<pass, spared>>
    /\ UNCHANGED <<ready, open, reg, free, want, rbuf, delay, held, proc, pipe, idle, ping, bps,
                   msg>>

\* Conn_IsReadableClient() and what follows: a connection that is not readable
\* is passed over, and keeps the interest it has.
Conn_Update_Read_Interest ==
    /\ pc = "interest"
    /\ Goto("select")
    /\ want' = IF open /\ ~proc /\ ~held THEN Len(rbuf) < COMMAND_LEN ELSE want
    /\ UNCHANGED <<ready, pass, open, reg, free, rbuf, delay, held, proc, pipe, idle, ping,
                   bps, spared, msg>>

\* select() reports any of the descriptors it was given, and the loop of
\* io_dispatch_select() then serves them.
Conn_Wait_For_Activity ==
    /\ pc = "select"
    /\ ready' \in SUBSET ((IF want THEN {"sock"} ELSE {}) \cup (IF pipe THEN {"pipe"} ELSE {})
                          \cup {"listen"})
    /\ Goto("serve")
    /\ UNCHANGED <<conn, pass>>

\* All descriptors are served: the next round.
Served ==
    /\ pc = "serve" /\ ready = {}
    /\ Goto("timers")
    /\ UNCHANGED <<ready, conn, pass>>
-----------------------------------------------------------------------------
(* Conn_Process_Buffer(), one command a step. *)

\* The pass returns n; Read_Request() goes on with Conn_Update_Read_Accounting().
EndPass(n) ==
    IF pass.from = "loop" THEN Goto("interest") /\ pass' = NoPass
                          ELSE Goto("account") /\ pass' = [NoPass EXCEPT !.len = n, !.bps = pass.bps]

\* What the command of a line may do to an open connection: cost a penalty,
\* register the client, make it one that is not throttled or no longer so.
\* delaytime is after starttime then if a penalty was added; it can be so as well
\* when delaytime was only raised to a later current time.
Command(late) ==
    /\ \E s \in Penalties :
          IF s = 0 THEN UNCHANGED <<delay, held>> /\ ~late
          ELSE Conn_SetPenalty(s) /\ (delay' > 0 => late) /\ (late => held')
    /\ reg' \in {reg, TRUE} /\ free' \in BOOLEAN
    /\ msg' = 1 - msg
    /\ UNCHANGED <<open, want, proc, pipe, idle, ping, bps, spared>>

\* Parse_Request() for the first line.  The line is taken from the buffer only
\* when the handler returns CONNECTED.  After DISCONNECTED the pass is over, and
\* when the connection is open all the same (a write to another one failed) the
\* line stays with a NUL for its end, and no line is found in the buffer any more.
\* When a handler does not report a close the pass ends at the empty buffer.
Parse_Request ==
    \/ /\ \E l \in BOOLEAN :
             /\ Command(l)
             /\ pass' = [pass EXCEPT !.left = @ - 1, !.len = @ + LineLen(rbuf), !.late = l]
       /\ rbuf' = SubSeq(rbuf, LineLen(rbuf) + 1, Len(rbuf))
       /\ UNCHANGED pc
    \/ /\ \E l \in BOOLEAN : Command(l)
       /\ rbuf' = [rbuf EXCEPT ![LineLen(rbuf)] = "0"]
       /\ EndPass(0)
    \/ Conn_Close /\ \E n \in {0, pass.len + LineLen(rbuf)} : EndPass(n)

\* Throttle_Connection() at the end of a pass and after a read.
Throttle_Connection == IF free THEN UNCHANGED <<delay, held>> ELSE Conn_SetPenalty(1)

\* Mutant of Throttle_Commands: only when a longest command may be left.
Throttle_Commands_Long ==
    IF pass.len > 0 /\ Len(rbuf) > COMMAND_LEN
    THEN Throttle_Connection /\ spared' = (delay' = 0)
    ELSE UNCHANGED <<delay, held>> /\ spared' = FALSE

\* Throttle_Connection() when commands were handled and more data is there.
Throttle_Commands ==
    IF pass.len > 0 /\ Len(rbuf) > 2
    THEN Throttle_Connection /\ spared' = (delay' = 0)
    ELSE UNCHANGED <<delay, held>> /\ spared' = FALSE

Conn_Process_Buffer ==
    /\ pc = "pass"
    /\ UNCHANGED ready
    /\ \/ /\ pass.left > 0 /\ pass.late      \* in penalty: 0 bytes handled
          /\ EndPass(0)
          /\ UNCHANGED conn
       \/ /\ pass.left = 0 \/ (~pass.late /\ ~HasLine(rbuf))
          /\ Throttle_Commands
          /\ EndPass(pass.len)
          /\ UNCHANGED <<open, reg, free, want, rbuf, proc, pipe, idle, ping, bps, msg>>
       \/ /\ pass.left > 0 /\ ~pass.late /\ HasLine(rbuf)
          /\ LineLen(rbuf) > COMMAND_LEN - 1  \* request too long
          /\ Conn_Close /\ EndPass(0)
       \/ /\ pass.left > 0 /\ ~pass.late /\ HasLine(rbuf)
          /\ LineLen(rbuf) = 1               \* an empty line
          /\ rbuf' = Tail(rbuf)
          /\ msg' = 1 - msg
          /\ pass' = [pass EXCEPT !.left = @ - 1, !.len = @ + 1]
          /\ UNCHANGED <<pc, open, reg, free, want, delay, held, proc, pipe, idle, ping, bps,
                         spared>>
       \/ /\ pass.left > 0 /\ ~pass.late /\ HasLine(rbuf)
          /\ LineLen(rbuf) \in 2..(COMMAND_LEN - 1)
          /\ Parse_Request
-----------------------------------------------------------------------------
(* The callbacks. *)

Full == Len(rbuf) >= READBUFFER_LEN

\* recv() delivers data, or nothing yet, or the end or an error; a buffer that
\* is full already closes the connection.
Read_Request ==
    /\ pc = "serve" /\ "sock" \in ready
    /\ ready' = ready \ {"sock"}
    /\ \/ /\ open /\ ~Full
          /\ \E data \in Data : rbuf' = rbuf \o data
          /\ BeginPass("read")
          /\ UNCHANGED <<open, reg, free, want, delay, held, proc, pipe, idle, ping, bps, msg>>
       \/ /\ open
          /\ Conn_Close /\ UNCHANGED <<pc, pass>>
       \/ /\ open => ~Full
          /\ UNCHANGED <<pc, pass, conn>>

\* The bytes are added even to the slot of a connection closed meanwhile.
\* Only the times of a registered client are renewed; bytes are counted per
\* second for a registered client and in total for any other.
Conn_Update_Read_Accounting ==
    /\ pc = "account"
    /\ Goto("serve")
    /\ pass' = NoPass
    /\ UNCHANGED ready
    /\ IF ~open
       THEN /\ \E before \in {bps, pass.bps} : bps' = Smaller(before + pass.len, maxbps)
            /\ UNCHANGED <<open, reg, free, want, rbuf, delay, held, proc, pipe, idle, ping,
                           spared, msg>>
       ELSE LET sum == IF reg /\ idle # 0 THEN 0 ELSE Smaller(bps + pass.len, maxbps) IN
            /\ bps' = sum
            /\ idle' = IF reg THEN 0 ELSE idle
            /\ ping' = IF reg THEN NONE ELSE ping
            /\ IF sum >= maxbps THEN Throttle_Connection ELSE UNCHANGED <<delay, held>>
            /\ UNCHANGED <<open, reg, free, want, rbuf, proc, pipe, spared, msg>>

\* Mutant of cb_Read_Resolver_Result: the pipe of a closed connection stays.
cb_Read_Resolver_Result_Unknown ==
    /\ pc = "serve" /\ "pipe" \in ready
    /\ ready' = ready \ {"pipe"}
    /\ pipe' = ~proc /\ proc' = FALSE
    /\ UNCHANGED <<pc, pass, msg, open, reg, free, want, rbuf, delay, held, idle, ping, bps,
                   spared>>

\* The result of the resolver: for a closed connection only the pipe goes;
\* otherwise the lookup is over, and a server ban may close the connection.
cb_Read_Resolver_Result ==
    /\ pc = "serve" /\ "pipe" \in ready
    /\ ready' = ready \ {"pipe"}
    /\ pipe' = FALSE /\ proc' = FALSE
    /\ UNCHANGED <<pc, pass, msg>>
    /\ \/ UNCHANGED <<open, reg, free, want, rbuf, delay, held, idle, ping, bps, spared>>
       \/ /\ open /\ proc /\ ~reg
          /\ open' = FALSE /\ reg' = FALSE /\ free' = FALSE /\ want' = FALSE /\ rbuf' = <<>>
          /\ delay' = 0 /\ held' = FALSE /\ idle' = 0 /\ ping' = NONE /\ bps' = 0
          /\ spared' = FALSE

\* New_Connection() for the slot: the socket is read from at once.  The pipe of
\* an earlier resolver must have been served (one pipe is tracked).
New_Connection ==
    /\ pc = "serve" /\ "listen" \in ready
    /\ ready' = ready \ {"listen"}
    /\ UNCHANGED <<pc, pass, msg>>
    /\ \/ /\ ~open /\ ~pipe
          /\ open' = TRUE /\ reg' = FALSE /\ free' = FALSE /\ want' = TRUE /\ rbuf' = <<>>
          /\ delay' = 0 /\ held' = FALSE /\ idle' = 0 /\ ping' = NONE /\ bps' = 0
          /\ spared' = FALSE
          /\ \E started \in BOOLEAN : proc' = started /\ pipe' = started
       \/ UNCHANGED <<open, reg, free, want, rbuf, delay, held, proc, pipe, idle, ping, bps,
                      spared>>

\* A command of another client closes this connection (KILL, a failed write).
Killed ==
    /\ pc \in {"buffers", "interest", "serve"} /\ open
    /\ Conn_Close
    /\ UNCHANGED <<pc, ready, pass>>

\* A linked server sets or clears mode F of the user (MODE).
Remoded ==
    /\ pc \in {"buffers", "interest", "serve"} /\ open /\ reg
    /\ free' = ~free
    /\ UNCHANGED <<pc, ready, pass, open, reg, want, rbuf, delay, held, proc, pipe, idle, ping,
                   bps, spared, msg>>

\* A second passes.
Tick ==
    /\ delay' = IF delay > 0 THEN delay - 1 ELSE 0
    /\ idle' = IF open THEN Smaller(idle + 1, MaxAge) ELSE idle
    /\ ping' = IF ping # NONE THEN Smaller(ping + 1, MaxAge) ELSE NONE
    /\ UNCHANGED <<pc, ready, pass, open, reg, free, want, rbuf, held, proc, pipe, bps, spared,
                   msg>>
-----------------------------------------------------------------------------
Init ==
    /\ pc = "timers" /\ ready = {}
    /\ open = FALSE /\ reg = FALSE /\ free = FALSE /\ want = FALSE /\ rbuf = <<>>
    /\ delay = 0 /\ held = FALSE /\ proc = FALSE /\ pipe = FALSE
    /\ idle = 0 /\ ping = NONE /\ bps = 0 /\ spared = FALSE /\ msg = 0
    /\ pass = NoPass

\* What the loop does next; exactly one of these is enabled at each place,
\* except that any descriptor may be served first.
Loop ==
    \/ Check_Connections \/ Look_For_Buffers \/ Conn_Process_Buffer
    \/ Conn_Update_Read_Interest \/ Conn_Wait_For_Activity
    \/ Read_Request \/ Conn_Update_Read_Accounting
    \/ cb_Read_Resolver_Result \/ New_Connection \/ Served

Next == Loop \/ Killed \/ Remoded \/ Tick

Spec == Init /\ [][Next]_vars

\* select() blocks for at most a second, time passes, and a resolver ends (it has
\* a timeout, or its result is there from the start): select() reports its pipe.
FairSpec ==
    /\ Spec
    /\ WF_vars(Loop) /\ WF_vars(Tick)
    /\ SF_vars(Conn_Wait_For_Activity /\ "pipe" \in ready')
-----------------------------------------------------------------------------
(* Properties. *)

\* The places of the main loop.
Places == {"timers", "buffers", "pass", "interest", "select", "serve", "account"}

\* The variables keep their types: no time or counter leaves its range.
TypeOK ==
    /\ pc \in Places /\ ready \subseteq {"sock", "pipe", "listen"}
    /\ open \in BOOLEAN /\ reg \in BOOLEAN /\ want \in BOOLEAN /\ held \in BOOLEAN
    /\ proc \in BOOLEAN /\ pipe \in BOOLEAN /\ free \in BOOLEAN /\ spared \in BOOLEAN
    /\ rbuf \in Seq(Byte)
    /\ delay \in Nat /\ idle \in 0..MaxAge /\ ping \in {NONE} \cup 0..MaxAge
    /\ bps \in 0..maxbps /\ msg \in 0..1
    /\ pass \in Passes

\* The read buffer stays below twice READBUFFER_LEN, the limit the comment in
\* Read_Request() derives, whatever is read during penalties.
ReadBufferBound == Len(rbuf) < 2 * READBUFFER_LEN

\* A closed slot keeps nothing of the connection: no interest in its socket,
\* no data, no penalty, no lookup; the count of bytes alone may be left over, and
\* New_Connection() clears it.
ClosedClean ==
    ~open => ~want /\ ~reg /\ rbuf = <<>> /\ delay = 0 /\ ~proc /\ ping = NONE

\* A lookup in progress always has its pipe, so its result will be seen.
LookupHasPipe == proc => open /\ pipe

\* The slot of the connection is sound at every place of the loop: the buffer is
\* bounded, a lookup has its pipe, and a close leaves nothing to the next user of
\* the slot, whichever step closed it (Read_Request(), Conn_Close()).
SlotSound == TypeOK /\ ReadBufferBound /\ ClosedClean /\ LookupHasPipe

\* A line is handled only when no penalty is left, wherever in the pass the
\* penalty was added, and only on an open connection.
PenaltyServed == [][msg' # msg => open /\ delay = 0]_vars

\* When the loop waits in select() and a line of an open connection can be found in
\* its buffer, the connection is in penalty, except in three cases: two bytes at
\* most are left, for which the pass does not call Throttle_Connection(); the call
\* added nothing, for a server, a service or a user with mode F, or because
\* MaxPenaltyTime is 0.  (A line behind a NUL is never found: InputServed.)
WaitingLineHeld ==
    (pc = "select" /\ open /\ HasLine(rbuf)) => held \/ Len(rbuf) <= 2 \/ spared

\* Input does not wait for ever: when an end of line is in the read buffer, or so
\* much that the reading stopped (COMMAND_LEN bytes or more), a line is handled or
\* the connection is closed, whatever the client is and whatever its penalty.  A
\* line behind a NUL, or a full buffer without an end of line, is ended by the
\* timeouts only.
InputServed ==
    \A m \in 0..1 :
        (msg = m /\ (Len(rbuf) >= COMMAND_LEN \/ \E i \in 1..Len(rbuf) : rbuf[i] = "e"))
            ~> (~open \/ msg # m)

\* An unregistered connection is registered or closed in the end.
UnregisteredEnds == (open /\ ~reg) ~> (reg \/ ~open)

\* Every resolver pipe is closed in the end, also when its connection was
\* closed before the result came.
PipeClosed == pipe ~> ~pipe

\* No new data is read during the penalty time (comment of Conn_SetPenalty()).
\* The code does not keep this: see the README.
NoReadInPenalty == [][Len(rbuf') > Len(rbuf) => delay = 0]_vars

\* Commands (not empty lines) are handled after the result of the resolver was read (comment in
\* cb_Read_Resolver_Result()).
\* The code does not keep this: see the README.
CommandsAfterLookup == [][msg' # msg /\ Len(rbuf') < Len(rbuf) - 1 => ~proc]_vars
=============================================================================
