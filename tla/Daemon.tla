------------------------------- MODULE Daemon -------------------------------
(* The life of the daemon: main() of ngircd.c driving server_app.c, the main  *)
(* loop of conn.c with io_dispatch_select() below it, listening sockets,      *)
(* connections and resolver pipes as users of descriptors, signals and the    *)
(* operator commands DIE, RESTART and REHASH, shutdown and restart.           *)
(*   pc       the place in main() or in the main loop                         *)
(*   st       descriptors: what the system has open (os), the event layer     *)
(*            (io), My_Listeners, My_Connections[].sock and proc_stat (pipe); *)
(*            quit and restart, set by signals and commands; handlers, the    *)
(*            signals are caught; hup, a SIGHUP is in the signal pipe;        *)
(*            initialized, NGIRCd_Init has been done;                         *)
(*            history: note, clients with an unsent message of DIE, lost, one *)
(*            was never sent, closed, descriptors closed in this round,       *)
(*            leaked, pipes left open by a shutdown                           *)
(*   round    the snapshot of select(), the index and fds_ready of the loop   *)
(*   pidfile  whose process id is in the PID file                             *)
(*   code     how the process ended                                           *)
(* What clients send, buffers and timers are choices: ConnRead and ConnClose  *)
(* model them.  A new descriptor is any free number, as Winsock gives them.   *)
EXTENDS Io

CONSTANTS
    Port,                  \* a listening socket is wanted for each
    Conf_MaxConnections,   \* 0: no limit
    Faults,                \* calls to the system may fail
    Meddling               \* others may remove the PID file

ASSUME DaemonAssumption == /\ IsFiniteSet(Port) /\ Conf_MaxConnections \in Nat
                           /\ Faults \in BOOLEAN /\ Meddling \in BOOLEAN

VARIABLES pc, st, round, pidfile, code
vars == <<pc, st, round, pidfile, code>>

NONE == 0
Ok == IF Faults THEN BOOLEAN ELSE {TRUE}
NoRound == [r |-> {}, w |-> {}, i |-> 0, left |-> 0]
Nothing == [os |-> [f \in Fd |-> "free"], io |-> io_none, listeners |-> {}, sock |-> {},
            pipe |-> [f \in Fd |-> NONE], quit |-> FALSE, restart |-> FALSE,
            handlers |-> FALSE, hup |-> FALSE, note |-> {}, lost |-> FALSE, closed |-> {},
            leaked |-> {}, initialized |-> FALSE]
-----------------------------------------------------------------------------
(* Descriptors                                                                *)
FreeFds(s) == {f \in Fd : s.os[f] = "free"}
Open(s, F, kind) == [s EXCEPT !.os = [f \in Fd |-> IF f \in F THEN kind ELSE s.os[f]]]

\* close() and io_close() on the descriptors F
Close(s, F) == [Open(s, F, "free") EXCEPT !.closed = @ \cup F]
IoClose(s, F) == [Close(s, F) EXCEPT !.io = io_close(s.io, F)]
Watch(s, F, cb) == [s EXCEPT !.io = io_event_create(s.io, F, {R}, cb)]

\* My_Connections[] without C
Forget(s, C) ==
    [s EXCEPT !.sock = @ \ C, !.note = @ \ C,
              !.pipe = [c \in Fd |-> IF c \in C THEN NONE ELSE s.pipe[c]]]

\* what is left in a write buffer can be sent only if the socket is still open; the
\* pipe of a lookup is left to its callback
Conn_Close(s, C) ==
    Forget([IoClose(s, C) EXCEPT !.lost = @ \/ \E c \in C : c \in s.note /\ s.os[c] = "free"], C)
-----------------------------------------------------------------------------
(* Listening sockets: conn.c                                                  *)
\* the socket NewListener makes for each port, NONE if a call fails
Sockets(s) ==
    {got \in [Port -> FreeFds(s) \cup {NONE}] :
        /\ Faults \/ FreeFds(s) = {} \/ \A p \in Port : got[p] # NONE
        /\ \A p, q \in Port : p # q /\ got[p] # NONE => got[p] # got[q]}

\* a listener that cannot be registered is closed but stays in My_Listeners
Conn_InitListeners(s, got) ==
    LET new == {got[p] : p \in Port} \ {NONE}
        fit == {f \in new : io_event_fits(f)}
    IN [Watch(Open(s, fit, "listen"), fit, "cb_listen") EXCEPT !.listeners = @ \cup new]

Conn_ExitListeners(s) == [IoClose(s, s.listeners) EXCEPT !.listeners = {}]

Listening(s) == {f \in Fd : s.io.callback[f] = "cb_listen"}
-----------------------------------------------------------------------------
(* Callbacks: the states they may leave                                       *)
\* a resolver process for connection c: the read end of a pipe is watched, the write
\* end closed here; without a process or a pipe there is no lookup
Proc_Fork(s, c) ==
    LET ends == IF Cardinality(FreeFds(s)) >= 2 THEN {p \in FreeFds(s) : io_event_fits(p)} ELSE {}
    IN {[Watch(Open(s, {p}, "pipe"), {p}, "cb_Read_Resolver_Result") EXCEPT !.pipe[c] = p] :
            p \in ends}
       \cup (IF Faults \/ ends # FreeFds(s) \/ ends = {} THEN {s} ELSE {})

\* as many connections are open as MaxConnections allows
Crowded(s) == Conf_MaxConnections > 0 /\ Cardinality(s.sock) >= Conf_MaxConnections

\* Mutant of Refused: the accepted socket is left open when the limit is reached.
Refused_Open(s, f) == IF Crowded(s) THEN Open(s, {f}, "conn") ELSE s

\* an accepted socket that is refused is closed again
Refused(s, f) == s

\* accept() gives the socket f
New_Connection(s, f) ==
    LET new == [Watch(Open(s, {f}, "conn"), {f}, "cb_clientserver") EXCEPT !.sock = @ \cup {f}]
    IN IF Crowded(s) \/ ~io_event_fits(f)
       THEN {Refused(s, f)}
       ELSE Proc_Fork(new, f)
            \cup (IF Faults THEN {Refused(s, f), Conn_Close(new, {f})} ELSE {})

cb_listen(s) ==
    (IF Faults \/ FreeFds(s) = {} THEN {s} ELSE {})
    \cup UNION {New_Connection(s, f) : f \in FreeFds(s)}

\* the lookup of connection c is over; it may be banned now, or a write may fail
cb_Read_Resolver_Result(s, f) ==
    LET mine == {c \in s.sock : s.pipe[c] = f}
    IN IF mine = {} THEN {IoClose(s, {f})}
       ELSE LET c == Min(mine)
                read == [IoClose(s, {f}) EXCEPT !.pipe[c] = NONE]
            IN {read, Conn_Close(read, {c})}

\* the operator commands; a message of DIE goes to the buffers of all clients
IRC_DIE(s) == {[s EXCEPT !.quit = TRUE, !.note = n] : n \in {s.note, s.sock}}
IRC_RESTART(s) == {[s EXCEPT !.restart = TRUE]}
IRC_REHASH(s) == {[s EXCEPT !.hup = s.handlers]}

\* commands close any of the connections, or are one of the operator commands
Commands(s) ==
    {Conn_Close(s, gone) : gone \in SUBSET s.sock}
    \cup (IF s.sock = {} THEN {} ELSE IRC_DIE(s) \cup IRC_RESTART(s) \cup IRC_REHASH(s))

Handle_Write(s, f) ==
    IF f \in s.sock
    THEN {[s EXCEPT !.io = io_event_del(s.io, {f}, {W}), !.note = @ \ {f}], s, Conn_Close(s, {f})}
    ELSE {s}

cb_clientserver(s, f, what) ==
    IF f \notin s.sock THEN {IoClose(s, {f})}
    ELSE LET read == IF R \in what THEN Commands(s) ELSE {s}
         IN IF W \in what THEN UNION {Handle_Write(t, f) : t \in read} ELSE read

\* a valid configuration makes all listening sockets anew
Rehash(s) ==
    LET off == Conn_ExitListeners(s)
    IN {s} \cup {Conn_InitListeners(off, got) : got \in Sockets(off)}

Signal_Callback(s) == IF s.hup THEN Rehash([s EXCEPT !.hup = FALSE]) ELSE {s}

io_docallback(s, f, what) ==
    CASE s.io.callback[f] = NULL -> {s}
      [] s.io.callback[f] = "cb_listen" -> cb_listen(s)
      [] s.io.callback[f] = "cb_Read_Resolver_Result" -> cb_Read_Resolver_Result(s, f)
      [] s.io.callback[f] = "cb_clientserver" -> cb_clientserver(s, f, what)
      [] s.io.callback[f] = "Signal_Callback" -> Signal_Callback(s)
-----------------------------------------------------------------------------
(* main() and server_app.c                                                    *)
Goto(p) == pc' = p /\ UNCHANGED <<round, pidfile, code>>
Exit(c) == pc' = "exited" /\ code' = c /\ UNCHANGED <<st, round>>
Fatal(c) == Exit(c) /\ UNCHANGED pidfile

Init ==
    /\ pc = "winsock" /\ st = Nothing /\ round = NoRound /\ code = "run"
    /\ pidfile \in {"none", "other"}

\* a step of the start that succeeds or ends the process
Step(here, next) ==
    /\ pc = here
    /\ \/ Goto(next) /\ UNCHANGED st
       \/ Faults /\ Fatal(here)

win32_main == Step("winsock", "load")
host_load_modules == Step("load", "wire")
host_wire_modules == Step("wire", "create")
\* the command line, server_app_create and server_app_start
main_create == Step("create", "top")

\* Mutant of Top: the flags are reset before they are looked at.
Top_Reset ==
    /\ pc = "top"
    /\ st' = [st EXCEPT !.quit = FALSE, !.restart = FALSE]
    /\ Goto(IF st'.quit THEN "stop" ELSE "preloop")

\* while (!NGIRCd_SignalQuit)
Top ==
    /\ pc = "top"
    /\ IF st.quit
       THEN Goto("stop") /\ UNCHANGED st
       ELSE Goto("preloop") /\ st' = [st EXCEPT !.restart = FALSE, !.quit = FALSE]

\* start time, random numbers, Conf_Init, logging
init_preloop == Step("preloop", "daemon")

\* chroot, user and group, once in the life of the process
NGIRCd_Init ==
    /\ pc = "daemon"
    /\ \/ Goto("runtime_loop") /\ st' = [st EXCEPT !.initialized = TRUE]
       \/ Faults /\ ~st.initialized /\ Fatal("daemon")

\* the signal pipe f: its write end, which nothing watches, is not among Fd
Signals_Init(s, f) ==
    [Watch(Open(s, {f}, "signal"), {f}, "Signal_Callback") EXCEPT !.handlers = TRUE]

Signals_Exit(s) ==
    [Close(s, {f \in Fd : s.os[f] = "signal"}) EXCEPT !.handlers = FALSE, !.hup = FALSE]

Conn_Init(s) == [s EXCEPT !.sock = {}, !.pipe = [f \in Fd |-> NONE], !.listeners = {}]

init_runtime_loop ==
    /\ pc = "runtime_loop"
    /\ \/ \E f \in FreeFds(st) :
             /\ io_event_fits(f)
             /\ st' = Conn_Init(Signals_Init([st EXCEPT !.io = io_library_init(@)], f))
             /\ Goto("listeners")
       \/ (Faults \/ \A f \in FreeFds(st) : ~io_event_fits(f)) /\ Fatal("runtime_loop")

\* without a single listener the PID file is deleted, whoever wrote it
init_listeners ==
    /\ pc = "listeners"
    /\ \E got \in Sockets(st) :
          LET s == Conn_InitListeners(st, got)
          IN IF Listening(s) # {}
             THEN st' = s /\ Goto("pidfile")
             ELSE Exit("listeners") /\ pidfile' = "none"

create_pidfile ==
    /\ pc = "pidfile"
    /\ \E ok \in Ok :
          IF ok /\ pidfile = "none"
          THEN pidfile' = "own" /\ pc' = "loop" /\ UNCHANGED <<st, round, code>>
          ELSE Fatal("pidfile")

Conn_Exit(s) ==
    LET t == Conn_Close(Conn_ExitListeners(s), s.sock)
    IN [t EXCEPT !.io = io_library_shutdown(@)]

Conn_CloseAllSockets(s) == Close(s, s.sock)

shutdown_runtime ==
    /\ pc = "shutdown"
    /\ st' = [Signals_Exit(Conn_Exit(Conn_ExitListeners(Conn_CloseAllSockets(st))))
                 EXCEPT !.leaked = {f \in Fd : st.os[f] = "pipe"}]
    /\ Goto("shutdown_loop")

shutdown_runtime_loop ==
    /\ pc = "shutdown_loop"
    /\ st' = [st EXCEPT !.io = io_library_shutdown(@), !.closed = {}]
    /\ Goto("top")

\* delete_pidfile; unlink() may fail
Stop ==
    /\ pc = "stop"
    /\ \E ok \in Ok : pidfile' = IF ok THEN "none" ELSE pidfile
    /\ Exit("ok")
-----------------------------------------------------------------------------
(* Conn_Handler                                                               *)
\* flags, timers and the commands left in read buffers
Loop ==
    /\ pc = "loop"
    /\ round' = NoRound /\ UNCHANGED <<pidfile, code>>
    /\ IF st.quit \/ st.restart
       THEN pc' = "shutdown" /\ st' = [st EXCEPT !.closed = {}]
       ELSE pc' = "interest" /\ \E s \in Commands(st) : st' = [s EXCEPT !.closed = {}]

\* connections with something to write, and of those without a lookup or a
\* penalty the ones with a full buffer
Conn_Update_Write_Interest(s, wbuf) == [s EXCEPT !.io = io_event_add(@, wbuf, {W})]

Conn_Update_Read_Interest(s, free, full) ==
    [s EXCEPT !.io = io_event_add(io_event_del(@, full, {R}), free \ full, {R})]

Interest ==
    /\ pc = "interest"
    /\ \E wbuf \in SUBSET st.sock,
          free \in SUBSET {c \in st.sock : st.pipe[c] = NONE} :
          \E full \in SUBSET free :
             /\ st.note \subseteq wbuf
             /\ st' = Conn_Update_Read_Interest(Conn_Update_Write_Interest(st, wbuf), free, full)
    /\ Goto("select")

\* select() fails on a descriptor that is not open, and that ends the daemon
Select ==
    /\ pc = "select"
    /\ IF (st.io.readers \cup st.io.writers) \cap FreeFds(st) # {}
       THEN Fatal("select")
       ELSE \E s \in Ready(st.io) :
              /\ pc' = IF fds_ready(s) = 0 THEN "loop" ELSE "dispatch"
              /\ round' = [r |-> s.r, w |-> s.w, i |-> 0, left |-> fds_ready(s)]
              /\ UNCHANGED <<st, pidfile, code>>

\* fds_ready counts a descriptor once for reading and once for writing
Remaining(f) == round.left - Cardinality(What(round, f))

\* Mutant of Done: the last event is left to the next round.
Done_Early(left) == left <= 1

Done(left) == left <= 0

\* a turn of the loop of io_dispatch_select for the next descriptor reported
Dispatch ==
    /\ pc = "dispatch"
    /\ LET todo == {f \in round.r \cup round.w : f > round.i /\ f <= st.io.select_maxfd}
           f == Min(todo)
       IN IF todo = {} THEN Goto("loop") /\ UNCHANGED st
          ELSE /\ \E s \in io_docallback(st, f, What(round, f)) : st' = s
               /\ round' = [round EXCEPT !.i = f, !.left = Remaining(f)]
               /\ pc' = IF Done(Remaining(f)) THEN "loop" ELSE "dispatch"
               /\ UNCHANGED <<pidfile, code>>
-----------------------------------------------------------------------------
(* Signals and the world                                                      *)
Running == pc # "exited"

\* SIGTERM; without a handler the process is gone, its PID file is not
Signal_Quit ==
    /\ Running
    /\ IF st.handlers THEN st' = [st EXCEPT !.quit = TRUE] /\ UNCHANGED <<pc, round, pidfile, code>>
       ELSE Fatal("killed")

Signal_Hup ==
    /\ Running /\ st.handlers /\ ~st.hup
    /\ st' = [st EXCEPT !.hup = TRUE] /\ UNCHANGED <<pc, round, pidfile, code>>

\* someone removes the PID file; only create_pidfile would notice
Unlinked ==
    /\ Meddling /\ pc = "pidfile"
    /\ pidfile' = "none" /\ UNCHANGED <<pc, st, round, code>>

\* the server is started again; the file of the ended process is that of another
Rerun ==
    /\ ~Running
    /\ pc' = "winsock" /\ st' = Nothing /\ round' = NoRound /\ code' = "run"
    /\ pidfile' = IF pidfile = "own" THEN "other" ELSE pidfile

Main ==
    \/ win32_main \/ host_load_modules \/ host_wire_modules \/ main_create
    \/ Top \/ init_preloop \/ NGIRCd_Init \/ init_runtime_loop \/ init_listeners
    \/ create_pidfile \/ shutdown_runtime \/ shutdown_runtime_loop \/ Stop
    \/ Loop \/ Interest \/ Select \/ Dispatch

Next == Main \/ Signal_Quit \/ Signal_Hup \/ Unlinked \/ Rerun

Spec == Init /\ [][Next]_vars
-----------------------------------------------------------------------------
(* What the daemon promises                                                   *)
Kinds == {"free", "signal", "listen", "conn", "pipe"}
Callbacks == {NULL, "cb_listen", "cb_clientserver", "cb_Read_Resolver_Result", "Signal_Callback"}

\* The variables have their types.
TypeOK ==
    /\ st.os \in [Fd -> Kinds]
    /\ st.io.callback \in [Fd -> Callbacks] /\ st.io.what \in [Fd -> SUBSET {R, W}]
    /\ st.io.select_maxfd \in Fd \cup {0}
    /\ st.listeners \cup st.sock \cup st.note \cup st.closed \subseteq Fd
    /\ st.pipe \in [Fd -> Fd \cup {NONE}]
    /\ round.i \in Fd \cup {0} /\ round.left \in 0 .. 2 * Cardinality(Fd)
    /\ pidfile \in {"none", "own", "other"}

Serving == pc \in {"pidfile", "loop", "interest", "select", "dispatch"}

\* select() is asked for exactly the events that io_events records for the open
\* descriptors, and none is above select_maxfd: a descriptor closed without
\* io_close() would end the daemon, one above the maximum would never be served
\* (io.c).  The pipe of a lookup that a restart interrupts is left out: nothing
\* watches it any more.
WatchExact ==
    LET live == {f \in Fd \ st.leaked : st.os[f] # "free"}
    IN Serving => /\ st.io.readers = {f \in live : R \in st.io.what[f]}
                  /\ st.io.writers = {f \in live : W \in st.io.what[f]}
                  /\ \A f \in st.io.readers \cup st.io.writers : f <= st.io.select_maxfd

\* Every descriptor has one owner that will close it: a socket is a connection of
\* the pool, a listener is in My_Listeners, a pipe is watched by the resolver
\* callback; and no owner keeps a number that has become something else, so that
\* Conn_ExitListeners() and Proc_Close() close what they mean to (conn.c, proc.c).
OneOwner ==
    Serving => /\ st.sock = {f \in Fd : st.os[f] = "conn"}
               /\ {f \in Fd : st.os[f] = "listen"} \subseteq st.listeners
               /\ \A f \in st.listeners : st.os[f] \in {"listen", "free"}
               /\ \A f \in Fd \ st.leaked : st.os[f] = "pipe" =>
                     st.io.callback[f] = "cb_Read_Resolver_Result" /\ f \in st.io.readers
               /\ \A c \in st.sock : st.pipe[c] # NONE =>
                     /\ st.os[st.pipe[c]] = "pipe"
                     /\ \A e \in st.sock \ {c} : st.pipe[e] # st.pipe[c]

\* A round of dispatch serves every descriptor that select() reported, unless a
\* callback of the same round closed it: neither fds_ready nor a select_maxfd that
\* shrinks during the loop ends it too early (io_dispatch_select).
RoundServes ==
    pc = "loop" => \A f \in round.r \cup round.w : f <= round.i \/ f \in st.closed

\* An orderly end leaves no connection, no listener and nothing to select(), also
\* before the next start in the same process (Conn_Exit, server_app.c).  What may
\* stay open is the pipe of a lookup that has not answered yet: Conn_Exit() closes
\* the connection and io_library_shutdown() forgets the pipe, and nobody closes it.
CleanEnd ==
    pc \in {"shutdown_loop", "top", "stop"} =>
        /\ st.sock = {} /\ st.listeners = {} /\ st.io.readers = {} /\ st.io.writers = {}
        /\ \A f \in Fd : st.os[f] \in {"free", "pipe"}

\* The descriptors are sound through faults, signals, restarts and numbers used again:
\* watched exactly, with one owner each, and at an orderly end all given back but the
\* pipes of the lookups still running.
DescriptorsSound == TypeOK /\ WatchExact /\ OneOwner /\ CleanEnd

\* A request to quit is never forgotten, also when it comes while a restart shuts the
\* server down and main() is about to reset its flags for the next pass: only the end
\* of the process answers it (main, Conn_Handler, Signals_Exit).
QuitKept == [][st.quit /\ Running => st'.quit]_vars

\* RESTART starts the server again: the process does not end because of the PID
\* file it has written itself (Commands.txt: "Restart the server.").
RestartServes == ~(code = "pidfile" /\ pidfile = "own")

\* The message of DIE reaches every client that is connected (Commands.txt: it "is
\* sent to each client connected to this server before all connections are closed").
\* The code does not keep this: see the README.
DieMessageSent == ~st.lost
=============================================================================
