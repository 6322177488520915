--------------------------------- MODULE Io ---------------------------------
(* The event layer of io.c with its select() back end, as operators on the    *)
(* record io of its static variables:                                         *)
(*   callback, what        the array io_events: function and wanted events    *)
(*   readers, writers      the two fd_sets                                    *)
(*   select_maxfd          the largest descriptor select() looks at           *)
(*   library_initialized                                                      *)
(* io_dispatch_select() is a loop with a callback in every turn; Ready is its *)
(* snapshot of the fd_sets, taken by select() and not refreshed by callbacks. *)
EXTENDS Integers, FiniteSets, FiniteSetsExt

CONSTANTS
    Fd,            \* descriptors the process may have
    FD_SETSIZE     \* descriptors select() can handle

ASSUME IoAssumption == /\ Fd \subseteq Nat \ {0} /\ IsFiniteSet(Fd)
                       /\ FD_SETSIZE \in Nat

NULL == "NULL"
R == "IO_WANTREAD"
W == "IO_WANTWRITE"

io_none ==
    [callback |-> [f \in Fd |-> NULL], what |-> [f \in Fd |-> {}],
     readers |-> {}, writers |-> {}, select_maxfd |-> 0, library_initialized |-> FALSE]

\* the array of events and select_maxfd outlive a restart
io_library_init(io) ==
    IF io.library_initialized THEN io
    ELSE [io EXCEPT !.readers = {}, !.writers = {}, !.library_initialized = TRUE]

io_library_shutdown(io) ==
    [io EXCEPT !.readers = {}, !.writers = {}, !.library_initialized = FALSE]

\* The calls below act on every descriptor of a set: in the code they are loops of
\* calls for one descriptor each, which do not disturb each other.
Add(io, F, w) == [f \in Fd |-> IF f \in F THEN io.what[f] \cup w ELSE io.what[f]]
Del(io, F, w) == [f \in Fd |-> IF f \in F THEN io.what[f] \ w ELSE io.what[f]]

io_event_add(io, F, w) ==
    LET new == {f \in F : ~(w \subseteq io.what[f])}
    IN [io EXCEPT !.what = Add(io, new, w),
                  !.readers = IF R \in w THEN @ \cup new ELSE @,
                  !.writers = IF W \in w THEN @ \cup new ELSE @,
                  !.select_maxfd = Max({@} \cup new)]

io_event_del(io, F, w) ==
    LET old == {f \in F : w \cap io.what[f] # {}}
    IN [io EXCEPT !.what = Del(io, old, w),
                  !.readers = IF R \in w THEN @ \ old ELSE @,
                  !.writers = IF W \in w THEN @ \ old ELSE @]

Call(io, F, cb) == [f \in Fd |-> IF f \in F THEN cb ELSE io.callback[f]]

io_event_create(io, F, w, cb) ==
    io_event_add([io EXCEPT !.callback = Call(io, F, cb), !.what = Del(io, F, {R, W})], F, w)

\* io_event_create refuses a descriptor that select() cannot handle
io_event_fits(f) == f < FD_SETSIZE

io_close_select(io, F) ==
    LET left == {g \in Fd \ F : g < io.select_maxfd /\ io.callback[g] # NULL}
    IN [io EXCEPT !.readers = @ \ F, !.writers = @ \ F,
                  !.select_maxfd = IF @ \in F THEN Max({0} \cup left) ELSE @]

io_close(io, F) ==
    [io_close_select(io, F) EXCEPT !.callback = Call(io, F, NULL), !.what = Del(io, F, {R, W})]

\* what select() may report: a part of what is watched, up to select_maxfd
Watched(s, io) == {f \in s : f <= io.select_maxfd}
Ready(io) == [r : SUBSET Watched(io.readers, io), w : SUBSET Watched(io.writers, io)]

\* the number select() returns, and what the loop finds for descriptor f
fds_ready(s) == Cardinality(s.r) + Cardinality(s.w)
What(s, f) == (IF f \in s.r THEN {R} ELSE {}) \cup (IF f \in s.w THEN {W} ELSE {})
=============================================================================
