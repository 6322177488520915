---------------------------- MODULE DaemonProofs ----------------------------
(***************************************************************************)
(* Proofs about Daemon.  The inductive invariant says of every descriptor, *)
(* in every phase from the start to the end of the process, what is open,  *)
(* whose it is, which callback serves it and what select() is asked for;   *)
(* and of a round of dispatch, which of the descriptors reported are left. *)
(***************************************************************************)
EXTENDS Daemon, InductionFacts, TLAPS

IoState == [callback : [Fd -> Callbacks], what : [Fd -> SUBSET {R, W}],
            readers : SUBSET Fd, writers : SUBSET Fd, select_maxfd : Fd \cup {0},
            library_initialized : BOOLEAN]
State == [os : [Fd -> Kinds], io : IoState, listeners : SUBSET Fd, sock : SUBSET Fd,
          pipe : [Fd -> Fd \cup {NONE}], quit : BOOLEAN, restart : BOOLEAN,
          handlers : BOOLEAN, hup : BOOLEAN, note : SUBSET Fd, lost : BOOLEAN,
          closed : SUBSET Fd, leaked : SUBSET Fd, initialized : BOOLEAN]

\* The callback of an open descriptor is the one for its kind, and only a signal pipe
\* may leave its callback behind.  A pipe that a restart left open stays open.
Kept(s) ==
    /\ \A f \in s.leaked : s.os[f] = "pipe"
    /\ \A f \in Fd : /\ s.io.callback[f] = "cb_listen" <=> s.os[f] = "listen"
                     /\ s.io.callback[f] = "cb_clientserver" <=> s.os[f] = "conn"
                     /\ s.io.callback[f] = "cb_Read_Resolver_Result" <=> s.os[f] = "pipe"
                     /\ s.os[f] = "signal" => s.io.callback[f] = "Signal_Callback"
                     /\ s.os[f] # "free" => io_event_fits(f)

\* select() is asked for what is recorded of the descriptors that are open.
Live(s) == {f \in Fd \ s.leaked : s.os[f] # "free"}
Asked(s) ==
    /\ \A f \in Fd : /\ f \in s.io.readers <=> f \in Live(s) /\ R \in s.io.what[f]
                     /\ f \in s.io.writers <=> f \in Live(s) /\ W \in s.io.what[f]
                     /\ f \in Live(s) => f <= s.io.select_maxfd
                     /\ f \in Live(s) /\ s.os[f] = "pipe" => f \in s.io.readers

\* Every descriptor has its owner.
Owned(s) ==
    /\ \A f \in Fd : f \in s.sock <=> s.os[f] = "conn"
    /\ \A f \in Fd : s.os[f] = "listen" => f \in s.listeners
    /\ \A f \in s.listeners : s.os[f] = "listen" \/ ~io_event_fits(f)
    /\ \A c \in Fd : s.pipe[c] # NONE => c \in s.sock /\ s.os[s.pipe[c]] = "pipe"
    /\ \A c, e \in Fd : s.pipe[c] # NONE /\ s.pipe[c] = s.pipe[e] => c = e

Good == {s \in State : Kept(s) /\ Asked(s) /\ Owned(s)}

\* Nothing is open but the pipes left behind.
Idle(s) == s.listeners = {} /\ \A f \in Fd : s.os[f] # "free" => f \in s.leaked

\* A descriptor that the loop of a round will come to.
Attended(s, f) == s.io.callback[f] # NULL /\ f <= s.io.select_maxfd

\* What a callback, or several, may do to the descriptors of a round.
During(s, t) ==
    /\ t \in Good /\ t.leaked = s.leaked /\ (s.quit => t.quit)
    /\ \A f \in Fd : f \in s.closed \/ Attended(s, f) => f \in t.closed \/ Attended(t, f)
    /\ s.closed \subseteq t.closed

Rest(S, i) == {f \in S : f > i}

Starting == {"winsock", "load", "wire", "create", "top", "preloop", "daemon", "runtime_loop"}
Ending == {"shutdown_loop", "stop"}
IInv ==
    /\ st \in Good
    /\ pc \in Starting \cup Ending => Idle(st)
    /\ pidfile \in {"none", "own", "other"}
    /\ pc \notin {"dispatch", "loop", "exited"} => round = NoRound
    /\ round \in [r : SUBSET Fd, w : SUBSET Fd, i : Fd \cup {0}, left : Nat]
    /\ round.left = Cardinality(Rest(round.r, round.i)) + Cardinality(Rest(round.w, round.i))
    /\ pc \in {"dispatch", "loop"} => 
          \A f \in Rest(round.r \cup round.w, round.i) :
             f \notin st.leaked /\ (f \in st.closed \/ (pc = "dispatch" /\ Attended(st, f)))

-----------------------------------------------------------------------------
(* The event layer                                                         *)
LEMMA IoFields ==
    ASSUME NEW io \in IoState
    PROVE  /\ io.callback \in [Fd -> Callbacks] /\ io.what \in [Fd -> SUBSET {R, W}]
           /\ io.readers \subseteq Fd /\ io.writers \subseteq Fd
           /\ io.select_maxfd \in Fd \cup {0} /\ io.library_initialized \in BOOLEAN
BY DEF IoState

LEMMA FdNat == Fd \subseteq Nat /\ \A m \in Fd \cup {0} : m \in Nat
BY IoAssumption

\* A maximum over descriptors is one of them, or 0.
LEMMA MaxFd ==
    ASSUME NEW F \in SUBSET Fd, NEW m \in Fd \cup {0}
    PROVE  /\ Max({m} \cup F) \in F \cup {m} /\ Max({m} \cup F) >= m
           /\ \A f \in F : f <= Max({m} \cup F)
           /\ Max({m} \cup F) \in Nat /\ m \in Nat
<1> DEFINE S == {m} \cup F
<1>1. S \in SUBSET Nat /\ S # {}
  BY IoAssumption
<1>2. IsFiniteSet(S)
  <2>1. IsFiniteSet(Fd)
    BY IoAssumption
  <2>2. IsFiniteSet(F)
    BY <2>1, FS_Subset
  <2>3. S = F \cup {m}
    OBVIOUS
  <2> QED BY <2>2, <2>3, FS_AddElement
<1> HIDE DEF S
<1>3. Max(S) \in S /\ \A x \in S : Max(S) >= x
  BY <1>1, <1>2, MaxNatural
<1> QED BY <1>1, <1>3 DEF S

\* io_close(): nothing is asked of F any more, and select_maxfd stays above all the
\* descriptors that have a callback.
LEMMA IoShut ==
    ASSUME NEW io \in IoState, NEW F \in SUBSET Fd
    PROVE  LET n == io_close(io, F)
           IN /\ n \in IoState
              /\ \A f \in Fd : /\ n.callback[f] = IF f \in F THEN NULL ELSE io.callback[f]
                               /\ n.what[f] = IF f \in F THEN {} ELSE io.what[f]
              /\ n.readers = io.readers \ F /\ n.writers = io.writers \ F
              /\ \A f \in Fd \ F : io.callback[f] # NULL /\ f <= io.select_maxfd =>
                                      f <= n.select_maxfd
<1> DEFINE n == io_close(io, F)
           left == {g \in Fd \ F : g < io.select_maxfd /\ io.callback[g] # NULL}
           max == IF io.select_maxfd \in F THEN Max({0} \cup left) ELSE io.select_maxfd
           cb == Call(io, F, NULL)
           wh == Del(io, F, {R, W})
<1>1. /\ io.callback \in [Fd -> Callbacks] /\ io.what \in [Fd -> SUBSET {R, W}]
      /\ io.readers \subseteq Fd /\ io.writers \subseteq Fd
      /\ io.select_maxfd \in Fd \cup {0} /\ io.library_initialized \in BOOLEAN
  BY IoFields
<1>2. cb \in [Fd -> Callbacks] /\ \A f \in Fd : cb[f] = IF f \in F THEN NULL ELSE io.callback[f]
  BY <1>1 DEF Call, Callbacks
<1>3. wh \in [Fd -> SUBSET {R, W}] /\ \A f \in Fd : wh[f] = IF f \in F THEN {} ELSE io.what[f]
  BY <1>1, Zenon DEF Del
<1>4. max \in Fd \cup {0}
      /\ \A f \in Fd \ F : io.callback[f] # NULL /\ f <= io.select_maxfd => f <= max
  <2>1. /\ Max({0} \cup left) \in left \cup {0}
        /\ \A f \in left : f <= Max({0} \cup left)
    <3>1. left \in SUBSET Fd
      OBVIOUS
    <3> HIDE DEF left
    <3> QED BY <3>1, MaxFd, Zenon
  <2>2. Fd \subseteq Nat
    BY IoAssumption
  <2>3. ASSUME io.select_maxfd \in F, NEW f \in Fd \ F,
               io.callback[f] # NULL, f <= io.select_maxfd
        PROVE  f \in left
    <3>1. f \in Nat /\ io.select_maxfd \in Nat /\ f # io.select_maxfd
      BY <1>1, <2>2, <2>3, Zenon
    <3>2. f < io.select_maxfd
      BY <2>3, <3>1
    <3> QED BY <2>3, <3>2
  <2> HIDE DEF left
  <2>4. left \subseteq Fd
    BY DEF left
  <2> QED BY <1>1, <2>1, <2>3, <2>4, Zenon
<1> HIDE DEF left, max, cb, wh
<1> DEFINE sel == [io EXCEPT !.readers = io.readers \ F, !.writers = io.writers \ F,
                             !.select_maxfd = max]
<1>5. n = [sel EXCEPT !.callback = cb, !.what = wh]
  BY Zenon DEF io_close, io_close_select, left, max, cb, wh
<1>6. /\ sel \in IoState /\ sel.readers = io.readers \ F /\ sel.writers = io.writers \ F
      /\ sel.select_maxfd = max
  BY <1>1, <1>4, Zenon DEF IoState
<1> HIDE DEF n, sel
<1>7. /\ n \in IoState /\ n.callback = cb /\ n.what = wh /\ n.readers = io.readers \ F
      /\ n.writers = io.writers \ F /\ n.select_maxfd = max
  BY <1>2, <1>3, <1>5, <1>6, Zenon DEF IoState
<1> QED BY <1>2, <1>3, <1>4, <1>7 DEF n

\* io_event_create() for reading.
LEMMA IoMade ==
    ASSUME NEW io \in IoState, NEW F \in SUBSET Fd, NEW cb \in Callbacks
    PROVE  LET n == io_event_create(io, F, {R}, cb)
           IN /\ n \in IoState
              /\ \A f \in Fd : /\ n.callback[f] = IF f \in F THEN cb ELSE io.callback[f]
                               /\ n.what[f] = IF f \in F THEN {R} ELSE io.what[f]
              /\ n.readers = io.readers \cup F /\ n.writers = io.writers
              /\ n.select_maxfd >= io.select_maxfd
              /\ \A f \in F : f <= n.select_maxfd
<1> DEFINE n == io_event_create(io, F, {R}, cb)
           call == Call(io, F, cb)
           del == Del(io, F, {R, W})
           mid == [io EXCEPT !.callback = call, !.what = del]
           new == {f \in F : ~({R} \subseteq mid.what[f])}
           add == Add(mid, new, {R})
           max == Max({io.select_maxfd} \cup F)
<1>1. /\ io.callback \in [Fd -> Callbacks] /\ io.what \in [Fd -> SUBSET {R, W}]
      /\ io.readers \subseteq Fd /\ io.writers \subseteq Fd
      /\ io.select_maxfd \in Fd \cup {0} /\ io.library_initialized \in BOOLEAN
  BY IoFields
<1>2. call \in [Fd -> Callbacks] /\ \A f \in Fd : call[f] = IF f \in F THEN cb ELSE io.callback[f]
  BY <1>1 DEF Call
<1>3. del \in [Fd -> SUBSET {R, W}] /\ \A f \in Fd : del[f] = IF f \in F THEN {} ELSE io.what[f]
  BY <1>1 DEF Del
<1> HIDE DEF call, del
<1>4. /\ mid \in IoState /\ mid.callback = call /\ mid.what = del /\ mid.readers = io.readers
      /\ mid.writers = io.writers /\ mid.select_maxfd = io.select_maxfd
  BY <1>1, <1>2, <1>3, Zenon DEF IoState
<1>5. n = io_event_add(mid, F, {R})
  BY DEF io_event_create, call, del
<1> HIDE DEF mid
<1>6. new = F
  BY <1>3, <1>4
<1>7. /\ add \in [Fd -> SUBSET {R, W}]
      /\ \A f \in Fd : add[f] = IF f \in F THEN {R} ELSE io.what[f]
  <2>1. \A f \in Fd : add[f] = IF f \in F THEN mid.what[f] \cup {R} ELSE mid.what[f]
    BY <1>6 DEF Add
  <2>2. \A f \in Fd : add[f] = IF f \in F THEN {R} ELSE io.what[f]
    BY <1>3, <1>4, <2>1, Zenon
  <2>3. add = [f \in Fd |-> add[f]]
    BY DEF Add
  <2> HIDE DEF add
  <2>4. \A f \in Fd : add[f] \in SUBSET {R, W}
    BY <1>1, <2>2
  <2> QED BY <2>2, <2>3, <2>4
<1>8. max \in Fd \cup {0} /\ max >= io.select_maxfd /\ \A f \in F : f <= max
  BY <1>1, MaxFd, Zenon
<1>9. R # W
  BY DEF R, W
<1>10. n = [mid EXCEPT !.what = add,
                       !.readers = IF R \in {R} THEN mid.readers \cup new ELSE mid.readers,
                       !.writers = IF W \in {R} THEN mid.writers \cup new ELSE mid.writers,
                       !.select_maxfd = Max({mid.select_maxfd} \cup new)]
  BY <1>5, Zenon DEF io_event_add
<1>11. /\ (IF R \in {R} THEN mid.readers \cup new ELSE mid.readers) = io.readers \cup F
       /\ (IF W \in {R} THEN mid.writers \cup new ELSE mid.writers) = io.writers
       /\ Max({mid.select_maxfd} \cup new) = max
  BY <1>4, <1>6, <1>9
<1> HIDE DEF n, add, max, new
<1>12. n = [mid EXCEPT !.what = add, !.readers = io.readers \cup F, !.writers = io.writers,
                       !.select_maxfd = max]
  BY <1>10, <1>11, Zenon
<1>13. /\ n \in IoState /\ n.callback = call /\ n.what = add /\ n.readers = io.readers \cup F
       /\ n.writers = io.writers /\ n.select_maxfd = max
  BY <1>1, <1>2, <1>4, <1>7, <1>8, <1>12, Zenon DEF IoState
<1> QED BY <1>2, <1>7, <1>8, <1>13, Zenon DEF n

\* io_event_add() and io_event_del() for one of the two events.
Added(io, F, x, n) ==
    /\ n \in IoState /\ n.callback = io.callback
    /\ \A f \in Fd :
         /\ n.what[f] = IF f \in F THEN io.what[f] \cup {x} ELSE io.what[f]
         /\ f \in n.readers <=> f \in io.readers \/ (x = R /\ f \in F /\ R \notin io.what[f])
         /\ f \in n.writers <=> f \in io.writers \/ (x = W /\ f \in F /\ W \notin io.what[f])
         /\ f <= io.select_maxfd => f <= n.select_maxfd

Deleted(io, F, x, n) ==
    /\ n \in IoState /\ n.callback = io.callback /\ n.select_maxfd = io.select_maxfd
    /\ \A f \in Fd :
         /\ n.what[f] = IF f \in F THEN io.what[f] \ {x} ELSE io.what[f]
         /\ f \in n.readers <=> f \in io.readers /\ ~(x = R /\ f \in F /\ R \in io.what[f])
         /\ f \in n.writers <=> f \in io.writers /\ ~(x = W /\ f \in F /\ W \in io.what[f])

LEMMA IoAdd ==
    ASSUME NEW io \in IoState, NEW F \in SUBSET Fd, NEW x \in {R, W}
    PROVE  Added(io, F, x, io_event_add(io, F, {x}))
<1> DEFINE n == io_event_add(io, F, {x})
           new == {f \in F : ~({x} \subseteq io.what[f])}
           add == Add(io, new, {x})
           rd == IF R \in {x} THEN io.readers \cup new ELSE io.readers
           wr == IF W \in {x} THEN io.writers \cup new ELSE io.writers
           max == Max({io.select_maxfd} \cup new)
<1>1. /\ io.callback \in [Fd -> Callbacks] /\ io.what \in [Fd -> SUBSET {R, W}]
      /\ io.readers \subseteq Fd /\ io.writers \subseteq Fd
      /\ io.select_maxfd \in Fd \cup {0} /\ io.library_initialized \in BOOLEAN
  BY IoFields
<1>2. n = [io EXCEPT !.what = add, !.readers = rd, !.writers = wr, !.select_maxfd = max]
  BY Zenon DEF io_event_add
<1>3. add \in [Fd -> SUBSET {R, W}]
      /\ \A f \in Fd : add[f] = IF f \in F THEN io.what[f] \cup {x} ELSE io.what[f]
  BY <1>1, Zenon DEF Add
<1>4. rd \subseteq Fd /\ wr \subseteq Fd
  BY <1>1
<1>5. max \in Fd \cup {0} /\ max \in Nat /\ io.select_maxfd \in Nat /\ max >= io.select_maxfd
  <2>1. new \in SUBSET Fd
    OBVIOUS
  <2> HIDE DEF new
  <2> QED BY <1>1, <2>1, MaxFd, Zenon
<1>6. \A f \in Fd : /\ f \in rd <=> f \in io.readers \/ (x = R /\ f \in F /\ R \notin io.what[f])
                    /\ f \in wr <=> f \in io.writers \/ (x = W /\ f \in F /\ W \notin io.what[f])
  BY <1>1
<1> HIDE DEF n, new, add, rd, wr, max
<1>7. /\ n \in IoState /\ n.callback = io.callback /\ n.what = add /\ n.readers = rd
      /\ n.writers = wr /\ n.select_maxfd = max
  BY <1>1, <1>2, <1>3, <1>4, <1>5, Zenon DEF IoState
<1>8. \A f \in Fd : f <= io.select_maxfd => f <= max
  BY <1>5, IoAssumption
<1> QED BY <1>3, <1>6, <1>7, <1>8, Zenon DEF n, Added

LEMMA IoDel ==
    ASSUME NEW io \in IoState, NEW F \in SUBSET Fd, NEW x \in {R, W}
    PROVE  Deleted(io, F, x, io_event_del(io, F, {x}))
<1> DEFINE n == io_event_del(io, F, {x})
           old == {f \in F : {x} \cap io.what[f] # {}}
           del == Del(io, old, {x})
           rd == IF R \in {x} THEN io.readers \ old ELSE io.readers
           wr == IF W \in {x} THEN io.writers \ old ELSE io.writers
<1>1. /\ io.callback \in [Fd -> Callbacks] /\ io.what \in [Fd -> SUBSET {R, W}]
      /\ io.readers \subseteq Fd /\ io.writers \subseteq Fd
      /\ io.select_maxfd \in Fd \cup {0} /\ io.library_initialized \in BOOLEAN
  BY IoFields
<1>2. n = [io EXCEPT !.what = del, !.readers = rd, !.writers = wr]
  BY Zenon DEF io_event_del
<1>3. del \in [Fd -> SUBSET {R, W}]
      /\ \A f \in Fd : del[f] = IF f \in F THEN io.what[f] \ {x} ELSE io.what[f]
  BY <1>1, Zenon DEF Del
<1>4. rd \subseteq Fd /\ wr \subseteq Fd
  BY <1>1
<1>5. \A f \in Fd : /\ f \in rd <=> f \in io.readers /\ ~(x = R /\ f \in F /\ R \in io.what[f])
                    /\ f \in wr <=> f \in io.writers /\ ~(x = W /\ f \in F /\ W \in io.what[f])
  BY <1>1
<1> HIDE DEF n, old, del, rd, wr
<1>6. /\ n \in IoState /\ n.callback = io.callback /\ n.what = del /\ n.readers = rd
      /\ n.writers = wr /\ n.select_maxfd = io.select_maxfd
  BY <1>1, <1>2, <1>3, <1>4, Zenon DEF IoState
<1> QED BY <1>3, <1>5, <1>6, Zenon DEF n, Deleted

-----------------------------------------------------------------------------
(* Descriptors                                                             *)
LEMMA Fields ==
    ASSUME NEW s \in State
    PROVE  /\ s.os \in [Fd -> Kinds] /\ s.io \in IoState /\ s.listeners \subseteq Fd
           /\ s.sock \subseteq Fd /\ s.pipe \in [Fd -> Fd \cup {NONE}]
           /\ s.quit \in BOOLEAN /\ s.restart \in BOOLEAN /\ s.handlers \in BOOLEAN
           /\ s.hup \in BOOLEAN /\ s.note \subseteq Fd /\ s.lost \in BOOLEAN
           /\ s.closed \subseteq Fd /\ s.leaked \subseteq Fd /\ s.initialized \in BOOLEAN
BY DEF State

\* The parts of the state that opening and closing leave alone.
Alike(s, t) == /\ t.quit = s.quit /\ t.restart = s.restart /\ t.handlers = s.handlers
               /\ t.hup = s.hup /\ t.leaked = s.leaked /\ t.initialized = s.initialized

LEMMA Shut ==
    ASSUME NEW s \in State, NEW F \in SUBSET Fd
    PROVE  LET t == IoClose(s, F)
           IN /\ t \in State /\ Alike(s, t) /\ t.io = io_close(s.io, F)
              /\ t.closed = s.closed \cup F /\ t.listeners = s.listeners /\ t.sock = s.sock
              /\ t.pipe = s.pipe /\ t.note = s.note /\ t.lost = s.lost
              /\ \A f \in Fd : t.os[f] = IF f \in F THEN "free" ELSE s.os[f]
<1> DEFINE os == [f \in Fd |-> IF f \in F THEN "free" ELSE s.os[f]]
           io == io_close(s.io, F)
           a == [s EXCEPT !.os = os]
           b == [a EXCEPT !.closed = a.closed \cup F]
           t == [b EXCEPT !.io = io]
<1>1. IoClose(s, F) = t
  BY Zenon DEF IoClose, Close, Open
<1>2. /\ s.os \in [Fd -> Kinds] /\ s.io \in IoState /\ s.closed \subseteq Fd
  BY Fields
<1>3. os \in [Fd -> Kinds] /\ \A f \in Fd : os[f] = IF f \in F THEN "free" ELSE s.os[f]
  BY <1>2 DEF Kinds
<1>4. io \in IoState
  BY <1>2, IoShut
<1> HIDE DEF os, io
<1>5. a \in State /\ Alike(s, a) /\ a.os = os /\ a.io = s.io /\ a.closed = s.closed
      /\ a.listeners = s.listeners /\ a.sock = s.sock /\ a.pipe = s.pipe /\ a.note = s.note
      /\ a.lost = s.lost
  BY <1>3 DEF State, Alike
<1> HIDE DEF a
<1>6. b \in State /\ Alike(a, b) /\ b.os = os /\ b.io = s.io /\ b.closed = s.closed \cup F
      /\ b.listeners = s.listeners /\ b.sock = s.sock /\ b.pipe = s.pipe /\ b.note = s.note
      /\ b.lost = s.lost
  BY <1>2, <1>5 DEF State, Alike
<1> HIDE DEF b
<1>7. t \in State /\ Alike(b, t) /\ t.os = os /\ t.io = io /\ t.closed = s.closed \cup F
      /\ t.listeners = s.listeners /\ t.sock = s.sock /\ t.pipe = s.pipe /\ t.note = s.note
      /\ t.lost = s.lost
  BY <1>4, <1>6 DEF State, Alike
<1> HIDE DEF t
<1>8. Alike(s, t)
  BY <1>5, <1>6, <1>7 DEF Alike
<1> QED BY <1>1, <1>3, <1>7, <1>8 DEF io

\* Closing descriptors keeps the callbacks right and asks for nothing that is closed.
LEMMA Closing ==
    ASSUME NEW s \in State, Kept(s), Asked(s), NEW F \in SUBSET Fd, F \cap s.leaked = {}
    PROVE  LET t == IoClose(s, F)
           IN /\ t \in State /\ Alike(s, t) /\ Kept(t) /\ Asked(t)
              /\ t.closed = s.closed \cup F /\ t.listeners = s.listeners /\ t.sock = s.sock
              /\ t.pipe = s.pipe /\ t.note = s.note /\ t.lost = s.lost
              /\ \A f \in Fd : t.os[f] = IF f \in F THEN "free" ELSE s.os[f]
              /\ \A f \in Fd : f \in F \/ (Attended(s, f) => Attended(t, f))
<1> DEFINE t == IoClose(s, F)
<1>1. /\ t \in State /\ Alike(s, t) /\ t.io = io_close(s.io, F)
      /\ t.closed = s.closed \cup F /\ t.listeners = s.listeners /\ t.sock = s.sock
      /\ t.pipe = s.pipe /\ t.note = s.note /\ t.lost = s.lost
      /\ \A f \in Fd : t.os[f] = IF f \in F THEN "free" ELSE s.os[f]
  BY Shut
<1>2. s.io \in IoState /\ s.leaked \subseteq Fd
  BY Fields
<1> HIDE DEF t
<1>3. /\ \A f \in Fd : /\ t.io.callback[f] = IF f \in F THEN NULL ELSE s.io.callback[f]
                       /\ t.io.what[f] = IF f \in F THEN {} ELSE s.io.what[f]
      /\ t.io.readers = s.io.readers \ F /\ t.io.writers = s.io.writers \ F
      /\ \A f \in Fd \ F : s.io.callback[f] # NULL /\ f <= s.io.select_maxfd =>
                              f <= t.io.select_maxfd
  BY <1>1, <1>2, IoShut
<1>4. t.leaked = s.leaked
  BY <1>1 DEF Alike
<1>5. Kept(t)
  BY <1>1, <1>2, <1>3, <1>4 DEF Kept, NULL
<1>6. \A f \in Fd : f \in Live(t) <=> f \in Live(s) /\ f \notin F
  BY <1>1, <1>4 DEF Live
<1>7. \A f \in Fd : f \in Live(s) => s.io.callback[f] # NULL
  <2>1. s.os \in [Fd -> Kinds]
    BY Fields
  <2> QED BY <2>1 DEF Live, Kept, Kinds, NULL
<1>8. Asked(t)
  <2> SUFFICES ASSUME NEW f \in Fd
               PROVE  /\ f \in t.io.readers <=> f \in Live(t) /\ R \in t.io.what[f]
                      /\ f \in t.io.writers <=> f \in Live(t) /\ W \in t.io.what[f]
                      /\ f \in Live(t) => f <= t.io.select_maxfd
                      /\ f \in Live(t) /\ t.os[f] = "pipe" => f \in t.io.readers
    BY DEF Asked
  <2>1. /\ f \in s.io.readers <=> f \in Live(s) /\ R \in s.io.what[f]
        /\ f \in s.io.writers <=> f \in Live(s) /\ W \in s.io.what[f]
        /\ f \in Live(s) => f <= s.io.select_maxfd
        /\ f \in Live(s) /\ s.os[f] = "pipe" => f \in s.io.readers
    BY DEF Asked
  <2> QED BY <1>1, <1>3, <1>6, <1>7, <2>1
<1>9. \A f \in Fd : f \in F \/ (Attended(s, f) => Attended(t, f))
  BY <1>3 DEF Attended
<1> QED BY <1>1, <1>5, <1>8, <1>9 DEF t

\* A kind of descriptor and the callback that serves it.
Pairing == {<<"listen", "cb_listen">>, <<"conn", "cb_clientserver">>,
            <<"pipe", "cb_Read_Resolver_Result">>, <<"signal", "Signal_Callback">>}

LEMMA Opening ==
    ASSUME NEW s \in State, Kept(s), Asked(s), NEW F \in SUBSET FreeFds(s),
           \A f \in F : io_event_fits(f), NEW kind, NEW cb, <<kind, cb>> \in Pairing
    PROVE  LET t == Watch(Open(s, F, kind), F, cb)
           IN /\ t \in State /\ Alike(s, t) /\ Kept(t) /\ Asked(t)
              /\ t.closed = s.closed /\ t.listeners = s.listeners /\ t.sock = s.sock
              /\ t.pipe = s.pipe /\ t.note = s.note /\ t.lost = s.lost
              /\ \A f \in Fd : t.os[f] = IF f \in F THEN kind ELSE s.os[f]
              /\ \A f \in Fd : Attended(s, f) => Attended(t, f)
<1> DEFINE os == [f \in Fd |-> IF f \in F THEN kind ELSE s.os[f]]
           io == io_event_create(s.io, F, {R}, cb)
           a == [s EXCEPT !.os = os]
           t == [a EXCEPT !.io = io]
<1>1. /\ s.os \in [Fd -> Kinds] /\ s.io \in IoState /\ s.leaked \subseteq Fd
  BY Fields
<1>2. F \in SUBSET Fd /\ kind \in Kinds \ {"free"} /\ cb \in Callbacks \ {NULL}
  BY DEF FreeFds, Pairing, Kinds, Callbacks, NULL
<1>3. os \in [Fd -> Kinds] /\ \A f \in Fd : os[f] = IF f \in F THEN kind ELSE s.os[f]
  BY <1>1, <1>2
<1>4. /\ io \in IoState
      /\ \A f \in Fd : /\ io.callback[f] = IF f \in F THEN cb ELSE s.io.callback[f]
                       /\ io.what[f] = IF f \in F THEN {R} ELSE s.io.what[f]
      /\ io.readers = s.io.readers \cup F /\ io.writers = s.io.writers
      /\ io.select_maxfd >= s.io.select_maxfd
      /\ \A f \in F : f <= io.select_maxfd
  BY <1>1, <1>2, IoMade, Zenon
<1> HIDE DEF os, io
<1>5. a \in State /\ Alike(s, a) /\ a.os = os /\ a.io = s.io /\ a.closed = s.closed
      /\ a.listeners = s.listeners /\ a.sock = s.sock /\ a.pipe = s.pipe /\ a.note = s.note
      /\ a.lost = s.lost
  BY <1>3 DEF State, Alike
<1>6. Watch(Open(s, F, kind), F, cb) = t
  <2>1. Open(s, F, kind) = a
    BY Zenon DEF Open, os
  <2> HIDE DEF a
  <2> QED BY <1>5, <2>1 DEF Watch, io
<1> HIDE DEF a
<1>7. t \in State /\ Alike(a, t) /\ t.os = os /\ t.io = io /\ t.closed = s.closed
      /\ t.listeners = s.listeners /\ t.sock = s.sock /\ t.pipe = s.pipe /\ t.note = s.note
      /\ t.lost = s.lost
  BY <1>4, <1>5 DEF State, Alike
<1> HIDE DEF t
<1>8. Alike(s, t) /\ t.leaked = s.leaked
  BY <1>5, <1>7 DEF Alike
<1>9. \A f \in F : f \in Fd /\ s.os[f] = "free" /\ f \notin s.leaked
  BY <1>1 DEF FreeFds, Kept
<1>10. Kept(t)
  <2>1. \A f \in t.leaked : t.os[f] = "pipe"
    BY <1>1, <1>3, <1>7, <1>8, <1>9 DEF Kept
  <2> SUFFICES ASSUME NEW f \in Fd
               PROVE  /\ t.io.callback[f] = "cb_listen" <=> t.os[f] = "listen"
                      /\ t.io.callback[f] = "cb_clientserver" <=> t.os[f] = "conn"
                      /\ t.io.callback[f] = "cb_Read_Resolver_Result" <=> t.os[f] = "pipe"
                      /\ t.os[f] = "signal" => t.io.callback[f] = "Signal_Callback"
                      /\ t.os[f] # "free" => io_event_fits(f)
    BY <2>1 DEF Kept
  <2>2. CASE f \in F
    BY <1>3, <1>4, <1>7, <2>2 DEF Pairing
  <2>3. CASE f \notin F
    BY <1>3, <1>4, <1>7, <2>3 DEF Kept
  <2> QED BY <2>2, <2>3
<1>11. \A f \in Fd : f \in Live(t) <=> f \in Live(s) \/ f \in F
  BY <1>2, <1>3, <1>7, <1>8, <1>9 DEF Live
<1>12. \A f \in Fd : f <= s.io.select_maxfd => f <= t.io.select_maxfd
  <2>1. s.io.select_maxfd \in Fd \cup {0} /\ io.select_maxfd \in Fd \cup {0}
    BY <1>1, <1>4, IoFields
  <2>2. s.io.select_maxfd \in Nat /\ io.select_maxfd \in Nat /\ Fd \subseteq Nat
    BY <2>1, FdNat
  <2> QED BY <1>4, <1>7, <2>2
<1>13. Asked(t)
  <2> SUFFICES ASSUME NEW f \in Fd
               PROVE  /\ f \in t.io.readers <=> f \in Live(t) /\ R \in t.io.what[f]
                      /\ f \in t.io.writers <=> f \in Live(t) /\ W \in t.io.what[f]
                      /\ f \in Live(t) => f <= t.io.select_maxfd
                      /\ f \in Live(t) /\ t.os[f] = "pipe" => f \in t.io.readers
    BY DEF Asked
  <2>1. /\ f \in s.io.readers <=> f \in Live(s) /\ R \in s.io.what[f]
        /\ f \in s.io.writers <=> f \in Live(s) /\ W \in s.io.what[f]
        /\ f \in Live(s) => f <= s.io.select_maxfd
        /\ f \in Live(s) /\ s.os[f] = "pipe" => f \in s.io.readers
    BY DEF Asked
  <2>2. f \in F => f \notin Live(s)
    BY <1>9 DEF Live
  <2>3. R # W
    BY DEF R, W
  <2> QED BY <1>3, <1>4, <1>7, <1>11, <1>12, <2>1, <2>2, <2>3
<1>14. \A f \in Fd : Attended(s, f) => Attended(t, f)
  BY <1>2, <1>4, <1>7, <1>12 DEF Attended
<1> QED BY <1>3, <1>6, <1>7, <1>8, <1>10, <1>13, <1>14

-----------------------------------------------------------------------------
(* Connections and listening sockets                                       *)
LEMMA ConnClosed ==
    ASSUME NEW s \in State, NEW C \in SUBSET Fd
    PROVE  LET t == Conn_Close(s, C)
               u == IoClose(s, C)
           IN /\ t \in State /\ Alike(s, t) /\ t.io = u.io /\ t.os = u.os
              /\ t.closed = s.closed \cup C /\ t.listeners = s.listeners
              /\ t.sock = s.sock \ C
              /\ \A c \in Fd : t.pipe[c] = IF c \in C THEN NONE ELSE s.pipe[c]
<1> DEFINE u == IoClose(s, C)
           lost == u.lost \/ \E c \in C : c \in s.note /\ s.os[c] = "free"
           v == [u EXCEPT !.lost = lost]
           pipe == [c \in Fd |-> IF c \in C THEN NONE ELSE v.pipe[c]]
           t == [v EXCEPT !.sock = v.sock \ C, !.note = v.note \ C, !.pipe = pipe]
<1>1. Conn_Close(s, C) = t
  BY Zenon DEF Conn_Close, Forget
<1>2. /\ u \in State /\ Alike(s, u) /\ u.closed = s.closed \cup C
      /\ u.listeners = s.listeners /\ u.sock = s.sock /\ u.pipe = s.pipe
  BY Shut
<1>3. lost \in BOOLEAN
  BY <1>2, Fields
<1> HIDE DEF u, lost
<1>4. /\ v \in State /\ Alike(u, v) /\ v.closed = u.closed /\ v.listeners = u.listeners
      /\ v.sock = u.sock /\ v.pipe = u.pipe /\ v.io = u.io /\ v.os = u.os
  BY <1>2, <1>3 DEF State, Alike
<1> HIDE DEF v
<1>5. v.pipe \in [Fd -> Fd \cup {NONE}] /\ v.sock \subseteq Fd /\ v.note \subseteq Fd
  BY <1>4, Fields
<1>6. pipe \in [Fd -> Fd \cup {NONE}]
      /\ \A c \in Fd : pipe[c] = IF c \in C THEN NONE ELSE s.pipe[c]
  BY <1>2, <1>4, <1>5
<1> HIDE DEF pipe
<1>7. /\ t \in State /\ Alike(v, t) /\ t.closed = v.closed /\ t.listeners = v.listeners
      /\ t.sock = v.sock \ C /\ t.pipe = pipe /\ t.io = v.io /\ t.os = v.os
  BY <1>4, <1>5, <1>6, Zenon DEF State, Alike
<1> HIDE DEF t
<1>8. Alike(s, t)
  BY <1>2, <1>4, <1>7 DEF Alike
<1> QED BY <1>1, <1>2, <1>4, <1>6, <1>7, <1>8 DEF u

LEMMA GoodParts ==
    ASSUME NEW s \in Good
    PROVE  s \in State /\ Kept(s) /\ Asked(s) /\ Owned(s)
BY DEF Good

LEMMA DuringSelf ==
    ASSUME NEW s \in Good PROVE During(s, s)
BY DEF During

LEMMA DuringThen ==
    ASSUME NEW s, NEW t, NEW u, During(s, t), During(t, u) PROVE During(s, u)
BY DEF During

\* Conn_Close() of connections of the pool: their sockets are closed, and a lookup
\* that is under way keeps its pipe.
LEMMA ConnsClosed ==
    ASSUME NEW s \in Good, NEW C \in SUBSET s.sock
    PROVE  During(s, Conn_Close(s, C))
<1> DEFINE t == Conn_Close(s, C)
           u == IoClose(s, C)
<1>1. s \in State /\ Kept(s) /\ Asked(s) /\ Owned(s)
  BY GoodParts
<1>2. /\ s.sock \subseteq Fd /\ s.leaked \subseteq Fd /\ s.pipe \in [Fd -> Fd \cup {NONE}]
      /\ s.listeners \subseteq Fd
  BY <1>1, Fields
<1>3. C \in SUBSET Fd /\ C \cap s.leaked = {} /\ \A c \in C : s.os[c] = "conn"
  BY <1>1, <1>2 DEF Owned, Kept
<1>4. /\ t \in State /\ Alike(s, t) /\ t.io = u.io /\ t.os = u.os
      /\ t.closed = s.closed \cup C /\ t.listeners = s.listeners
      /\ t.sock = s.sock \ C
      /\ \A c \in Fd : t.pipe[c] = IF c \in C THEN NONE ELSE s.pipe[c]
  BY <1>1, <1>3, ConnClosed
<1>5. /\ Kept(u) /\ Asked(u) /\ Alike(s, u)
      /\ \A f \in Fd : u.os[f] = IF f \in C THEN "free" ELSE s.os[f]
      /\ \A f \in Fd : f \in C \/ (Attended(s, f) => Attended(u, f))
  BY <1>1, <1>3, Closing
<1> HIDE DEF t, u
<1>6. t.leaked = s.leaked /\ u.leaked = s.leaked /\ t.quit = s.quit
  BY <1>4, <1>5 DEF Alike
<1>7. Kept(t) /\ Asked(t)
  <2>1. Live(t) = Live(u)
    BY <1>4, <1>6 DEF Live
  <2> QED BY <1>4, <1>5, <1>6, <2>1 DEF Kept, Asked
<1>8. Owned(t)
  <2>1. \A f \in Fd : f \in t.sock <=> t.os[f] = "conn"
    BY <1>1, <1>4, <1>5 DEF Owned
  <2>2. \A f \in Fd : t.os[f] = "listen" => f \in t.listeners
    BY <1>1, <1>4, <1>5 DEF Owned
  <2>3. \A f \in t.listeners : t.os[f] = "listen" \/ ~io_event_fits(f)
    BY <1>1, <1>2, <1>3, <1>4, <1>5 DEF Owned, Kept
  <2>4. \A c \in Fd : t.pipe[c] # NONE => c \in t.sock /\ t.os[t.pipe[c]] = "pipe"
    BY <1>1, <1>2, <1>3, <1>4, <1>5 DEF Owned
  <2>5. \A c, e \in Fd : t.pipe[c] # NONE /\ t.pipe[c] = t.pipe[e] => c = e
    BY <1>1, <1>4 DEF Owned
  <2> QED BY <2>1, <2>2, <2>3, <2>4, <2>5 DEF Owned
<1>9. \A f \in Fd : Attended(u, f) <=> Attended(t, f)
  BY <1>4 DEF Attended
<1>10. During(s, t)
  BY <1>4, <1>5, <1>6, <1>7, <1>8, <1>9 DEF During, Good
<1> QED BY <1>10 DEF t

LEMMA ListenersExit ==
    ASSUME NEW s \in State
    PROVE  LET t == Conn_ExitListeners(s)
               u == IoClose(s, s.listeners)
           IN /\ t \in State /\ Alike(s, t) /\ t.io = u.io /\ t.os = u.os
              /\ t.closed = s.closed \cup s.listeners /\ t.listeners = {}
              /\ t.sock = s.sock /\ t.pipe = s.pipe
<1> DEFINE u == IoClose(s, s.listeners)
           t == [u EXCEPT !.listeners = {}]
<1>1. Conn_ExitListeners(s) = t
  BY Zenon DEF Conn_ExitListeners
<1>2. s.listeners \in SUBSET Fd
  BY Fields
<1>3. /\ u \in State /\ Alike(s, u) /\ u.closed = s.closed \cup s.listeners
      /\ u.sock = s.sock /\ u.pipe = s.pipe
  BY <1>2, Shut
<1> HIDE DEF u
<1>4. /\ t \in State /\ Alike(u, t) /\ t.io = u.io /\ t.os = u.os /\ t.closed = u.closed
      /\ t.listeners = {} /\ t.sock = u.sock /\ t.pipe = u.pipe
  BY <1>3 DEF State, Alike
<1> HIDE DEF t
<1>5. Alike(s, t)
  BY <1>3, <1>4 DEF Alike
<1> QED BY <1>1, <1>3, <1>4, <1>5 DEF u

\* Conn_ExitListeners(): no listener is left, and nothing else is closed.
LEMMA ListenersClosed ==
    ASSUME NEW s \in Good
    PROVE  During(s, Conn_ExitListeners(s))
<1> DEFINE t == Conn_ExitListeners(s)
           u == IoClose(s, s.listeners)
<1>1. s \in State /\ Kept(s) /\ Asked(s) /\ Owned(s)
  BY GoodParts
<1>2. /\ s.sock \subseteq Fd /\ s.leaked \subseteq Fd /\ s.pipe \in [Fd -> Fd \cup {NONE}]
      /\ s.listeners \in SUBSET Fd
  BY <1>1, Fields
<1>3. \A f \in s.listeners : f \in Fd /\ s.os[f] # "conn" /\ s.os[f] # "pipe"
  BY <1>1, <1>2 DEF Owned, Kept
<1>4. s.listeners \cap s.leaked = {}
  BY <1>1, <1>3 DEF Kept
<1>5. /\ t \in State /\ Alike(s, t) /\ t.io = u.io /\ t.os = u.os
      /\ t.closed = s.closed \cup s.listeners /\ t.listeners = {}
      /\ t.sock = s.sock /\ t.pipe = s.pipe
  BY <1>1, ListenersExit
<1>6. /\ Kept(u) /\ Asked(u) /\ Alike(s, u)
      /\ \A f \in Fd : u.os[f] = IF f \in s.listeners THEN "free" ELSE s.os[f]
      /\ \A f \in Fd : f \in s.listeners \/ (Attended(s, f) => Attended(u, f))
  BY <1>1, <1>2, <1>4, Closing
<1> HIDE DEF t, u
<1>7. t.leaked = s.leaked /\ u.leaked = s.leaked /\ t.quit = s.quit
  BY <1>5, <1>6 DEF Alike
<1>8. Kept(t) /\ Asked(t)
  <2>1. Live(t) = Live(u)
    BY <1>5, <1>7 DEF Live
  <2> QED BY <1>5, <1>6, <1>7, <2>1 DEF Kept, Asked
<1>9. Owned(t)
  <2>1. \A f \in Fd : f \in t.sock <=> t.os[f] = "conn"
    BY <1>1, <1>3, <1>5, <1>6 DEF Owned
  <2>2. \A f \in Fd : t.os[f] # "listen"
    BY <1>1, <1>5, <1>6 DEF Owned
  <2>3. \A c \in Fd : t.pipe[c] # NONE => c \in t.sock /\ t.os[t.pipe[c]] = "pipe"
    BY <1>1, <1>2, <1>3, <1>5, <1>6 DEF Owned
  <2>4. \A c, e \in Fd : t.pipe[c] # NONE /\ t.pipe[c] = t.pipe[e] => c = e
    BY <1>1, <1>5 DEF Owned
  <2> QED BY <1>5, <2>1, <2>2, <2>3, <2>4 DEF Owned
<1>10. \A f \in Fd : Attended(u, f) <=> Attended(t, f)
  BY <1>5 DEF Attended
<1>11. During(s, t)
  BY <1>5, <1>6, <1>7, <1>8, <1>9, <1>10 DEF During, Good
<1> QED BY <1>11 DEF t

\* Conn_InitListeners(): every socket that can be registered is open and watched.
LEMMA ListenersOpened ==
    ASSUME NEW s \in Good, NEW got \in Sockets(s)
    PROVE  During(s, Conn_InitListeners(s, got))
<1> DEFINE new == {got[p] : p \in Port} \ {NONE}
           fit == {f \in new : io_event_fits(f)}
           u == Watch(Open(s, fit, "listen"), fit, "cb_listen")
           t == [u EXCEPT !.listeners = u.listeners \cup new]
<1>1. s \in State /\ Kept(s) /\ Asked(s) /\ Owned(s)
  BY GoodParts
<1>2. /\ s.sock \subseteq Fd /\ s.leaked \subseteq Fd /\ s.pipe \in [Fd -> Fd \cup {NONE}]
      /\ s.listeners \in SUBSET Fd
  BY <1>1, Fields
<1>3. new \subseteq FreeFds(s)
  BY DEF Sockets
<1>4. \A f \in new : f \in Fd /\ s.os[f] = "free"
  BY <1>3 DEF FreeFds
<1>5. Conn_InitListeners(s, got) = t
  BY Zenon DEF Conn_InitListeners
<1> HIDE DEF new
<1>6. fit \in SUBSET FreeFds(s) /\ \A f \in fit : io_event_fits(f)
  BY <1>3
<1>7. <<"listen", "cb_listen">> \in Pairing
  BY DEF Pairing
<1>8. \A f \in new : f \in fit <=> io_event_fits(f)
  OBVIOUS
<1>9. fit \subseteq new
  OBVIOUS
<1> HIDE DEF fit
<1>10. /\ u \in State /\ Alike(s, u) /\ Kept(u) /\ Asked(u)
       /\ u.closed = s.closed /\ u.listeners = s.listeners /\ u.sock = s.sock
       /\ u.pipe = s.pipe /\ u.note = s.note /\ u.lost = s.lost
       /\ \A f \in Fd : u.os[f] = IF f \in fit THEN "listen" ELSE s.os[f]
       /\ \A f \in Fd : Attended(s, f) => Attended(u, f)
  BY <1>1, <1>6, <1>7, Opening
<1> HIDE DEF u
<1>11. u.listeners \cup new \subseteq Fd
  BY <1>2, <1>4, <1>10
<1>12. /\ t \in State /\ Alike(u, t) /\ t.io = u.io /\ t.os = u.os /\ t.closed = u.closed
       /\ t.listeners = u.listeners \cup new /\ t.sock = u.sock /\ t.pipe = u.pipe
  BY <1>10, <1>11 DEF State, Alike
<1> HIDE DEF t
<1>13. t.leaked = s.leaked /\ u.leaked = s.leaked /\ t.quit = s.quit
  BY <1>10, <1>12 DEF Alike
<1>14. Kept(t) /\ Asked(t)
  <2>1. Live(t) = Live(u)
    BY <1>12, <1>13 DEF Live
  <2> QED BY <1>10, <1>12, <1>13, <2>1 DEF Kept, Asked
<1>15. Owned(t)
  <2>1. \A f \in Fd : f \in t.sock <=> t.os[f] = "conn"
    BY <1>1, <1>4, <1>9, <1>10, <1>12 DEF Owned
  <2>2. \A f \in Fd : t.os[f] = "listen" => f \in t.listeners
    BY <1>1, <1>9, <1>10, <1>12 DEF Owned
  <2>3. \A f \in t.listeners : t.os[f] = "listen" \/ ~io_event_fits(f)
    BY <1>1, <1>2, <1>4, <1>8, <1>10, <1>12 DEF Owned
  <2>4. \A c \in Fd : t.pipe[c] # NONE => c \in t.sock /\ t.os[t.pipe[c]] = "pipe"
    BY <1>1, <1>2, <1>4, <1>9, <1>10, <1>12 DEF Owned
  <2>5. \A c, e \in Fd : t.pipe[c] # NONE /\ t.pipe[c] = t.pipe[e] => c = e
    BY <1>1, <1>10, <1>12 DEF Owned
  <2> QED BY <2>1, <2>2, <2>3, <2>4, <2>5 DEF Owned
<1>16. \A f \in Fd : Attended(u, f) <=> Attended(t, f)
  BY <1>12 DEF Attended
<1>17. During(s, t)
  BY <1>10, <1>12, <1>13, <1>14, <1>15, <1>16 DEF During, Good
<1> QED BY <1>5, <1>17

\* Other owners of the same descriptors.
LEMMA SameDescriptors ==
    ASSUME NEW u, NEW t, t.io = u.io, t.os = u.os, t.leaked = u.leaked, Kept(u), Asked(u)
    PROVE  /\ Kept(t) /\ Asked(t)
           /\ \A f \in Fd : Attended(u, f) <=> Attended(t, f)
<1>1. Live(t) = Live(u)
  BY DEF Live
<1> QED BY <1>1 DEF Kept, Asked, Attended

-----------------------------------------------------------------------------
(* Callbacks                                                               *)
\* A resolver process: the connection gets a pipe that no other has.
LEMMA Forked ==
    ASSUME NEW s \in Good, NEW c \in s.sock, s.pipe[c] = NONE, NEW t \in Proc_Fork(s, c)
    PROVE  During(s, t)
<1>1. s \in State /\ Kept(s) /\ Asked(s) /\ Owned(s)
  BY GoodParts
<1>2. /\ s.sock \subseteq Fd /\ s.leaked \subseteq Fd /\ s.pipe \in [Fd -> Fd \cup {NONE}]
      /\ s.listeners \in SUBSET Fd
  BY <1>1, Fields
<1>3. CASE t = s
  BY <1>3, DuringSelf
<1>4. ASSUME NEW p \in FreeFds(s), io_event_fits(p),
             t = [Watch(Open(s, {p}, "pipe"), {p}, "cb_Read_Resolver_Result") EXCEPT !.pipe[c] = p]
      PROVE  During(s, t)
  <2> DEFINE F == {p}
             u == Watch(Open(s, F, "pipe"), F, "cb_Read_Resolver_Result")
             pipe == [u.pipe EXCEPT ![c] = p]
  <2>1. <<"pipe", "cb_Read_Resolver_Result">> \in Pairing
    BY DEF Pairing
  <2>2. F \in SUBSET FreeFds(s) /\ (\A f \in F : io_event_fits(f)) /\ \A f : f \in F <=> f = p
    BY <1>4
  <2>3. p \in Fd /\ s.os[p] = "free"
    BY DEF FreeFds
  <2>4. t = [u EXCEPT !.pipe = pipe]
    BY <1>4, Zenon
  <2> HIDE DEF F
  <2>5. /\ u \in State /\ Alike(s, u) /\ Kept(u) /\ Asked(u)
        /\ u.closed = s.closed /\ u.listeners = s.listeners /\ u.sock = s.sock
        /\ u.pipe = s.pipe
        /\ \A f \in Fd : u.os[f] = IF f = p THEN "pipe" ELSE s.os[f]
        /\ \A f \in Fd : Attended(s, f) => Attended(u, f)
    BY <1>1, <2>1, <2>2, Opening
  <2> HIDE DEF u
  <2>6. pipe \in [Fd -> Fd \cup {NONE}] /\ pipe[c] = p
        /\ \A d \in Fd : d # c => pipe[d] = s.pipe[d]
    BY <1>2, <2>3, <2>5
  <2> HIDE DEF pipe
  <2>7. /\ t \in State /\ Alike(u, t) /\ t.io = u.io /\ t.os = u.os /\ t.closed = u.closed
        /\ t.listeners = u.listeners /\ t.sock = u.sock /\ t.pipe = pipe
    BY <2>4, <2>5, <2>6 DEF State, Alike
  <2>8. t.leaked = s.leaked /\ t.leaked = u.leaked /\ t.quit = s.quit
    BY <2>5, <2>7 DEF Alike
  <2>9. Kept(t) /\ Asked(t) /\ \A f \in Fd : Attended(u, f) <=> Attended(t, f)
    BY <2>5, <2>7, <2>8, SameDescriptors
  <2>10. Owned(t)
    <3>1. \A f \in Fd : f \in t.sock <=> t.os[f] = "conn"
      BY <1>1, <2>3, <2>5, <2>7 DEF Owned
    <3>2. \A f \in Fd : t.os[f] = "listen" => f \in t.listeners
      BY <1>1, <2>5, <2>7 DEF Owned
    <3>3. \A f \in t.listeners : t.os[f] = "listen" \/ ~io_event_fits(f)
      BY <1>1, <1>2, <1>4, <2>3, <2>5, <2>7 DEF Owned
    <3>4. \A d \in Fd : t.pipe[d] # NONE => d \in t.sock /\ t.os[t.pipe[d]] = "pipe"
      BY <1>1, <1>2, <2>3, <2>5, <2>6, <2>7 DEF Owned
    <3>5. \A d \in Fd : s.pipe[d] # p
      <4>1. p # NONE
        BY <2>3, IoAssumption DEF NONE
      <4> QED BY <1>1, <2>3, <4>1 DEF Owned
    <3>6. \A d, e \in Fd : t.pipe[d] # NONE /\ t.pipe[d] = t.pipe[e] => d = e
      BY <1>1, <1>2, <2>6, <2>7, <3>5 DEF Owned
    <3> QED BY <3>1, <3>2, <3>3, <3>4, <3>6 DEF Owned
  <2> QED BY <2>5, <2>7, <2>8, <2>9, <2>10 DEF During, Good
<1> QED BY <1>3, <1>4, Zenon DEF Proc_Fork

\* An accepted socket becomes a connection of the pool.
LEMMA Accepted ==
    ASSUME NEW s \in Good, NEW f \in FreeFds(s), io_event_fits(f)
    PROVE  LET t == [Watch(Open(s, {f}, "conn"), {f}, "cb_clientserver")
                        EXCEPT !.sock = @ \cup {f}]
           IN During(s, t) /\ f \in t.sock /\ t.pipe[f] = NONE
<1> DEFINE F == {f}
           u == Watch(Open(s, F, "conn"), F, "cb_clientserver")
           t == [u EXCEPT !.sock = u.sock \cup {f}]
<1>1. s \in State /\ Kept(s) /\ Asked(s) /\ Owned(s)
  BY GoodParts
<1>2. /\ s.sock \subseteq Fd /\ s.leaked \subseteq Fd /\ s.pipe \in [Fd -> Fd \cup {NONE}]
      /\ s.listeners \in SUBSET Fd
  BY <1>1, Fields
<1>3. f \in Fd /\ s.os[f] = "free"
  BY DEF FreeFds
<1>4. <<"conn", "cb_clientserver">> \in Pairing
  BY DEF Pairing
<1>5. F \in SUBSET FreeFds(s) /\ (\A g \in F : io_event_fits(g)) /\ \A g : g \in F <=> g = f
  OBVIOUS
<1> HIDE DEF F
<1>6. /\ u \in State /\ Alike(s, u) /\ Kept(u) /\ Asked(u)
      /\ u.closed = s.closed /\ u.listeners = s.listeners /\ u.sock = s.sock
      /\ u.pipe = s.pipe
      /\ \A g \in Fd : u.os[g] = IF g = f THEN "conn" ELSE s.os[g]
      /\ \A g \in Fd : Attended(s, g) => Attended(u, g)
  BY <1>1, <1>4, <1>5, Opening
<1> HIDE DEF u
<1>7. /\ t \in State /\ Alike(u, t) /\ t.io = u.io /\ t.os = u.os /\ t.closed = u.closed
      /\ t.listeners = u.listeners /\ t.sock = u.sock \cup {f} /\ t.pipe = u.pipe
  BY <1>2, <1>3, <1>6 DEF State, Alike
<1> HIDE DEF t
<1>8. t.leaked = s.leaked /\ t.leaked = u.leaked /\ t.quit = s.quit
  BY <1>6, <1>7 DEF Alike
<1>9. Kept(t) /\ Asked(t) /\ \A g \in Fd : Attended(u, g) <=> Attended(t, g)
  BY <1>6, <1>7, <1>8, SameDescriptors
<1>10. Owned(t)
  <2>1. \A g \in Fd : g \in t.sock <=> t.os[g] = "conn"
    BY <1>1, <1>6, <1>7 DEF Owned
  <2>2. \A g \in Fd : t.os[g] = "listen" => g \in t.listeners
    BY <1>1, <1>6, <1>7 DEF Owned
  <2>3. \A g \in t.listeners : t.os[g] = "listen" \/ ~io_event_fits(g)
    BY <1>1, <1>2, <1>3, <1>6, <1>7 DEF Owned
  <2>4. \A c \in Fd : t.pipe[c] # NONE => c \in t.sock /\ t.os[t.pipe[c]] = "pipe"
    BY <1>1, <1>2, <1>3, <1>6, <1>7 DEF Owned
  <2>5. \A c, e \in Fd : t.pipe[c] # NONE /\ t.pipe[c] = t.pipe[e] => c = e
    BY <1>1, <1>6, <1>7 DEF Owned
  <2> QED BY <2>1, <2>2, <2>3, <2>4, <2>5 DEF Owned
<1>11. During(s, t)
  BY <1>6, <1>7, <1>8, <1>9, <1>10 DEF During, Good
<1>12. t.pipe[f] = NONE
  BY <1>1, <1>3, <1>6, <1>7 DEF Owned
<1>13. f \in t.sock
  BY <1>7
<1> QED BY <1>11, <1>12, <1>13 DEF t, u, F

LEMMA NewConnection ==
    ASSUME NEW s \in Good, NEW f \in FreeFds(s), NEW t \in New_Connection(s, f)
    PROVE  During(s, t)
<1> DEFINE new == [Watch(Open(s, {f}, "conn"), {f}, "cb_clientserver") EXCEPT !.sock = @ \cup {f}]
<1>1. CASE t = s
  BY <1>1, DuringSelf
<1>2. CASE io_event_fits(f) /\ t \in Proc_Fork(new, f) \cup {Conn_Close(new, {f})}
  <2>1. During(s, new) /\ f \in new.sock /\ new.pipe[f] = NONE
    BY <1>2, Accepted
  <2> HIDE DEF new
  <2>2. new \in Good
    BY <2>1 DEF During
  <2>3. {f} \in SUBSET new.sock
    BY <2>1
  <2>4. During(new, t)
    BY <1>2, <2>1, <2>2, <2>3, Forked, ConnsClosed
  <2> QED BY <2>1, <2>4, DuringThen
<1> QED BY <1>1, <1>2 DEF New_Connection, Refused

LEMMA Listened ==
    ASSUME NEW s \in Good, NEW t \in cb_listen(s)
    PROVE  During(s, t)
BY DuringSelf, NewConnection DEF cb_listen

\* A change of flags and notes only.
LEMMA Flagged ==
    ASSUME NEW s \in Good, NEW t \in State, t.io = s.io, t.os = s.os, t.leaked = s.leaked,
           t.listeners = s.listeners, t.sock = s.sock, t.pipe = s.pipe, s.closed = t.closed,
           s.quit => t.quit
    PROVE  During(s, t)
<1>1. Kept(s) /\ Asked(s) /\ Owned(s)
  BY GoodParts
<1>2. Kept(t) /\ Asked(t) /\ \A f \in Fd : Attended(s, f) <=> Attended(t, f)
  BY <1>1, SameDescriptors
<1>3. Owned(t)
  BY <1>1 DEF Owned
<1> QED BY <1>2, <1>3 DEF During, Good

\* The end of a lookup: the pipe is closed and its connection has none any more.
LEMMA PipeClosed ==
    ASSUME NEW s \in Good, NEW f \in Fd \ s.leaked, s.os[f] = "pipe",
           NEW u \in State, u = IoClose(s, {f}), NEW t \in State, t.io = u.io, t.os = u.os,
           Alike(u, t), t.listeners = u.listeners, t.sock = u.sock, t.closed = u.closed,
           \A c \in Fd : t.pipe[c] = IF s.pipe[c] = f THEN NONE ELSE s.pipe[c]
    PROVE  During(s, t)
<1> DEFINE F == {f}
<1>1. s \in State /\ Kept(s) /\ Asked(s) /\ Owned(s)
  BY GoodParts
<1>2. /\ s.sock \subseteq Fd /\ s.pipe \in [Fd -> Fd \cup {NONE}] /\ s.listeners \in SUBSET Fd
  BY <1>1, Fields
<1>3. F \in SUBSET Fd /\ F \cap s.leaked = {} /\ \A g : g \in F <=> g = f
  OBVIOUS
<1>4. u = IoClose(s, F)
  OBVIOUS
<1> HIDE DEF F
<1>5. /\ Alike(s, u) /\ Kept(u) /\ Asked(u)
      /\ u.closed = s.closed \cup F /\ u.listeners = s.listeners /\ u.sock = s.sock
      /\ \A g \in Fd : u.os[g] = IF g \in F THEN "free" ELSE s.os[g]
      /\ \A g \in Fd : g \in F \/ (Attended(s, g) => Attended(u, g))
  BY <1>1, <1>3, <1>4, Closing
<1>6. t.leaked = s.leaked /\ t.leaked = u.leaked /\ t.quit = s.quit
  BY <1>5 DEF Alike
<1>7. Kept(t) /\ Asked(t) /\ \A g \in Fd : Attended(u, g) <=> Attended(t, g)
  BY <1>5, <1>6, SameDescriptors
<1>8. Owned(t)
  <2>1. \A g \in Fd : g \in t.sock <=> t.os[g] = "conn"
    BY <1>1, <1>3, <1>5 DEF Owned
  <2>2. \A g \in Fd : t.os[g] = "listen" => g \in t.listeners
    BY <1>1, <1>5 DEF Owned
  <2>3. \A g \in t.listeners : t.os[g] = "listen" \/ ~io_event_fits(g)
    BY <1>1, <1>2, <1>3, <1>5 DEF Owned
  <2>4. ASSUME NEW c \in Fd, t.pipe[c] # NONE PROVE c \in t.sock /\ t.os[t.pipe[c]] = "pipe"
    <3>1. s.pipe[c] # f /\ t.pipe[c] = s.pipe[c] /\ s.pipe[c] # NONE
      BY <2>4
    <3>2. c \in s.sock /\ s.os[s.pipe[c]] = "pipe" /\ s.pipe[c] \in Fd
      BY <1>1, <1>2, <3>1 DEF Owned
    <3>3. u.os[s.pipe[c]] = s.os[s.pipe[c]]
      BY <1>3, <1>5, <3>1, <3>2
    <3> QED BY <1>5, <3>1, <3>2, <3>3
  <2>5. \A c, e \in Fd : t.pipe[c] # NONE /\ t.pipe[c] = t.pipe[e] => c = e
    BY <1>1 DEF Owned
  <2> QED BY <2>1, <2>2, <2>3, <2>4, <2>5 DEF Owned
<1> QED BY <1>5, <1>6, <1>7, <1>8 DEF During, Good

LEMMA Resolved ==
    ASSUME NEW s \in Good, NEW f \in Fd \ s.leaked, s.os[f] = "pipe",
           NEW t \in cb_Read_Resolver_Result(s, f)
    PROVE  During(s, t)
<1> DEFINE mine == {c \in s.sock : s.pipe[c] = f}
           u == IoClose(s, {f})
           c == Min(mine)
           pipe == [u.pipe EXCEPT ![c] = NONE]
           read == [u EXCEPT !.pipe = pipe]
<1>1. s \in State /\ Owned(s)
  BY GoodParts
<1>2. s.sock \subseteq Fd /\ s.pipe \in [Fd -> Fd \cup {NONE}] /\ f # NONE
  BY <1>1, Fields, IoAssumption DEF NONE
<1>3. u \in State /\ u.pipe = s.pipe /\ u.sock = s.sock
  BY <1>1, Shut
<1>4. \A d \in Fd : s.pipe[d] = f => d \in mine
  BY <1>1, <1>2 DEF Owned
<1>5. CASE mine = {}
  <2>1. t = u
    BY <1>5 DEF cb_Read_Resolver_Result
  <2>2. \A d \in Fd : u.pipe[d] = IF s.pipe[d] = f THEN NONE ELSE s.pipe[d]
    BY <1>3, <1>4, <1>5
  <2>3. Alike(u, u)
    BY DEF Alike
  <2> HIDE DEF mine
  <2> QED BY <1>3, <2>1, <2>2, <2>3, PipeClosed
<1>6. CASE mine # {}
  <2>1. c \in mine
    <3>1. mine \in SUBSET Nat
      BY <1>2, FdNat, Zenon
    <3> HIDE DEF mine
    <3> QED BY <1>6, <3>1, MinNatural
  <2>2. t \in {read, Conn_Close(read, {c})}
    BY <1>6, Zenon DEF cb_Read_Resolver_Result
  <2>3. c \in s.sock /\ s.pipe[c] = f
    BY <2>1
  <2>4. \A d \in Fd : s.pipe[d] = f => d = c
    BY <1>1, <1>2, <2>3 DEF Owned
  <2> HIDE DEF c, u, mine
  <2>5. pipe \in [Fd -> Fd \cup {NONE}]
        /\ \A d \in Fd : pipe[d] = IF s.pipe[d] = f THEN NONE ELSE s.pipe[d]
    BY <1>2, <1>3, <2>3, <2>4
  <2> HIDE DEF pipe
  <2>6. /\ read \in State /\ Alike(u, read) /\ read.io = u.io /\ read.os = u.os
        /\ read.listeners = u.listeners /\ read.sock = u.sock /\ read.closed = u.closed
        /\ read.pipe = pipe
    BY <1>3, <2>5 DEF State, Alike
  <2> HIDE DEF read
  <2>7. u = IoClose(s, {f})
    BY DEF u
  <2>8. During(s, read)
    BY <1>3, <2>5, <2>6, <2>7, PipeClosed
  <2>9. read \in Good /\ {c} \in SUBSET read.sock
    BY <1>3, <2>3, <2>6, <2>8 DEF During
  <2>10. During(read, Conn_Close(read, {c}))
    BY <2>9, ConnsClosed
  <2> QED BY <2>2, <2>8, <2>10, DuringThen
<1> QED BY <1>5, <1>6

\* Commands close connections, or set a flag.
LEMMA Commanded ==
    ASSUME NEW s \in Good, NEW t \in Commands(s)
    PROVE  During(s, t)
<1>1. s \in State
  BY GoodParts
<1>2. ASSUME NEW gone \in SUBSET s.sock, t = Conn_Close(s, gone) PROVE During(s, t)
  BY <1>2, ConnsClosed
<1> DEFINE on == TRUE
<1>3. on \in BOOLEAN /\ s.handlers \in BOOLEAN /\ on
  BY <1>1, Fields
<1>4. s.note \in SUBSET Fd /\ s.sock \in SUBSET Fd
  BY <1>1, Fields
<1>5. \/ \E n \in {s.note, s.sock} : t = [s EXCEPT !.quit = on, !.note = n]
      \/ t = [s EXCEPT !.restart = on]
      \/ t = [s EXCEPT !.hup = s.handlers]
      \/ \E gone \in SUBSET s.sock : t = Conn_Close(s, gone)
  BY DEF Commands, IRC_DIE, IRC_RESTART, IRC_REHASH
<1> HIDE DEF on
<1>6. ASSUME NEW n \in SUBSET Fd, t = [s EXCEPT !.quit = on, !.note = n] PROVE During(s, t)
  <2>1. /\ t \in State /\ t.io = s.io /\ t.os = s.os /\ t.leaked = s.leaked
        /\ t.listeners = s.listeners /\ t.sock = s.sock /\ t.pipe = s.pipe
        /\ s.closed = t.closed /\ t.quit = on
    BY <1>1, <1>3, <1>6, Zenon DEF State
  <2> QED BY <1>3, <2>1, Flagged, Zenon
<1>7. CASE t = [s EXCEPT !.restart = on]
  <2>1. /\ t \in State /\ t.io = s.io /\ t.os = s.os /\ t.leaked = s.leaked
        /\ t.listeners = s.listeners /\ t.sock = s.sock /\ t.pipe = s.pipe
        /\ s.closed = t.closed /\ t.quit = s.quit
    BY <1>1, <1>3, <1>7, Zenon DEF State
  <2> QED BY <2>1, Flagged
<1>8. CASE t = [s EXCEPT !.hup = s.handlers]
  <2>1. /\ t \in State /\ t.io = s.io /\ t.os = s.os /\ t.leaked = s.leaked
        /\ t.listeners = s.listeners /\ t.sock = s.sock /\ t.pipe = s.pipe
        /\ s.closed = t.closed /\ t.quit = s.quit
    BY <1>1, <1>3, <1>8 DEF State
  <2> QED BY <2>1, Flagged
<1> QED BY <1>2, <1>4, <1>5, <1>6, <1>7, <1>8, Zenon

\* Other events are asked for on connections.
LEMMA Rewatched ==
    ASSUME NEW s \in Good, NEW C \in SUBSET s.sock, NEW x \in {R, W},
           NEW n \in {io_event_add(s.io, C, {x}), io_event_del(s.io, C, {x})},
           NEW t \in State, t.io = n, t.os = s.os, t.leaked = s.leaked,
           t.listeners = s.listeners, t.sock = s.sock, t.pipe = s.pipe, t.closed = s.closed,
           t.quit = s.quit
    PROVE  During(s, t)
<1>1. s \in State /\ Kept(s) /\ Asked(s) /\ Owned(s)
  BY GoodParts
<1>2. s.io \in IoState /\ s.sock \subseteq Fd
  BY <1>1, Fields
<1>3. C \in SUBSET Fd
  BY <1>2
<1>4. \A f \in C : f \in Live(s) /\ s.os[f] # "pipe"
  <2> TAKE f \in C
  <2>1. f \in Fd /\ s.os[f] = "conn"
    BY <1>1, <1>3 DEF Owned
  <2> QED BY <1>1, <2>1 DEF Live, Kept
<1> DEFINE io == s.io
           add == io_event_add(io, C, {x})
           del == io_event_del(io, C, {x})
<1>d. io \in IoState
  BY <1>2
<1> HIDE DEF io
<1>a. Added(io, C, x, add)
  BY <1>d, <1>3, IoAdd
<1>b. Deleted(io, C, x, del)
  BY <1>d, <1>3, IoDel
<1>c. n = add \/ n = del
  BY DEF io
<1> HIDE DEF add, del
<1>5. n.callback = io.callback /\ \A f \in Fd : f <= io.select_maxfd => f <= n.select_maxfd
  BY <1>a, <1>b, <1>c, Zenon DEF Added, Deleted
<1>6. Live(t) = Live(s)
  BY DEF Live
<1>7. \A f \in Fd : /\ f \in n.readers <=> f \in Live(s) /\ R \in n.what[f]
                    /\ f \in n.writers <=> f \in Live(s) /\ W \in n.what[f]
                    /\ f \notin C /\ f \in s.io.readers => f \in n.readers
  <2>1. R # W
    BY DEF R, W
  <2>2. \A f \in Fd : /\ f \in s.io.readers <=> f \in Live(s) /\ R \in s.io.what[f]
                      /\ f \in s.io.writers <=> f \in Live(s) /\ W \in s.io.what[f]
    BY <1>1 DEF Asked, io
  <2> SUFFICES ASSUME NEW f \in Fd
               PROVE  /\ f \in n.readers <=> f \in Live(s) /\ R \in n.what[f]
                      /\ f \in n.writers <=> f \in Live(s) /\ W \in n.what[f]
                      /\ f \notin C /\ f \in io.readers => f \in n.readers
    BY DEF io
  <2>5. /\ f \in io.readers <=> f \in Live(s) /\ R \in io.what[f]
        /\ f \in io.writers <=> f \in Live(s) /\ W \in io.what[f]
        /\ f \in C => f \in Live(s)
    BY <1>4, <2>2 DEF io
  <2>3. CASE n = add
    BY <1>a, <2>1, <2>3, <2>5, Zenon DEF Added
  <2>4. CASE n = del
    BY <1>b, <2>1, <2>4, <2>5, Zenon DEF Deleted
  <2> QED BY <1>c, <2>3, <2>4
<1>8. Kept(t)
  BY <1>1, <1>5 DEF Kept, io
<1>9. Asked(t)
  BY <1>1, <1>4, <1>5, <1>6, <1>7 DEF Asked, io
<1>10. Owned(t)
  BY <1>1 DEF Owned
<1>11. \A f \in Fd : Attended(s, f) => Attended(t, f)
  BY <1>5 DEF Attended, io
<1> QED BY <1>8, <1>9, <1>10, <1>11 DEF During, Good

LEMMA Written ==
    ASSUME NEW s \in Good, NEW f \in Fd, NEW t \in Handle_Write(s, f)
    PROVE  During(s, t)
<1>1. s \in State
  BY GoodParts
<1>2. CASE f \notin s.sock
  BY <1>2, DuringSelf DEF Handle_Write
<1>3. CASE f \in s.sock
  <2> DEFINE C == {f}
             n == io_event_del(s.io, C, {W})
             note == s.note \ {f}
  <2>1. C \in SUBSET s.sock
    BY <1>3
  <2>2. s.io \in IoState /\ s.sock \subseteq Fd /\ note \in SUBSET Fd
    BY <1>1, Fields
  <2>3. \/ t = [s EXCEPT !.io = n, !.note = note]
        \/ t = s
        \/ t = Conn_Close(s, C)
    BY <1>3, Zenon DEF Handle_Write
  <2> HIDE DEF C, note
  <2>4. n \in IoState
    BY <2>1, <2>2, IoDel DEF Deleted
  <2>5. CASE t = [s EXCEPT !.io = n, !.note = note]
    <3> HIDE DEF n
    <3>1. /\ t \in State /\ t.io = n /\ t.os = s.os /\ t.leaked = s.leaked
          /\ t.listeners = s.listeners /\ t.sock = s.sock /\ t.pipe = s.pipe
          /\ t.closed = s.closed /\ t.quit = s.quit
      BY <1>1, <2>2, <2>4, <2>5, Zenon DEF State
    <3> QED BY <2>1, <3>1, Rewatched DEF n
  <2> QED BY <2>1, <2>3, <2>5, DuringSelf, ConnsClosed
<1> QED BY <1>2, <1>3

LEMMA Served ==
    ASSUME NEW s \in Good, NEW f \in s.sock, NEW what, NEW t \in cb_clientserver(s, f, what)
    PROVE  During(s, t)
<1>1. f \in Fd
  BY GoodParts, Fields
<1>2. PICK u \in Good : During(s, u) /\ t \in {u} \cup Handle_Write(u, f)
  <2>1. \A u \in Commands(s) \cup {s} : During(s, u) /\ u \in Good
    BY Commanded, DuringSelf DEF During
  <2>2. \E u \in Commands(s) \cup {s} : t \in {u} \cup Handle_Write(u, f)
    BY DEF cb_clientserver
  <2> QED BY <2>1, <2>2
<1> QED BY <1>1, <1>2, Written, DuringThen

LEMMA Rehashed ==
    ASSUME NEW s \in Good, NEW t \in Rehash(s)
    PROVE  During(s, t)
<1> DEFINE off == Conn_ExitListeners(s)
<1>1. During(s, off) /\ off \in Good
  BY ListenersClosed DEF During
<1>2. t = s \/ \E got \in Sockets(off) : t = Conn_InitListeners(off, got)
  BY DEF Rehash
<1> HIDE DEF off
<1> QED BY <1>1, <1>2, DuringSelf, DuringThen, ListenersOpened

LEMMA Signalled ==
    ASSUME NEW s \in Good, NEW t \in Signal_Callback(s)
    PROVE  During(s, t)
<1> DEFINE off == FALSE
           u == [s EXCEPT !.hup = off]
<1>1. s \in State /\ off \in BOOLEAN
  BY GoodParts
<1>2. t = s \/ t \in Rehash(u)
  BY DEF Signal_Callback
<1> HIDE DEF off
<1>3. /\ u \in State /\ u.io = s.io /\ u.os = s.os /\ u.leaked = s.leaked
      /\ u.listeners = s.listeners /\ u.sock = s.sock /\ u.pipe = s.pipe
      /\ s.closed = u.closed /\ u.quit = s.quit
  BY <1>1 DEF State
<1> HIDE DEF u
<1>4. During(s, u) /\ u \in Good
  BY <1>3, Flagged DEF During
<1> QED BY <1>2, <1>4, DuringSelf, Rehashed, DuringThen

\* Whatever callback a descriptor has, it does to the round what During says.
LEMMA CalledBack ==
    ASSUME NEW s \in Good, NEW f \in Fd \ s.leaked, NEW what, NEW t \in io_docallback(s, f, what)
    PROVE  During(s, t)
<1>1. s \in State /\ Kept(s) /\ Owned(s)
  BY GoodParts
<1>2. s.io.callback[f] \in Callbacks
  BY <1>1, Fields, IoFields
<1>3. CASE s.io.callback[f] = NULL
  <2>1. t = s
    BY <1>3 DEF io_docallback, NULL
  <2> QED BY <2>1, DuringSelf
<1>4. CASE s.io.callback[f] = "cb_listen"
  <2>1. t \in cb_listen(s)
    BY <1>4 DEF io_docallback, NULL
  <2> QED BY <2>1, Listened
<1>5. CASE s.io.callback[f] = "cb_Read_Resolver_Result"
  <2>1. t \in cb_Read_Resolver_Result(s, f)
    BY <1>5 DEF io_docallback, NULL
  <2>2. s.os[f] = "pipe"
    BY <1>1, <1>5 DEF Kept
  <2> QED BY <2>1, <2>2, Resolved
<1>6. CASE s.io.callback[f] = "cb_clientserver"
  <2>1. t \in cb_clientserver(s, f, what)
    BY <1>6 DEF io_docallback, NULL
  <2>2. f \in s.sock
    BY <1>1, <1>6 DEF Kept, Owned
  <2> QED BY <2>1, <2>2, Served
<1>7. CASE s.io.callback[f] = "Signal_Callback"
  <2>1. t \in Signal_Callback(s)
    BY <1>7 DEF io_docallback, NULL
  <2> QED BY <2>1, Signalled
<1> QED BY <1>2, <1>3, <1>4, <1>5, <1>6, <1>7 DEF Callbacks

-----------------------------------------------------------------------------
(* The start and the end of the process                                    *)
LEMMA NothingOpen == Nothing \in Good /\ Idle(Nothing) /\ Nothing.leaked = {}
<1> DEFINE off == FALSE
           io == io_none
           os == [f \in Fd |-> "free"]
           pipe == [f \in Fd |-> NONE]
<1>1. off \in BOOLEAN
  OBVIOUS
<1>2. Nothing = [os |-> os, io |-> io, listeners |-> {}, sock |-> {},
                 pipe |-> pipe, quit |-> off, restart |-> off,
                 handlers |-> off, hup |-> off, note |-> {}, lost |-> off, closed |-> {},
                 leaked |-> {}, initialized |-> off]
  BY Zenon DEF Nothing
<1>3. io = [callback |-> [f \in Fd |-> NULL], what |-> [f \in Fd |-> {}],
            readers |-> {}, writers |-> {}, select_maxfd |-> 0, library_initialized |-> off]
  BY Zenon DEF io_none
<1> HIDE DEF off
<1>4. /\ io \in IoState /\ io.readers = {} /\ io.writers = {}
      /\ \A f \in Fd : io.callback[f] = NULL
  BY <1>1, <1>3 DEF IoState, Callbacks
<1>5. os \in [Fd -> Kinds] /\ \A f \in Fd : os[f] = "free"
  BY DEF Kinds
<1>6. pipe \in [Fd -> Fd \cup {NONE}] /\ \A f \in Fd : pipe[f] = NONE
  OBVIOUS
<1> HIDE DEF os, io, pipe
<1>7. /\ Nothing \in State /\ Nothing.os = os /\ Nothing.io = io /\ Nothing.listeners = {}
      /\ Nothing.sock = {} /\ Nothing.pipe = pipe /\ Nothing.leaked = {}
  BY <1>1, <1>2, <1>4, <1>5, <1>6 DEF State
<1>8. Kept(Nothing)
  BY <1>4, <1>5, <1>7 DEF Kept, NULL
<1>9. Asked(Nothing)
  BY <1>4, <1>5, <1>7 DEF Asked, Live
<1>10. Owned(Nothing)
  BY <1>5, <1>6, <1>7 DEF Owned
<1> QED BY <1>5, <1>7, <1>8, <1>9, <1>10 DEF Good, Idle

\* An idle process has no connection, no lookup and asks select() for nothing.
LEMMA IdleFacts ==
    ASSUME NEW s \in Good, Idle(s)
    PROVE  /\ s.sock = {} /\ s.io.readers = {} /\ s.io.writers = {} /\ Live(s) = {}
           /\ \A c \in Fd : s.pipe[c] = NONE
           /\ \A f \in Fd : s.os[f] \in {"free", "pipe"}
<1>1. s \in State /\ Kept(s) /\ Asked(s) /\ Owned(s)
  BY GoodParts
<1>2. s.sock \subseteq Fd /\ s.io \in IoState
  BY <1>1, Fields
<1>3. s.io.readers \subseteq Fd /\ s.io.writers \subseteq Fd
  BY <1>2, IoFields
<1>4. \A f \in Fd : s.os[f] \in {"free", "pipe"}
  BY <1>1 DEF Idle, Kept
<1>5. s.sock = {}
  BY <1>1, <1>2, <1>4 DEF Owned
<1>6. \A c \in Fd : s.pipe[c] = NONE
  BY <1>1, <1>5 DEF Owned
<1>7. Live(s) = {}
  BY DEF Live, Idle
<1>8. s.io.readers = {} /\ s.io.writers = {}
  BY <1>1, <1>3, <1>7 DEF Asked
<1> QED BY <1>4, <1>5, <1>6, <1>7, <1>8

\* Only flags change: an idle process stays idle.
LEMMA IdleFlagged ==
    ASSUME NEW s \in Good, Idle(s), NEW t \in State, t.io = s.io, t.os = s.os,
           t.leaked = s.leaked, t.listeners = s.listeners, t.sock = s.sock, t.pipe = s.pipe
    PROVE  t \in Good /\ Idle(t)
<1>1. Kept(s) /\ Asked(s) /\ Owned(s)
  BY GoodParts
<1>2. Kept(t) /\ Asked(t)
  BY <1>1, SameDescriptors
<1>3. Owned(t) /\ Idle(t)
  BY <1>1 DEF Owned, Idle
<1> QED BY <1>2, <1>3 DEF Good

LEMMA LibraryShut ==
    ASSUME NEW io \in IoState, NEW n, n = io_library_shutdown(io) \/ n = io_library_init(io)
    PROVE  /\ n \in IoState /\ n.callback = io.callback /\ n.what = io.what
           /\ n.select_maxfd = io.select_maxfd
           /\ n = io_library_shutdown(io) => n.readers = {} /\ n.writers = {}
           /\ n = io \/ (n.readers = {} /\ n.writers = {})
<1> DEFINE on == TRUE
           off == FALSE
<1>1. on \in BOOLEAN /\ off \in BOOLEAN
  OBVIOUS
<1>2. \/ n = io
      \/ n = [io EXCEPT !.readers = {}, !.writers = {}, !.library_initialized = on]
      \/ n = [io EXCEPT !.readers = {}, !.writers = {}, !.library_initialized = off]
  BY DEF io_library_init, io_library_shutdown
<1>3. n = io_library_shutdown(io) =>
        n = [io EXCEPT !.readers = {}, !.writers = {}, !.library_initialized = off]
  BY DEF io_library_shutdown
<1> HIDE DEF on, off
<1>4. ASSUME NEW b \in BOOLEAN,
             n = [io EXCEPT !.readers = {}, !.writers = {}, !.library_initialized = b]
      PROVE  /\ n \in IoState /\ n.callback = io.callback /\ n.what = io.what
             /\ n.select_maxfd = io.select_maxfd /\ n.readers = {} /\ n.writers = {}
  BY <1>4, Zenon DEF IoState
<1>5. n = io_library_shutdown(io) => n.readers = {} /\ n.writers = {}
  BY <1>1, <1>3, <1>4, Zenon
<1> QED BY <1>1, <1>2, <1>4, <1>5, Zenon

\* The event layer of an idle process is shut down or initialised.
LEMMA IdleLibrary ==
    ASSUME NEW s \in Good, Idle(s), NEW t \in State,
           t.io = io_library_shutdown(s.io) \/ t.io = io_library_init(s.io), t.os = s.os,
           t.leaked = s.leaked, t.listeners = s.listeners, t.sock = s.sock, t.pipe = s.pipe
    PROVE  t \in Good /\ Idle(t)
<1>1. s \in State /\ Kept(s) /\ Asked(s) /\ Owned(s)
  BY GoodParts
<1>2. s.io \in IoState /\ s.io.readers = {} /\ s.io.writers = {} /\ Live(s) = {}
  BY <1>1, Fields, IdleFacts
<1>3. t.io.callback = s.io.callback /\ t.io.readers = {} /\ t.io.writers = {}
  BY <1>2, LibraryShut, Zenon
<1>4. Live(t) = {}
  BY <1>2 DEF Live
<1>5. Kept(t)
  BY <1>1, <1>3 DEF Kept
<1>6. Asked(t)
  BY <1>3, <1>4 DEF Asked
<1>7. Owned(t) /\ Idle(t)
  BY <1>1 DEF Owned, Idle
<1> QED BY <1>5, <1>6, <1>7 DEF Good

\* init_runtime_loop: the signal pipe is the first descriptor.
LEMMA Started ==
    ASSUME NEW s \in Good, Idle(s), NEW f \in FreeFds(s), io_event_fits(f),
           NEW t, t = Conn_Init(Signals_Init([s EXCEPT !.io = io_library_init(@)], f))
    PROVE  t \in Good /\ t.quit = s.quit
<1> DEFINE io == io_library_init(s.io)
           u == [s EXCEPT !.io = io]
           F == {f}
           v == Watch(Open(u, F, "signal"), F, "Signal_Callback")
           on == TRUE
           w == [v EXCEPT !.handlers = on]
           none == [g \in Fd |-> NONE]
<1>1. t = [w EXCEPT !.sock = {}, !.pipe = none, !.listeners = {}]
  BY Zenon DEF Conn_Init, Signals_Init
<1>2. s \in State /\ f \in Fd /\ s.os[f] = "free"
  BY GoodParts DEF FreeFds
<1>3. io \in IoState
  BY <1>2, Fields, LibraryShut
<1> HIDE DEF io
<1>4. /\ u \in State /\ u.io = io /\ u.os = s.os /\ u.leaked = s.leaked /\ u.quit = s.quit
      /\ u.listeners = s.listeners /\ u.sock = s.sock /\ u.pipe = s.pipe
  BY <1>2, <1>3 DEF State
<1> HIDE DEF u
<1>5. u \in Good /\ Idle(u)
  BY <1>4, IdleLibrary DEF io
<1>6. Kept(u) /\ Asked(u) /\ Owned(u) /\ u.listeners = {} /\ u.sock = {}
  BY <1>5, GoodParts, IdleFacts DEF Idle
<1>7. F \in SUBSET FreeFds(u) /\ (\A g \in F : io_event_fits(g)) /\ \A g : g \in F <=> g = f
  BY <1>4 DEF FreeFds
<1>8. <<"signal", "Signal_Callback">> \in Pairing
  BY DEF Pairing
<1> HIDE DEF F
<1>9. /\ v \in State /\ Alike(u, v) /\ Kept(v) /\ Asked(v)
      /\ \A g \in Fd : v.os[g] = IF g \in F THEN "signal" ELSE u.os[g]
  BY <1>4, <1>6, <1>7, <1>8, Opening
<1>10. none \in [Fd -> Fd \cup {NONE}] /\ \A g \in Fd : none[g] = NONE
  OBVIOUS
<1>11. on \in BOOLEAN
  OBVIOUS
<1> HIDE DEF v, none, on
<1>12. w \in State /\ w.io = v.io /\ w.os = v.os /\ w.leaked = v.leaked /\ w.quit = v.quit
  BY <1>9, <1>11 DEF State
<1> HIDE DEF w
<1>13. /\ t \in State /\ t.io = w.io /\ t.os = w.os /\ t.leaked = w.leaked /\ t.quit = w.quit
       /\ t.sock = {} /\ t.pipe = none /\ t.listeners = {}
  BY <1>1, <1>10, <1>12, Zenon DEF State
<1>14. Kept(t) /\ Asked(t)
  BY <1>9, <1>12, <1>13, SameDescriptors
<1>15. \A g \in Fd : t.os[g] \in {"free", "pipe", "signal"}
  BY <1>5, <1>9, <1>12, <1>13, IdleFacts
<1>16. Owned(t)
  BY <1>10, <1>13, <1>15 DEF Owned
<1>17. t.quit = s.quit
  BY <1>4, <1>9, <1>12, <1>13 DEF Alike
<1> QED BY <1>13, <1>14, <1>16, <1>17 DEF Good

\* What a function of the shutdown that closes the descriptors F with io_close() does.
Emptied(s, t, F) ==
    /\ t \in State /\ t.leaked = s.leaked /\ t.quit = s.quit
    /\ \A f \in Fd : /\ t.os[f] = IF f \in F THEN "free" ELSE s.os[f]
                     /\ t.io.callback[f] = IF f \in F THEN NULL ELSE s.io.callback[f]

LEMMA ShutEmptied ==
    ASSUME NEW s \in State, NEW F \in SUBSET Fd
    PROVE  Emptied(s, IoClose(s, F), F)
<1> DEFINE t == IoClose(s, F)
<1>1. /\ t \in State /\ Alike(s, t) /\ t.io = io_close(s.io, F)
      /\ \A f \in Fd : t.os[f] = IF f \in F THEN "free" ELSE s.os[f]
  BY Shut
<1>2. \A f \in Fd : io_close(s.io, F).callback[f] = IF f \in F THEN NULL ELSE s.io.callback[f]
  BY Fields, IoShut
<1> HIDE DEF t
<1>3. Emptied(s, t, F)
  BY <1>1, <1>2 DEF Emptied, Alike
<1> QED BY <1>3 DEF t

LEMMA ListenersEmptied ==
    ASSUME NEW s \in State
    PROVE  LET t == Conn_ExitListeners(s)
           IN Emptied(s, t, s.listeners) /\ t.listeners = {} /\ t.sock = s.sock
              /\ t.pipe = s.pipe
<1> DEFINE t == Conn_ExitListeners(s)
           u == IoClose(s, s.listeners)
<1>1. /\ t \in State /\ Alike(s, t) /\ t.io = u.io /\ t.os = u.os
      /\ t.listeners = {} /\ t.sock = s.sock /\ t.pipe = s.pipe
  BY ListenersExit
<1>2. Emptied(s, u, s.listeners)
  BY Fields, ShutEmptied
<1> HIDE DEF t, u
<1>3. Emptied(s, t, s.listeners)
  BY <1>1, <1>2 DEF Emptied, Alike
<1> QED BY <1>1, <1>3 DEF t

LEMMA ConnsEmptied ==
    ASSUME NEW s \in State, NEW C \in SUBSET Fd
    PROVE  LET t == Conn_Close(s, C)
           IN Emptied(s, t, C) /\ t.listeners = s.listeners /\ t.sock = s.sock \ C
              /\ \A c \in Fd : t.pipe[c] = IF c \in C THEN NONE ELSE s.pipe[c]
<1> DEFINE t == Conn_Close(s, C)
           u == IoClose(s, C)
<1>1. /\ t \in State /\ Alike(s, t) /\ t.io = u.io /\ t.os = u.os
      /\ t.listeners = s.listeners /\ t.sock = s.sock \ C
      /\ \A c \in Fd : t.pipe[c] = IF c \in C THEN NONE ELSE s.pipe[c]
  BY ConnClosed
<1>2. Emptied(s, u, C)
  BY ShutEmptied
<1> HIDE DEF t, u
<1>3. Emptied(s, t, C)
  BY <1>1, <1>2 DEF Emptied, Alike
<1> QED BY <1>1, <1>3 DEF t

\* close() without io_close(): the event layer still has the descriptors.
LEMMA Cut ==
    ASSUME NEW s \in State, NEW F \in SUBSET Fd
    PROVE  LET t == Close(s, F)
           IN /\ t \in State /\ t.io = s.io /\ t.leaked = s.leaked /\ t.quit = s.quit
              /\ t.listeners = s.listeners /\ t.sock = s.sock /\ t.pipe = s.pipe
              /\ \A f \in Fd : t.os[f] = IF f \in F THEN "free" ELSE s.os[f]
<1> DEFINE os == [f \in Fd |-> IF f \in F THEN "free" ELSE s.os[f]]
           a == [s EXCEPT !.os = os]
           t == [a EXCEPT !.closed = a.closed \cup F]
<1>1. Close(s, F) = t
  BY Zenon DEF Close, Open
<1>2. s.os \in [Fd -> Kinds] /\ s.closed \subseteq Fd
  BY Fields
<1>3. os \in [Fd -> Kinds] /\ \A f \in Fd : os[f] = IF f \in F THEN "free" ELSE s.os[f]
  BY <1>2 DEF Kinds
<1> HIDE DEF os
<1>4. /\ a \in State /\ a.os = os /\ a.io = s.io /\ a.leaked = s.leaked /\ a.quit = s.quit
      /\ a.listeners = s.listeners /\ a.sock = s.sock /\ a.pipe = s.pipe
      /\ a.closed = s.closed
  BY <1>3 DEF State
<1> HIDE DEF a
<1>5. /\ t \in State /\ t.os = os /\ t.io = s.io /\ t.leaked = s.leaked /\ t.quit = s.quit
      /\ t.listeners = s.listeners /\ t.sock = s.sock /\ t.pipe = s.pipe
  BY <1>2, <1>4 DEF State
<1> HIDE DEF t
<1> QED BY <1>1, <1>3, <1>5

\* shutdown_runtime: sockets, listeners and the signal pipe are closed, in the order of
\* the code, and the pipes of lookups are what is left.
LEMMA ShutDown ==
    ASSUME NEW s \in Good, NEW t,
           t = [Signals_Exit(Conn_Exit(Conn_ExitListeners(Conn_CloseAllSockets(s))))
                   EXCEPT !.leaked = {f \in Fd : s.os[f] = "pipe"}]
    PROVE  t \in Good /\ Idle(t) /\ t.quit = s.quit
<1> DEFINE a == Close(s, s.sock)
           b == Conn_ExitListeners(a)
           c == Conn_ExitListeners(b)
           d == Conn_Close(c, b.sock)
           io == io_library_shutdown(d.io)
           e == [d EXCEPT !.io = io]
           sig == {f \in Fd : e.os[f] = "signal"}
           g == Close(e, sig)
           off == FALSE
           h == [g EXCEPT !.handlers = off, !.hup = off]
           left == {f \in Fd : s.os[f] = "pipe"}
<1>1. t = [h EXCEPT !.leaked = left]
  BY Zenon DEF Signals_Exit, Conn_Exit, Conn_CloseAllSockets
<1>2. s \in State /\ Kept(s) /\ Asked(s) /\ Owned(s)
  BY GoodParts
<1>3. /\ s.os \in [Fd -> Kinds] /\ s.sock \in SUBSET Fd /\ s.listeners \in SUBSET Fd
      /\ s.pipe \in [Fd -> Fd \cup {NONE}]
  BY <1>2, Fields
<1>4. /\ a \in State /\ a.io = s.io /\ a.quit = s.quit /\ a.listeners = s.listeners
      /\ a.sock = s.sock /\ a.pipe = s.pipe
      /\ \A f \in Fd : a.os[f] = IF f \in s.sock THEN "free" ELSE s.os[f]
  BY <1>2, <1>3, Cut
<1> HIDE DEF a
<1>5. Emptied(a, b, s.listeners) /\ b.listeners = {} /\ b.sock = s.sock /\ b.pipe = s.pipe
  BY <1>4, ListenersEmptied
<1>6. b \in State
  BY <1>5 DEF Emptied
<1> HIDE DEF b
<1>7. Emptied(b, c, {}) /\ c.listeners = {} /\ c.sock = s.sock /\ c.pipe = s.pipe
  BY <1>5, <1>6, ListenersEmptied
<1>8. c \in State
  BY <1>7 DEF Emptied
<1> HIDE DEF c
<1>9. /\ Emptied(c, d, s.sock) /\ d.listeners = {} /\ d.sock = {}
      /\ \A x \in Fd : d.pipe[x] = IF x \in s.sock THEN NONE ELSE s.pipe[x]
  BY <1>3, <1>5, <1>7, <1>8, ConnsEmptied
<1>10. d \in State
  BY <1>9 DEF Emptied
<1> HIDE DEF d
<1>11. /\ io \in IoState /\ io.callback = d.io.callback /\ io.readers = {} /\ io.writers = {}
  BY <1>10, Fields, LibraryShut
<1> HIDE DEF io
<1>12. /\ e \in State /\ e.io = io /\ e.os = d.os /\ e.quit = d.quit
       /\ e.listeners = {} /\ e.sock = {} /\ e.pipe = d.pipe
  BY <1>9, <1>10, <1>11 DEF State
<1> HIDE DEF e
<1>13. sig \in SUBSET Fd /\ \A f \in Fd : f \in sig <=> e.os[f] = "signal"
  OBVIOUS
<1> HIDE DEF sig
<1>14. /\ g \in State /\ g.io = io /\ g.quit = e.quit
       /\ g.listeners = {} /\ g.sock = {} /\ g.pipe = d.pipe
       /\ \A f \in Fd : g.os[f] = IF f \in sig THEN "free" ELSE e.os[f]
  BY <1>12, <1>13, Cut
<1>15. off \in BOOLEAN
  OBVIOUS
<1> HIDE DEF g, off
<1>16. /\ h \in State /\ h.io = io /\ h.os = g.os /\ h.quit = e.quit
       /\ h.listeners = {} /\ h.sock = {} /\ h.pipe = d.pipe
  BY <1>14, <1>15, Zenon DEF State
<1>17. left \in SUBSET Fd /\ \A f \in Fd : f \in left <=> s.os[f] = "pipe"
  OBVIOUS
<1> HIDE DEF h, left
<1>18. /\ t \in State /\ t.io = io /\ t.os = g.os /\ t.quit = e.quit /\ t.leaked = left
       /\ t.listeners = {} /\ t.sock = {} /\ t.pipe = d.pipe
  BY <1>1, <1>16, <1>17, Zenon DEF State
<1>19. t.quit = s.quit
  BY <1>4, <1>5, <1>7, <1>9, <1>12, <1>18 DEF Emptied
<1>20. \A f \in Fd : t.os[f] = IF s.os[f] = "pipe" THEN "pipe" ELSE "free"
  <2> TAKE f \in Fd
  <2>1. d.os[f] = IF f \in s.sock \/ f \in s.listeners THEN "free" ELSE s.os[f]
    BY <1>4, <1>5, <1>7, <1>9 DEF Emptied
  <2>2. t.os[f] = IF d.os[f] = "signal" THEN "free" ELSE d.os[f]
    BY <1>12, <1>13, <1>14, <1>18
  <2>3. s.os[f] \in Kinds
    BY <1>3
  <2>4. s.os[f] = "conn" <=> f \in s.sock
    BY <1>2 DEF Owned
  <2>5. s.os[f] = "listen" => f \in s.listeners
    BY <1>2 DEF Owned
  <2>6. f \in s.listeners => s.os[f] \in {"listen", "free"}
    BY <1>2 DEF Owned, Kept
  <2> QED BY <2>1, <2>2, <2>3, <2>4, <2>5, <2>6 DEF Kinds
<1>21. \A f \in Fd : /\ t.io.callback[f] = "cb_Read_Resolver_Result" <=> s.os[f] = "pipe"
                     /\ t.io.callback[f] \notin {"cb_listen", "cb_clientserver"}
  <2> TAKE f \in Fd
  <2>1. t.io.callback[f] = IF f \in s.sock \/ f \in s.listeners THEN NULL ELSE s.io.callback[f]
    BY <1>4, <1>5, <1>7, <1>9, <1>11, <1>18 DEF Emptied
  <2>2. s.os[f] = "conn" <=> f \in s.sock
    BY <1>2 DEF Owned
  <2>3. s.os[f] = "listen" => f \in s.listeners
    BY <1>2 DEF Owned
  <2>4. f \in s.listeners => s.os[f] \in {"listen", "free"}
    BY <1>2 DEF Owned, Kept
  <2> QED BY <1>2, <2>1, <2>2, <2>3, <2>4 DEF Kept, NULL
<1>22. Kept(t)
  BY <1>2, <1>17, <1>18, <1>20, <1>21 DEF Kept
<1>23. Live(t) = {}
  BY <1>17, <1>18, <1>20 DEF Live
<1>24. Asked(t)
  BY <1>11, <1>18, <1>23 DEF Asked
<1>25. \A x \in Fd : t.pipe[x] = NONE
  BY <1>2, <1>3, <1>9, <1>18 DEF Owned
<1>26. Owned(t) /\ Idle(t)
  BY <1>17, <1>18, <1>20, <1>25 DEF Owned, Idle
<1> QED BY <1>18, <1>19, <1>22, <1>24, <1>26 DEF Good

-----------------------------------------------------------------------------
(* The main loop                                                           *)
LEMMA Interested ==
    ASSUME NEW s \in Good, NEW wbuf \in SUBSET s.sock, NEW free \in SUBSET s.sock,
           NEW full \in SUBSET free, NEW t,
           t = Conn_Update_Read_Interest(Conn_Update_Write_Interest(s, wbuf), free, full)
    PROVE  During(s, t)
<1> DEFINE i == io_event_add(s.io, wbuf, {W})
           u == [s EXCEPT !.io = i]
           j == io_event_del(i, full, {R})
           v == [s EXCEPT !.io = j]
           k == io_event_add(j, free \ full, {R})
<1>1. t = [u EXCEPT !.io = io_event_add(io_event_del(u.io, full, {R}), free \ full, {R})]
  BY Zenon DEF Conn_Update_Read_Interest, Conn_Update_Write_Interest
<1>2. s \in State
  BY GoodParts
<1>3. s.io \in IoState /\ s.sock \subseteq Fd
  BY <1>2, Fields
<1>4. i \in IoState
  BY <1>3, IoAdd, Zenon DEF Added
<1>5. j \in IoState
  <2> HIDE DEF i
  <2> QED BY <1>3, <1>4, IoDel, Zenon DEF Deleted
<1>6. k \in IoState
  <2> HIDE DEF j
  <2>1. free \ full \in SUBSET Fd
    BY <1>3
  <2> QED BY <1>5, <2>1, IoAdd, Zenon DEF Added
<1>7. /\ i \in {io_event_add(s.io, wbuf, {W}), io_event_del(s.io, wbuf, {W})}
      /\ j \in {io_event_add(i, full, {R}), io_event_del(i, full, {R})}
      /\ k \in {io_event_add(j, free \ full, {R}), io_event_del(j, free \ full, {R})}
  BY Zenon
<1> HIDE DEF i
<1>8. /\ u \in State /\ u.io = i /\ u.os = s.os /\ u.leaked = s.leaked
      /\ u.listeners = s.listeners /\ u.sock = s.sock /\ u.pipe = s.pipe
      /\ u.closed = s.closed /\ u.quit = s.quit
  BY <1>2, <1>4 DEF State
<1>9. t = [u EXCEPT !.io = k]
  BY <1>1, <1>8, Zenon
<1> HIDE DEF u, j, k
<1>10. /\ v \in State /\ v.io = j /\ v.os = s.os /\ v.leaked = s.leaked
       /\ v.listeners = s.listeners /\ v.sock = s.sock /\ v.pipe = s.pipe
       /\ v.closed = s.closed /\ v.quit = s.quit
  BY <1>2, <1>5 DEF State
<1> HIDE DEF v
<1>11. /\ t \in State /\ t.io = k /\ t.os = s.os /\ t.leaked = s.leaked
       /\ t.listeners = s.listeners /\ t.sock = s.sock /\ t.pipe = s.pipe
       /\ t.closed = s.closed /\ t.quit = s.quit
  BY <1>6, <1>8, <1>9 DEF State
<1>12. During(s, u) /\ u \in Good
  <2>1. During(s, u)
    BY <1>7, <1>8, Rewatched, Zenon
  <2> QED BY <2>1 DEF During
<1>13. During(u, v) /\ v \in Good
  <2>1. full \in SUBSET u.sock
    BY <1>8
  <2>2. During(u, v)
    BY <1>7, <1>8, <1>10, <1>12, <2>1, Rewatched, Zenon
  <2> QED BY <2>2, Zenon DEF During
<1>14. During(v, t)
  <2>1. free \ full \in SUBSET v.sock
    BY <1>10
  <2> QED BY <1>7, <1>10, <1>11, <1>13, <2>1, Rewatched, Zenon
<1> QED BY <1>12, <1>13, <1>14, DuringThen

LEMMA RestFinite ==
    ASSUME NEW S \in SUBSET Fd, NEW i
    PROVE  /\ IsFiniteSet(Rest(S, i)) /\ Cardinality(Rest(S, i)) \in Nat
           /\ Cardinality(Rest(S, i)) <= Cardinality(Fd)
           /\ Cardinality(Rest(S, i)) = 0 <=> Rest(S, i) = {}
<1>1. Rest(S, i) \subseteq Fd
  BY DEF Rest
<1> QED BY <1>1, IoAssumption, FS_Subset, FS_CardinalityType, FS_EmptySet

\* Without the next descriptor reported, one event less is left in each of the two sets.
LEMMA RestNext ==
    ASSUME NEW S \in SUBSET Fd, NEW i \in Fd \cup {0}, NEW f \in Fd, f > i,
           \A g \in S : g > i => g >= f
    PROVE  Cardinality(Rest(S, f)) = Cardinality(Rest(S, i)) - (IF f \in S THEN 1 ELSE 0)
<1>1. S \subseteq Nat /\ i \in Nat /\ f \in Nat
  BY FdNat
<1>2. IsFiniteSet(Rest(S, i)) /\ Cardinality(Rest(S, i)) \in Nat
  BY RestFinite
<1>3. \A g \in S : g \in Rest(S, f) <=> g \in Rest(S, i) /\ g # f
  <2> TAKE g \in S
  <2>1. g \in Nat /\ (g > i => g >= f)
    BY <1>1
  <2>2. g > f <=> g > i /\ g # f
    BY <1>1, <2>1
  <2> QED BY <2>2 DEF Rest
<1>4. Rest(S, f) \subseteq S /\ Rest(S, i) \subseteq S
  BY DEF Rest
<1>5. CASE f \in S
  <2>1. f \in Rest(S, i)
    BY <1>5 DEF Rest
  <2>2. Rest(S, f) = Rest(S, i) \ {f}
    BY <1>3, <1>4
  <2>3. Cardinality(Rest(S, i) \ {f}) = Cardinality(Rest(S, i)) - 1
    BY <1>2, <2>1, FS_RemoveElement, Zenon
  <2> QED BY <1>5, <2>2, <2>3
<1>6. CASE f \notin S
  <2>1. Rest(S, f) = Rest(S, i)
    BY <1>3, <1>6, <1>4
  <2> QED BY <1>2, <1>6, <2>1
<1> QED BY <1>5, <1>6

LEMMA WhatCounts ==
    ASSUME NEW s, NEW f
    PROVE  Cardinality(What(s, f)) = (IF f \in s.r THEN 1 ELSE 0) + (IF f \in s.w THEN 1 ELSE 0)
<1>1. Cardinality({}) = 0 /\ Cardinality({R}) = 1 /\ Cardinality({W}) = 1
  BY FS_EmptySet, FS_Singleton, Zenon
<1>2. R # W
  BY DEF R, W
<1>3. Cardinality({R, W}) = 2
  <2>1. IsFiniteSet({R}) /\ W \notin {R} /\ {R} \cup {W} = {R, W}
    BY <1>2, FS_Singleton, Zenon
  <2>2. Cardinality({R} \cup {W}) = Cardinality({R}) + 1
    BY <2>1, FS_AddElement
  <2> QED BY <1>1, <2>1, <2>2
<1>4. CASE f \in s.r /\ f \in s.w
  <2>1. What(s, f) = {R, W}
    BY <1>4 DEF What
  <2> QED BY <1>3, <1>4, <2>1
<1>5. CASE f \in s.r /\ f \notin s.w
  <2>1. What(s, f) = {R}
    BY <1>5 DEF What
  <2> QED BY <1>1, <1>5, <2>1
<1>6. CASE f \notin s.r /\ f \in s.w
  <2>1. What(s, f) = {W}
    BY <1>6 DEF What
  <2> QED BY <1>1, <1>6, <2>1
<1>7. CASE f \notin s.r /\ f \notin s.w
  <2>1. What(s, f) = {}
    BY <1>7 DEF What
  <2> QED BY <1>1, <1>7, <2>1
<1> QED BY <1>4, <1>5, <1>6, <1>7

-----------------------------------------------------------------------------
(* Every step keeps the invariant, and a request to quit                   *)
Advances == IInv' /\ (st.quit /\ Running => st'.quit)

LEMMA NoRoundFacts ==
    /\ NoRound \in [r : SUBSET Fd, w : SUBSET Fd, i : Fd \cup {0}, left : Nat]
    /\ NoRound.left = Cardinality(Rest(NoRound.r, NoRound.i))
                      + Cardinality(Rest(NoRound.w, NoRound.i))
    /\ NoRound.r = {} /\ NoRound.w = {}
<1>1. NoRound.r = {} /\ NoRound.w = {} /\ NoRound.i = 0 /\ NoRound.left = 0
  BY DEF NoRound
<1>2. Rest({}, 0) = {}
  BY DEF Rest
<1>3. Cardinality({}) = 0
  BY FS_EmptySet
<1>4. NoRound \in [r : SUBSET Fd, w : SUBSET Fd, i : Fd \cup {0}, left : Nat]
  BY DEF NoRound
<1> QED BY <1>1, <1>2, <1>3, <1>4

\* A step outside a round.
LEMMA Away ==
    ASSUME IInv, st' \in Good, pc' \notin {"dispatch", "loop"},
           \/ round' = round /\ (pc' = "exited" \/ round = NoRound)
           \/ round' = NoRound,
           pidfile' \in {"none", "own", "other"}, pc' \in Starting \cup Ending => Idle(st'),
           st.quit /\ Running => st'.quit
    PROVE  Advances
<1>1. /\ round' \in [r : SUBSET Fd, w : SUBSET Fd, i : Fd \cup {0}, left : Nat]
      /\ round'.left = Cardinality(Rest(round'.r, round'.i))
                       + Cardinality(Rest(round'.w, round'.i))
  BY NoRoundFacts DEF IInv
<1>2. pc' \notin {"dispatch", "loop", "exited"} => round' = NoRound
  OBVIOUS
<1> QED BY <1>1, <1>2, Zenon DEF IInv, Advances

LEMMA Ends ==
    ASSUME IInv, st' = st, round' = round, pc' = "exited",
           pidfile' \in {"none", "own", "other"}
    PROVE  Advances
<1>1. st' \in Good /\ pc' \notin {"dispatch", "loop"} /\ pc' \notin Starting \cup Ending
  BY DEF IInv, Starting, Ending
<1> QED BY <1>1, Away

LEMMA StepAdvances ==
    ASSUME IInv, NEW here \in Starting, NEW next \in Starting, Step(here, next)
    PROVE  Advances
<1>1. CASE Goto(next) /\ UNCHANGED st
  <2>1. /\ pc = here /\ pc' = next /\ round' = round /\ pidfile' = pidfile /\ st' = st
    BY <1>1 DEF Step, Goto
  <2>2. Idle(st) /\ round = NoRound
    BY <2>1 DEF IInv, Starting
  <2>3. st' \in Good /\ pidfile' \in {"none", "own", "other"} /\ pc' \notin {"dispatch", "loop"}
    BY <2>1 DEF IInv, Starting
  <2> QED BY <2>1, <2>2, <2>3, Away
<1>2. CASE Faults /\ Fatal(here)
  BY <1>2, Ends, Zenon DEF Fatal, Exit, IInv
<1> QED BY <1>1, <1>2 DEF Step

LEMMA TopAdvances ==
    ASSUME IInv, Top PROVE Advances
<1>1. st \in Good /\ Idle(st) /\ round = NoRound /\ pidfile \in {"none", "own", "other"}
  BY DEF IInv, Top, Starting
<1>2. round' = round /\ pidfile' = pidfile
  BY DEF Top, Goto
<1>3. CASE st.quit
  <2>1. pc' = "stop" /\ st' = st
    BY <1>3 DEF Top, Goto
  <2> QED BY <1>1, <1>2, <2>1, Away
<1>4. CASE ~st.quit
  <2> DEFINE off == FALSE
  <2>1. off \in BOOLEAN /\ st \in State
    BY <1>1, GoodParts
  <2>2. pc' = "preloop" /\ st' = [st EXCEPT !.restart = off, !.quit = off]
    BY <1>4 DEF Top, Goto
  <2> HIDE DEF off
  <2>3. /\ st' \in State /\ st'.io = st.io /\ st'.os = st.os /\ st'.leaked = st.leaked
        /\ st'.listeners = st.listeners /\ st'.sock = st.sock /\ st'.pipe = st.pipe
    BY <2>1, <2>2, Zenon DEF State
  <2>4. st' \in Good /\ Idle(st')
    BY <1>1, <2>3, IdleFlagged
  <2> QED BY <1>1, <1>2, <1>4, <2>2, <2>4, Away
<1> QED BY <1>3, <1>4

LEMMA NGIRCd_InitAdvances ==
    ASSUME IInv, NGIRCd_Init PROVE Advances
<1>1. st \in Good /\ Idle(st) /\ round = NoRound /\ pidfile \in {"none", "own", "other"}
  BY DEF IInv, NGIRCd_Init, Starting
<1> DEFINE on == TRUE
<1>2. on \in BOOLEAN /\ st \in State
  BY <1>1, GoodParts
<1>3. CASE Goto("runtime_loop") /\ st' = [st EXCEPT !.initialized = on]
  <2> HIDE DEF on
  <2>1. /\ st' \in State /\ st'.io = st.io /\ st'.os = st.os /\ st'.leaked = st.leaked
        /\ st'.listeners = st.listeners /\ st'.sock = st.sock /\ st'.pipe = st.pipe
        /\ st'.quit = st.quit
    BY <1>2, <1>3 DEF State
  <2>2. st' \in Good /\ Idle(st')
    BY <1>1, <2>1, IdleFlagged
  <2>3. pc' = "runtime_loop" /\ round' = round /\ pidfile' = pidfile
    BY <1>3 DEF Goto
  <2> QED BY <1>1, <2>1, <2>2, <2>3, Away
<1>4. CASE Fatal("daemon")
  BY <1>1, <1>4, Ends DEF Fatal, Exit
<1> QED BY <1>3, <1>4 DEF NGIRCd_Init

LEMMA RuntimeAdvances ==
    ASSUME IInv, init_runtime_loop PROVE Advances
<1>1. st \in Good /\ Idle(st) /\ round = NoRound /\ pidfile \in {"none", "own", "other"}
  BY DEF IInv, init_runtime_loop, Starting
<1>2. ASSUME NEW f \in FreeFds(st), io_event_fits(f),
             st' = Conn_Init(Signals_Init([st EXCEPT !.io = io_library_init(@)], f)),
             Goto("listeners")
      PROVE  Advances
  <2>1. st' \in Good /\ st'.quit = st.quit
    BY <1>1, <1>2, Started
  <2>2. pc' = "listeners" /\ round' = round /\ pidfile' = pidfile
    BY <1>2 DEF Goto
  <2>3. pc' \notin Starting \cup Ending
    BY <2>2 DEF Starting, Ending
  <2> QED BY <1>1, <2>1, <2>2, <2>3, Away
<1>3. CASE Fatal("runtime_loop")
  BY <1>1, <1>3, Ends DEF Fatal, Exit
<1> QED BY <1>2, <1>3 DEF init_runtime_loop

LEMMA ListenersAdvances ==
    ASSUME IInv, init_listeners PROVE Advances
<1>1. st \in Good /\ round = NoRound /\ pidfile \in {"none", "own", "other"}
  BY DEF IInv, init_listeners
<1>2. PICK got \in Sockets(st) :
        \/ st' = Conn_InitListeners(st, got) /\ Goto("pidfile")
        \/ Exit("listeners") /\ pidfile' = "none"
  BY DEF init_listeners
<1>3. CASE st' = Conn_InitListeners(st, got) /\ Goto("pidfile")
  <2>1. During(st, st')
    BY <1>1, <1>3, ListenersOpened
  <2>2. pc' = "pidfile" /\ round' = round /\ pidfile' = pidfile
    BY <1>3 DEF Goto
  <2>3. pc' \notin Starting \cup Ending
    BY <2>2 DEF Starting, Ending
  <2> QED BY <1>1, <2>1, <2>2, <2>3, Away DEF During
<1>4. CASE Exit("listeners") /\ pidfile' = "none"
  BY <1>4, Ends DEF Exit
<1> QED BY <1>2, <1>3, <1>4

LEMMA PidfileAdvances ==
    ASSUME IInv, create_pidfile PROVE Advances
<1>1. st \in Good /\ round = NoRound /\ pidfile \in {"none", "own", "other"}
  BY DEF IInv, create_pidfile
<1>2. \/ pidfile' = "own" /\ pc' = "loop" /\ UNCHANGED <<st, round, code>>
      \/ Fatal("pidfile")
  BY DEF create_pidfile
<1>3. CASE pidfile' = "own" /\ pc' = "loop" /\ UNCHANGED <<st, round, code>>
  <2>1. Rest(round'.r \cup round'.w, round'.i) = {}
    BY <1>1, <1>3, NoRoundFacts DEF Rest
  <2>2. pc' \notin Starting \cup Ending
    BY <1>3 DEF Starting, Ending
  <2> QED BY <1>1, <1>3, <2>1, <2>2, NoRoundFacts DEF IInv, Advances
<1>4. CASE Fatal("pidfile")
  BY <1>1, <1>4, Ends DEF Fatal, Exit
<1> QED BY <1>2, <1>3, <1>4

LEMMA ShutdownAdvances ==
    ASSUME IInv, shutdown_runtime PROVE Advances
<1>1. st \in Good /\ round = NoRound /\ pidfile \in {"none", "own", "other"}
  BY DEF IInv, shutdown_runtime
<1>2. st' \in Good /\ Idle(st') /\ st'.quit = st.quit
  BY <1>1, ShutDown, Zenon DEF shutdown_runtime
<1>3. pc' = "shutdown_loop" /\ round' = round /\ pidfile' = pidfile
  BY DEF shutdown_runtime, Goto
<1> QED BY <1>1, <1>2, <1>3, Away

LEMMA ShutdownLoopAdvances ==
    ASSUME IInv, shutdown_runtime_loop PROVE Advances
<1>1. st \in Good /\ Idle(st) /\ round = NoRound /\ pidfile \in {"none", "own", "other"}
  BY DEF IInv, shutdown_runtime_loop, Ending
<1> DEFINE io == io_library_shutdown(st.io)
<1>2. st \in State
  BY <1>1, GoodParts
<1>3. io \in IoState
  BY <1>2, Fields, LibraryShut
<1>4. st' = [st EXCEPT !.io = io, !.closed = {}]
  BY Zenon DEF shutdown_runtime_loop
<1> HIDE DEF io
<1>5. /\ st' \in State /\ st'.io = io /\ st'.os = st.os /\ st'.leaked = st.leaked
      /\ st'.listeners = st.listeners /\ st'.sock = st.sock /\ st'.pipe = st.pipe
      /\ st'.quit = st.quit
  BY <1>2, <1>3, <1>4, Zenon DEF State
<1>6. st' \in Good /\ Idle(st')
  BY <1>1, <1>5, IdleLibrary DEF io
<1>7. pc' = "top" /\ round' = round /\ pidfile' = pidfile
  BY DEF shutdown_runtime_loop, Goto
<1> QED BY <1>1, <1>5, <1>6, <1>7, Away

LEMMA StopAdvances ==
    ASSUME IInv, Stop PROVE Advances
<1>1. pidfile \in {"none", "own", "other"}
  BY DEF IInv
<1>2. pidfile' \in {"none", "own", "other"}
  BY <1>1 DEF Stop
<1> QED BY <1>2, Ends DEF Stop, Exit

\* A new round begins with nothing closed.
LEMMA Reopened ==
    ASSUME NEW s \in Good, NEW t, t = [s EXCEPT !.closed = {}]
    PROVE  t \in Good /\ t.quit = s.quit
<1>1. s \in State /\ Kept(s) /\ Asked(s) /\ Owned(s)
  BY GoodParts
<1>2. /\ t \in State /\ t.io = s.io /\ t.os = s.os /\ t.leaked = s.leaked
      /\ t.listeners = s.listeners /\ t.sock = s.sock /\ t.pipe = s.pipe /\ t.quit = s.quit
  BY <1>1 DEF State
<1>3. Kept(t) /\ Asked(t)
  BY <1>1, <1>2, SameDescriptors, Zenon
<1>4. Owned(t)
  BY <1>1, <1>2 DEF Owned
<1> QED BY <1>2, <1>3, <1>4 DEF Good

LEMMA LoopAdvances ==
    ASSUME IInv, Loop PROVE Advances
<1>1. st \in Good /\ pidfile' \in {"none", "own", "other"}
  BY DEF IInv, Loop
<1>2. round' = NoRound /\ pc' \in {"shutdown", "interest"}
  BY DEF Loop
<1>3. pc' \notin Starting \cup Ending /\ pc' \notin {"dispatch", "loop"}
  BY <1>2 DEF Starting, Ending
<1>4. PICK s \in Commands(st) \cup {st} : st' = [s EXCEPT !.closed = {}]
  BY DEF Loop
<1>5. During(st, s) /\ s \in Good
  BY <1>1, Commanded, DuringSelf DEF During
<1>6. st' \in Good /\ st'.quit = s.quit
  BY <1>4, <1>5, Reopened
<1>7. st.quit => st'.quit
  BY <1>5, <1>6 DEF During
<1> QED BY <1>1, <1>2, <1>3, <1>6, <1>7, Away

LEMMA InterestAdvances ==
    ASSUME IInv, Interest PROVE Advances
<1>1. st \in Good /\ round = NoRound /\ pidfile \in {"none", "own", "other"}
  BY DEF IInv, Interest
<1>2. PICK wbuf \in SUBSET st.sock, free \in SUBSET st.sock :
        \E full \in SUBSET free :
           st' = Conn_Update_Read_Interest(Conn_Update_Write_Interest(st, wbuf), free, full)
  BY DEF Interest
<1>3. During(st, st')
  BY <1>1, <1>2, Interested
<1>4. pc' = "select" /\ round' = round /\ pidfile' = pidfile
  BY DEF Interest, Goto
<1>5. pc' \notin Starting \cup Ending
  BY <1>4 DEF Starting, Ending
<1> QED BY <1>1, <1>3, <1>4, <1>5, Away DEF During

\* All that select() reports is open, watched and not above select_maxfd.
LEMMA SelectAdvances ==
    ASSUME IInv, Select PROVE Advances
<1>1. st \in Good /\ round = NoRound /\ pidfile \in {"none", "own", "other"}
  BY DEF IInv, Select
<1>2. CASE Fatal("select")
  BY <1>1, <1>2, Ends DEF Fatal, Exit
<1>3. ASSUME NEW s \in Ready(st.io),
             pc' = IF fds_ready(s) = 0 THEN "loop" ELSE "dispatch",
             round' = [r |-> s.r, w |-> s.w, i |-> 0, left |-> fds_ready(s)],
             UNCHANGED <<st, pidfile, code>>
      PROVE  Advances
  <2>1. st \in State /\ Kept(st) /\ Asked(st)
    BY <1>1, GoodParts
  <2>2. st.io.readers \subseteq Fd /\ st.io.writers \subseteq Fd
    BY <2>1, Fields, IoFields, Zenon
  <2>3. s.r \subseteq st.io.readers /\ s.w \subseteq st.io.writers
    BY DEF Ready, Watched
  <2>4. s.r \in SUBSET Fd /\ s.w \in SUBSET Fd
    BY <2>2, <2>3
  <2>5. Rest(s.r, 0) = s.r /\ Rest(s.w, 0) = s.w
    <3>1. \A f \in Fd : f > 0
      BY IoAssumption
    <3> QED BY <2>4, <3>1 DEF Rest
  <2>6. Cardinality(s.r) \in Nat /\ Cardinality(s.w) \in Nat
    BY <2>4, <2>5, RestFinite
  <2>7. fds_ready(s) = Cardinality(s.r) + Cardinality(s.w) /\ fds_ready(s) \in Nat
    BY <2>6 DEF fds_ready
  <2>8. /\ round'.r = s.r /\ round'.w = s.w /\ round'.i = 0 /\ round'.left = fds_ready(s)
        /\ round' \in [r : SUBSET Fd, w : SUBSET Fd, i : Fd \cup {0}, left : Nat]
    BY <1>3, <2>4, <2>7
  <2>9. round'.left = Cardinality(Rest(round'.r, round'.i))
                      + Cardinality(Rest(round'.w, round'.i))
    BY <2>5, <2>7, <2>8
  <2>10. ASSUME NEW f \in s.r \cup s.w PROVE f \notin st.leaked /\ Attended(st, f)
    <3>1. f \in Live(st) /\ f \in Fd
      BY <2>1, <2>2, <2>3 DEF Asked
    <3>2. st.os[f] # "free" /\ f \notin st.leaked /\ f <= st.io.select_maxfd
      BY <2>1, <3>1 DEF Live, Asked
    <3>3. st.os[f] \in Kinds
      BY <2>1, <3>1, Fields
    <3>4. st.io.callback[f] # NULL
      BY <2>1, <3>1, <3>2, <3>3 DEF Kept, Kinds, NULL
    <3> QED BY <3>2, <3>4 DEF Attended
  <2>11. fds_ready(s) = 0 => s.r \cup s.w = {}
    BY <2>4, <2>5, <2>6, <2>7, RestFinite
  <2>12. \A f \in Rest(round'.r \cup round'.w, round'.i) :
           f \notin st'.leaked /\ pc' = "dispatch" /\ Attended(st', f)
    BY <1>3, <2>8, <2>10, <2>11 DEF Rest
  <2>13. pc' \in {"loop", "dispatch"} /\ pc' \notin Starting \cup Ending
    BY <1>3 DEF Starting, Ending
  <2> QED BY <1>1, <1>3, <2>8, <2>9, <2>12, <2>13, Zenon DEF IInv, Advances
<1> QED BY <1>2, <1>3 DEF Select

\* One turn of the loop: the next descriptor reported is served, or there is none left
\* that select_maxfd lets the loop come to, and then the rest has been closed.
LEMMA DispatchAdvances ==
    ASSUME IInv, Dispatch PROVE Advances
<1> DEFINE todo == {f \in round.r \cup round.w : f > round.i /\ f <= st.io.select_maxfd}
           f == Min(todo)
<1>1. /\ st \in Good /\ pidfile \in {"none", "own", "other"} /\ pc = "dispatch"
      /\ round \in [r : SUBSET Fd, w : SUBSET Fd, i : Fd \cup {0}, left : Nat]
      /\ round.left = Cardinality(Rest(round.r, round.i)) + Cardinality(Rest(round.w, round.i))
  BY DEF IInv, Dispatch
<1>2. \A g \in Rest(round.r \cup round.w, round.i) :
        g \notin st.leaked /\ (g \in st.closed \/ Attended(st, g))
  BY <1>1 DEF IInv
<1>3. round.r \in SUBSET Fd /\ round.w \in SUBSET Fd /\ round.i \in Fd \cup {0}
  BY <1>1
<1>4. todo \subseteq Rest(round.r \cup round.w, round.i)
  BY DEF Rest
<1>5. CASE todo = {}
  <2>1. pc' = "loop" /\ round' = round /\ pidfile' = pidfile /\ st' = st
    BY <1>5 DEF Dispatch, Goto
  <2>2. \A g \in Rest(round.r \cup round.w, round.i) : g \in st.closed
    BY <1>2, <1>5 DEF Rest, Attended
  <2>3. pc' \notin Starting \cup Ending
    BY <2>1 DEF Starting, Ending
  <2> QED BY <1>1, <1>2, <2>1, <2>2, <2>3, Zenon DEF IInv, Advances
<1>6. CASE todo # {}
  <2>1. f \in todo /\ \A g \in todo : f <= g
    <3>1. todo \in SUBSET Nat
      BY <1>3, FdNat, Zenon
    <3> HIDE DEF todo
    <3> QED BY <1>6, <3>1, MinNatural
  <2>2. /\ \E s \in io_docallback(st, f, What(round, f)) : st' = s
        /\ round' = [round EXCEPT !.i = f, !.left = Remaining(f)]
        /\ pc' = IF Done(Remaining(f)) THEN "loop" ELSE "dispatch"
        /\ pidfile' = pidfile
    BY <1>6 DEF Dispatch
  <2>3. f \in Fd /\ f \notin st.leaked /\ f > round.i /\ f <= st.io.select_maxfd
    BY <1>2, <1>3, <1>4, <2>1, Zenon
  <2>4. \A g \in round.r \cup round.w : g > round.i => g >= f
    <3> SUFFICES ASSUME NEW g \in round.r \cup round.w, g > round.i PROVE g >= f
      OBVIOUS
    <3>1. f \in Nat /\ g \in Nat /\ st.io.select_maxfd \in Nat
      BY <1>1, <1>3, <2>3, FdNat, GoodParts, Fields, IoFields, Zenon
    <3>2. g <= st.io.select_maxfd => f <= g
      BY <2>1
    <3> QED BY <2>3, <3>1, <3>2
  <2> HIDE DEF f, todo
  <2>5. /\ Cardinality(Rest(round.r, f)) =
             Cardinality(Rest(round.r, round.i)) - (IF f \in round.r THEN 1 ELSE 0)
        /\ Cardinality(Rest(round.w, f)) =
             Cardinality(Rest(round.w, round.i)) - (IF f \in round.w THEN 1 ELSE 0)
    BY <1>3, <2>3, <2>4, RestNext
  <2>6. /\ Cardinality(Rest(round.r, f)) \in Nat /\ Cardinality(Rest(round.w, f)) \in Nat
        /\ Cardinality(Rest(round.r, round.i)) \in Nat
        /\ Cardinality(Rest(round.w, round.i)) \in Nat
    BY <1>3, RestFinite
  <2>7. Remaining(f) = Cardinality(Rest(round.r, f)) + Cardinality(Rest(round.w, f))
    <3>1. Remaining(f) = round.left - ((IF f \in round.r THEN 1 ELSE 0)
                                       + (IF f \in round.w THEN 1 ELSE 0))
      BY WhatCounts DEF Remaining
    <3> QED BY <1>1, <2>5, <2>6, <3>1
  <2>8. /\ round' \in [r : SUBSET Fd, w : SUBSET Fd, i : Fd \cup {0}, left : Nat]
        /\ round'.r = round.r /\ round'.w = round.w /\ round'.i = f
        /\ round'.left = Remaining(f)
    <3>1. Remaining(f) \in Nat
      BY <2>6, <2>7
    <3> QED BY <1>1, <2>2, <2>3, <3>1, Zenon
  <2>9. During(st, st')
    BY <1>1, <2>2, <2>3, CalledBack
  <2>10. pc' = "loop" => Rest(round.r \cup round.w, f) = {}
    <3> SUFFICES ASSUME pc' = "loop" PROVE Rest(round.r \cup round.w, f) = {}
      OBVIOUS
    <3>1. Cardinality(Rest(round.r, f)) = 0 /\ Cardinality(Rest(round.w, f)) = 0
      BY <2>2, <2>6, <2>7 DEF Done
    <3>2. Rest(round.r, f) = {} /\ Rest(round.w, f) = {}
      BY <1>3, <3>1, RestFinite
    <3> QED BY <3>2 DEF Rest
  <2>11. \A g \in Rest(round.r \cup round.w, f) :
           g \notin st'.leaked /\ (g \in st'.closed \/ Attended(st', g))
    <3> TAKE g \in Rest(round.r \cup round.w, f)
    <3>1. g \in Rest(round.r \cup round.w, round.i) /\ g \in Fd
      <4>1. g \in round.r \cup round.w /\ g > f /\ g \in Fd
        BY <1>3 DEF Rest
      <4>2. g \in Nat /\ f \in Nat /\ round.i \in Nat
        BY <1>3, <2>3, <4>1, FdNat, Zenon
      <4>3. g > round.i
        BY <2>3, <4>1, <4>2
      <4> QED BY <4>1, <4>3 DEF Rest
    <3> QED BY <1>2, <2>9, <3>1 DEF During
  <2>12. pc' \in {"loop", "dispatch"} /\ pc' \notin Starting \cup Ending
    BY <2>2 DEF Starting, Ending
  <2>13. st' \in Good /\ (st.quit => st'.quit)
    BY <2>9 DEF During
  <2>14. round'.left = Cardinality(Rest(round'.r, round'.i))
                       + Cardinality(Rest(round'.w, round'.i))
    BY <2>7, <2>8
  <2>15. pc' \in {"dispatch", "loop"} =>
           \A g \in Rest(round'.r \cup round'.w, round'.i) :
             g \notin st'.leaked /\ (g \in st'.closed \/ (pc' = "dispatch" /\ Attended(st', g)))
    BY <2>8, <2>10, <2>11, <2>12
  <2> QED BY <1>1, <2>2, <2>8, <2>12, <2>13, <2>14, <2>15, Zenon DEF IInv, Advances
<1> QED BY <1>5, <1>6

\* Signals change flags, whatever the process is doing.
LEMMA SignalAdvances ==
    ASSUME IInv, Signal_Quit \/ Signal_Hup PROVE Advances
<1> DEFINE on == TRUE
<1>1. st \in Good /\ pidfile \in {"none", "own", "other"}
  BY DEF IInv
<1>2. on \in BOOLEAN /\ st \in State
  BY <1>1, GoodParts
<1>3. \/ Fatal("killed")
      \/ /\ st' = [st EXCEPT !.quit = on] \/ st' = [st EXCEPT !.hup = on]
         /\ UNCHANGED <<pc, round, pidfile, code>>
  BY DEF Signal_Quit, Signal_Hup
<1>4. CASE Fatal("killed")
  BY <1>1, <1>4, Ends DEF Fatal, Exit
<1>5. CASE /\ st' = [st EXCEPT !.quit = on] \/ st' = [st EXCEPT !.hup = on]
           /\ UNCHANGED <<pc, round, pidfile, code>>
  <2>1. on
    OBVIOUS
  <2> HIDE DEF on
  <2>2. /\ st' \in State /\ st'.io = st.io /\ st'.os = st.os /\ st'.leaked = st.leaked
        /\ st'.listeners = st.listeners /\ st'.sock = st.sock /\ st'.pipe = st.pipe
        /\ st.closed = st'.closed /\ (st'.quit = on \/ st'.quit = st.quit)
    BY <1>2, <1>5 DEF State
  <2>3. During(st, st')
    BY <1>1, <2>1, <2>2, Flagged, Zenon
  <2>4. pc' \in Starting \cup Ending => Idle(st')
    BY <1>1, <1>5, <2>2, IdleFlagged DEF IInv
  <2>5. st' \in Good /\ st'.leaked = st.leaked /\ (st.quit => st'.quit)
    BY <2>3 DEF During
  <2>6. \A f \in Fd : Attended(st, f) => Attended(st', f)
    BY <2>2 DEF Attended
  <2>7. pc \in {"dispatch", "loop"} =>
          \A f \in Rest(round.r \cup round.w, round.i) :
             f \notin st'.leaked /\ (f \in st'.closed \/ (pc = "dispatch" /\ Attended(st', f)))
    <3>1. \A f \in Rest(round.r \cup round.w, round.i) : f \in Fd
      BY DEF IInv, Rest
    <3> QED BY <2>2, <2>6, <3>1, Zenon DEF IInv
  <2>8. pc' = pc /\ round' = round /\ pidfile' = pidfile
    BY <1>5
  <2> QED BY <2>4, <2>5, <2>7, <2>8, Zenon DEF IInv, Advances
<1> QED BY <1>3, <1>4, <1>5

LEMMA UnlinkedAdvances ==
    ASSUME IInv, Unlinked PROVE Advances
<1>1. /\ pc' = "pidfile" /\ st' = st /\ round' = round /\ pidfile' = "none"
      /\ pc = "pidfile"
  BY DEF Unlinked
<1>2. st' \in Good /\ round = NoRound /\ pc' \notin Starting \cup Ending
  BY <1>1, Zenon DEF IInv, Starting, Ending
<1> QED BY <1>1, <1>2, Away

LEMMA RerunAdvances ==
    ASSUME IInv, Rerun PROVE Advances
<1>1. /\ pc' = "winsock" /\ st' = Nothing /\ round' = NoRound /\ ~Running
      /\ pidfile' \in {"none", "own", "other"}
  BY DEF IInv, Rerun
<1> QED BY <1>1, NothingOpen, Away

LEMMA NextAdvances ==
    ASSUME IInv, [Next]_vars PROVE Advances
<1>1. CASE UNCHANGED vars
  BY <1>1, Zenon DEF vars, IInv, Advances
<1>2. CASE win32_main \/ host_load_modules \/ host_wire_modules \/ main_create \/ init_preloop
  <2>1. {"winsock", "load", "wire", "create", "top", "preloop", "daemon"} \subseteq Starting
    BY DEF Starting
  <2> QED BY <1>2, <2>1, StepAdvances
          DEF win32_main, host_load_modules, host_wire_modules, main_create, init_preloop
<1>3. CASE Signal_Quit \/ Signal_Hup \/ Unlinked \/ Rerun
  BY <1>3, SignalAdvances, UnlinkedAdvances, RerunAdvances
<1>4. CASE Loop \/ Interest \/ Select \/ Dispatch
  BY <1>4, LoopAdvances, InterestAdvances, SelectAdvances, DispatchAdvances
<1>5. CASE shutdown_runtime \/ shutdown_runtime_loop \/ Stop
  BY <1>5, ShutdownAdvances, ShutdownLoopAdvances, StopAdvances
<1>6. CASE Top \/ NGIRCd_Init \/ init_runtime_loop \/ init_listeners \/ create_pidfile
  BY <1>6, TopAdvances, NGIRCd_InitAdvances, RuntimeAdvances, ListenersAdvances, PidfileAdvances
<1> QED BY <1>1, <1>2, <1>3, <1>4, <1>5, <1>6 DEF Next, Main

LEMMA InitIInv == Init => IInv
<1> SUFFICES ASSUME Init PROVE IInv
  OBVIOUS
<1>1. pc = "winsock" /\ st = Nothing /\ round = NoRound /\ pidfile \in {"none", "own", "other"}
  BY DEF Init
<1>2. st \in Good /\ Idle(st)
  BY <1>1, NothingOpen
<1> QED BY <1>1, <1>2, NoRoundFacts DEF IInv

\* The inductive invariant holds in every reachable state.
THEOREM IInvHolds == Spec => []IInv
<1>1. IInv /\ [Next]_vars => IInv'
  BY NextAdvances DEF Advances
<1> QED BY <1>1, InitIInv, PTL DEF Spec

\* Through faults, signals, restarts and numbers used again the descriptors are watched
\* exactly, have one owner each and are given back at an orderly end (io.c, conn.c,
\* proc.c, server_app.c), for any set of descriptors, ports and any limits.
THEOREM DescriptorsSoundHolds == Spec => []DescriptorsSound
<1>1. IInv => DescriptorsSound
  <2> SUFFICES ASSUME IInv PROVE DescriptorsSound
    OBVIOUS
  <2>1. st \in Good /\ st \in State /\ Kept(st) /\ Asked(st) /\ Owned(st)
    BY GoodParts DEF IInv
  <2>2. /\ st.os \in [Fd -> Kinds] /\ st.io \in IoState /\ st.listeners \subseteq Fd
        /\ st.sock \subseteq Fd /\ st.pipe \in [Fd -> Fd \cup {NONE}]
        /\ st.note \subseteq Fd /\ st.closed \subseteq Fd
    BY <2>1, Fields
  <2>3. /\ st.io.callback \in [Fd -> Callbacks] /\ st.io.what \in [Fd -> SUBSET {R, W}]
        /\ st.io.readers \subseteq Fd /\ st.io.writers \subseteq Fd
        /\ st.io.select_maxfd \in Fd \cup {0}
    BY <2>2, IoFields
  <2>4. TypeOK
    <3>1. round.r \in SUBSET Fd /\ round.w \in SUBSET Fd /\ round.i \in Fd \cup {0}
          /\ round.left = Cardinality(Rest(round.r, round.i))
                          + Cardinality(Rest(round.w, round.i))
      BY DEF IInv
    <3>2. /\ Cardinality(Rest(round.r, round.i)) \in 0 .. Cardinality(Fd)
          /\ Cardinality(Rest(round.w, round.i)) \in 0 .. Cardinality(Fd)
          /\ Cardinality(Fd) \in Nat
      <4>1. Cardinality(Fd) \in Nat
        BY IoAssumption, FS_CardinalityType
      <4>2. \A S \in SUBSET Fd : /\ Cardinality(Rest(S, round.i)) \in Nat
                                 /\ Cardinality(Rest(S, round.i)) <= Cardinality(Fd)
        BY RestFinite
      <4>3. \A S \in SUBSET Fd : Cardinality(Rest(S, round.i)) \in 0 .. Cardinality(Fd)
        BY <4>1, <4>2
      <4> QED BY <3>1, <4>1, <4>3
    <3>3. round.left \in 0 .. 2 * Cardinality(Fd)
      BY <3>1, <3>2
    <3> QED BY <2>2, <2>3, <3>1, <3>3, Zenon DEF TypeOK, IInv
  <2>5. WatchExact
    <3>1. st.io.readers = {f \in Live(st) : R \in st.io.what[f]}
      BY <2>1, <2>3 DEF Asked, Live
    <3>2. st.io.writers = {f \in Live(st) : W \in st.io.what[f]}
      BY <2>1, <2>3 DEF Asked, Live
    <3>3. \A f \in st.io.readers \cup st.io.writers : f <= st.io.select_maxfd
      BY <2>1, <2>3 DEF Asked
    <3> QED BY <3>1, <3>2, <3>3 DEF WatchExact, Live
  <2>6. OneOwner
    <3>1. st.sock = {f \in Fd : st.os[f] = "conn"}
      BY <2>1, <2>2 DEF Owned
    <3>2. {f \in Fd : st.os[f] = "listen"} \subseteq st.listeners
      BY <2>1 DEF Owned
    <3>3. \A f \in st.listeners : st.os[f] \in {"listen", "free"}
      BY <2>1, <2>2 DEF Owned, Kept
    <3>4. \A f \in Fd \ st.leaked : st.os[f] = "pipe" =>
             st.io.callback[f] = "cb_Read_Resolver_Result" /\ f \in st.io.readers
      BY <2>1 DEF Kept, Asked, Live
    <3>5. \A c \in st.sock : st.pipe[c] # NONE =>
             st.os[st.pipe[c]] = "pipe" /\ \A e \in st.sock \ {c} : st.pipe[e] # st.pipe[c]
      BY <2>1, <2>2 DEF Owned
    <3> QED BY <3>1, <3>2, <3>3, <3>4, <3>5 DEF OneOwner
  <2>7. CleanEnd
    <3> SUFFICES ASSUME pc \in {"shutdown_loop", "top", "stop"}
                 PROVE  /\ st.sock = {} /\ st.listeners = {}
                        /\ st.io.readers = {} /\ st.io.writers = {}
                        /\ \A f \in Fd : st.os[f] \in {"free", "pipe"}
      BY DEF CleanEnd
    <3>1. Idle(st)
      BY DEF IInv, Starting, Ending
    <3> QED BY <2>1, <3>1, IdleFacts DEF Idle
  <2> QED BY <2>4, <2>5, <2>6, <2>7 DEF DescriptorsSound
<1> QED BY <1>1, IInvHolds, PTL

\* A round of io_dispatch_select serves every descriptor that select() reported, or a
\* callback of the same round has closed it, however select_maxfd moves in between.
THEOREM RoundServesHolds == Spec => []RoundServes
<1>1. IInv => RoundServes
  <2> SUFFICES ASSUME IInv, pc = "loop", NEW f \in round.r \cup round.w, ~(f <= round.i)
               PROVE  f \in st.closed
    BY DEF RoundServes
  <2>1. f \in Nat /\ round.i \in Nat
    BY FdNat, Zenon DEF IInv
  <2>2. f \in Rest(round.r \cup round.w, round.i)
    BY <2>1 DEF Rest
  <2> QED BY <2>2 DEF IInv
<1> QED BY <1>1, IInvHolds, PTL

\* No step of main(), the main loop, a callback or a signal forgets a request to quit:
\* not the reset of the flags for the next pass, and not the shutdown of a restart.
THEOREM QuitKeptHolds == Spec => QuitKept
<1>1. IInv /\ [Next]_vars => (st.quit /\ Running => st'.quit)
  BY NextAdvances DEF Advances
<1>2. IInv /\ [Next]_vars => [st.quit /\ Running => st'.quit]_vars
  BY <1>1
<1> QED BY <1>2, IInvHolds, PTL DEF Spec, QuitKept

=============================================================================
