--------------------------- MODULE ConnReadProofs ---------------------------
(***************************************************************************)
(* Proofs about the read side of a connection (module ConnRead), for every *)
(* buffer length, number of commands a pass, timeout, set of penalties and *)
(* data a recv() delivers.                                                 *)
(***************************************************************************)
EXTENDS ConnRead, InductionFacts, TLAPS

USE SizeAssumption, TimeAssumption

\* The type invariant in two parts: the places and flags, and the buffer with
\* the counters.
Flags ==
    /\ pc \in Places /\ ready \subseteq {"sock", "pipe", "listen"}
    /\ open \in BOOLEAN /\ reg \in BOOLEAN /\ want \in BOOLEAN /\ held \in BOOLEAN
    /\ proc \in BOOLEAN /\ pipe \in BOOLEAN /\ free \in BOOLEAN /\ spared \in BOOLEAN

Counters ==
    /\ rbuf \in Seq(Byte)
    /\ delay \in Nat /\ idle \in 0..MaxAge /\ ping \in {NONE} \cup 0..MaxAge
    /\ bps \in 0..maxbps /\ msg \in 0..1
    /\ pass \in Passes

\* A slot without the type invariant: the buffer is bounded, closed slots are clean.
Slot == ReadBufferBound /\ ClosedClean /\ LookupHasPipe

\* The place of the loop tells what is known of the penalty and of the pass:
\* delaytime is never in the future without the round knowing it; a pass runs on
\* an open connection, and "late" tells whether a penalty is to be served.
PassKnows ==
    /\ delay > 0 => held
    /\ pc = "pass" =>
        /\ open
        /\ IF pass.late THEN held ELSE delay = 0
        /\ pass.left = 0 => pass.len > 0

\* Between the pass and the end of select() a line in the buffer is behind a
\* penalty, or within the two bytes Throttle_Connection() is not called for, or it
\* was called and added nothing.
LineHeld ==
    (pc \in {"interest", "select"} /\ open /\ HasLine(rbuf)) => held \/ Len(rbuf) <= 2 \/ spared

\* The inductive invariant of the read side.
IInv == Flags /\ Counters /\ Slot /\ PassKnows /\ LineHeld
-----------------------------------------------------------------------------
(* The operators. *)

\* The first line of a buffer that has an end of line: it is not empty, it is
\* within the buffer, and what follows it is a shorter buffer.
LEMMA FirstLine ==
    ASSUME NEW s \in Seq(Byte), HasLine(s)
    PROVE  /\ LineLen(s) \in 1..Len(s)
           /\ SubSeq(s, LineLen(s) + 1, Len(s)) \in Seq(Byte)
           /\ Len(SubSeq(s, LineLen(s) + 1, Len(s))) = Len(s) - LineLen(s)
<1>1. Ends(s) \subseteq Nat /\ Ends(s) \subseteq 1..Len(s) /\ Ends(s) # {}
  BY DEF Ends, HasLine
<1>2. \E i \in Ends(s) : \A j \in Ends(s) : i <= j
  BY <1>1, LeastNatural
<1>3. LineLen(s) \in Ends(s)
  BY <1>2 DEF LineLen
<1>4. LineLen(s) \in 1..Len(s)
  BY <1>1, <1>3
<1> HIDE DEF LineLen
<1> QED
  BY <1>4

\* A NUL in the place of the first end of line hides every line.
LEMMA NulHides ==
    ASSUME NEW s \in Seq(Byte), HasLine(s)
    PROVE  LET t == [s EXCEPT ![LineLen(s)] = "0"]
           IN  t \in Seq(Byte) /\ Len(t) = Len(s) /\ ~HasLine(t)
<1> DEFINE n == LineLen(s)
           t == [s EXCEPT ![n] = "0"]
<1>1. Ends(s) \subseteq Nat /\ Ends(s) \subseteq 1..Len(s) /\ Ends(s) # {}
  BY DEF Ends, HasLine
<1>2. \E i \in Ends(s) : \A j \in Ends(s) : i <= j
  BY <1>1, LeastNatural
<1>3. n \in 1..Len(s) /\ \A j \in Ends(s) : n <= j
  BY <1>1, <1>2 DEF LineLen
<1> HIDE DEF n
<1>4. t \in Seq(Byte) /\ Len(t) = Len(s) /\ t[n] = "0" /\ \A i \in 1..Len(s) : i # n => t[i] = s[i]
  BY <1>3 DEF Byte
<1> HIDE DEF t
<1>5. SUFFICES ASSUME NEW i \in 1..Len(s), t[i] = "e", \A j \in 1..i : t[j] # "0"
               PROVE  FALSE
  BY <1>4 DEF HasLine, Ends, n, t
<1>6. i < n
  BY <1>3, <1>4, <1>5
<1>7. \A j \in 1..i : j \in 1..Len(s) /\ t[j] = s[j]
  BY <1>3, <1>4, <1>6
<1>8. i \in Ends(s)
  BY <1>5, <1>7 DEF Ends
<1> QED
  BY <1>3, <1>6, <1>8

\* The penalty that is added is a number of seconds.
LEMMA LimitedIsTime == ASSUME NEW s \in Nat PROVE Limited(s) \in Nat
  BY DEF Limited

\* Conn_SetPenalty(): a penalty in the future is known to the round.
LEMMA PenaltySet ==
    ASSUME Counters, Flags, NEW s \in Nat, Conn_SetPenalty(s)
    PROVE  delay' \in Nat /\ held' \in BOOLEAN /\ (delay' > 0 => held')
<1>1. delay' \in Nat
  <2>1. delay' = delay + Limited(s) /\ delay \in Nat /\ Limited(s) \in Nat
    BY LimitedIsTime, Zenon DEF Conn_SetPenalty, Counters
  <2> QED
    BY <2>1
<1>2. held' \in BOOLEAN /\ (delay' > 0 => held')
  BY Zenon DEF Conn_SetPenalty, Flags
<1> QED
  BY <1>1, <1>2

\* Throttle_Connection() adds a penalty or leaves the connection alone.
LEMMA Throttled ==
    ASSUME Counters, Flags, PassKnows, Throttle_Connection
    PROVE  delay' \in Nat /\ held' \in BOOLEAN /\ (delay' > 0 => held')
<1>1. CASE Conn_SetPenalty(1)
  BY <1>1, PenaltySet
<1>2. CASE UNCHANGED <<delay, held>>
  BY <1>2 DEF Counters, Flags, PassKnows
<1> QED
  BY <1>1, <1>2 DEF Throttle_Connection

\* The ranges of the counters are not empty.
LEMMA Ranges ==
    maxbps \in Nat /\ MaxAge \in Nat \ {0} /\ NoPass \in Passes
<1>1. maxbps \in Nat
  BY DEF maxbps
<1>2. MaxAge \in Nat \ {0}
  BY DEF MaxAge, Larger
<1> HIDE DEF maxbps
<1> QED
  BY <1>1, <1>2 DEF NoPass, Passes

\* The constants stay what they are.
LEMMA ConstantsStay ==
    maxbps' = maxbps /\ MaxAge' = MaxAge /\ Passes' = Passes /\ Places' = Places /\ NONE' = NONE
    /\ Byte' = Byte
  BY DEF maxbps, MaxAge, Larger, Passes, Places, NONE, Byte

\* A buffer without bytes has no line.
LEMMA EmptyHasNoLine == ~HasLine(<<>>)
  BY DEF HasLine, Ends

\* Init_Conn_Struct(): a closed slot satisfies what the invariant asks of it.
LEMMA ClosedIsSound ==
    ASSUME IInv, Conn_Close, pc' \in Places \ {"pass"}, pass' \in Passes,
           ready' \subseteq {"sock", "pipe", "listen"}
    PROVE  IInv'
<1>1. Flags'
  BY ConstantsStay, Zenon DEF IInv, Flags, Conn_Close
<1>2. Counters'
  BY Ranges, ConstantsStay DEF IInv, Counters, Conn_Close
<1>3. Slot'
  BY DEF Conn_Close, Slot, ReadBufferBound, ClosedClean, LookupHasPipe
<1>4. PassKnows' /\ LineHeld'
  BY EmptyHasNoLine DEF Conn_Close, PassKnows, LineHeld
<1> QED
  BY <1>1, <1>2, <1>3, <1>4 DEF IInv
-----------------------------------------------------------------------------
(* The invariant holds initially and every action keeps it. *)

LEMMA InitEstablishes == Init => IInv
<1> SUFFICES ASSUME Init
             PROVE  IInv
  OBVIOUS
<1>1. Flags
  BY Zenon DEF Init, Flags, Places
<1>2. Counters
  BY Ranges DEF Init, Counters
<1>3. Slot /\ PassKnows /\ LineHeld
  BY DEF Init, Slot, ReadBufferBound, ClosedClean, LookupHasPipe, PassKnows, LineHeld
<1> QED
  BY <1>1, <1>2, <1>3 DEF IInv

\* The timers at the start of a round.
LEMMA CheckConnectionsKeeps == IInv /\ Check_Connections => IInv'
<1> SUFFICES ASSUME IInv, Check_Connections
             PROVE  IInv'
  OBVIOUS
<1>1. CASE Conn_Close
  BY <1>1, ClosedIsSound DEF Check_Connections, Goto, Places, IInv, Flags, Counters
<1>2. CASE /\ held' = (delay > 0) /\ ping' \in {0, ping} /\ (ping' = ping \/ open)
           /\ UNCHANGED <<open, reg, free, want, rbuf, delay, proc, pipe, idle, bps, spared, msg>>
  <2>1. Flags'
    BY <1>2, ConstantsStay DEF IInv, Flags, Counters, Check_Connections, Goto, Places
  <2>2. Counters'
    BY <1>2, Ranges, ConstantsStay DEF IInv, Counters, Check_Connections
  <2>3. Slot'
    BY <1>2, ConstantsStay DEF IInv, Flags, Slot, ReadBufferBound, ClosedClean, LookupHasPipe
  <2>4. PassKnows' /\ LineHeld'
    BY <1>2, Zenon DEF Check_Connections, Goto, PassKnows, LineHeld
  <2> QED
    BY <2>1, <2>2, <2>3, <2>4 DEF IInv
<1> QED
  BY <1>1, <1>2 DEF Check_Connections

\* A pass begins with "late" telling of the penalty.
LEMMA PassBegins ==
    ASSUME Counters, NEW from \in {"loop", "read"}, BeginPass(from)
    PROVE  /\ pc' = "pass" /\ pass' \in Passes /\ spared' = FALSE
           /\ IF pass'.late THEN delay > 0 ELSE delay = 0
           /\ pass'.left # 0
<1>1. PICK n \in maxcmd :
         pass' = [left |-> n, len |-> 0, late |-> delay > 0, from |-> from, bps |-> bps]
  BY DEF BeginPass
<1>2. n \in Nat \ {0}
  BY DEF maxcmd
<1>3. pass' \in Passes /\ pass'.left # 0
  BY <1>1, <1>2 DEF Counters, Passes
<1>4. pass'.late <=> delay > 0
  BY <1>1, Zenon
<1> QED
  BY <1>3, <1>4 DEF Counters, BeginPass, Goto

\* Look_For_Buffers.
LEMMA LookForBuffersKeeps == IInv /\ Look_For_Buffers => IInv'
<1> SUFFICES ASSUME IInv, Look_For_Buffers
             PROVE  IInv'
  OBVIOUS
<1>1. Flags'
  BY ConstantsStay, Zenon DEF IInv, Flags, Look_For_Buffers, BeginPass, Goto, Places
<1>2. Counters'
  BY PassBegins, ConstantsStay, Zenon DEF IInv, Counters, Look_For_Buffers
<1>3. Slot'
  BY ConstantsStay DEF IInv, Look_For_Buffers, Slot, ReadBufferBound, ClosedClean, LookupHasPipe
<1>4. PassKnows' /\ LineHeld'
  <2>1. CASE open /\ rbuf # <<>>
    BY <2>1, PassBegins, Zenon DEF IInv, Counters, Look_For_Buffers, PassKnows, LineHeld
  <2>2. CASE ~(open /\ rbuf # <<>>)
    BY <2>2, EmptyHasNoLine DEF IInv, Look_For_Buffers, Goto, PassKnows, LineHeld
  <2> QED
    BY <2>1, <2>2
<1> QED
  BY <1>1, <1>2, <1>3, <1>4 DEF IInv

\* The read interest and select() change nothing the invariant speaks of but want.
LEMMA SelectKeeps ==
    IInv /\ (Conn_Update_Read_Interest \/ Conn_Wait_For_Activity \/ Served) => IInv'
<1> SUFFICES ASSUME IInv, Conn_Update_Read_Interest \/ Conn_Wait_For_Activity \/ Served
             PROVE  IInv'
  OBVIOUS
<1> USE DEF Conn_Update_Read_Interest, Conn_Wait_For_Activity, Served, Goto, conn
<1>1. Flags'
  <2>1. want' \in BOOLEAN
    BY DEF IInv, Flags
  <2>2. pc' \in Places /\ ready' \subseteq {"sock", "pipe", "listen"}
    BY Zenon DEF IInv, Flags, Places
  <2> QED
    BY <2>1, <2>2, ConstantsStay DEF IInv, Flags
<1>2. Counters'
  BY ConstantsStay DEF IInv, Counters
<1>3. Slot'
  BY ConstantsStay DEF IInv, Slot, ReadBufferBound, ClosedClean, LookupHasPipe
<1>4. PassKnows' /\ LineHeld'
  BY DEF IInv, PassKnows, LineHeld
<1> QED
  BY <1>1, <1>2, <1>3, <1>4 DEF IInv

\* A pass that returns is over: the loop goes on, or Read_Request() does.
LEMMA PassEnds ==
    ASSUME IInv, NEW n \in Nat, EndPass(n)
    PROVE  pc' \in {"interest", "account"} /\ pass' \in Passes
  BY Ranges, Zenon DEF IInv, Counters, EndPass, Goto, NoPass, Passes

\* Parse_Request() keeps the invariant: a penalty is noted in the pass that
\* caused it, and a closed connection ends the pass.
LEMMA ParseRequestKeeps ==
    ASSUME IInv, pc = "pass", pass.left > 0, ~pass.late, HasLine(rbuf), UNCHANGED ready,
           Parse_Request
    PROVE  IInv'
<1> USE DEF IInv
<1>1. LineLen(rbuf) \in 1..Len(rbuf)
  BY FirstLine DEF Counters
<1>2. CASE Conn_Close /\ \E n \in {0, pass.len + LineLen(rbuf)} : EndPass(n)
  <2>1. PICK n \in Nat : EndPass(n)
    BY <1>1, <1>2 DEF Counters, Passes
  <2> QED
    BY <1>2, <2>1, PassEnds, ClosedIsSound DEF Flags, Places
<1>3. ASSUME NEW l \in BOOLEAN, Command(l)
      PROVE  /\ delay' \in Nat /\ (delay' > 0 => held') /\ (IF l THEN held' ELSE delay' = 0)
             /\ held' \in BOOLEAN /\ reg' \in BOOLEAN /\ free' \in BOOLEAN
             /\ msg' \in 0..1 /\ UNCHANGED <<open, want, proc, pipe, idle, ping, bps, spared>>
  <2>1. delay = 0
    BY DEF PassKnows
  <2>a. /\ reg' \in BOOLEAN /\ free' \in BOOLEAN
        /\ UNCHANGED <<open, want, proc, pipe, idle, ping, bps, spared>>
    BY <1>3, Zenon DEF Command, Flags
  <2>b. msg' \in 0..1
    BY <1>3 DEF Command, Counters
  <2>2. PICK s \in Penalties : IF s = 0 THEN UNCHANGED <<delay, held>> /\ ~l
                               ELSE Conn_SetPenalty(s) /\ (delay' > 0 => l) /\ (l => held')
    BY <1>3 DEF Command
  <2>3. s \in Nat
    OBVIOUS
  <2>4. CASE s = 0
    BY <2>1, <2>a, <2>b, <2>2, <2>4 DEF Flags
  <2>5. CASE s # 0
    <3>1. delay' \in Nat /\ held' \in BOOLEAN /\ (delay' > 0 => held')
      BY <2>2, <2>3, <2>5, PenaltySet
    <3>2. (delay' > 0 => l) /\ (l => held')
      BY <2>2, <2>5
    <3> QED
      BY <3>1, <3>2, <2>a, <2>b
  <2> QED
    BY <2>4, <2>5
<1>4. ASSUME NEW l \in BOOLEAN, Command(l),
             pass' = [pass EXCEPT !.left = @ - 1, !.len = @ + LineLen(rbuf), !.late = l],
             rbuf' = SubSeq(rbuf, LineLen(rbuf) + 1, Len(rbuf)),
             UNCHANGED pc
      PROVE  IInv'
  <2>0. /\ delay' \in Nat /\ (delay' > 0 => held') /\ (IF l THEN held' ELSE delay' = 0)
        /\ held' \in BOOLEAN /\ reg' \in BOOLEAN /\ free' \in BOOLEAN
        /\ msg' \in 0..1 /\ UNCHANGED <<open, want, proc, pipe, idle, ping, bps, spared>>
    BY <1>3, <1>4
  <2>1. rbuf' \in Seq(Byte) /\ Len(rbuf') < Len(rbuf)
    <3>1. rbuf \in Seq(Byte) /\ Len(rbuf) \in Nat
      BY DEF Counters
    <3> DEFINE n == LineLen(rbuf)
    <3>2. n \in 1..Len(rbuf) /\ rbuf' = SubSeq(rbuf, n + 1, Len(rbuf))
      BY <1>1, <1>4, Zenon
    <3> HIDE DEF n
    <3> QED BY <3>1, <3>2
  <2>2. pass' = [left |-> pass.left - 1, len |-> pass.len + LineLen(rbuf), late |-> l,
                 from |-> pass.from, bps |-> pass.bps]
    BY <1>4, Zenon DEF Counters, Passes
  <2>3. pass' \in Passes /\ pass'.len > 0
    BY <1>1, <2>2 DEF Counters, Passes
  <2>4. pass'.late <=> l
    BY <2>2, Zenon
  <2>5. Flags'
    BY <2>0, <1>4, ConstantsStay DEF Flags
  <2>6. Counters'
    BY <2>0, <1>4, <2>1, <2>3, ConstantsStay DEF Counters
  <2>7. Slot'
    BY <2>0, <1>4, <2>1, ConstantsStay
       DEF PassKnows, Counters, Slot, ReadBufferBound, ClosedClean, LookupHasPipe
  <2>8. PassKnows' /\ LineHeld'
    BY <2>0, <1>4, <2>3, <2>4 DEF PassKnows, LineHeld
  <2> QED
    BY <2>5, <2>6, <2>7, <2>8
<1>5. ASSUME NEW l \in BOOLEAN, Command(l),
             rbuf' = [rbuf EXCEPT ![LineLen(rbuf)] = "0"],
             EndPass(0)
      PROVE  IInv'
  <2>0. /\ delay' \in Nat /\ (delay' > 0 => held') /\ (IF l THEN held' ELSE delay' = 0)
        /\ held' \in BOOLEAN /\ reg' \in BOOLEAN /\ free' \in BOOLEAN
        /\ msg' \in 0..1 /\ UNCHANGED <<open, want, proc, pipe, idle, ping, bps, spared>>
    BY <1>3, <1>5
  <2>1. rbuf' \in Seq(Byte) /\ Len(rbuf') = Len(rbuf) /\ ~HasLine(rbuf')
    BY <1>5, NulHides, Zenon DEF Counters
  <2>2. pc' \in {"interest", "account"} /\ pass' \in Passes
    BY <1>5, PassEnds
  <2>3. Flags'
    BY <2>0, <2>2, ConstantsStay DEF Flags, Places
  <2>4. Counters'
    BY <2>0, <1>5, <2>1, <2>2, ConstantsStay DEF Counters
  <2>5. Slot'
    BY <2>0, <1>5, <2>1, ConstantsStay
       DEF PassKnows, Counters, Slot, ReadBufferBound, ClosedClean, LookupHasPipe
  <2>6. PassKnows' /\ LineHeld'
    BY <2>0, <1>5, <2>1, <2>2 DEF PassKnows, LineHeld
  <2> QED
    BY <2>3, <2>4, <2>5, <2>6
<1> QED
  BY <1>2, <1>4, <1>5, Zenon DEF Parse_Request

\* Conn_Process_Buffer(): each way a pass goes on or ends.
LEMMA ProcessBufferKeeps == IInv /\ Conn_Process_Buffer => IInv'
<1> SUFFICES ASSUME IInv, Conn_Process_Buffer
             PROVE  IInv'
  OBVIOUS
<1> USE DEF IInv
<1>1. CASE pass.left > 0 /\ pass.late /\ EndPass(0) /\ UNCHANGED conn
  <2>1. pc' \in {"interest", "account"} /\ pass' \in Passes /\ held'
    BY <1>1, PassEnds DEF Conn_Process_Buffer, PassKnows, conn
  <2>2. Flags'
    BY <1>1, <2>1, ConstantsStay DEF Conn_Process_Buffer, Flags, Places, conn
  <2>3. Counters'
    BY <1>1, <2>1, ConstantsStay DEF Counters, conn
  <2>4. Slot'
    BY <1>1, ConstantsStay DEF Slot, ReadBufferBound, ClosedClean, LookupHasPipe, conn
  <2>5. PassKnows' /\ LineHeld'
    BY <1>1, <2>1 DEF PassKnows, LineHeld, conn
  <2> QED
    BY <2>2, <2>3, <2>4, <2>5
<1>2. CASE /\ pass.left = 0 \/ (~pass.late /\ ~HasLine(rbuf))
           /\ Throttle_Commands
           /\ EndPass(pass.len)
           /\ UNCHANGED <<open, reg, free, want, rbuf, proc, pipe, idle, ping, bps, msg>>
  <2>1. pass.len \in Nat /\ open
    BY DEF Conn_Process_Buffer, Counters, Passes, PassKnows
  <2>2. pc' \in {"interest", "account"} /\ pass' \in Passes
    BY <1>2, <2>1, PassEnds
  <2>3. /\ delay' \in Nat /\ held' \in BOOLEAN /\ spared' \in BOOLEAN /\ (delay' > 0 => held')
        /\ HasLine(rbuf) => held' \/ Len(rbuf) <= 2 \/ spared'
    <3>1. CASE pass.len > 0 /\ Len(rbuf) > 2
      <4>1. Throttle_Connection /\ spared' = (delay' = 0)
        BY <1>2, <3>1 DEF Throttle_Commands
      <4>2. delay' \in Nat /\ held' \in BOOLEAN /\ (delay' > 0 => held')
        BY <4>1, Throttled
      <4>3. CASE delay' = 0
        BY <4>1, <4>2, <4>3, Zenon
      <4>4. CASE delay' > 0
        <5>1. ~(delay' = 0)
          BY <4>2, <4>4
        <5>2. spared' = FALSE
          BY <4>1, <5>1, Zenon
        <5> QED
          BY <5>2, <4>2, <4>4, Zenon
      <4> QED
        BY <4>2, <4>3, <4>4
    <3>2. CASE ~(pass.len > 0 /\ Len(rbuf) > 2)
      <4>1. UNCHANGED <<delay, held>> /\ spared' = FALSE
        BY <1>2, <3>2 DEF Throttle_Commands
      <4>2. HasLine(rbuf) => Len(rbuf) <= 2
        BY <1>2, <3>2, <2>1 DEF Conn_Process_Buffer, PassKnows, Counters
      <4> QED
        BY <4>1, <4>2, Zenon DEF Counters, Flags, PassKnows
    <3> QED
      BY <3>1, <3>2
  <2>4. Flags'
    BY <1>2, <2>2, <2>3, ConstantsStay DEF Conn_Process_Buffer, Flags, Places
  <2>5. Counters'
    BY <1>2, <2>2, <2>3, ConstantsStay DEF Counters
  <2>6. Slot'
    BY <1>2, <2>1, ConstantsStay DEF Slot, ReadBufferBound, ClosedClean, LookupHasPipe
  <2>7. PassKnows' /\ LineHeld'
    BY <1>2, <2>2, <2>3 DEF PassKnows, LineHeld
  <2> QED
    BY <2>4, <2>5, <2>6, <2>7
<1>3. CASE Conn_Close /\ EndPass(0)
  BY <1>3, PassEnds, ClosedIsSound DEF Conn_Process_Buffer, Flags, Places
<1>4. CASE /\ pass.left > 0 /\ ~pass.late /\ HasLine(rbuf)
           /\ LineLen(rbuf) = 1
           /\ rbuf' = Tail(rbuf)
           /\ msg' = 1 - msg
           /\ pass' = [pass EXCEPT !.left = @ - 1, !.len = @ + 1]
           /\ UNCHANGED <<pc, open, reg, free, want, delay, held, proc, pipe, idle, ping, bps, spared>>
  <2>1. Len(rbuf) > 0
    BY <1>4, FirstLine DEF Counters
  <2>2. rbuf' \in Seq(Byte) /\ Len(rbuf') < Len(rbuf)
    BY <1>4, <2>1 DEF Counters
  <2>3. pass' = [left |-> pass.left - 1, len |-> pass.len + 1, late |-> FALSE,
                 from |-> pass.from, bps |-> pass.bps]
    BY <1>4, Zenon DEF Counters, Passes
  <2>4. pass' \in Passes /\ pass'.len > 0 /\ pass'.late = FALSE
    <3>1. /\ pass.left \in Nat \ {0} /\ pass.len \in Nat
          /\ pass.from \in {"loop", "read"} /\ pass.bps \in 0..maxbps
      BY <1>4 DEF Counters, Passes
    <3>2. pass' \in Passes
      BY <2>3, <3>1 DEF Passes
    <3> QED
      BY <2>3, <3>1, <3>2
  <2>5. Flags'
    BY <1>4, ConstantsStay DEF Conn_Process_Buffer, Flags
  <2>6. Counters'
    BY <1>4, <2>2, <2>4, ConstantsStay DEF Counters
  <2>7. Slot'
    BY <1>4, <2>2, ConstantsStay
       DEF Conn_Process_Buffer, PassKnows, Counters, Slot, ReadBufferBound, ClosedClean, LookupHasPipe
  <2>8. PassKnows' /\ LineHeld'
    BY <1>4, <2>4 DEF Conn_Process_Buffer, PassKnows, LineHeld
  <2> QED
    BY <2>5, <2>6, <2>7, <2>8
<1>5. CASE pass.left > 0 /\ ~pass.late /\ HasLine(rbuf) /\ Parse_Request
  BY <1>5, ParseRequestKeeps DEF Conn_Process_Buffer
<1> QED
  BY <1>1, <1>2, <1>3, <1>4, <1>5 DEF Conn_Process_Buffer

\* Read_Request(): data is appended only to a buffer below its limit.
LEMMA ReadRequestKeeps == IInv /\ Read_Request => IInv'
<1> SUFFICES ASSUME IInv, Read_Request
             PROVE  IInv'
  OBVIOUS
<1> USE DEF IInv
<1>1. ready' \subseteq {"sock", "pipe", "listen"}
  BY DEF Read_Request, Flags
<1>2. CASE /\ open /\ ~Full
           /\ \E data \in Data : rbuf' = rbuf \o data
           /\ BeginPass("read")
           /\ UNCHANGED <<open, reg, free, want, delay, held, proc, pipe, idle, ping, bps, msg>>
  <2>1. PICK data \in Data : rbuf' = rbuf \o data
    BY <1>2
  <2>2. data \in Seq(Byte) /\ Len(data) \in 1..READBUFFER_LEN
    BY DataAssumption
  <2>3. /\ rbuf' \in Seq(Byte) /\ Len(rbuf') = Len(rbuf) + Len(data)
        /\ Len(rbuf) \in Nat /\ Len(rbuf) < READBUFFER_LEN
    BY <1>2, <2>1, <2>2 DEF Counters, Full
  <2>4. Flags'
    BY <1>1, <1>2, ConstantsStay, Zenon DEF Flags, BeginPass, Goto, Places
  <2>5. Counters'
    BY <1>2, <2>3, PassBegins, ConstantsStay, Zenon DEF Counters
  <2>6. Slot'
    BY <1>2, <2>2, <2>3, ConstantsStay DEF Slot, ReadBufferBound, ClosedClean, LookupHasPipe
  <2>7. PassKnows' /\ LineHeld'
    BY <1>2, PassBegins, Zenon DEF PassKnows, LineHeld, Counters
  <2> QED
    BY <2>4, <2>5, <2>6, <2>7
<1>3. CASE Conn_Close /\ UNCHANGED <<pc, pass>>
  BY <1>1, <1>3, ClosedIsSound DEF Read_Request, Flags, Counters, Places
<1>4. CASE UNCHANGED <<pc, pass, conn>>
  <2>1. Flags' /\ Counters'
    BY <1>1, <1>4, ConstantsStay DEF Flags, Counters, conn
  <2>2. Slot'
    BY <1>4, ConstantsStay DEF Slot, ReadBufferBound, ClosedClean, LookupHasPipe, conn
  <2>3. PassKnows' /\ LineHeld'
    BY <1>4 DEF PassKnows, LineHeld, conn
  <2> QED
    BY <2>1, <2>2, <2>3
<1> QED
  BY <1>2, <1>3, <1>4 DEF Read_Request

\* Conn_Update_Read_Accounting: too many bytes add a penalty.
LEMMA AccountingKeeps == IInv /\ Conn_Update_Read_Accounting => IInv'
<1> SUFFICES ASSUME IInv, Conn_Update_Read_Accounting
             PROVE  IInv'
  OBVIOUS
<1> USE DEF IInv
<1>1. /\ pc' = "serve" /\ pass' \in Passes /\ UNCHANGED <<ready, open, reg, free, want, rbuf, proc, pipe, spared, msg>>
      /\ pass.len \in Nat /\ pass.bps \in 0..maxbps /\ bps \in 0..maxbps
  BY Ranges DEF Conn_Update_Read_Accounting, Goto, Counters, Passes
<1>2. bps' \in 0..maxbps
  BY <1>1, Ranges DEF Conn_Update_Read_Accounting, Smaller
<1>3. idle' \in 0..MaxAge /\ ping' \in {NONE} \cup 0..MaxAge /\ (~open => ping' = ping)
  BY Ranges DEF Conn_Update_Read_Accounting, Counters
<1>4. /\ delay' \in Nat /\ held' \in BOOLEAN /\ (delay' > 0 => held')
      /\ ~open => delay' = delay
  <2>1. CASE UNCHANGED <<delay, held>>
    BY <2>1 DEF Counters, Flags, PassKnows
  <2>2. CASE open /\ Throttle_Connection
    BY <2>2, Throttled
  <2> QED
    BY <2>1, <2>2 DEF Conn_Update_Read_Accounting
<1>5. Flags'
  BY <1>1, <1>4, ConstantsStay DEF Flags, Places
<1>6. Counters'
  BY <1>1, <1>2, <1>3, <1>4, ConstantsStay DEF Counters
<1>7. Slot'
  BY <1>1, <1>3, <1>4, ConstantsStay DEF Slot, ReadBufferBound, ClosedClean, LookupHasPipe
<1>8. PassKnows' /\ LineHeld'
  BY <1>1, <1>4 DEF PassKnows, LineHeld
<1> QED
  BY <1>5, <1>6, <1>7, <1>8

\* The result of the resolver.
LEMMA ResolverResultKeeps == IInv /\ cb_Read_Resolver_Result => IInv'
<1> SUFFICES ASSUME IInv, cb_Read_Resolver_Result
             PROVE  IInv'
  OBVIOUS
<1> USE DEF IInv, cb_Read_Resolver_Result
<1>1. Flags'
  BY ConstantsStay, Zenon DEF Flags
<1>2. Counters'
  <2>1. CASE rbuf' = <<>> /\ delay' = 0 /\ idle' = 0 /\ ping' = NONE /\ bps' = 0
    BY <2>1, Ranges, ConstantsStay DEF Counters
  <2>2. CASE UNCHANGED <<rbuf, delay, idle, ping, bps>>
    BY <2>2, ConstantsStay DEF Counters
  <2> QED
    BY <2>1, <2>2
<1>3. Slot'
  BY ConstantsStay DEF Slot, ReadBufferBound, ClosedClean, LookupHasPipe
<1>4. PassKnows' /\ LineHeld'
  BY DEF PassKnows, LineHeld
<1> QED
  BY <1>1, <1>2, <1>3, <1>4

\* A new connection in the slot: it starts without a pass, a penalty or data.
LEMMA NewConnectionKeeps == IInv /\ New_Connection => IInv'
<1> SUFFICES ASSUME IInv, New_Connection
             PROVE  IInv'
  OBVIOUS
<1> USE DEF IInv, New_Connection
<1>1. Flags'
  <2>1. CASE UNCHANGED <<open, reg, free, want, rbuf, delay, held, proc, pipe, idle, ping, bps, spared>>
    BY <2>1, ConstantsStay DEF Flags
  <2>2. CASE /\ open' = TRUE /\ reg' = FALSE /\ want' = TRUE /\ held' = FALSE
             /\ free' = FALSE /\ spared' = FALSE
             /\ \E started \in BOOLEAN : proc' = started /\ pipe' = started
    BY <2>2, ConstantsStay, Zenon DEF Flags
  <2> QED
    BY <2>1, <2>2, Zenon
<1>2. Counters'
  <2>1. CASE UNCHANGED <<open, reg, free, want, rbuf, delay, held, proc, pipe, idle, ping, bps, spared>>
    BY <2>1, ConstantsStay DEF Counters
  <2>2. CASE rbuf' = <<>> /\ delay' = 0 /\ idle' = 0 /\ ping' = NONE /\ bps' = 0
    BY <2>2, Ranges, ConstantsStay DEF Counters
  <2> QED
    BY <2>1, <2>2
<1>3. Slot'
  BY ConstantsStay DEF Slot, ReadBufferBound, ClosedClean, LookupHasPipe
<1>4. PassKnows' /\ LineHeld'
  BY DEF PassKnows, LineHeld
<1> QED
  BY <1>1, <1>2, <1>3, <1>4

\* A server changes the mode of the user.
LEMMA RemodedKeeps == IInv /\ Remoded => IInv'
<1> SUFFICES ASSUME IInv, Remoded
             PROVE  IInv'
  OBVIOUS
<1> USE DEF IInv, Remoded
<1>1. Flags' /\ Counters'
  BY ConstantsStay DEF Flags, Counters
<1>2. Slot'
  BY ConstantsStay DEF Slot, ReadBufferBound, ClosedClean, LookupHasPipe
<1>3. PassKnows' /\ LineHeld'
  BY DEF PassKnows, LineHeld
<1> QED
  BY <1>1, <1>2, <1>3

\* The clock: a penalty never grows by it.
LEMMA TickKeeps == IInv /\ Tick => IInv'
<1> SUFFICES ASSUME IInv, Tick
             PROVE  IInv'
  OBVIOUS
<1> USE DEF IInv, Tick
<1>1. Flags'
  BY ConstantsStay DEF Flags
<1>2. Counters'
  <2>1. delay' \in Nat
    BY DEF Counters
  <2>2. idle' \in 0..MaxAge
    BY Ranges DEF Counters, Smaller
  <2>3. ping' \in {NONE} \cup 0..MaxAge
    BY Ranges DEF Counters, Smaller
  <2> QED
    BY <2>1, <2>2, <2>3, ConstantsStay DEF Counters
<1>3. Slot'
  BY ConstantsStay DEF Slot, ReadBufferBound, ClosedClean, LookupHasPipe
<1>4. PassKnows' /\ LineHeld'
  BY DEF PassKnows, LineHeld, Counters
<1> QED
  BY <1>1, <1>2, <1>3, <1>4

\* Every step keeps the invariant, whatever the loop does next.
LEMMA NextKeeps == IInv /\ [Next]_vars => IInv'
<1> SUFFICES ASSUME IInv, [Next]_vars
             PROVE  IInv'
  OBVIOUS
<1>1. CASE Killed
  BY <1>1, ClosedIsSound DEF Killed, IInv, Flags, Counters, Places
<1>2. CASE UNCHANGED vars
  <2>1. Flags' /\ Counters'
    BY <1>2, ConstantsStay DEF IInv, Flags, Counters, vars, conn
  <2>2. Slot'
    BY <1>2, ConstantsStay DEF IInv, Slot, ReadBufferBound, ClosedClean, LookupHasPipe, vars, conn
  <2>3. PassKnows' /\ LineHeld'
    BY <1>2 DEF IInv, PassKnows, LineHeld, vars, conn
  <2> QED
    BY <2>1, <2>2, <2>3 DEF IInv
<1> QED
  BY <1>1, <1>2, CheckConnectionsKeeps, LookForBuffersKeeps, ProcessBufferKeeps, SelectKeeps,
     ReadRequestKeeps, AccountingKeeps, ResolverResultKeeps, NewConnectionKeeps, TickKeeps,
     RemodedKeeps
     DEF Next, Loop
-----------------------------------------------------------------------------
(* The theorems. *)

LEMMA InvariantHolds == Spec => []IInv
  BY InitEstablishes, NextKeeps, PTL DEF Spec

\* The slot is sound at every place of the loop, for every length of the buffers
\* and every penalty: the read buffer keeps its bound although Read_Request()
\* appends without looking at the penalty, and a closed slot is clean.
THEOREM SlotSoundHolds == Spec => []SlotSound
<1>1. IInv => SlotSound
  BY DEF IInv, Flags, Counters, Slot, SlotSound, TypeOK
<1> QED
  BY <1>1, InvariantHolds, PTL

\* The loop does not wait in select() with a line it could find, but behind a
\* penalty or in one of the cases in which no penalty is given.
THEOREM WaitingLineHeldHolds == Spec => []WaitingLineHeld
<1>1. IInv => WaitingLineHeld
  BY DEF IInv, LineHeld, WaitingLineHeld
<1> QED
  BY <1>1, InvariantHolds, PTL

\* No line is taken from the buffer while a penalty is left, also not in the pass
\* that caused it.
THEOREM PenaltyServedHolds == Spec => PenaltyServed
<1>1. IInv /\ [Next]_vars => [msg' # msg => open /\ delay = 0]_vars
  <2> SUFFICES ASSUME IInv, Next, msg' # msg
               PROVE  open /\ delay = 0
    OBVIOUS
  <2>1. pc = "pass" /\ ~pass.late
    BY DEF Next, Loop, Check_Connections, Look_For_Buffers, Conn_Process_Buffer,
           Conn_Update_Read_Interest, Conn_Wait_For_Activity, Read_Request,
           Conn_Update_Read_Accounting, cb_Read_Resolver_Result, New_Connection, Served,
           Killed, Remoded, Tick, Conn_Close, conn
  <2> QED
    BY <2>1 DEF IInv, PassKnows
<1> QED
  BY <1>1, InvariantHolds, PTL DEF Spec, PenaltyServed
=============================================================================
