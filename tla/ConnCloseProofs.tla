-------------------------- MODULE ConnCloseProofs --------------------------
(***************************************************************************)
(* Proofs about writing to connections and closing them (module ConnClose), *)
(* for every number of connections, set of channels, limit and length of   *)
(* the write buffer, and every depth of nested closes.                     *)
(***************************************************************************)
EXTENDS ConnClose, InductionFacts, TLAPS

USE LimitAssumption, BufferAssumption

\* OneCloseEach for any stack st of calls, where op are open and cl closing.
Cascade(op, cl, st) ==
    /\ cl \cap op = {}
    /\ cl = {st[i].conn : i \in {j \in DOMAIN st : st[j].kind = "quit"}}
    /\ \A i, j \in DOMAIN st :
         (st[i].kind = "quit" /\ st[j].kind = "quit" /\ st[i].conn = st[j].conn) => i = j

\* The inductive invariant.
IInv ==
    /\ TypeOK /\ CountExact /\ LimitHeld /\ WriteBufferBound
    /\ Cascade(open, closing, stack) /\ MembersConnected
-----------------------------------------------------------------------------
(* The stack of calls. *)

\* The frames below the innermost one.
LEMMA FrontFrames ==
    ASSUME NEW st \in Seq(Frame), st # <<>>
    PROVE  LET front == SubSeq(st, 1, Len(st) - 1) IN
           /\ Len(st) \in Nat \ {0} /\ st[Len(st)] \in Frame
           /\ front \in Seq(Frame) /\ Len(front) = Len(st) - 1
           /\ \A i \in 1..(Len(st) - 1) : front[i] = st[i]
<1>1. Len(st) \in Nat \ {0}
  OBVIOUS
<1>2. st[Len(st)] \in Frame
  BY <1>1
<1>3. PICK n \in Nat : n = Len(st) - 1
  BY <1>1
<1>4. SubSeq(st, 1, n) \in Seq(Frame) /\ \A i \in 1..n : SubSeq(st, 1, n)[i] = st[i]
  BY <1>1, <1>3
<1>5. Len(SubSeq(st, 1, n)) = n
  BY <1>3
<1> QED
  BY <1>1, <1>2, <1>3, <1>4, <1>5

\* The place and the history of a frame may change.
LEMMA FrameChanges ==
    ASSUME NEW op, NEW cl, NEW st \in Seq(Frame), st # <<>>, Cascade(op, cl, st),
           NEW f \in Frame, f.kind = st[Len(st)].kind, f.conn = st[Len(st)].conn
    PROVE  /\ Append(SubSeq(st, 1, Len(st) - 1), f) \in Seq(Frame)
           /\ Cascade(op, cl, Append(SubSeq(st, 1, Len(st) - 1), f))
<1> DEFINE new == Append(SubSeq(st, 1, Len(st) - 1), f)
<1>1. /\ new \in Seq(Frame) /\ DOMAIN new = DOMAIN st
      /\ \A i \in DOMAIN st : new[i].kind = st[i].kind /\ new[i].conn = st[i].conn
  BY FrontFrames
<1> HIDE DEF new
<1>2. Cascade(op, cl, new)
  BY <1>1 DEF Cascade
<1> QED
  BY <1>1, <1>2 DEF new

\* The loop moves on: only the place and the history of its frame change.
LEMMA FrameMoves ==
    ASSUME NEW t \in Frame, NEW d \in 0..N, NEW T \in SUBSET Conn
    PROVE  LET f == [t EXCEPT !.at = d, !.told = T]
               g == [t EXCEPT !.at = d] IN
           /\ f \in Frame /\ f.kind = t.kind /\ f.conn = t.conn
           /\ g \in Frame /\ g.kind = t.kind /\ g.conn = t.conn
<1>1. [t EXCEPT !.at = d, !.told = T] \in Frame
  BY Zenon DEF Frame
<1>2. [t EXCEPT !.at = d] \in Frame
  BY DEF Frame
<1> QED
  BY <1>1, <1>2 DEF Frame

\* A call of Conn_Close() for an open connection.
LEMMA CloseBegins ==
    ASSUME NEW op, NEW cl, NEW st \in Seq(Frame), Cascade(op, cl, st),
           NEW f \in Frame, f.kind = "quit", f.conn \in op
    PROVE  /\ Append(st, f) \in Seq(Frame)
           /\ Cascade(op \ {f.conn}, cl \cup {f.conn}, Append(st, f))
<1> DEFINE new == Append(st, f)
<1>1. /\ new \in Seq(Frame) /\ DOMAIN new = DOMAIN st \cup {Len(st) + 1} /\ Len(st) + 1 \notin DOMAIN st
      /\ \A i \in DOMAIN st : new[i] = st[i]
      /\ new[Len(st) + 1] = f
  OBVIOUS
<1> HIDE DEF new
<1>2. f.conn \notin cl
  BY DEF Cascade
<1>3. cl \cup {f.conn} = {new[i].conn : i \in {j \in DOMAIN new : new[j].kind = "quit"}}
  BY <1>1 DEF Cascade
<1>4. \A i, j \in DOMAIN new :
         (new[i].kind = "quit" /\ new[j].kind = "quit" /\ new[i].conn = new[j].conn) => i = j
  BY <1>1, <1>2 DEF Cascade
<1> QED
  BY <1>1, <1>3, <1>4 DEF Cascade, new

\* A call for another message.
LEMMA MessageBegins ==
    ASSUME NEW op, NEW cl, NEW st \in Seq(Frame), Cascade(op, cl, st),
           NEW f \in Frame, f.kind # "quit"
    PROVE  Append(st, f) \in Seq(Frame) /\ Cascade(op, cl, Append(st, f))
<1> DEFINE new == Append(st, f)
<1>1. /\ new \in Seq(Frame) /\ DOMAIN new = DOMAIN st \cup {Len(st) + 1} /\ Len(st) + 1 \notin DOMAIN st
      /\ \A i \in DOMAIN st : new[i] = st[i]
      /\ new[Len(st) + 1] = f
  OBVIOUS
<1> HIDE DEF new
<1>2. Cascade(op, cl, new)
  BY <1>1 DEF Cascade
<1> QED
  BY <1>1, <1>2 DEF new

\* The innermost call returns; when it was a close, its connection is gone.
LEMMA CallEnds ==
    ASSUME NEW op, NEW cl, NEW st \in Seq(Frame), st # <<>>, Cascade(op, cl, st)
    PROVE  LET f == st[Len(st)]
               front == SubSeq(st, 1, Len(st) - 1) IN
           /\ front \in Seq(Frame)
           /\ f.kind = "quit" => f.conn \in cl /\ Cascade(op, cl \ {f.conn}, front)
           /\ f.kind # "quit" => Cascade(op, cl, front)
<1> DEFINE f == st[Len(st)]
           front == SubSeq(st, 1, Len(st) - 1)
<1>1. /\ front \in Seq(Frame) /\ DOMAIN front = DOMAIN st \ {Len(st)} /\ Len(st) \in DOMAIN st
      /\ \A i \in DOMAIN front : front[i] = st[i]
  BY FrontFrames
<1> HIDE DEF front
<1>2. f.kind = "quit" => f.conn \in cl
  BY <1>1 DEF Cascade
<1>3. ASSUME f.kind = "quit" PROVE Cascade(op, cl \ {f.conn}, front)
  <2>1. cl \ {f.conn} = {front[i].conn : i \in {j \in DOMAIN front : front[j].kind = "quit"}}
    BY <1>1, <1>3 DEF Cascade
  <2> QED
    BY <1>1, <2>1 DEF Cascade
<1>4. ASSUME f.kind # "quit" PROVE Cascade(op, cl, front)
  BY <1>1, <1>4 DEF Cascade
<1> QED
  BY <1>1, <1>2, <1>3, <1>4 DEF front
-----------------------------------------------------------------------------
(* The write buffers and the count. *)

\* The sets of connections are finite, so that they can be counted.
LEMMA ConnFinite == \A S \in SUBSET Conn : IsFiniteSet(S) /\ Cardinality(S) \in Nat
<1>1. IsFiniteSet(Conn)
  BY FS_Interval DEF Conn
<1> TAKE S \in SUBSET Conn
<1>2. IsFiniteSet(S)
  BY <1>1, FS_Subset
<1> QED
  BY <1>2, FS_CardinalityType

\* Conn_Write() keeps the limit of the write buffer.
LEMMA QueuedBound ==
    ASSUME TypeOK, WriteBufferBound, NEW d \in Conn, NEW len \in Queued(d)
    PROVE  len \in Nat /\ len < WRITEBUFFER_MAX_LEN
<1>1. wlen[d] \in Nat
  BY DEF TypeOK
<1> QED
  BY <1>1 DEF Queued

\* The loop of Send_Marked_Connections() goes on with a connection that is open.
LEMMA NextMarked ==
    ASSUME TypeOK, Marked # {}
    PROVE  (CHOOSE m \in Marked : \A o \in Marked : m <= o) \in open
<1>1. Marked \in SUBSET Nat
  <2>1. Marked \subseteq open
    BY DEF Marked
  <2>2. open \subseteq Nat
    BY DEF TypeOK, Conn
  <2> QED
    BY <2>1, <2>2
<1>2. \E m \in Marked : \A o \in Marked : m <= o
  BY <1>1, LeastNatural
<1>3. (CHOOSE m \in Marked : \A o \in Marked : m <= o) \in Marked
  BY <1>2
<1> QED
  BY <1>3 DEF Marked

\* A write to an open connection that succeeds.
LEMMA WriteKeeps ==
    ASSUME IInv, NEW d \in open, NEW len \in Nat, len < WRITEBUFFER_MAX_LEN,
           wlen' = [wlen EXCEPT ![d] = len], UNCHANGED open
    PROVE  wlen' \in [Conn -> Nat] /\ WriteBufferBound'
<1>1. d \in Conn /\ wlen \in [Conn -> Nat] /\ Conn' = Conn
  BY DEF IInv, TypeOK, Conn
<1>2. wlen' \in [Conn -> Nat]
  BY <1>1
<1>3. \A c \in Conn : wlen'[c] < WRITEBUFFER_MAX_LEN /\ (c \notin open' => wlen'[c] = 0)
  BY <1>1 DEF IInv, WriteBufferBound
<1> QED
  BY <1>1, <1>2, <1>3 DEF WriteBufferBound

\* Conn_Close() begun by any call: frames are the calls that go on afterwards.
LEMMA ConnCloseKeeps ==
    ASSUME IInv, NEW frames \in Seq(Frame), Cascade(open, closing, frames),
           NEW c \in open, Conn_Close(frames, c)
    PROVE  IInv'
<1>1. c \in Conn /\ Conn' = Conn /\ Frame' = Frame
  BY DEF IInv, TypeOK, Conn, Frame
<1>2. Related(c) \in SUBSET Conn
  BY DEF Related
<1> DEFINE f == [kind |-> "quit", conn |-> c, at |-> 0, owed |-> Related(c), told |-> {}]
<1>3. f \in Frame /\ f.kind = "quit" /\ f.conn = c
  BY <1>1, <1>2 DEF Frame
<1>4. stack' = Append(frames, f) /\ flag' = Related(c)
  BY DEF Conn_Close, Call
<1> HIDE DEF f
<1>5. stack' \in Seq(Frame) /\ Cascade(open', closing', stack')
  BY <1>3, <1>4, CloseBegins DEF Conn_Close
<1>6. wlen' \in [Conn -> Nat] /\ WriteBufferBound'
  <2>1. wlen' = [wlen EXCEPT ![c] = 0] /\ wlen \in [Conn -> Nat] /\ open' = open \ {c}
    BY DEF Conn_Close, IInv, TypeOK
  <2>2. wlen' \in [Conn -> Nat]
    BY <2>1, Zenon
  <2>3. \A d \in Conn : wlen'[d] < WRITEBUFFER_MAX_LEN /\ (d \notin open' => wlen'[d] = 0)
    BY <2>1 DEF IInv, WriteBufferBound
  <2> QED
    BY <1>1, <2>2, <2>3 DEF WriteBufferBound
<1>7. TypeOK'
  BY <1>1, <1>2, <1>4, <1>5, <1>6 DEF IInv, TypeOK, Conn_Close
<1>8. open' \cup closing' = open \cup closing
  BY DEF Conn_Close
<1>9. CountExact' /\ LimitHeld' /\ MembersConnected'
  BY <1>8, Zenon DEF IInv, CountExact, LimitHeld, MembersConnected, Conn_Close
<1> QED
  BY <1>5, <1>6, <1>7, <1>9 DEF IInv
-----------------------------------------------------------------------------
(* The invariant holds initially and every action keeps it. *)

LEMMA InitEstablishes == Init => IInv
<1> SUFFICES ASSUME Init
             PROVE  IInv
  OBVIOUS
<1>1. TypeOK
  BY DEF Init, TypeOK
<1>2. CountExact /\ LimitHeld
  BY FS_EmptySet DEF Init, CountExact, LimitHeld
<1>3. WriteBufferBound /\ MembersConnected
  BY DEF Init, WriteBufferBound, MembersConnected
<1>4. Cascade(open, closing, stack)
  BY DEF Init, Cascade
<1> QED
  BY <1>1, <1>2, <1>3, <1>4 DEF IInv

\* One write of the loop: it is queued, or its failure closes the connection.
LEMMA SendKeeps == IInv /\ Send_Marked_Connections => IInv'
<1> SUFFICES ASSUME IInv, Send_Marked_Connections
             PROVE  IInv'
  OBVIOUS
<1> DEFINE d == CHOOSE m \in Marked : \A o \in Marked : m <= o
<1>1. stack # <<>> /\ stack \in Seq(Frame) /\ Marked # {}
  BY DEF Send_Marked_Connections, IInv, TypeOK
<1>2. d \in open /\ d \in Conn /\ Conn' = Conn /\ Frame' = Frame
  BY <1>1, NextMarked, Zenon DEF IInv, TypeOK, Conn, Frame
<1>3. Top \in Frame
  BY <1>1, FrontFrames DEF Top
<1> DEFINE f == [Top EXCEPT !.at = d, !.told = @ \cup {d}]
           g == [Top EXCEPT !.at = d]
<1>4. /\ f \in Frame /\ f.kind = Top.kind /\ f.conn = Top.conn
      /\ g \in Frame /\ g.kind = Top.kind /\ g.conn = Top.conn
  <2> HIDE DEF d
  <2>1. Top.told \in SUBSET Conn /\ Top.told \cup {d} \in SUBSET Conn /\ d \in 0..N
    BY <1>2, <1>3 DEF Frame, Conn
  <2>2. f \in Frame /\ f.kind = Top.kind /\ f.conn = Top.conn
    BY <1>3, <2>1, FrameMoves, Zenon
  <2>3. g \in Frame /\ g.kind = Top.kind /\ g.conn = Top.conn
    BY <1>3, <2>1, FrameMoves, Zenon
  <2> QED
    BY <2>2, <2>3
<1>5. \/ /\ \E len \in Queued(d) : wlen' = [wlen EXCEPT ![d] = len]
         /\ stack' = Append(Under, f)
         /\ UNCHANGED <<open, closing, num, member, flag>>
      \/ Conn_Close(Append(Under, g), d)
  BY DEF Send_Marked_Connections
<1> HIDE DEF d, f, g
<1>6. /\ Append(Under, f) \in Seq(Frame) /\ Cascade(open, closing, Append(Under, f))
      /\ Append(Under, g) \in Seq(Frame) /\ Cascade(open, closing, Append(Under, g))
  BY <1>1, <1>4, FrameChanges DEF IInv, Top, Under
<1>7. CASE Conn_Close(Append(Under, g), d)
  BY <1>2, <1>6, <1>7, ConnCloseKeeps, Zenon
<1>8. CASE /\ \E len \in Queued(d) : wlen' = [wlen EXCEPT ![d] = len]
           /\ stack' = Append(Under, f)
           /\ UNCHANGED <<open, closing, num, member, flag>>
  <2>1. PICK len \in Queued(d) : wlen' = [wlen EXCEPT ![d] = len]
    BY <1>8, Zenon
  <2>2. len \in Nat /\ len < WRITEBUFFER_MAX_LEN
    BY <1>2, QueuedBound DEF IInv
  <2>3. wlen' \in [Conn -> Nat] /\ WriteBufferBound'
    BY <1>2, <1>8, <2>1, <2>2, WriteKeeps, Zenon
  <2>4. TypeOK'
    BY <1>2, <1>6, <1>8, <2>3 DEF IInv, TypeOK
  <2>5. CountExact' /\ LimitHeld' /\ MembersConnected' /\ Cascade(open', closing', stack')
    BY <1>6, <1>8 DEF IInv, CountExact, LimitHeld, MembersConnected
  <2> QED
    BY <2>3, <2>4, <2>5 DEF IInv
<1> QED
  BY <1>5, <1>7, <1>8

\* The end of Conn_Close(): the connection that leaves the count was in it.
LEMMA FinishCloseKeeps == IInv /\ Finish_Close => IInv'
<1> SUFFICES ASSUME IInv, Finish_Close
             PROVE  IInv'
  OBVIOUS
<1> DEFINE c == Top.conn
<1>1. stack # <<>> /\ stack \in Seq(Frame) /\ Conn' = Conn /\ Frame' = Frame
  BY DEF Finish_Close, IInv, TypeOK, Conn, Frame
<1>2. Under \in Seq(Frame) /\ c \in closing /\ Cascade(open, closing \ {c}, Under)
  BY <1>1, CallEnds DEF Finish_Close, IInv, Top, Under
<1>3. c \notin open
  BY <1>2 DEF IInv, Cascade
<1>4. /\ member' = [ch \in Channel |-> member[ch] \ {c}]
      /\ closing' = closing \ {c} /\ flag' = flag \ {c}
      /\ num' = (IF num > 0 THEN num - 1 ELSE 0) /\ stack' = Under
      /\ UNCHANGED <<open, wlen>>
  BY DEF Finish_Close
<1> HIDE DEF c
<1>5. /\ open' \cup closing' = (open \cup closing) \ {c} /\ c \in open \cup closing
      /\ open \cup closing \in SUBSET Conn
  BY <1>2, <1>3, <1>4 DEF IInv, TypeOK
<1>6. CountExact' /\ num' \in Nat /\ num' <= num
  <2>1. /\ IsFiniteSet(open \cup closing) /\ Cardinality(open \cup closing) \in Nat
        /\ Cardinality((open \cup closing) \ {c}) \in Nat
    BY <1>5, ConnFinite
  <2>2. Cardinality((open \cup closing) \ {c}) = Cardinality(open \cup closing) - 1
    BY <1>5, <2>1, FS_RemoveElement
  <2>3. num = Cardinality(open \cup closing) /\ num' = num - 1
    BY <1>4, <2>1, <2>2 DEF IInv, CountExact
  <2>4. num' = Cardinality(open' \cup closing')
    BY <1>5, <2>2, <2>3
  <2> QED
    BY <2>1, <2>2, <2>3, <2>4 DEF CountExact
<1>7. TypeOK'
  BY <1>1, <1>2, <1>4, <1>6 DEF IInv, TypeOK
<1>8. LimitHeld'
  BY <1>6 DEF IInv, LimitHeld, TypeOK
<1>9. WriteBufferBound' /\ MembersConnected' /\ Cascade(open', closing', stack')
  BY <1>1, <1>2, <1>4 DEF IInv, WriteBufferBound, MembersConnected
<1> QED
  BY <1>6, <1>7, <1>8, <1>9 DEF IInv

\* The end of another message, with the copy for its sender.
LEMMA FinishMessageKeeps == IInv /\ Finish_Message => IInv'
<1> SUFFICES ASSUME IInv, Finish_Message
             PROVE  IInv'
  OBVIOUS
<1> DEFINE c == Top.conn
<1>1. stack # <<>> /\ stack \in Seq(Frame) /\ Conn' = Conn /\ Frame' = Frame /\ Top.kind # "quit"
  BY DEF Finish_Message, IInv, TypeOK, Conn, Frame
<1>2. Under \in Seq(Frame) /\ Cascade(open, closing, Under)
  BY <1>1, CallEnds, Zenon DEF IInv, Top, Under
<1>3. CASE c \in open /\ Conn_Close(Under, c)
  BY <1>2, <1>3, ConnCloseKeeps
<1>4. CASE stack' = Under /\ UNCHANGED <<open, closing, num, member, flag, wlen>>
  <2>1. TypeOK'
    BY <1>1, <1>2, <1>4 DEF IInv, TypeOK
  <2> QED
    BY <1>1, <1>2, <1>4, <2>1
       DEF IInv, CountExact, LimitHeld, WriteBufferBound, MembersConnected
<1>5. CASE /\ c \in open /\ \E len \in Queued(c) : wlen' = [wlen EXCEPT ![c] = len]
           /\ stack' = Under /\ UNCHANGED <<open, closing, num, member, flag>>
  <2>1. PICK len \in Queued(c) : wlen' = [wlen EXCEPT ![c] = len]
    BY <1>5, Zenon
  <2>2. len \in Nat /\ len < WRITEBUFFER_MAX_LEN
    BY <1>5, QueuedBound DEF IInv, TypeOK
  <2> HIDE DEF c
  <2>3. wlen' \in [Conn -> Nat] /\ WriteBufferBound'
    BY <1>5, <2>1, <2>2, WriteKeeps, Zenon
  <2>4. TypeOK'
    BY <1>1, <1>2, <1>5, <2>3 DEF IInv, TypeOK
  <2> QED
    BY <1>2, <1>5, <2>3, <2>4 DEF IInv, CountExact, LimitHeld, MembersConnected
<1> QED
  BY <1>3, <1>4, <1>5 DEF Finish_Message

\* New_Connection(): only when nothing is being closed, so the count and the set
\* of open connections grow together.
LEMMA NewConnectionKeeps == \A c \in Conn : IInv /\ New_Connection(c) => IInv'
<1> SUFFICES ASSUME NEW c \in Conn, IInv, New_Connection(c)
             PROVE  IInv'
  OBVIOUS
<1>1. closing = {}
  BY DEF IInv, Cascade, New_Connection, Idle
<1>2. open' \cup closing' = (open \cup closing) \cup {c} /\ c \notin open \cup closing
  BY <1>1 DEF New_Connection
<1>3. /\ IsFiniteSet(open \cup closing) /\ Cardinality(open \cup closing) \in Nat
  BY ConnFinite DEF IInv, TypeOK
<1>4. Cardinality((open \cup closing) \cup {c}) = Cardinality(open \cup closing) + 1
  BY <1>2, <1>3, FS_AddElement, Zenon
<1>5. CountExact'
  BY <1>2, <1>4 DEF IInv, CountExact, New_Connection
<1>6. TypeOK' /\ LimitHeld'
  BY DEF IInv, TypeOK, LimitHeld, New_Connection, Conn, Frame
<1>7. WriteBufferBound' /\ MembersConnected' /\ Cascade(open', closing', stack')
  BY <1>1 DEF IInv, WriteBufferBound, MembersConnected, Cascade, New_Connection, Conn, Idle
<1> QED
  BY <1>5, <1>6, <1>7 DEF IInv

\* A message of the main loop to the members of a channel.
LEMMA TellKeeps ==
    ASSUME IInv, NEW kind \in {"echo", "msg"}, NEW c \in Conn, NEW ch \in Channel,
           NEW members \in SUBSET (open \cup closing), Tell(kind, c, ch, members)
    PROVE  IInv'
<1> DEFINE f == [kind |-> kind, conn |-> c, at |-> 0, owed |-> members \ {c}, told |-> {}]
<1>1. Conn' = Conn /\ Frame' = Frame /\ members \in SUBSET Conn
  BY DEF IInv, TypeOK, Conn, Frame
<1>2. f \in Frame /\ f.kind # "quit"
  BY <1>1 DEF Frame
<1>3. stack' = Append(stack, f) /\ flag' = members \ {c}
  BY DEF Tell, Call
<1> HIDE DEF f
<1>4. stack' \in Seq(Frame) /\ Cascade(open, closing, stack')
  BY <1>2, <1>3, MessageBegins DEF IInv, TypeOK
<1>5. member' \in [Channel -> SUBSET Conn] /\ \A k \in Channel : member'[k] \in {members, member[k]}
  BY <1>1 DEF Tell, IInv, TypeOK
<1>6. TypeOK'
  BY <1>1, <1>3, <1>4, <1>5 DEF IInv, TypeOK, Tell
<1>7. CountExact' /\ LimitHeld' /\ WriteBufferBound' /\ Cascade(open', closing', stack')
  BY <1>1, <1>4 DEF IInv, CountExact, LimitHeld, WriteBufferBound, Tell
<1>8. MembersConnected'
  BY <1>5 DEF IInv, MembersConnected, Tell
<1> QED
  BY <1>6, <1>7, <1>8 DEF IInv

\* A step of the main loop: a new connection, a close, a write, a message.
LEMMA LoopKeeps ==
    ASSUME IInv, NEW c \in Conn,
           \/ New_Connection(c) \/ Close(c) \/ Reply(c) \/ Handle_Write(c)
           \/ \E ch \in Channel : Channel_Join(c, ch) \/ Channel_Part(c, ch) \/ Channel_Write(c, ch)
    PROVE  IInv'
<1>1. CASE New_Connection(c)
  BY <1>1, NewConnectionKeeps
<1>2. CASE c \in open /\ Conn_Close(stack, c)
  BY <1>2, ConnCloseKeeps DEF IInv, TypeOK
<1>3. CASE /\ c \in open /\ UNCHANGED <<open, closing, num, member, flag, stack>>
           /\ \E len \in Nat : len < WRITEBUFFER_MAX_LEN /\ wlen' = [wlen EXCEPT ![c] = len]
  <2>1. wlen' \in [Conn -> Nat] /\ WriteBufferBound'
    BY <1>3, WriteKeeps, Zenon
  <2>2. TypeOK'
    BY <1>3, <2>1 DEF IInv, TypeOK, Conn, Frame
  <2> QED
    BY <1>3, <2>1, <2>2 DEF IInv, CountExact, LimitHeld, MembersConnected
<1>4. CASE Reply(c)
  <2>1. \A len \in Queued(c) : len \in Nat /\ len < WRITEBUFFER_MAX_LEN
    BY QueuedBound DEF IInv
  <2> QED
    BY <1>2, <1>3, <1>4, <2>1 DEF Reply
<1>5. CASE Handle_Write(c)
  <2>1. \A len \in 0..wlen[c] : len \in Nat /\ len < WRITEBUFFER_MAX_LEN
    BY DEF IInv, TypeOK, WriteBufferBound
  <2> QED
    BY <1>2, <1>3, <1>5, <2>1 DEF Handle_Write
<1>6. ASSUME NEW ch \in Channel, Channel_Join(c, ch) \/ Channel_Part(c, ch) \/ Channel_Write(c, ch)
      PROVE  IInv'
  <2>1. member[ch] \in SUBSET (open \cup closing)
    BY DEF IInv, MembersConnected
  <2>2. PICK kind \in {"echo", "msg"}, members \in SUBSET (open \cup closing) :
             Tell(kind, c, ch, members)
    BY <1>6, <2>1 DEF Channel_Join, Channel_Part, Channel_Write
  <2> QED
    BY <2>2, TellKeeps
<1> QED
  BY <1>1, <1>2, <1>4, <1>5, <1>6 DEF Close

LEMMA NextKeeps == IInv /\ [Next]_vars => IInv'
<1> SUFFICES ASSUME IInv, [Next]_vars
             PROVE  IInv'
  OBVIOUS
<1>1. CASE UNCHANGED vars
  BY <1>1 DEF vars, IInv, TypeOK, CountExact, LimitHeld, WriteBufferBound, MembersConnected, Conn, Frame
<1> QED
  BY <1>1, SendKeeps, FinishCloseKeeps, FinishMessageKeeps, LoopKeeps DEF Next, Calls
-----------------------------------------------------------------------------
(* The theorems. *)

LEMMA InvariantHolds == Spec => []IInv
  BY InitEstablishes, NextKeeps, PTL DEF Spec

\* However deep closes nest, NumConnections is the number of connections open or
\* being closed and stays within Conf_MaxConnections, and no write buffer reaches
\* WRITEBUFFER_MAX_LEN or outlives its connection.
THEOREM PoolSoundHolds == Spec => []PoolSound
<1>1. IInv => PoolSound
  BY DEF IInv, PoolSound
<1> QED
  BY <1>1, InvariantHolds, PTL

\* However deep closes nest, no connection is closed twice, and no channel keeps
\* a client whose connection is gone.
THEOREM ClosesSoundHolds == Spec => []ClosesSound
<1>1. IInv => ClosesSound
  BY DEF IInv, Cascade, ClosesSound, OneCloseEach
<1> QED
  BY <1>1, InvariantHolds, PTL
=============================================================================
