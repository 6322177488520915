------------------------------ MODULE Helpers -------------------------------
(* The helpers of the server against reference definitions.  x is one test    *)
(* bench: a pattern and a text, a line of the protocol, a name, a WHOWAS ring *)
(* with the log of all that was registered, a read or write buffer with the   *)
(* bytes it should hold, a pool of elements like My_ConnArray, the targets of *)
(* a message, or G-lines and K-lines with the requests that set them.  Inputs *)
(* grow by a character, structures change by a call: so every input up to     *)
(* the bounds and every sequence of calls is met.                             *)
EXTENDS Match, Request, Array, Whowas, Message, Lines, SequencesExt

CONSTANTS
    PatternChars, TextChars, MaxPattern, MaxText,
    LineChars, MaxLine,
    NameChars, MaxName,
    Nick, MaxLog,
    Byte,
    World, Target, MaxTargets,      \* clients and modes, targets of messages
    Mask, LineNick, Seconds, MaxNow \* masks, nicks, times and clock of the lines

VARIABLE x
vars == <<x>>

NoUser == [type |-> "NONE", nick |-> CHOOSE n \in LineNick : TRUE, x |-> FALSE]

Bench ==
    {[kind |-> "match", p |-> <<>>, t |-> <<>>], [kind |-> "line", l |-> <<>>],
     [kind |-> "name", n |-> <<>>], [kind |-> "whowas", w |-> Client_Init(-1), log |-> <<>>],
     [kind |-> "buffer", a |-> array_init, q |-> <<>>, nul |-> FALSE],
     [kind |-> "pool", a |-> array_init, e |-> <<>>],
     [kind |-> "lines", s |-> [G |-> <<>>, K |-> <<>>, now |-> 1, user |-> ("u" :> NoUser)],
      ask |-> [G |-> <<>>, K |-> <<>>], swept |-> TRUE,
      seen |-> [G |-> ("u" :> NoUser), K |-> ("u" :> NoUser)]]}
    \cup {[kind |-> "message", w |-> w, ts |-> <<>>] : w \in World}

Init == x \in Bench

GrowPattern ==
    /\ x.kind = "match" /\ Len(x.p) < MaxPattern
    /\ \E c \in PatternChars : x' = [x EXCEPT !.p = Append(@, c)]

GrowText ==
    /\ x.kind = "match" /\ Len(x.t) < MaxText
    /\ \E c \in TextChars : x' = [x EXCEPT !.t = Append(@, c)]

GrowLine ==
    /\ x.kind = "line" /\ Len(x.l) < MaxLine
    /\ \E c \in LineChars : x' = [x EXCEPT !.l = Append(@, c)]

GrowName ==
    /\ x.kind = "name" /\ Len(x.n) < MaxName
    /\ \E c \in NameChars : x' = [x EXCEPT !.n = Append(@, c)]

Register ==
    /\ x.kind = "whowas" /\ Len(x.log) < MaxLog
    /\ \E n \in Nick, age \in {29, 30}, private \in BOOLEAN :
          LET e == [nick |-> n, stamp |-> Len(x.log)]
          IN x' = [x EXCEPT !.w = Client_RegisterWhowas(@, e, age, private),
                            !.log = IF private \/ age < 30 THEN @ ELSE Append(@, e)]

\* the server is restarted
Restart ==
    /\ x.kind = "whowas" /\ x.log # <<>>
    /\ x' = [x EXCEPT !.w = Client_Init(x.w.last), !.log = <<>>]

\* data is received or queued
Fill ==
    /\ x.kind = "buffer"
    /\ \E src \in {<<b>> : b \in Byte} \cup {<<b, c>> : b, c \in Byte}, ok \in BOOLEAN :
          LET r == array_catb(x.a, src, ok)
          IN x' = [x EXCEPT !.a = r.a, !.q = IF r.res THEN @ \o src ELSE @, !.nul = FALSE]

\* a line is handled, or a part is sent; more than there is empties the buffer
Take ==
    /\ x.kind = "buffer"
    /\ \E n \in 0 .. Len(x.q) + 1 :
          x' = [x EXCEPT !.a = array_moveleft(@, 1, n), !.q = SubSeq(@, n + 1, Len(@)), !.nul = FALSE]

\* a buffer with data is made a string for the search of the end of line
Terminate ==
    /\ x.kind = "buffer" /\ x.a.used > 0
    /\ \E ok \in BOOLEAN : LET r == array_cat0_temporary(x.a, ok)
                           IN x' = [x EXCEPT !.a = r.a, !.nul = r.res]

\* a topic is set, or the connection closed
Replace ==
    /\ x.kind = "buffer"
    /\ \/ x' = [x EXCEPT !.a = array_free(@), !.q = <<>>, !.nul = FALSE]
       \/ \E b \in Byte, ok \in BOOLEAN :
             LET r == array_copyb(x.a, <<b>>, ok)
             IN x' = [x EXCEPT !.a = r.a, !.q = IF r.res THEN <<b>> ELSE <<>>, !.nul = FALSE]

\* Socket2Index: elements of two bytes, the pool e grows to hold number pos; then the
\* element is used
Use ==
    /\ x.kind = "pool"
    /\ \E pos \in 0 .. SIZE - 1, b \in Byte, ok \in BOOLEAN :
          LET r == IF pos < Len(x.e) THEN Result(x.a, TRUE) ELSE array_alloc(x.a, 2, pos, ok)
              at == 2 * pos + 1
              new == [i \in 1 .. Max({Len(x.e), pos + 1}) |->
                         IF i = pos + 1 THEN b ELSE IF i <= Len(x.e) THEN x.e[i] ELSE "0"]
          IN x' = IF r.res THEN [x EXCEPT !.a = [r.a EXCEPT !.mem[at] = b, !.mem[at + 1] = b], !.e = new]
                  ELSE [x EXCEPT !.a = r.a]

GrowTargets ==
    /\ x.kind = "message" /\ Len(x.ts) < MaxTargets
    /\ \E t \in Target : x' = [x EXCEPT !.ts = Append(@, t)]

\* the users of s, as far as they are registered here
Kept(s) == [u \in DOMAIN s.user |-> IF s.user[u].type = "USER" THEN s.user[u] ELSE NoUser]

\* GLINE or KLINE of an operator; ask holds what was asked for each mask, seen how each
\* user was when last checked against each list
SetLine ==
    /\ x.kind = "lines"
    /\ \E class \in {"G", "K"}, mask \in Mask :
          \/ \E n \in Seconds : x' = [x EXCEPT !.s = Add_Line(@, class, mask, n),
                                 !.ask[class] = (mask :> IF n > 0 THEN x.s.now + n ELSE n) @@ @,
                                 !.seen[class] = Kept(Add_Line(x.s, class, mask, n))]
          \/ x' = [x EXCEPT !.s = Delete_Line(@, class, mask),
                            !.ask[class] = Restrict(@, DOMAIN @ \ {mask})]

\* a round of the main loop, or time passes; swept says that no time did since a round
Round ==
    /\ x.kind = "lines"
    /\ \/ x' = [x EXCEPT !.s = Class_Expire(@), !.swept = TRUE]
       \/ x.s.now < MaxNow /\ x' = [x EXCEPT !.s.now = @ + 1, !.swept = FALSE]

\* a user connects, registers, is looked up, changes, goes, or is on another server
UserSteps ==
    /\ x.kind = "lines"
    /\ \E u \in DOMAIN x.s.user :
          LET type == x.s.user[u].type
              become(t) == x' = [x EXCEPT !.s.user[u].type = t]
              checked(s) == x' = [x EXCEPT !.s = s, !.seen = [class \in {"G", "K"} |-> Kept(s)]]
          IN \/ type = "NONE" /\ \E t \in {"UNKNOWN", "REMOTE"} : become(t)
             \/ type = "UNKNOWN" /\ \E t \in {"GOTNICK", "OTHER"} : become(t)
             \/ type \in {"GOTNICK", "OTHER"} /\ checked(Login_User_PostAuth(x.s, u))
             \/ x' = [x EXCEPT !.s = cb_Read_Resolver_Result(@, u)]
             \/ type # "NONE" /\ \E n \in LineNick : x' = [x EXCEPT !.s = Change_Nick(@, u, n)]
             \/ type \in {"USER", "REMOTE"} /\ \E on \in BOOLEAN : x' = [x EXCEPT !.s = Client_Mode_x(@, u, on)]
             \/ type # "NONE" /\ x' = [x EXCEPT !.s.user[u] = NoUser]

Next ==
    \/ GrowTargets \/ SetLine \/ Round \/ UserSteps
    \/ GrowPattern \/ GrowText \/ GrowLine \/ GrowName \/ Register \/ Restart
    \/ Fill \/ Take \/ Terminate \/ Replace \/ Use

Spec == Init /\ [][Next]_vars
-----------------------------------------------------------------------------
(* Reference definitions                                                      *)
\* "*" stands for any text, "?" for any character, all others for themselves
RECURSIVE Like(_, _)
Like(p, t) ==
    IF p = <<>> THEN t = <<>>
    ELSE IF p[1] = "*" THEN \E i \in 1 .. Len(t) + 1 : Like(Tail(p), SubSeq(t, i, Len(t)))
    ELSE t # <<>> /\ p[1] \in {"?", t[1]} /\ Like(Tail(p), Tail(t))

\* the words of a line by the places where they start
WordStarts(l) == SetToSortSeq({i \in 1 .. Len(l) : l[i] # Space /\ (i = 1 \/ l[i - 1] = Space)}, <)
WordAt(l, i) == SubSeq(l, i, Min({j \in i .. Len(l) : j = Len(l) \/ l[j + 1] = Space}))

\* the parameters of a line by the places where they start
ArgStarts(l) == LET w == WordStarts(l) IN SubSeq(w, IF l # <<>> /\ l[1] = ":" THEN 3 ELSE 2, Len(w))

\* RFC 2812, 2.3: prefix, command, and up to MaxArgs parameters, of which the first that
\* starts with a colon, or the last of them without one, is the rest of the line
Grammar(line) ==
    LET l == ngt_TrimStr(line)
        w == WordStarts(l)
        k == IF l # <<>> /\ l[1] = ":" THEN 1 ELSE 0
        args == ArgStarts(l)
        last == Min({j \in 1 .. Len(args) : l[args[j]] = ":"} \cup {Len(args), MaxArgs})
    IN IF Len(w) <= k THEN Init_Request
       ELSE [prefix |-> IF k = 1 THEN Tail(WordAt(l, w[1])) ELSE NULL,
             command |-> WordAt(l, w[k + 1]),
             argv |-> [j \in 1 .. last |-> IF l[args[j]] = ":" THEN SubSeq(l, args[j] + 1, Len(l))
                                           ELSE IF j = MaxArgs THEN SubSeq(l, args[j], Len(l))
                                           ELSE WordAt(l, args[j])]]

\* more than MaxArgs words, and the parameter MaxArgs is not introduced by a colon
Crowded(line) ==
    LET l == ngt_TrimStr(line)
        args == ArgStarts(l)
    IN Len(args) > MaxArgs /\ \A j \in 1 .. MaxArgs : l[args[j]] # ":"

\* the newest entries of a nick among those the ring can hold
Newest(log, nick, max) ==
    LET kept == SubSeq(Reverse(log), 1, Min({Len(log), MAX_WHOWAS}))
        mine == SelectSeq(kept, LAMBDA e : e.nick = nick)
    IN SubSeq(mine, 1, Min({Len(mine), max}))

\* patterns for which Matche says what Like says: no backslash follows a star or
\* a "?" behind one, since that is looked for without the backslash, ...
Plain(p) == \A i, j \in 1 .. Len(p) :
               (i < j /\ p[i] = "*" /\ p[j] = "\\") => \E k \in i + 1 .. j - 1 : p[k] \notin {"*", "?"}
\* ... and they do not end in two stars
OneStar(p) == Len(p) < 2 \/ SubSeq(p, Len(p) - 1, Len(p)) # <<"*", "*">>
-----------------------------------------------------------------------------
\* All structures stay within what they may be.
TypeOK ==
    CASE x.kind = "match" -> x.p \in Seq(PatternChars) /\ x.t \in Seq(TextChars)
      [] x.kind = "line" -> x.l \in Seq(LineChars)
      [] x.kind = "name" -> x.n \in Seq(NameChars)
      [] x.kind = "message" -> x.ts \in Seq(Target)
      [] x.kind = "lines" -> \A l \in {x.s.G, x.s.K} : \A i, j \in DOMAIN l : l[i].mask = l[j].mask => i = j
      [] x.kind = "whowas" -> x.w.last \in Slots \cup {-1} /\ DOMAIN x.w.id = Slots
      [] OTHER -> x.a.used \in 0 .. allocated(x.a) /\ allocated(x.a) < SIZE

\* Match() accepts no text that its pattern does not stand for, whatever the pattern,
\* and accepts every text a plain pattern stands for.
MatchExact ==
    x.kind = "match" =>
        /\ Match(x.p, x.t) => Like(x.p, x.t)
        /\ (Plain(x.p) /\ OneStar(x.p)) => (Match(x.p, x.t) <=> Like(x.p, x.t))

\* The mask that Lists_MakeMask() makes of a pattern without "!" and "@" is the ban of
\* the nicks the pattern stands for, on every user name and host; a pattern too long for
\* the buffer is cut and stands for the rest.
MaskMeansNick ==
    x.kind = "match" =>
        LET p == strlcpy(x.p, MASK_LEN - 5)
        IN Plain(p) => (Match(Lists_MakeMask(x.p), x.t \o <<"!", "a", "@", "b">>) <=> Like(p, x.t))

\* A mask fits its buffer, has a "!" and a "@" behind it unless it had to be cut, and
\* making a mask of it again, as a linked server does with the ban it is sent, does not
\* change it.
MaskStable ==
    x.kind = "name" =>
        LET m == Lists_MakeMask(x.n)
            whole == 0 < strchr(m, "!") /\ strchr(m, "!") < strchr(m, "@")
        IN /\ Len(m) < MASK_LEN
           /\ Len(x.n) <= MASK_LEN - 6 => whole
           /\ whole => Lists_MakeMask(m) = m

\* A nick that Client_IsValidNick() lets pass is no channel name, is one parameter of a
\* line wherever it stands, and its mask stands for itself alone.
NickSafe ==
    (x.kind = "name" /\ Client_IsValidNick(x.n)) =>
        /\ ~Channel_IsValidName(x.n)
        /\ Parse_Request(<<"a", " ">> \o x.n \o <<" ", "a">>, FALSE).argv = <<x.n, <<"a">>>>
        /\ \A k \in 0 .. Conf_MaxNickLength : \A n \in [1 .. k -> NameChars] :
              Client_IsValidNick(n) =>
                (Match(Lists_MakeMask(x.n), n \o <<"!", "a", "@", "b">>) <=> n = x.n)

\* Parse_Request() finds in every line the prefix, the command and the parameters that
\* the grammar of the protocol says, but for a fifteenth parameter of several words
\* without a colon: of that it keeps the first word alone.
ParseExact ==
    x.kind = "line" =>
        LET g == Grammar(x.l)
        IN Parse_Request(x.l, FALSE) =
              IF Crowded(x.l) THEN [g EXCEPT !.argv[MaxArgs] = WordAt(@, 1)] ELSE g

\* A numeric that Handle_Numeric() forwards is the same request to the next server.
ForwardSame ==
    x.kind = "line" =>
        LET r == Parse_Request(x.l, FALSE)
        IN (r.command # NULL /\ r.prefix # NULL) => Parse_Request(Handle_Numeric(r), FALSE) = r

\* With Conf_ScrubCTCP a request whose last parameter is introduced by the only colon
\* of the line, but for the prefix, is dropped if that is a CTCP other than ACTION, and
\* only then.
ScrubExact ==
    x.kind = "line" =>
        LET l == ngt_TrimStr(x.l)
            w == WordStarts(l)
            k == IF l # <<>> /\ l[1] = ":" THEN 1 ELSE 0
            r == Parse_Request(x.l, FALSE)
            j == Len(r.argv) + k + 1
            ctcp(arg) == arg # <<>> /\ arg[1] = Ctcp /\ (Len(arg) = 1 \/ arg[2] # me_cmd)
        IN (r.argv # <<>> /\ {i \in 2 .. Len(l) : l[i] = ":"} = {w[j]}) =>
                (Parse_Request(x.l, TRUE).command = NULL <=> ctcp(Last(r.argv)))

\* WHOWAS finds the newest entries of a nick, newest first, of all the ring can hold;
\* for two nicks it finds those of both as long as the limit is not reached.
WhowasExact ==
    x.kind = "whowas" => \A n, m \in Nick :
        /\ \A max \in 1 .. MAX_WHOWAS : IRC_WHOWAS(x.w, <<n>>, max, FALSE) = Newest(x.log, n, max)
        /\ IRC_WHOWAS(x.w, <<n, m>>, 2 * MAX_WHOWAS + 1, FALSE)
              = Newest(x.log, n, MAX_WHOWAS) \o Newest(x.log, m, MAX_WHOWAS)

\* A buffer holds exactly the bytes appended and not yet taken, in order, through full
\* memory and wrapped sizes; making it a string does not add to it.
BufferExact ==
    x.kind = "buffer" =>
        /\ SubSeq(x.a.mem, 1, x.a.used) = x.q
        /\ x.nul => allocated(x.a) > x.a.used /\ x.a.mem[x.a.used + 1] = "0"

\* An element of the pool keeps its value when the pool grows, and an index whose size
\* does not fit a size_t is refused.
ElemKept ==
    x.kind = "pool" =>
        /\ array_length(x.a, 2) = Len(x.e)
        /\ \A i \in 1 .. Len(x.e) : LET at == array_get(x.a, 2, i - 1)
                                    IN at > 0 /\ x.a.mem[at] = x.e[i] /\ x.a.mem[at + 1] = x.e[i]

\* A message to several targets is what the messages to each of them are together, the
\* connections that failed at an earlier one gone: no target is passed over because of
\* an earlier one, but for those it repeats, those above the limit, for NOTICE those
\* behind one that nobody has, and those behind one whose own connection fails.  Then,
\* and only then, DISCONNECTED is reported for a sender who is still connected.
TargetsServed ==
    x.kind = "message" => \A errors \in BOOLEAN :
        LET some == SubSeq(x.ts, 1, Min({Len(x.ts), MAX_HNDL_TARGETS}))
            first(i) == \A j \in 1 .. i - 1 : some[j] # some[i]
            before[i \in 1 .. Len(some)] == IF i = 1 THEN x.w ELSE Left(before[i - 1], some[i - 1])
            each == [i \in DOMAIN some |->
                        IF first(i) THEN Send_Message(before[i], <<some[i]>>, errors) ELSE OK]
            silent(i) == first(i) /\ Nobody(before[i], some[i]) /\ ~errors
            stop == {i \in DOMAIN some : each[i].res = "DISCONNECTED" \/ silent(i)}
            till == Min(stop \cup {Len(some)})
            many == stop = {} /\ Len(x.ts) > MAX_HNDL_TARGETS
            all == Send_Message(x.w, x.ts, errors)
        IN /\ all.got = FlattenSeq([i \in 1 .. till |-> each[i].got])
           /\ all.err = FoldFunction(+, 0, [i \in 1 .. till |-> each[i].err]) + (IF many THEN 1 ELSE 0)
           /\ (all.res = "DISCONNECTED" /\ x.w.from.nick \notin x.w.dead) =>
                 /\ some[till].kind # "channel"
                 /\ \E i \in DOMAIN x.w.clients : Client_NextHop(x.w, x.w.clients[i]) \in x.w.dead

\* A user with mode b gets no message from a user who is not registered, and one with
\* mode C none from a user in no channel of its own, whichever way it is addressed;
\* operators are exempt.
PrivacyKept ==
    x.kind = "message" => \A errors \in BOOLEAN :
        LET got == Send_Message(x.w, SelectSeq(x.ts, LAMBDA t : t.kind # "channel"), errors).got
            from == x.w.from
        IN \A i \in DOMAIN x.w.clients : LET c == x.w.clients[i] IN
              (c.nick \in Range(got) /\ "o" \notin from.modes) =>
                  /\ "b" \in c.modes => "R" \in from.modes
                  /\ "C" \in c.modes => c.chans \cap from.chans # {}

\* A line is in force as long as was asked for it last, whatever was asked before, is in
\* the list once, and is gone after the first round of the main loop in which its time is
\* over; none is there that was not asked for.
LinesExact ==
    x.kind = "lines" => \A class \in {"G", "K"} :
        LET l == x.s[class]
            ask == x.ask[class]
            over(until) == until > 0 /\ until < x.s.now
        IN /\ \A i \in DOMAIN l : /\ l[i].mask \in DOMAIN ask /\ l[i].valid_until = ask[l[i].mask]
                                  /\ x.swept => ~over(l[i].valid_until)
           /\ \A m \in DOMAIN ask : ~over(ask[m]) => \E i \in DOMAIN l : l[i].mask = m

\* A user of this server whom a line in force bans was not banned when last checked
\* against that list, and has changed the nick or the cloak since, in whichever order
\* lines are set and users log in: a change is not checked (IRC_NICK(), IRC_MODE()).
NoBannedUser ==
    x.kind = "lines" => \A u \in DOMAIN x.s.user, class \in {"G", "K"} :
        LET v == x.s.user[u]
        IN (v.type = "USER" /\ Lists_Check(x.s[class], v)) =>
                /\ x.seen[class][u].type = "USER"
                /\ ~Lists_Check(x.s[class], x.seen[class][u])

\* Patterns, masks and names stand for what they say (match.c, Lists_MakeMask(),
\* Client_IsValidNick(), Channel_IsValidName()).
PatternsExact == MatchExact /\ MaskMeansNick /\ MaskStable /\ NickSafe

\* A line is parsed by the grammar, but for a long last parameter without a colon,
\* forwarded unchanged and scrubbed as configured (parse.c).
RequestExact == ParseExact /\ ForwardSame /\ ScrubExact

\* Dynamic arrays hold what was put into them (array.c).
ArraysExact == TypeOK /\ BufferExact /\ ElemKept

\* A message goes to each of its targets and to nobody who refuses it (Send_Message()).
MessagesServed == TargetsServed /\ PrivacyKept

\* G- and K-lines last as long as asked for and let no user pass who does not change
\* later (class.c, lists.c, login.c, IRC_xLINE()).
BansKept == LinesExact /\ NoBannedUser
=============================================================================
