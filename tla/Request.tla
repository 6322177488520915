------------------------------ MODULE Request -------------------------------
(* A line of the protocol: the parser of parse.c, the form in which a numeric *)
(* is forwarded to another server, and ScrubCTCP.  NULL is the pointer.       *)
EXTENDS Integers, Sequences, FiniteSetsExt

CONSTANT MaxArgs   \* 15: size of argv[]

ASSUME RequestAssumption == MaxArgs \in Nat \ {0}

NULL == "NULL"
Space == " "
Ctcp == "^"         \* the character 0x1
me_cmd == "a"       \* "ACTION " is one symbol

\* the first word of s, and what follows it and the spaces behind it; NULL at the end
Word(s) == SubSeq(s, 1, Min({i \in 1 .. Len(s) : s[i] = Space} \cup {Len(s) + 1}) - 1)

Rest(s) ==
    LET later == {i \in Len(Word(s)) + 1 .. Len(s) : s[i] # Space}
    IN IF later = {} THEN NULL ELSE SubSeq(s, Min(later), Len(s))

ngt_TrimStr(s) ==
    LET text == {i \in 1 .. Len(s) : s[i] # Space}
    IN IF text = {} THEN <<>> ELSE SubSeq(s, Min(text), Max(text))

\* the loop over the parameters, the first argc of which are found
RECURSIVE Arguments(_, _)
Arguments(s, argc) ==
    IF s = NULL THEN <<>>
    ELSE IF s[1] = ":" THEN <<Tail(s)>>
    ELSE IF argc + 1 >= MaxArgs THEN <<Word(s)>>
    ELSE <<Word(s)>> \o Arguments(Rest(s), argc + 1)

\* true if the line is to be dropped: a CTCP behind the first colon, but for /me
ScrubCTCP(line) ==
    LET from == IF line # <<>> /\ line[1] = ":" THEN 2 ELSE 1
        colon == {i \in from .. Len(line) : line[i] = ":"}
        p == IF colon = {} THEN Len(line) + 1 ELSE Min(colon) + 1
    IN p <= Len(line) /\ line[p] = Ctcp /\ ~(p < Len(line) /\ line[p + 1] = me_cmd)

Init_Request == [prefix |-> NULL, command |-> NULL, argv |-> <<>>]

\* a request without a command is not handled: an empty line, one that is scrubbed,
\* a prefix alone
Parse_Request(line, Conf_ScrubCTCP) ==
    LET s == ngt_TrimStr(line)
        prefixed == s # <<>> /\ s[1] = ":"
        start == IF prefixed THEN Rest(s) ELSE s
    IN IF s = <<>> \/ (Conf_ScrubCTCP /\ ScrubCTCP(s)) \/ start = NULL THEN Init_Request
       ELSE [prefix |-> IF prefixed THEN Tail(Word(s)) ELSE NULL,
             command |-> Word(start), argv |-> Arguments(Rest(start), 0)]

\* Mutant of Joined: the last parameter is written like the others.
RECURSIVE Joined_Plain(_)
Joined_Plain(argv) ==
    IF argv = <<>> THEN <<>> ELSE <<Space>> \o argv[1] \o Joined_Plain(Tail(argv))

\* the parameters, the last one behind a colon
RECURSIVE Joined(_)
Joined(argv) ==
    IF argv = <<>> THEN <<>>
    ELSE IF Len(argv) = 1 THEN <<Space, ":">> \o argv[1]
    ELSE <<Space>> \o argv[1] \o Joined(Tail(argv))

\* what Handle_Numeric sends on for request r, with the prefix of IRC_WriteStrClientPrefix
Handle_Numeric(r) == <<":">> \o r.prefix \o <<Space>> \o r.command \o Joined(r.argv)
=============================================================================
