------------------------------- MODULE Whowas -------------------------------
(* The ring My_Whowas of client.c and the search of IRC_WHOWAS, as operators  *)
(* on the record w: id, the nick in every slot, and last, Last_Whowas.        *)
EXTENDS Integers, Sequences

CONSTANT MAX_WHOWAS

ASSUME WhowasAssumption == MAX_WHOWAS \in Nat \ {0}

Slots == 0 .. MAX_WHOWAS - 1
Unused == [nick |-> "", stamp |-> -1]

\* at the start Last_Whowas is -1; a restart clears the slots and leaves it
Client_Init(last) == [id |-> [i \in Slots |-> Unused], last |-> last]

\* Mutant of Client_RegisterWhowas: the ring wraps around one slot too early.
Client_RegisterWhowas_Early(w, entry, age, private) ==
    LET slot == IF w.last + 2 >= MAX_WHOWAS THEN 0 ELSE w.last + 1
    IN IF private \/ age < 30 THEN w
       ELSE [id |-> [w.id EXCEPT ![slot] = entry], last |-> slot]

\* a client connected for age seconds goes; private is Conf_MorePrivacy
Client_RegisterWhowas(w, entry, age, private) ==
    LET slot == IF w.last + 1 >= MAX_WHOWAS \/ w.last + 1 < 0 THEN 0 ELSE w.last + 1
    IN IF private \/ age < 30 THEN w
       ELSE [id |-> [w.id EXCEPT ![slot] = entry], last |-> slot]

\* the do loop for one nick: i is the slot it is at, nc and count the entries written
\* for this nick and for all, out the entries
RECURSIVE Entries(_, _, _, _, _)
Entries(w, last, nick, max, s) ==
    LET hit == w.id[s.i] # Unused /\ w.id[s.i].nick = nick
        one == IF hit THEN 1 ELSE 0
        now == [i |-> IF s.i = 0 THEN MAX_WHOWAS - 1 ELSE s.i - 1, nc |-> s.nc + one,
                count |-> s.count + one, out |-> IF hit THEN Append(s.out, w.id[s.i]) ELSE s.out]
    IN IF (now.nc > 0 /\ now.count >= max) \/ now.i = last THEN now
       ELSE Entries(w, last, nick, max, now)

\* the loop over the list of nicks goes on at the slot where the last one ended
RECURSIVE Nicks(_, _, _, _, _)
Nicks(w, last, nicks, max, s) ==
    IF nicks = <<>> THEN s.out
    ELSE Nicks(w, last, Tail(nicks), max, Entries(w, last, nicks[1], max, [s EXCEPT !.nc = 0]))

\* the entries written in answer, newest first
IRC_WHOWAS(w, nicks, max, private) ==
    LET last == IF w.last < 0 THEN 0 ELSE w.last
    IN IF private THEN <<>>
       ELSE Nicks(w, last, nicks, max, [i |-> last, nc |-> 0, count |-> 0, out |-> <<>>])
=============================================================================
