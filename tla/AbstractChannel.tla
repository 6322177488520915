--------------------------- MODULE AbstractChannel ---------------------------
(* What channels promise their users, whatever commands are sent: the one who  *)
(* opens a channel becomes its operator, entering never changes who the        *)
(* operators are, operators come from operators, and a channel without         *)
(* operators stays without until it is closed, unless an IRC operator steps in. *)
(* A command may touch several channels; each of them takes a step of its own. *)
EXTENDS FiniteSets

CONSTANTS User, Chan,
          Ranked          \* the channels that have operators (not the + channels)

VARIABLES live,           \* the channels that exist
          members, ops,   \* of every channel: members, and those with operator rights
          powers          \* the IRC operators of the server

vars == <<live, members, ops, powers>>

Init == /\ live \subseteq Chan              \* persistent channels exist from the start
        /\ members = [c \in Chan |-> {}] /\ ops = [c \in Chan |-> {}]
        /\ powers = {}

Same(c) == /\ members'[c] = members[c] /\ ops'[c] = ops[c]
           /\ c \in live' <=> c \in live

Open(c, u) == /\ c \notin live /\ c \in live'
              /\ members'[c] = {u}
              /\ ops'[c] = IF c \in Ranked THEN {u} ELSE {}

\* a predefined channel is opened by the server itself
Provide(c) == c \notin live /\ c \in live' /\ members'[c] = {} /\ ops'[c] = {}

Enter(c, u) == /\ c \in live /\ c \in live'
               /\ u \notin members[c]
               /\ members'[c] = members[c] \cup {u} /\ ops'[c] = ops[c]

Leave(c, gone) == /\ gone # {} /\ gone \subseteq members[c]
                  /\ members'[c] = members[c] \ gone /\ ops'[c] = ops[c] \ gone
                  /\ c \in live
                  /\ c \in live' \/ members'[c] = {}

Manage(c) == /\ ops[c] # {}
             /\ c \in live /\ c \in live'
             /\ members'[c] = members[c] /\ ops'[c] \subseteq members[c]

\* with an IRC operator around, all that is left is that operators are members
Intervene(c) == powers # {} /\ ops'[c] \subseteq members'[c]

Step(c) == \/ Same(c) \/ Provide(c) \/ Manage(c) \/ Intervene(c)
           \/ \E u \in User : Open(c, u) \/ Enter(c, u)
           \/ \E gone \in SUBSET User : Leave(c, gone)

Next == /\ \A c \in Chan : Step(c)
        /\ powers' \subseteq User

Spec == Init /\ [][Next]_vars
=============================================================================
