------------------------------- MODULE Match --------------------------------
(* Patterns and names: match.c, Lists_MakeMask, Client_IsValidNick and        *)
(* Channel_IsValidName.  A string is a sequence of characters; reading past   *)
(* its end gives the terminating NUL of C.                                    *)
EXTENDS Integers, Sequences, FiniteSetsExt

CONSTANTS
    MASK_LEN,              \* size of the buffer of a mask
    Conf_MaxNickLength,
    CHANNEL_NAME_LEN

ASSUME MatchAssumption ==
    MASK_LEN \in Nat /\ MASK_LEN > 6 /\ Conf_MaxNickLength \in Nat /\ CHANNEL_NAME_LEN \in Nat

\* strlcpy() and strlcat() into a buffer of n bytes, strchr() as a position or 0
strlcpy(s, n) == SubSeq(s, 1, Min({Len(s), n - 1}))
strlcat(d, s, n) == IF Len(d) >= n - 1 THEN d ELSE strlcpy(d \o s, n)
strchr(s, c) == Min({i \in 1 .. Len(s) : s[i] = c} \cup {Len(s) + 1}) % (Len(s) + 1)
-----------------------------------------------------------------------------
(* Match: the results are those of the code                                   *)
RECURSIVE Matche(_, _), Matche_After_Star(_, _), Search(_, _, _)

\* Mutant of Matche: a star does not stand for the empty text at the end.
Matche_End(p, t) ==
    CASE p = <<>> -> IF t = <<>> THEN "VALID" ELSE "END"
      [] p # <<>> /\ t = <<>> -> "ABORT"
      [] p # <<>> /\ t # <<>> /\ p[1] = "*" -> Matche_After_Star(p, t)
      [] OTHER -> IF p[1] \in {"?", t[1]} THEN Matche(Tail(p), Tail(t)) ELSE "LITERAL"

Matche(p, t) ==
    CASE p = <<>> -> IF t = <<>> THEN "VALID" ELSE "END"
      [] p # <<>> /\ t = <<>> -> IF p = <<"*">> THEN "VALID" ELSE "ABORT"
      [] p # <<>> /\ t # <<>> /\ p[1] = "*" -> Matche_After_Star(p, t)
      [] OTHER -> IF p[1] \in {"?", t[1]} THEN Matche(Tail(p), Tail(t)) ELSE "LITERAL"

\* every "?" after the star takes a character, then the next literal is looked for
Matche_After_Star(p, t) ==
    CASE p = <<>> -> "VALID"
      [] p # <<>> /\ p[1] = "*" -> Matche_After_Star(Tail(p), t)
      [] p # <<>> /\ p[1] = "?" ->
            IF t = <<>> THEN "ABORT" ELSE Matche_After_Star(Tail(p), Tail(t))
      [] p = <<"\\">> -> "PATTERN"
      [] OTHER -> Search(p, t, IF p[1] = "\\" THEN p[2] ELSE p[1])

\* the do loop: match where nextp is found, until a definite result
Search(p, t, nextp) ==
    IF t = <<>> THEN "ABORT"
    ELSE LET match == IF nextp \in {t[1], "["} THEN Matche(p, t) ELSE "0"
         IN IF match \in {"VALID", "ABORT", "PATTERN"} THEN match
            ELSE Search(p, Tail(t), nextp)

Match(p, t) == Matche(p, t) = "VALID"
-----------------------------------------------------------------------------
(* Masks                                                                      *)
Lists_MakeMask(p) ==
    LET at == strchr(p, "@")
        excl == IF at # 0 /\ at < strchr(p, "!") THEN 0 ELSE strchr(p, "!")
    IN CASE at = 0 /\ excl = 0 -> strlcat(strlcpy(p, MASK_LEN - 5), <<"!", "*", "@", "*">>, MASK_LEN)
         [] at = 0 /\ excl # 0 -> strlcat(strlcpy(p, MASK_LEN - 3), <<"@", "*">>, MASK_LEN)
         [] at # 0 /\ excl = 0 ->
               strlcat(strlcat(strlcpy(SubSeq(p, 1, at - 1), MASK_LEN - 5), <<"!", "*", "@">>, MASK_LEN),
                       SubSeq(p, at + 1, Len(p)), MASK_LEN)
         [] OTHER -> strlcpy(p, MASK_LEN)
-----------------------------------------------------------------------------
(* Names; strchr() finds the NUL at the end of a string too                   *)
goodchars == {";", "0", "-", "NUL"}
BelowA == {" ", "!", "#", "&", "*", "+", ",", "-", "0", ":", ";", "?", "@"}
AboveBrace == {"~"}
First(s) == IF s = <<>> THEN "NUL" ELSE s[1]

Client_IsValidNick(s) ==
    /\ First(s) \notin goodchars
    /\ Len(s) < Conf_MaxNickLength
    /\ \A i \in 1 .. Len(s) : s[i] \notin (BelowA \ goodchars) \cup AboveBrace

Channel_IsValidName(s) ==
    /\ First(s) \in {"#", "&", "+", "NUL"}
    /\ Len(s) < CHANNEL_NAME_LEN
    /\ \A i \in 1 .. Len(s) : s[i] \notin {" ", ",", ":", "BEL"}
=============================================================================
