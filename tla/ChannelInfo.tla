----------------------------- MODULE ChannelInfo -----------------------------
(* What the commands LIST, NAMES, WHO, WHOIS and LUSERS of irc-info.c tell a    *)
(* user v about the channels of its server.                                    *)
EXTENDS Channel

CONSTANTS Invisible,          \* users with the user mode i
          HideChannels,       \* users with the user mode I
          Conf_MorePrivacy,
          Conf_MaxListSize,   \* channels in an answer to LIST, 0: no limit
          MAX_RPL_WHO         \* users in an answer to WHO with a mask

ASSUME InfoAssumption == Conf_MaxListSize \in Nat /\ MAX_RPL_WHO \in Nat \ {0}

\* what a walk over the entries S may answer when it stops after n of them: the order
\* of the lists is left open
IRC_CheckListTooBig(S, n) ==
    {A \in SUBSET S : IF Cardinality(S) <= n THEN A = S ELSE Cardinality(A) = n}

\* the answers to LIST without arguments
IRC_LIST(v) ==
    LET shown == {c \in DOMAIN chan : \/ ~Has(st, c, "s") \/ Channel_IsMemberOf(st, c, v)
                                      \/ v \in oper}
    IN IF Conf_MaxListSize > 0 THEN IRC_CheckListTooBig(shown, Conf_MaxListSize) ELSE {shown}

IRC_Send_NAMES(v, c) ==
    LET is_member == Channel_IsMemberOf(st, c, v)
    IN IF ~is_member /\ (Conf_MorePrivacy \/ Has(st, c, "s")) THEN {}
       ELSE {u \in Members(st, c) : is_member \/ u \notin Invisible}

\* NAMES without arguments ends with the users that are in no channel
NAMES_Rest == {u \in User \ Invisible : Channel_CountForUser(st, u) = 0}

IRC_WHO_Channel(v, c) ==
    LET all == Channel_IsMemberOf(st, c, v) \/ v \in oper
    IN IF ~all /\ Has(st, c, "s") THEN {}
       ELSE {u \in Members(st, c) : all \/ u \notin Invisible}

\* the answers to WHO with a mask that matches all and spells out no nick
IRC_WHO_Mask(v) ==
    IRC_CheckListTooBig({u \in User : \/ u \notin Invisible
                                      \/ \E c \in Chan : /\ Channel_IsMemberOf(st, c, v)
                                                         /\ Channel_IsMemberOf(st, c, u)},
                        MAX_RPL_WHO)

\* Mutant of IRC_WHOIS_SendReply: the asking user need not be a member of a secret channel.
IRC_WHOIS_SendReply_Secret(v, u, server) ==
    IF u \in HideChannels /\ v \notin oper THEN {}
    ELSE {c \in Chan : /\ Channel_IsMemberOf(st, c, u)
                       /\ Has(st, c, "s") => ~server
                       /\ server => c \notin LocalChan}

\* the channels in the answer to WHOIS u; server: it came over a server link
IRC_WHOIS_SendReply(v, u, server) ==
    IF u \in HideChannels /\ v \notin oper THEN {}
    ELSE {c \in Chan : /\ Channel_IsMemberOf(st, c, u)
                       /\ Has(st, c, "s") => ~server /\ Channel_IsMemberOf(st, c, v)
                       /\ server => c \notin LocalChan}

Channel_CountVisible(v) ==
    Cardinality({c \in DOMAIN chan : ~Has(st, c, "s") \/ Channel_IsMemberOf(st, c, v)})
-----------------------------------------------------------------------------
\* A user who is neither a member nor an IRC operator learns of a secret channel
\* by none of the commands, and LIST gives as many channels as LUSERS counts, or
\* MaxListSize when there are more.
SecretHidden ==
    \A v \in User \ oper :
      /\ \A c \in DOMAIN chan :
           Has(st, c, "s") /\ ~Channel_IsMemberOf(st, c, v) =>
             /\ \A list \in IRC_LIST(v) : c \notin list
             /\ IRC_Send_NAMES(v, c) \cup IRC_WHO_Channel(v, c) = {}
             /\ \A u \in User, server \in BOOLEAN :
                  c \notin IRC_WHOIS_SendReply(v, u, server)
      /\ \A list \in IRC_LIST(v) :
           Cardinality(list) =
             IF Conf_MaxListSize = 0 \/ Channel_CountVisible(v) <= Conf_MaxListSize
             THEN Channel_CountVisible(v) ELSE Conf_MaxListSize

\* NAMES and WHO give the same members of a channel to everyone but IRC operators,
\* unless MorePrivacy is on; and whoever NAMES shows is in the answer to WHO with a
\* mask, unless that was cut off at MAX_RPL_WHO users.
NamesAgreeWithWho ==
    \A v \in User \ oper :
      /\ ~Conf_MorePrivacy =>
           \A c \in DOMAIN chan : IRC_Send_NAMES(v, c) = IRC_WHO_Channel(v, c)
      /\ \A who \in IRC_WHO_Mask(v) :
           \/ Cardinality(who) = MAX_RPL_WHO
           \/ (UNION {IRC_Send_NAMES(v, c) : c \in DOMAIN chan}) \cup NAMES_Rest \subseteq who

\* What the commands tell about channels is consistent: none gives away what another
\* hides, be it a secret channel or an invisible user (irc-info.c).
InfoConsistent == SecretHidden /\ NamesAgreeWithWho
=============================================================================
