-------------------------------- MODULE MCMail --------------------------------
(***************************************************************************)
(* What a daemon does with the mail that reaches it, and the keys it opens *)
(* mail with.  A behaviour is one of MailReceiver or one of MailboxKeys.   *)
(***************************************************************************)
EXTENDS MailReceiver, MailboxKeys

CONSTANTS note, keys, other

VARIABLE part

allMailVars == <<part, receiverVars, keyVars>>

\* One mail of each kind that Handle tells apart.
MCKindOf == [m \in Mail |-> CASE m = note -> "inbox" [] m = keys -> "keys" [] m = other -> "unknown"]

\* One unit of MailboxKeys is half a week: rotation at 7 days, not_after 14 days,
\* TTL 7 days.  A right clock, and jobs interrupted or delayed at any point; a clock
\* 10.5 days fast for up to 10.5 days.
Right   == [offset |-> {0}, wrong |-> 0, time |-> 5, prompt |-> FALSE]
Forward == [offset |-> {0, 3}, wrong |-> 3, time |-> 6, prompt |-> TRUE]
MCLimits == {Right, Forward}

MailInit ==
    /\ part \in {"receiver", "keys"}
    /\ ReceiverInit /\ KeysInit
    /\ part # "keys" => limit = Forward

MailNext ==
    \/ part = "receiver" /\ ReceiverNext /\ UNCHANGED <<part, keyVars>>
    \/ part = "keys" /\ KeysNext /\ UNCHANGED <<part, receiverVars>>

MailSpec == MailInit /\ [][MailNext]_allMailVars
===============================================================================
