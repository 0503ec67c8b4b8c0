----------------------------- MODULE MCMailOutbox -----------------------------
(* MailOutbox for TLC: which mail goes to which peer.                         *)
EXTENDS MailOutbox

OnePeer == [m \in Mail |-> CHOOSE p \in Peer : TRUE]

===============================================================================
