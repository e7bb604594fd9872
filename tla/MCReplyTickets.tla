---------------------------- MODULE MCReplyTickets ----------------------------
(* Small instances of ReplyTickets: two tickets of one conversation.       *)
EXTENDS ReplyTickets

CONSTANTS t1, t2, group, c1, c2

SameConversation == [t \in Tickets |-> group]
===============================================================================
