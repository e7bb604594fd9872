----------------------------- MODULE MCAgentSession -----------------------------
(* Small instances of AgentSession: two chats bound to their own tickets   *)
(* and terminal inputs, with a queue of two cells.                         *)
EXTENDS AgentSession

CONSTANTS c1, c2, t1, t2, r1, r2

ChatsAndOutput == {c1, c2, t1, t2}
KindOfInput == [i \in Inputs |-> IF i \in {c1, c2} THEN "chat" ELSE "terminal"]
RouteOfInput == [i \in Inputs |-> CASE i = c1 -> r1 [] i = c2 -> r2 [] OTHER -> NoRoute]
===============================================================================
