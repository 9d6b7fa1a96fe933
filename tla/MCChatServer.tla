---------------------------- MODULE MCChatServer ----------------------------
(* Instances of ChatServer for TLC. *)
EXTENDS ChatServer

CONSTANTS OneLine, TwoLines   \* the connections whose user writes that much

Lines == [c \in Conns |-> IF c \in TwoLines THEN 2 ELSE IF c \in OneLine THEN 1 ELSE 0]

(* A conversation without end in finitely many states: before the server   *)
(* looks for new work, what everybody has been shown is struck from the    *)
(* history variables, which no action looks at but for the bound on the    *)
(* lines a user writes.  MaxLines then only bounds the lines under way.    *)
Forgetting == pc = "select" /\ log # <<>>

Forget ==
    /\ Forgetting
    /\ log' = <<>>
    /\ sent' = [c \in Conns |-> TextsOf(inbox[c])]
    /\ joined' = [c \in Conns |-> 0]
    /\ seen' = [c \in Conns |-> <<>>]
    /\ cut' = [c \in Conns |-> {}]
    /\ UNCHANGED <<netVars, slotVars, loopVars, id, dropped>>

Endless == Init /\ [][Forget \/ (~Forgetting /\ Next)]_vars /\ Fairness

=============================================================================
