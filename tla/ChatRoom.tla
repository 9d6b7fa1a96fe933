------------------------------ MODULE ChatRoom ------------------------------
(***************************************************************************)
(* What the chat server promises its users, whatever slots, sockets and    *)
(* loops it takes to keep the promise: there is one conversation.  A       *)
(* member hears all of it from the moment it joins, in one order, under    *)
(* names given out in turn; a line is only taken up when everybody who is  *)
(* still there has heard the one before; an answer to "\connected" is the  *)
(* number of members; and only those who left or do not listen are removed.*)
(* Somebody who does not listen may instead hear the beginning of a line   *)
(* and never the rest.                                                     *)
(*                                                                         *)
(* ChatServer is shown to implement it.                                    *)
(***************************************************************************)
EXTENDS Naturals, Sequences, FiniteSets

CONSTANTS
    People,
    Slow        \* those who may stop listening for too long

VARIABLES
    left,       \* those who came and left
    members,    \* those the server counts
    name,       \* the number each member was given, 0 before
    last,       \* the last number given
    said,       \* the conversation
    heard,      \* up to where each member has heard it
    partly      \* the lines of which each heard only the beginning

vars == <<left, members, name, last, said, heard, partly>>

Line == [from : People, name : Nat, question : BOOLEAN, count : Nat]

TypeOK ==
    /\ left \in SUBSET People
    /\ members \in SUBSET People
    /\ name \in [People -> Nat]
    /\ last \in Nat
    /\ said \in Seq(Line)
    /\ heard \in [People -> Nat]
    /\ partly \in [People -> SUBSET Nat]

Init ==
    /\ left = {}
    /\ members = {}
    /\ name = [p \in People |-> 0]
    /\ last = 0
    /\ said = <<>>
    /\ heard = [p \in People |-> 0]
    /\ partly = [p \in People |-> {}]

Join(p) ==
    /\ p \notin members
    /\ name[p] = 0
    /\ members' = members \cup {p}
    /\ last' = last + 1
    /\ name' = [name EXCEPT ![p] = last + 1]
    /\ heard' = [heard EXCEPT ![p] = Len(said)]
    /\ UNCHANGED <<left, said, partly>>

(* Somebody's line is taken up; it may have left since it wrote it. *)
Say(p) ==
    /\ p \in members
    /\ \A q \in members \ left : heard[q] = Len(said)
    /\ \E asks \in BOOLEAN :
          said' = Append(said, [from |-> p, name |-> name[p], question |-> asks,
                                count |-> IF asks THEN Cardinality(members) ELSE 0])
    /\ UNCHANGED <<left, members, name, last, heard, partly>>

Hear(p) ==
    /\ p \in members \ left
    /\ heard[p] < Len(said)
    /\ heard' = [heard EXCEPT ![p] = @ + 1]
    /\ \/ UNCHANGED partly
       \/ p \in Slow /\ partly' = [partly EXCEPT ![p] = @ \cup {heard'[p]}]
    /\ UNCHANGED <<left, members, name, last, said>>

Leave(p) ==
    /\ p \notin left
    /\ left' = left \cup {p}
    /\ UNCHANGED <<members, name, last, said, heard, partly>>

Remove(gone) ==
    /\ gone \subseteq left \cup Slow
    /\ members' = members \ gone
    /\ UNCHANGED <<left, name, last, said, heard, partly>>

Next ==
    \/ \E p \in People : Join(p) \/ Say(p) \/ Hear(p) \/ Leave(p)
    \/ \E gone \in SUBSET members : Remove(gone)

Spec == Init /\ [][Next]_vars

=============================================================================
