------------------------------ MODULE JobTable ------------------------------
(***************************************************************************)
(* What the job list of mysh promises its user, whatever the code does to  *)
(* keep the promise: a background job is listed under a number of its own  *)
(* from the time it is started to the time it ends, the end of every job   *)
(* is announced once and in the order the jobs ended, and numbering starts *)
(* again at 1 whenever no job is left.                                     *)
(*                                                                         *)
(* The promise has exceptions, and the module says which: each is open     *)
(* only to the jobs that the matching mishap has befallen.  The mishaps    *)
(* are not this module's to decide, so no action of it says when they      *)
(* happen; they only ever get more.                                        *)
(***************************************************************************)
EXTENDS Naturals, Sequences, SequencesExt

CONSTANT Jobs

VARIABLES
    up,        \* is the shell there?
    listed,    \* the jobs that ps lists
    number,    \* the number each listed job is known by
    counter,   \* the number of the next job
    finished,  \* the jobs that ended, in order
    told,      \* how many of them the user was told of
    \* mishaps
    unlisted,  \* jobs there was no memory to list
    unheard,   \* jobs whose end cannot be announced
    outdated,  \* jobs whose number was taken before numbering started again
    held       \* jobs whose cell was freed while it was in use

vars == <<up, listed, number, counter, finished, told>>
mishaps == <<unlisted, unheard, outdated, held>>

TypeOK ==
    /\ up \in BOOLEAN
    /\ listed \in SUBSET Jobs
    /\ number \in [Jobs -> Nat]
    /\ counter \in Nat
    /\ finished \in Seq(Jobs)
    /\ told \in 0..Len(finished)

Init ==
    /\ up = TRUE
    /\ listed = {}
    /\ number = [j \in Jobs |-> 0]
    /\ counter = 1
    /\ finished = <<>>
    /\ told = 0

(* A job is listed under the next number.  An outdated number is a higher  *)
(* one, and the counter may not follow it.                                 *)
Start(j) ==
    /\ up
    /\ j \notin listed \cup ToSet(finished)
    /\ listed' = listed \cup {j}
    /\ \/ /\ number' = [number EXCEPT ![j] = counter]
          /\ counter' = counter + 1
       \/ /\ j \in outdated
          /\ number'[j] \in Nat /\ counter <= number'[j]
          /\ number' = [number EXCEPT ![j] = number'[j]]
          /\ counter' \in {counter, number'[j] + 1}
    /\ UNCHANGED <<up, finished, told>>

(* A job cannot be listed; its number is gone. *)
Skip(j) ==
    /\ up
    /\ j \in unlisted'
    /\ counter' \in Nat /\ counter < counter'
    /\ UNCHANGED <<up, listed, number, finished, told>>

End(j) ==
    /\ up
    /\ j \in listed
    /\ listed' = listed \ {j}
    /\ \/ finished' = Append(finished, j)
       \/ j \in unheard' /\ UNCHANGED finished
    /\ counter' = IF listed' = {} THEN 1 ELSE counter
    /\ UNCHANGED <<up, number, told>>

(* The next news are told, and what cannot be announced is dropped. *)
Announce ==
    /\ up
    /\ told < Len(finished)
    /\ told' = told + 1
    /\ \/ UNCHANGED finished
       \/ /\ \A i \in told' + 1 .. Len(finished) : finished[i] \in unheard
          /\ finished' = SubSeq(finished, 1, told')
    /\ UNCHANGED <<up, listed, number, counter>>

(* The user leaves: jobs that still run and news not yet told are dropped. *)
Leave ==
    /\ up
    /\ up' = FALSE
    /\ listed' = {}
    /\ finished' = SubSeq(finished, 1, told)
    /\ UNCHANGED <<number, counter, told>>

Next ==
    \/ \E j \in Jobs : Start(j) \/ Skip(j) \/ End(j)
    \/ Announce
    \/ Leave

MoreMishaps ==
    /\ unlisted \subseteq unlisted' /\ unheard \subseteq unheard'
    /\ outdated \subseteq outdated' /\ held \subseteq held'

(* Memory was freed that is still in use: nothing is promised from then on. *)
Undefined == held # {}

Spec ==
    /\ Init
    /\ [][Next \/ Undefined']_vars
    /\ [][MoreMishaps]_mishaps

(* No two listed jobs have the same number, so that the number in a Done   *)
(* message (commands.c:257) says which job it was.                         *)
NumbersDistinct ==
    \A i, j \in listed :
        number[i] = number[j] => i = j \/ i \in outdated \/ j \in outdated

(* The next job gets a number above those in use (commands.c:70 and 117).  *)
CounterAhead == \A j \in listed \ outdated : number[j] < counter

=============================================================================
