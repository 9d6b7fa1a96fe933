------------------------------ MODULE Pipeline ------------------------------
(***************************************************************************)
(* handle_pipeline (commands.c) with two stages or more: the shell makes   *)
(* the pipes, forks one child for every stage, closes its own ends and     *)
(* waits, or lists the last stage as a background job.                     *)
(*                                                                         *)
(* A stage sees the end of its input only when nobody holds the writing    *)
(* end of the pipe any more, and a writer is killed only when nobody holds *)
(* the reading end; every process inherits every end that is open when it  *)
(* is forked.  The model therefore keeps, for every end, who holds it.     *)
(* What flows through the pipes is counted, not spelled out.               *)
(*                                                                         *)
(* The SIGCHLD handler may reap any stage between two steps of the shell.  *)
(***************************************************************************)
EXTENDS Naturals, FiniteSets

CONSTANTS
    N,          \* number of stages
    Items,      \* how much the first stage writes
    Capacity,   \* how much fits into a pipe
    MaxPolls,   \* polls of the foreground wait: 50 in the code
    Habits,     \* what the programs of the stages may be like
    Modes,      \* "fg", "bg": with & at the end
    Faults      \* the system calls that may fail

AllHabits ==
    { "filter",     \* reads to the end of its input, passes everything on
      "brief",      \* ends without reading: an assignment, a failed exec
      "stubborn",   \* a filter that ignores SIGTERM
      "unknown" }   \* there is no such program
AllFaults == {"pipe", "dup", "fork"}

ASSUME SizeAssumption ==
    N \in Nat /\ N > 1 /\ Items \in Nat /\ Capacity \in Nat \ {0} /\ MaxPolls \in Nat
ASSUME ChoiceAssumption ==
    Habits \subseteq AllHabits /\ Modes \subseteq {"fg", "bg"} /\ Faults \subseteq AllFaults

Stage == 1 .. N
Pipe == 1 .. N - 1      \* pipe p leads from stage p to stage p + 1
Shell == 0
Holder == Stage \cup {Shell}

VARIABLES
    \* the command line and the shell's setting
    habit,
    mode,
    disp,       \* what the shell does with SIGCHLD
    \* the shell
    pc,
    at,         \* the loop index i
    polls,      \* waited_ms / 10
    copy,       \* is the copy of the variables allocated?  (parent_vars)
    listed,     \* stages on the job list
    result,     \* what handle_pipeline returned
    \* the kernel
    proc,       \* the state of each stage
    term,       \* stages with a pending SIGTERM
    readers,    \* who holds the reading end of each pipe
    writers,    \* who holds the writing end of each pipe
    buf,        \* how much each pipe contains
    \* the stages
    hand,       \* what a stage has read or made and not yet written
    wrote,      \* how much each stage has written, in all
    cut         \* history: stages that left work undone by themselves or by
                \* order of the shell (not those a broken pipe killed)

lineVars == <<habit, mode, disp>>
shellVars == <<pc, at, polls, copy, listed, result>>
endVars == <<readers, writers>>
flowVars == <<buf, hand, wrote>>
vars == <<lineVars, shellVars, proc, term, endVars, flowVars, cut>>

ShellPoints ==
    { "verify", "pipe", "fork", "close",
      "try", "kill", "block", "list", "free", "returned" }
ProcStates == {"unborn", "setup", "running", "zombie", "reaped"}

TypeOK ==
    /\ habit \in [Stage -> AllHabits]
    /\ mode \in {"fg", "bg"}
    /\ disp \in {"handler", "ignore"}
    /\ pc \in ShellPoints
    /\ at \in Stage
    /\ polls \in 0 .. MaxPolls
    /\ copy \in BOOLEAN
    /\ listed \in SUBSET Stage
    /\ result \in {"none", "ok", "refused", "nopipe", "nofork"}
    /\ proc \in [Stage -> ProcStates]
    /\ term \in SUBSET Stage
    /\ readers \in [Pipe -> SUBSET Holder]
    /\ writers \in [Pipe -> SUBSET Holder]
    /\ buf \in [Pipe -> 0 .. Capacity]
    /\ hand \in [Stage -> Nat]
    /\ wrote \in [Stage -> Nat]
    /\ cut \in SUBSET Stage

Init ==
    /\ habit \in [Stage -> Habits]
    /\ mode \in Modes
    /\ disp \in {"handler", "ignore"}
    /\ pc = "verify"
    /\ at = 1
    /\ polls = 0
    /\ copy = FALSE
    /\ listed = {}
    /\ result = "none"
    /\ proc = [s \in Stage |-> "unborn"]
    /\ term = {}
    /\ readers = [p \in Pipe |-> {}]
    /\ writers = [p \in Pipe |-> {}]
    /\ buf = [p \in Pipe |-> 0]
    /\ hand = [s \in Stage |-> IF s = 1 THEN Items ELSE 0]
    /\ wrote = [s \in Stage |-> 0]
    /\ cut = {}

Alive(s) == proc[s] \in {"setup", "running"}
Ended(s) == proc[s] \in {"zombie", "reaped"}

-----------------------------------------------------------------------------
(* The shell's part, up to the fork of the last stage.                     *)

Return(r) ==
    /\ pc' = "returned"
    /\ result' = r

(* Every command must be known before anything is started. *)
Verify ==
    /\ pc = "verify"
    /\ \/ /\ \E s \in Stage : habit[s] = "unknown"
          /\ Return("refused")
       \/ /\ \A s \in Stage : habit[s] # "unknown"
          /\ pc' = "pipe"
          /\ UNCHANGED result
    /\ UNCHANGED <<lineVars, at, polls, copy, listed, proc, term, endVars, flowVars, cut>>

(* safe_close by the shell of both ends of the pipes in P. *)
CloseOwn(P) ==
    /\ readers' = [p \in Pipe |-> IF p \in P THEN readers[p] \ {Shell} ELSE readers[p]]
    /\ writers' = [p \in Pipe |-> IF p \in P THEN writers[p] \ {Shell} ELSE writers[p]]

MakePipe ==
    /\ pc = "pipe"
    /\ at < N
    /\ readers' = [readers EXCEPT ![at] = {Shell}]
    /\ writers' = [writers EXCEPT ![at] = {Shell}]
    /\ at' = at + 1
    /\ UNCHANGED <<lineVars, pc, polls, copy, listed, result, proc, term, flowVars, cut>>

(* pipe failed: those made before are closed again. *)
NoPipe ==
    /\ "pipe" \in Faults
    /\ pc = "pipe"
    /\ at < N
    /\ CloseOwn({p \in Pipe : p < at})
    /\ Return("nopipe")
    /\ UNCHANGED <<lineVars, at, polls, copy, listed, proc, term, flowVars, cut>>

CopyVariables ==
    /\ pc = "pipe"
    /\ at = N
    /\ copy' \in BOOLEAN    \* NULL without variables, or without memory
    /\ pc' = "fork"
    /\ at' = 1
    /\ UNCHANGED <<lineVars, polls, listed, result, proc, term, endVars, flowVars, cut>>

(* The child inherits every end that is open in the shell. *)
Inherit(s, holders) ==
    [p \in Pipe |-> IF Shell \in holders[p] THEN holders[p] \cup {s} ELSE holders[p]]

Fork_ClosesEarly ==
    /\ pc = "fork"
    /\ proc' = [proc EXCEPT ![at] = "setup"]
    /\ readers' = [p \in Pipe |-> Inherit(at, readers)[p] \ {h \in {Shell} : p = at}]
    /\ writers' = [p \in Pipe |-> Inherit(at, writers)[p] \ {h \in {Shell} : p = at}]
    /\ IF at = N THEN pc' = "close" /\ at' = 1
                 ELSE at' = at + 1 /\ UNCHANGED pc
    /\ UNCHANGED <<lineVars, polls, copy, listed, result, term, flowVars, cut>>

Fork ==
    /\ pc = "fork"
    /\ proc' = [proc EXCEPT ![at] = "setup"]
    /\ readers' = Inherit(at, readers)
    /\ writers' = Inherit(at, writers)
    /\ IF at = N THEN pc' = "close" /\ at' = 1
                 ELSE at' = at + 1 /\ UNCHANGED pc
    /\ UNCHANGED <<lineVars, polls, copy, listed, result, term, flowVars, cut>>

NoFork_SignalsNobody ==
    /\ "fork" \in Faults
    /\ pc = "fork"
    /\ CloseOwn(Pipe)
    /\ Return("nofork")
    /\ UNCHANGED <<lineVars, at, polls, copy, listed, proc, term, flowVars, cut>>

(* fork failed: the pipes are closed, the stages already there signalled,  *)
(* nobody is waited for, and the copy of the variables is not freed.       *)
NoFork ==
    /\ "fork" \in Faults
    /\ pc = "fork"
    /\ CloseOwn(Pipe)
    /\ term' = term \cup {s \in Stage : s < at /\ Alive(s)}
    /\ Return("nofork")
    /\ UNCHANGED <<lineVars, at, polls, copy, listed, proc, flowVars, cut>>

CloseEnds_ReadersOnly ==
    /\ pc = "close"
    /\ readers' = [p \in Pipe |-> readers[p] \ {Shell}]
    /\ pc' = IF mode = "fg" THEN "try" ELSE "list"
    /\ UNCHANGED <<lineVars, at, polls, copy, listed, result, proc, term, writers,
                   flowVars, cut>>

CloseEnds ==
    /\ pc = "close"
    /\ CloseOwn(Pipe)
    /\ pc' = IF mode = "fg" THEN "try" ELSE "list"
    /\ UNCHANGED <<lineVars, at, polls, copy, listed, result, proc, term, flowVars, cut>>

-----------------------------------------------------------------------------
(* The foreground wait: each stage in turn is tried at once and then after *)
(* each of MaxPolls sleeps (which a SIGCHLD cuts short), then signalled    *)
(* and waited for without limit.  waitpid answers 0 for a live child, its  *)
(* number for a zombie, and -1 for one the handler has reaped.             *)

NextStage ==
    /\ polls' = 0
    /\ IF at = N THEN pc' = "free" /\ UNCHANGED at
                 ELSE pc' = "try" /\ at' = at + 1

Reap(s) == proc' = [proc EXCEPT ![s] = "reaped"]

TryWait ==
    /\ pc = "try"
    /\ \/ /\ Alive(at) /\ polls < MaxPolls
          /\ polls' = polls + 1
          /\ UNCHANGED <<pc, at, proc>>
       \/ /\ Alive(at) /\ polls = MaxPolls
          /\ pc' = "kill"
          /\ UNCHANGED <<at, polls, proc>>
       \/ Ended(at) /\ Reap(at) /\ NextStage
    /\ UNCHANGED <<lineVars, copy, listed, result, term, endVars, flowVars, cut>>

Kill_WaitsOnly ==
    /\ pc = "kill"
    /\ pc' = "block"
    /\ UNCHANGED <<lineVars, at, polls, copy, listed, result, proc, term, endVars,
                   flowVars, cut>>

(* The stage may have ended, and been reaped, since it was tried. *)
Kill ==
    /\ pc = "kill"
    /\ term' = term \cup {s \in {at} : Alive(s)}
    /\ pc' = "block"
    /\ UNCHANGED <<lineVars, at, polls, copy, listed, result, proc, endVars, flowVars, cut>>

Block ==
    /\ pc = "block"
    /\ Ended(at)
    /\ Reap(at)
    /\ NextStage
    /\ UNCHANGED <<lineVars, copy, listed, result, term, endVars, flowVars, cut>>

-----------------------------------------------------------------------------
(* Background: add_bg_process for the last stage, which may have been      *)
(* reaped before.  Either way the copy of the variables is freed.          *)

ListLast_ListsFirst ==
    /\ pc = "list"
    /\ listed' = {1}
    /\ pc' = "free"
    /\ UNCHANGED <<lineVars, at, polls, copy, result, proc, term, endVars, flowVars, cut>>

ListLast ==
    /\ pc = "list"
    /\ listed' = {N}
    /\ pc' = "free"
    /\ UNCHANGED <<lineVars, at, polls, copy, result, proc, term, endVars, flowVars, cut>>

FreeCopy ==
    /\ pc = "free"
    /\ copy' = FALSE
    /\ Return("ok")
    /\ UNCHANGED <<lineVars, at, polls, listed, proc, term, endVars, flowVars, cut>>

ShellStep ==
    \/ Verify \/ MakePipe \/ NoPipe \/ CopyVariables \/ Fork \/ NoFork \/ CloseEnds
    \/ TryWait \/ Kill \/ Block \/ ListLast \/ FreeCopy

(* The SIGCHLD handler reaps a zombie, and takes it off the job list with  *)
(* a Done message if it is there.  (JobControl has the handler in full.)   *)
HandlerReap(s) ==
    /\ disp = "handler"
    /\ proc[s] = "zombie"
    /\ Reap(s)
    /\ listed' = listed \ {s}
    /\ UNCHANGED <<lineVars, pc, at, polls, copy, result, term, endVars, flowVars, cut>>

-----------------------------------------------------------------------------
(* The children.                                                           *)

(* A process ends: its ends are closed, what it had in hand is lost, and   *)
(* nothing is left of it if the shell ignores SIGCHLD.                     *)
Exit(s) ==
    /\ proc' = [proc EXCEPT ![s] = IF disp = "handler" THEN "zombie" ELSE "reaped"]
    /\ readers' = [p \in Pipe |-> readers[p] \ {s}]
    /\ writers' = [p \in Pipe |-> writers[p] \ {s}]
    /\ term' = term \ {s}

(* Standard input and output are redirected; both ends of every pipe are   *)
(* closed.  What is left is one reading and one writing end.               *)
KeepInput(s, p) == p = s - 1
KeepOutput_LeavesOpen(s, p) == TRUE

KeepOutput(s, p) == p = s

HasEnds(s) == /\ s > 1 => s \in readers[s - 1]
              /\ s < N => s \in writers[s]

SetUp(s) ==
    /\ proc[s] = "setup"
    /\ HasEnds(s)
    /\ proc' = [proc EXCEPT ![s] = "running"]
    /\ readers' = [p \in Pipe |-> IF KeepInput(s, p) THEN readers[p] ELSE readers[p] \ {s}]
    /\ writers' = [p \in Pipe |-> IF KeepOutput(s, p) THEN writers[p] ELSE writers[p] \ {s}]
    /\ UNCHANGED <<lineVars, shellVars, term, flowVars, cut>>

(* dup2 fails: exit(EXIT_FAILURE). *)
SetUpFails(s) ==
    /\ proc[s] = "setup"
    /\ \/ ~HasEnds(s) /\ UNCHANGED cut
       \/ "dup" \in Faults /\ cut' = cut \cup {s}
    /\ Exit(s)
    /\ UNCHANGED <<lineVars, shellVars, flowVars>>

(* The program of a stage. *)
Filters(s) == proc[s] = "running" /\ habit[s] # "brief"

Read(s) ==
    /\ Filters(s)
    /\ s > 1
    /\ hand[s] = 0
    /\ buf[s - 1] > 0
    /\ buf' = [buf EXCEPT ![s - 1] = @ - 1]
    /\ hand' = [hand EXCEPT ![s] = 1]
    /\ UNCHANGED <<lineVars, shellVars, proc, term, endVars, wrote, cut>>

Write(s) ==
    /\ Filters(s)
    /\ hand[s] > 0
    /\ hand' = [hand EXCEPT ![s] = @ - 1]
    /\ wrote' = [wrote EXCEPT ![s] = @ + 1]
    /\ \/ s = N /\ UNCHANGED buf
       \/ /\ s < N /\ readers[s] # {} /\ buf[s] < Capacity
          /\ buf' = [buf EXCEPT ![s] = @ + 1]
    /\ UNCHANGED <<lineVars, shellVars, proc, term, endVars, cut>>

(* SIGPIPE: nobody can read what is written. *)
BrokenPipe(s) ==
    /\ Filters(s)
    /\ hand[s] > 0
    /\ s < N /\ readers[s] = {}
    /\ Exit(s)
    /\ UNCHANGED <<lineVars, shellVars, flowVars, cut>>

(* The end of the input is reached when the pipe is empty and nobody can   *)
(* write to it any more.                                                   *)
Finish(s) ==
    /\ Filters(s)
    /\ hand[s] = 0
    /\ s > 1 => buf[s - 1] = 0 /\ writers[s - 1] = {}
    /\ Exit(s)
    /\ UNCHANGED <<lineVars, shellVars, flowVars, cut>>

EndBrief(s) ==
    /\ proc[s] = "running"
    /\ habit[s] = "brief"
    /\ Exit(s)
    /\ cut' = cut \cup {s}
    /\ UNCHANGED <<lineVars, shellVars, flowVars>>

(* SIGTERM ends a stage, unless its program has been told to ignore it. *)
Terminate(s) ==
    /\ s \in term
    /\ Alive(s)
    /\ ~(proc[s] = "running" /\ habit[s] = "stubborn")
    /\ Exit(s)
    /\ cut' = cut \cup {s}
    /\ UNCHANGED <<lineVars, shellVars, flowVars>>

StageStep(s) ==
    \/ SetUp(s) \/ SetUpFails(s) \/ Read(s) \/ Write(s)
    \/ BrokenPipe(s) \/ Finish(s) \/ EndBrief(s)

(* Everything is over: explicit stuttering. *)
Over ==
    /\ pc = "returned"
    /\ \A s \in Stage : proc[s] \in {"unborn", "reaped"}
    /\ UNCHANGED vars

Next ==
    \/ ShellStep
    \/ \E s \in Stage : HandlerReap(s) \/ StageStep(s) \/ Terminate(s)
    \/ Over

(* The shell and its handler run, and signals arrive.  The programs of the *)
(* stages owe nothing.                                                     *)
Spec ==
    /\ Init /\ [][Next]_vars
    /\ WF_vars(ShellStep)
    /\ \A s \in Stage : WF_vars(HandlerReap(s)) /\ WF_vars(Terminate(s))

-----------------------------------------------------------------------------
(* Properties.                                                             *)

(* What the first stage writes comes out at the last one, all of it, unless *)
(* a stage was cut short: no stage takes the end of its input for reached, *)
(* or is killed by a broken pipe, because of how the ends are handed out   *)
(* and closed while the others are still being started.                    *)
EverythingArrives ==
    (\A s \in Stage : Ended(s)) /\ cut = {} => wrote[N] = Items

(* However forks, failures and exits interleave, a stage that lives has    *)
(* the ends it reads and writes, and it has other ones only until its      *)
(* program runs; a stage that is gone has none.                            *)
EndsHandedOut ==
    \A s \in Stage :
        /\ Alive(s) => HasEnds(s)
        /\ \A p \in Pipe :
            /\ s \in readers[p] => proc[s] = "setup" \/ (proc[s] = "running" /\ p = s - 1)
            /\ s \in writers[p] => proc[s] = "setup" \/ (proc[s] = "running" /\ p = s)

(* Whatever fails, the shell is left with no end of a pipe, and except     *)
(* when fork failed with no copy of its variables.                         *)
NothingHeld ==
    pc = "returned" =>
        /\ \A p \in Pipe : Shell \notin readers[p] \cup writers[p]
        /\ result # "nofork" => ~copy

(* When the prompt comes back after a foreground pipeline no stage of it   *)
(* is left, not even as a zombie; when fork failed every stage left has    *)
(* been told to end; when a command is unknown none was started.           *)
NobodyLeftBehind ==
    pc = "returned" =>
        \/ result = "ok" /\ (mode = "fg" => \A s \in Stage : proc[s] = "reaped")
        \/ result = "nofork" /\ \A s \in Stage : Alive(s) => s \in term
        \/ result \in {"refused", "nopipe"} /\ \A s \in Stage : proc[s] = "unborn"

(* Of a background pipeline only the last stage is on the job list.  That  *)
(* is enough: when it has left the list and no stage was cut short, all    *)
(* the others have ended too and everything has been written.              *)
DoneMeansDone ==
    pc = "returned" /\ result = "ok" /\ mode = "bg" /\ listed = {} /\ cut = {} =>
        wrote[N] = Items /\ \A s \in Stage : Ended(s)

(* The prompt comes back, even if the programs of the stages do nothing at *)
(* all, unless one of them ignores SIGTERM.                                *)
PromptComesBack ==
    (\A s \in Stage : habit[s] # "stubborn") => <>(pc = "returned")

StagesRun == \A s \in Stage : WF_vars(StageStep(s))

(* If the programs run, every stage that was started comes to its end:     *)
(* none waits for input nobody will send or for room nobody will make.     *)
PipelineDrains ==
    StagesRun => <>[](pc = "returned" /\ \A s \in Stage : ~Alive(s))

=============================================================================
