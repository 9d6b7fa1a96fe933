--------------------------- MODULE PipelineProofs ---------------------------
(***************************************************************************)
(* Theorems about Pipeline, for any number of stages and any behaviour of  *)
(* their programs: types, who holds which end of a pipe, what the shell    *)
(* keeps, and which stages are left when the prompt comes back.            *)
(***************************************************************************)
EXTENDS Pipeline, TLAPS

(* The shell holds both ends of the pipes it has made until it closes all. *)
ShellHolds ==
    \A p \in Pipe :
        /\ pc = "pipe" => (Shell \in readers[p] <=> p < at) /\ (Shell \in writers[p] <=> p < at)
        /\ pc \in {"fork", "close"} => Shell \in readers[p] /\ Shell \in writers[p]
        /\ pc \notin {"pipe", "fork", "close"} =>
               Shell \notin readers[p] /\ Shell \notin writers[p]

(* EndsHandedOut in two parts. *)
HaveEnds == \A s \in Stage : Alive(s) => HasEnds(s)
OnlyOwnEnds ==
    \A s \in Stage, p \in Pipe :
        /\ s \in readers[p] => proc[s] = "setup" \/ (proc[s] = "running" /\ p = s - 1)
        /\ s \in writers[p] => proc[s] = "setup" \/ (proc[s] = "running" /\ p = s)

(* The copy of the variables exists between its making and its release. *)
CopyKept ==
    /\ pc \in {"verify", "pipe"} => ~copy
    /\ pc = "returned" /\ result # "nofork" => ~copy

(* Which stages there are at each point of handle_pipeline. *)
Started ==
    /\ pc \in {"verify", "close"} => at = 1
    /\ pc \in {"verify", "pipe"} => \A s \in Stage : proc[s] = "unborn"
    /\ pc = "fork" => \A s \in Stage : proc[s] = "unborn" <=> s >= at
    /\ pc \in {"close", "try", "kill", "block", "list", "free"} \/ result = "ok" =>
           \A s \in Stage : proc[s] # "unborn"
    /\ result # "none" => pc = "returned"
    /\ result = "nofork" => proc[N] = "unborn"
Waited ==
    /\ pc \in {"try", "kill", "block"} =>
           mode = "fg" /\ \A s \in Stage : s < at => proc[s] = "reaped"
    /\ pc = "list" => mode = "bg"
    /\ pc = "free" /\ mode = "fg" => \A s \in Stage : proc[s] = "reaped"

(* What a stage has taken in and not written is in its hand. *)
Conserved ==
    /\ wrote[1] + hand[1] = Items
    /\ \A p \in Pipe : wrote[p] = wrote[p + 1] + hand[p + 1] + buf[p]

(* Unless somebody was cut short, stages end one after the other, each     *)
(* having written everything.                                              *)
InOrder ==
    cut = {} /\ result # "nofork" =>
        \A s \in Stage : Ended(s) =>
            wrote[s] = Items /\ \A t \in Stage : t < s => Ended(t)

(* Only the last stage is ever on the job list, until it has ended. *)
OnList ==
    /\ listed \subseteq {N}
    /\ mode = "bg" /\ (pc = "free" \/ result = "ok") /\ listed = {} => Ended(N)

Inv ==
    /\ TypeOK
    /\ ShellHolds /\ HaveEnds /\ OnlyOwnEnds
    /\ CopyKept /\ Started /\ Waited /\ NobodyLeftBehind

-----------------------------------------------------------------------------
LEMMA Numbers ==
    /\ N \in Nat /\ N > 1 /\ Items \in Nat /\ Capacity \in Nat \ {0} /\ MaxPolls \in Nat
    /\ Shell \notin Stage
    /\ Stage \subseteq Nat /\ Pipe \subseteq Stage
    /\ 1 \in Stage /\ N \in Stage
BY SizeAssumption DEF Stage, Pipe, Shell

LEMMA Initially == Init => Inv
<1> SUFFICES ASSUME Init PROVE Inv
    OBVIOUS
<1> USE Numbers
<1>1. TypeOK
    <2>1. /\ habit \in [Stage -> AllHabits] /\ mode \in {"fg", "bg"}
        BY ChoiceAssumption DEF Init
    <2>2. copy \in BOOLEAN /\ ~copy
        BY Zenon DEF Init
    <2>3. hand \in [Stage -> Nat] /\ wrote \in [Stage -> Nat] /\ buf \in [Pipe -> 0 .. Capacity]
        BY DEF Init
    <2>4. /\ readers \in [Pipe -> SUBSET Holder] /\ writers \in [Pipe -> SUBSET Holder]
          /\ proc \in [Stage -> ProcStates] /\ polls \in 0 .. MaxPolls /\ at \in Stage
        BY DEF Init, ProcStates
    <2> QED
        BY <2>1, <2>2, <2>3, <2>4 DEF Init, TypeOK, ShellPoints
<1>2. CopyKept
    BY Zenon DEF Init, CopyKept
<1>3. ShellHolds /\ HaveEnds /\ OnlyOwnEnds /\ Started /\ Waited /\ NobodyLeftBehind
    BY DEF Init, ShellHolds, HaveEnds, OnlyOwnEnds, Started, Waited, NobodyLeftBehind, Alive
<1> QED
    BY <1>1, <1>2, <1>3 DEF Inv

-----------------------------------------------------------------------------
(* Types.                                                                  *)

LEMMA ExitTypes ==
    ASSUME TypeOK, NEW s \in Stage, Exit(s)
    PROVE  /\ proc' \in [Stage -> ProcStates]
           /\ readers' \in [Pipe -> SUBSET Holder] /\ writers' \in [Pipe -> SUBSET Holder]
           /\ term' \in SUBSET Stage
BY DEF Exit, TypeOK, ProcStates

LEMMA CloseOwnTypes ==
    ASSUME TypeOK, NEW P, CloseOwn(P)
    PROVE  readers' \in [Pipe -> SUBSET Holder] /\ writers' \in [Pipe -> SUBSET Holder]
BY DEF CloseOwn, TypeOK

LEMMA NextStageTypes ==
    ASSUME TypeOK, NextStage
    PROVE  pc' \in ShellPoints /\ at' \in Stage /\ polls' \in 0 .. MaxPolls
BY Numbers DEF NextStage, TypeOK, ShellPoints, Stage

LEMMA ShellStepTypes == TypeOK /\ ShellStep => TypeOK'
<1> SUFFICES ASSUME TypeOK, ShellStep PROVE TypeOK'
    OBVIOUS
<1> USE Numbers
<1>1. ASSUME Verify PROVE TypeOK'
    BY <1>1 DEF Verify, Return, TypeOK, ShellPoints, lineVars, endVars, flowVars
<1>2. ASSUME MakePipe PROVE TypeOK'
    <2>1. /\ readers' \in [Pipe -> SUBSET Holder] /\ writers' \in [Pipe -> SUBSET Holder]
          /\ at' \in Stage
        BY <1>2 DEF MakePipe, TypeOK, Holder, Pipe, Stage
    <2> QED
        BY <1>2, <2>1 DEF MakePipe, TypeOK, lineVars, flowVars
<1>3. ASSUME NoPipe PROVE TypeOK'
    BY <1>3, CloseOwnTypes DEF NoPipe, Return, TypeOK, ShellPoints, lineVars, flowVars
<1>4. ASSUME CopyVariables PROVE TypeOK'
    BY <1>4 DEF CopyVariables, TypeOK, ShellPoints, lineVars, endVars, flowVars
<1>5. ASSUME Fork PROVE TypeOK'
    <2>1. readers' \in [Pipe -> SUBSET Holder] /\ writers' \in [Pipe -> SUBSET Holder]
        BY <1>5 DEF Fork, Inherit, TypeOK, Holder
    <2>2. /\ proc' \in [Stage -> ProcStates] /\ at' \in Stage /\ pc' \in ShellPoints
        BY <1>5 DEF Fork, TypeOK, ProcStates, ShellPoints, Stage
    <2> QED
        BY <1>5, <2>1, <2>2 DEF Fork, TypeOK, lineVars, flowVars
<1>6. ASSUME NoFork PROVE TypeOK'
    BY <1>6, CloseOwnTypes DEF NoFork, Return, TypeOK, ShellPoints, lineVars, flowVars
<1>7. ASSUME CloseEnds PROVE TypeOK'
    BY <1>7, CloseOwnTypes DEF CloseEnds, TypeOK, ShellPoints, lineVars, flowVars
<1>8. ASSUME TryWait PROVE TypeOK'
    <2>1. /\ pc' \in ShellPoints /\ at' \in Stage /\ polls' \in 0 .. MaxPolls
        BY <1>8, NextStageTypes DEF TryWait, TypeOK, ShellPoints
    <2>2. proc' \in [Stage -> ProcStates]
        BY <1>8 DEF TryWait, Reap, TypeOK, ProcStates
    <2> QED
        BY <1>8, <2>1, <2>2 DEF TryWait, TypeOK, lineVars, endVars, flowVars
<1>9. ASSUME Kill PROVE TypeOK'
    BY <1>9 DEF Kill, TypeOK, ShellPoints, lineVars, endVars, flowVars
<1>10. ASSUME Block PROVE TypeOK'
    <2>1. proc' \in [Stage -> ProcStates]
        BY <1>10 DEF Block, Reap, TypeOK, ProcStates
    <2> QED
        BY <1>10, <2>1, NextStageTypes DEF Block, TypeOK, lineVars, endVars, flowVars
<1>11. ASSUME ListLast PROVE TypeOK'
    BY <1>11 DEF ListLast, TypeOK, ShellPoints, lineVars, endVars, flowVars
<1>12. ASSUME FreeCopy PROVE TypeOK'
    BY <1>12 DEF FreeCopy, Return, TypeOK, ShellPoints, lineVars, endVars, flowVars
<1> QED
    BY <1>1, <1>2, <1>3, <1>4, <1>5, <1>6, <1>7, <1>8, <1>9, <1>10, <1>11, <1>12
    DEF ShellStep

LEMMA StageTypes ==
    ASSUME TypeOK, NEW s \in Stage, HandlerReap(s) \/ StageStep(s) \/ Terminate(s)
    PROVE  TypeOK'
<1> USE Numbers
<1>1. ASSUME HandlerReap(s) PROVE TypeOK'
    <2>1. proc' \in [Stage -> ProcStates] /\ listed' \in SUBSET Stage
        BY <1>1 DEF HandlerReap, Reap, TypeOK, ProcStates
    <2> QED
        BY <1>1, <2>1 DEF HandlerReap, TypeOK, lineVars, endVars, flowVars
<1>2. ASSUME SetUp(s) PROVE TypeOK'
    <2>1. /\ proc' \in [Stage -> ProcStates]
          /\ readers' \in [Pipe -> SUBSET Holder] /\ writers' \in [Pipe -> SUBSET Holder]
        BY <1>2 DEF SetUp, TypeOK, ProcStates
    <2> QED
        BY <1>2, <2>1 DEF SetUp, TypeOK, lineVars, shellVars, flowVars
<1>3. ASSUME SetUpFails(s) PROVE TypeOK'
    BY <1>3, ExitTypes DEF SetUpFails, TypeOK, lineVars, shellVars, flowVars
<1>4. ASSUME Read(s) PROVE TypeOK'
    <2>1. s - 1 \in Pipe
        BY <1>4 DEF Read, Stage, Pipe
    <2>2. buf' \in [Pipe -> 0 .. Capacity] /\ hand' \in [Stage -> Nat]
        BY <1>4, <2>1 DEF Read, TypeOK
    <2> QED
        BY <1>4, <2>2 DEF Read, TypeOK, lineVars, shellVars, endVars
<1>5. ASSUME Write(s) PROVE TypeOK'
    <2>1. hand' \in [Stage -> Nat] /\ wrote' \in [Stage -> Nat]
        BY <1>5 DEF Write, TypeOK
    <2>2. buf' \in [Pipe -> 0 .. Capacity]
        <3>1. CASE UNCHANGED buf
            BY <3>1 DEF TypeOK
        <3>2. CASE s < N /\ buf[s] < Capacity /\ buf' = [buf EXCEPT ![s] = @ + 1]
            <4>1. s \in Pipe
                BY <3>2 DEF Stage, Pipe
            <4>2. buf[s] + 1 \in 0 .. Capacity
                BY <3>2, <4>1 DEF TypeOK
            <4> QED
                BY <3>2, <4>2 DEF TypeOK
        <3> QED
            BY <1>5, <3>1, <3>2 DEF Write
    <2> QED
        BY <1>5, <2>1, <2>2 DEF Write, TypeOK, lineVars, shellVars, endVars
<1>6. ASSUME BrokenPipe(s) PROVE TypeOK'
    BY <1>6, ExitTypes DEF BrokenPipe, TypeOK, lineVars, shellVars, flowVars
<1>7. ASSUME Finish(s) PROVE TypeOK'
    BY <1>7, ExitTypes DEF Finish, TypeOK, lineVars, shellVars, flowVars
<1>8. ASSUME EndBrief(s) PROVE TypeOK'
    BY <1>8, ExitTypes DEF EndBrief, TypeOK, lineVars, shellVars, flowVars
<1>9. ASSUME Terminate(s) PROVE TypeOK'
    BY <1>9, ExitTypes DEF Terminate, TypeOK, lineVars, shellVars, flowVars
<1> QED
    BY <1>1, <1>2, <1>3, <1>4, <1>5, <1>6, <1>7, <1>8, <1>9 DEF StageStep

-----------------------------------------------------------------------------
(* The ends of the pipes.                                                  *)

(* A step that leaves the pipes alone, and only moves dead stages. *)
LEMMA EndsUntouched ==
    ASSUME HaveEnds, OnlyOwnEnds, UNCHANGED endVars,
           \A s \in Stage : proc'[s] = proc[s] \/ (Ended(s) /\ proc'[s] = "reaped")
    PROVE  HaveEnds' /\ OnlyOwnEnds'
BY DEF HaveEnds, OnlyOwnEnds, HasEnds, Alive, Ended, endVars

LEMMA Reaps ==
    ASSUME TypeOK, NEW s \in Stage, Ended(s), Reap(s)
    PROVE  \A t \in Stage : proc'[t] = proc[t] \/ (Ended(t) /\ proc'[t] = "reaped")
BY DEF Reap, TypeOK

(* Closing the shell's own ends changes nothing for the stages. *)
LEMMA ClosesOwnOnly ==
    ASSUME HaveEnds, OnlyOwnEnds, NEW P, CloseOwn(P), UNCHANGED proc
    PROVE  HaveEnds' /\ OnlyOwnEnds'
<1>1. \A s \in Stage, p \in Pipe :
          (s \in readers[p] <=> s \in readers'[p]) /\ (s \in writers[p] <=> s \in writers'[p])
    BY Numbers DEF CloseOwn
<1>2. \A s \in Stage : (s > 1 => s - 1 \in Pipe) /\ (s < N => s \in Pipe)
    BY Numbers DEF Stage, Pipe
<1> QED
    BY <1>1, <1>2 DEF HaveEnds, OnlyOwnEnds, HasEnds, Alive

LEMMA ShellStepEnds == Inv /\ ShellStep => ShellHolds' /\ HaveEnds' /\ OnlyOwnEnds'
<1> SUFFICES ASSUME Inv, ShellStep PROVE ShellHolds' /\ HaveEnds' /\ OnlyOwnEnds'
    OBVIOUS
<1> USE Numbers DEF Inv
<1>1. CASE Verify
    <2>1. ShellHolds'
        BY <1>1 DEF Verify, Return, Started, ShellHolds, endVars, Pipe
    <2> QED
        BY <1>1, <2>1, EndsUntouched DEF Verify
<1>2. CASE MakePipe
    <2>1. at \in Pipe /\ at' = at + 1 /\ pc = "pipe" /\ pc' = "pipe"
        BY <1>2 DEF MakePipe, TypeOK, Stage, Pipe
    <2>2. /\ \A p \in Pipe : p # at => readers'[p] = readers[p] /\ writers'[p] = writers[p]
          /\ readers'[at] = {Shell} /\ writers'[at] = {Shell}
        BY <1>2, <2>1 DEF MakePipe, TypeOK
    <2>3. ShellHolds'
        BY <2>1, <2>2 DEF ShellHolds, Pipe, Stage
    <2>4. \A s \in Stage : proc'[s] = "unborn"
        BY <1>2 DEF MakePipe, Started
    <2>5. HaveEnds'
        BY <2>4 DEF HaveEnds, Alive
    <2>6. \A s \in Stage, p \in Pipe : s \notin readers[p] /\ s \notin writers[p]
        BY <2>1 DEF OnlyOwnEnds, Started
    <2>7. \A s \in Stage, p \in Pipe : s \notin readers'[p] /\ s \notin writers'[p]
        BY <2>2, <2>6
    <2> QED
        BY <2>3, <2>5, <2>7 DEF OnlyOwnEnds
<1>3. CASE NoPipe
    <2>1. ShellHolds'
        BY <1>3 DEF NoPipe, Return, ShellHolds, CloseOwn
    <2> QED
        BY <1>3, <2>1, ClosesOwnOnly DEF NoPipe
<1>4. CASE CopyVariables
    <2>1. ShellHolds'
        BY <1>4 DEF CopyVariables, ShellHolds, endVars, Pipe
    <2> QED
        BY <1>4, <2>1, EndsUntouched DEF CopyVariables
<1>5. CASE Fork
    <2>1. \A p \in Pipe : Shell \in readers[p] /\ Shell \in writers[p]
        BY <1>5 DEF Fork, ShellHolds
    <2>2. \A p \in Pipe : /\ readers'[p] = readers[p] \cup {at}
                          /\ writers'[p] = writers[p] \cup {at}
        BY <1>5, <2>1 DEF Fork, Inherit
    <2>3. ShellHolds'
        BY <1>5, <2>1, <2>2 DEF Fork, ShellHolds
    <2>4. /\ at \in Stage /\ proc'[at] = "setup"
          /\ \A s \in Stage : s # at => proc'[s] = proc[s]
        BY <1>5 DEF Fork, TypeOK
    <2>5. \A s \in Stage : (s > 1 => s - 1 \in Pipe) /\ (s < N => s \in Pipe)
        BY DEF Stage, Pipe
    <2>6. HaveEnds'
        BY <2>2, <2>4, <2>5 DEF HaveEnds, HasEnds, Alive
    <2>7. OnlyOwnEnds'
        BY <2>2, <2>4 DEF OnlyOwnEnds
    <2> QED
        BY <2>3, <2>6, <2>7
<1>6. CASE NoFork
    <2>1. ShellHolds'
        BY <1>6 DEF NoFork, Return, ShellHolds, CloseOwn
    <2> QED
        BY <1>6, <2>1, ClosesOwnOnly DEF NoFork
<1>7. CASE CloseEnds
    <2>1. ShellHolds'
        BY <1>7 DEF CloseEnds, ShellHolds, CloseOwn
    <2> QED
        BY <1>7, <2>1, ClosesOwnOnly DEF CloseEnds
<1>8. CASE TryWait
    <2>1. ShellHolds'
        BY <1>8 DEF TryWait, NextStage, ShellHolds, endVars
    <2>2. \A s \in Stage : proc'[s] = proc[s] \/ (Ended(s) /\ proc'[s] = "reaped")
        <3>1. at \in Stage
            BY DEF TypeOK
        <3> QED
            BY <1>8, <3>1, Reaps DEF TryWait
    <2> QED
        BY <1>8, <2>1, <2>2, EndsUntouched DEF TryWait
<1>9. CASE Kill
    <2>1. ShellHolds'
        BY <1>9 DEF Kill, ShellHolds, endVars
    <2> QED
        BY <1>9, <2>1, EndsUntouched DEF Kill
<1>10. CASE Block
    <2>1. ShellHolds'
        BY <1>10 DEF Block, NextStage, ShellHolds, endVars
    <2>2. at \in Stage
        BY DEF TypeOK
    <2> QED
        BY <1>10, <2>1, <2>2, Reaps, EndsUntouched DEF Block
<1>11. CASE ListLast
    <2>1. ShellHolds'
        BY <1>11 DEF ListLast, ShellHolds, endVars
    <2> QED
        BY <1>11, <2>1, EndsUntouched DEF ListLast
<1>12. CASE FreeCopy
    <2>1. ShellHolds'
        BY <1>12 DEF FreeCopy, Return, ShellHolds, endVars
    <2> QED
        BY <1>12, <2>1, EndsUntouched DEF FreeCopy
<1> QED
    BY <1>1, <1>2, <1>3, <1>4, <1>5, <1>6, <1>7, <1>8, <1>9, <1>10, <1>11, <1>12
    DEF ShellStep

(* A stage closes its own ends only, all of them when it ends. *)
LEMMA ExitEnds ==
    ASSUME Inv, NEW s \in Stage, Exit(s), UNCHANGED <<pc, at>>
    PROVE  ShellHolds' /\ HaveEnds' /\ OnlyOwnEnds'
<1> USE Numbers DEF Inv
<1>1. \A p \in Pipe : readers'[p] = readers[p] \ {s} /\ writers'[p] = writers[p] \ {s}
    BY DEF Exit
<1>2. /\ proc'[s] \in {"zombie", "reaped"}
      /\ \A t \in Stage : t # s => proc'[t] = proc[t]
    BY DEF Exit, TypeOK
<1>3. ShellHolds'
    BY <1>1 DEF ShellHolds
<1>4. \A t \in Stage : (t > 1 => t - 1 \in Pipe) /\ (t < N => t \in Pipe)
    BY DEF Stage, Pipe
<1>5. HaveEnds'
    BY <1>1, <1>2, <1>4 DEF HaveEnds, HasEnds, Alive
<1>6. OnlyOwnEnds'
    BY <1>1, <1>2 DEF OnlyOwnEnds
<1> QED
    BY <1>3, <1>5, <1>6

LEMMA StageEnds ==
    ASSUME Inv, NEW s \in Stage, HandlerReap(s) \/ StageStep(s) \/ Terminate(s)
    PROVE  ShellHolds' /\ HaveEnds' /\ OnlyOwnEnds'
<1> USE Numbers DEF Inv
<1>1. CASE HandlerReap(s)
    <2>1. ShellHolds'
        BY <1>1 DEF HandlerReap, ShellHolds, endVars
    <2>2. Ended(s)
        BY <1>1 DEF HandlerReap, Ended
    <2> QED
        BY <1>1, <2>1, <2>2, Reaps, EndsUntouched DEF HandlerReap
<1>2. CASE SetUp(s)
    <2>1. \A p \in Pipe :
              /\ readers'[p] = IF p = s - 1 THEN readers[p] ELSE readers[p] \ {s}
              /\ writers'[p] = IF p = s THEN writers[p] ELSE writers[p] \ {s}
        BY <1>2 DEF SetUp, KeepInput, KeepOutput
    <2>2. proc'[s] = "running" /\ \A t \in Stage : t # s => proc'[t] = proc[t]
        BY <1>2 DEF SetUp, TypeOK
    <2>3. ShellHolds'
        BY <1>2, <2>1 DEF SetUp, shellVars, ShellHolds
    <2>4. \A t \in Stage : (t > 1 => t - 1 \in Pipe) /\ (t < N => t \in Pipe)
        BY DEF Stage, Pipe
    <2>5. HaveEnds'
        <3>1. HasEnds(s)'
            BY <1>2, <2>1, <2>4 DEF SetUp, HasEnds
        <3>2. ASSUME NEW t \in Stage, t # s, Alive(t)'
              PROVE  HasEnds(t)'
            BY <2>1, <2>2, <2>4, <3>2 DEF HaveEnds, HasEnds, Alive
        <3> QED
            BY <3>1, <3>2 DEF HaveEnds
    <2>6. ASSUME NEW t \in Stage, NEW p \in Pipe
          PROVE  /\ t \in readers'[p] =>
                        proc'[t] = "setup" \/ (proc'[t] = "running" /\ p = t - 1)
                 /\ t \in writers'[p] =>
                        proc'[t] = "setup" \/ (proc'[t] = "running" /\ p = t)
        <3>1. CASE t = s
            BY <2>1, <2>2, <3>1
        <3>2. CASE t # s
            <4>1. /\ t \in readers'[p] => t \in readers[p]
                  /\ t \in writers'[p] => t \in writers[p]
                  /\ proc'[t] = proc[t]
                BY <2>1, <2>2, <3>2
            <4> QED
                BY <4>1 DEF OnlyOwnEnds
        <3> QED
            BY <3>1, <3>2
    <2> QED
        BY <2>3, <2>5, <2>6 DEF OnlyOwnEnds
<1>3. CASE SetUpFails(s)
    BY <1>3, ExitEnds DEF SetUpFails, shellVars
<1>4. CASE Read(s) \/ Write(s)
    <2>1. UNCHANGED <<pc, at, proc, readers, writers>>
        BY <1>4 DEF Read, Write, shellVars, endVars
    <2>2. ShellHolds'
        BY <2>1 DEF ShellHolds
    <2> QED
        BY <2>1, <2>2, EndsUntouched DEF endVars
<1>5. CASE BrokenPipe(s) \/ Finish(s) \/ EndBrief(s) \/ Terminate(s)
    BY <1>5, ExitEnds DEF BrokenPipe, Finish, EndBrief, Terminate, shellVars
<1> QED
    BY <1>1, <1>2, <1>3, <1>4, <1>5 DEF StageStep

-----------------------------------------------------------------------------
(* The course of handle_pipeline.                                          *)

LEMMA ShellStepCopy == Inv /\ ShellStep => CopyKept'
<1> SUFFICES ASSUME Inv, ShellStep PROVE CopyKept'
    OBVIOUS
<1>1. CASE UNCHANGED copy
    <2>1. ASSUME pc' \in {"verify", "pipe"} PROVE pc \in {"verify", "pipe"}
        BY <2>1 DEF ShellStep, Verify, Return, MakePipe, NoPipe, CopyVariables, Fork, NoFork,
                    CloseEnds, TryWait, NextStage, Kill, Block, ListLast, FreeCopy
    <2>2. ASSUME pc' = "returned" PROVE \/ pc \in {"verify", "pipe"}
                                        \/ result' = "nofork"
                                        \/ FreeCopy
        BY <2>2 DEF Inv, TypeOK, ShellPoints,
                    ShellStep, Verify, Return, MakePipe, NoPipe, CopyVariables, Fork, NoFork,
                    CloseEnds, TryWait, NextStage, Kill, Block, ListLast
    <2>3. FreeCopy => ~copy'
        BY Zenon DEF FreeCopy
    <2> QED
        BY <1>1, <2>1, <2>2, <2>3, Zenon DEF Inv, CopyKept
<1>2. CASE CopyVariables
    BY <1>2 DEF CopyVariables, CopyKept
<1>3. CASE FreeCopy
    <2>1. ~copy'
        BY <1>3, Zenon DEF FreeCopy
    <2> QED
        BY <2>1, Zenon DEF CopyKept
<1> QED
    BY <1>1, <1>2, <1>3, Zenon
    DEF ShellStep, Verify, MakePipe, NoPipe, Fork, NoFork, CloseEnds, TryWait, Kill, Block,
        ListLast

LEMMA ReapedOne ==
    ASSUME TypeOK, NEW s \in Stage, Reap(s)
    PROVE  proc'[s] = "reaped" /\ \A t \in Stage : t # s => proc'[t] = proc[t]
BY DEF Reap, TypeOK

(* The wait goes on with the next stage once this one is reaped. *)
LEMMA NextWaited ==
    ASSUME Inv, pc \in {"try", "kill", "block"}, Reap(at), NextStage, UNCHANGED <<mode, result>>
    PROVE  Started' /\ Waited' /\ NobodyLeftBehind'
<1> USE Numbers DEF Inv
<1>1. at \in Stage /\ \A s \in Stage : s <= N
    BY DEF TypeOK, Stage
<1>2. proc'[at] = "reaped" /\ \A t \in Stage : t # at => proc'[t] = proc[t]
    BY <1>1, ReapedOne
<1>3. \A s \in Stage : s <= at => proc'[s] = "reaped"
    BY <1>1, <1>2 DEF Waited
<1>4. \A s \in Stage : proc'[s] # "unborn"
    BY <1>2 DEF Started
<1>5. CASE at = N /\ pc' = "free"
    BY <1>1, <1>3, <1>4, <1>5 DEF Started, Waited, NobodyLeftBehind
<1>6. CASE at' = at + 1 /\ pc' = "try"
    BY <1>1, <1>3, <1>4, <1>6 DEF Started, Waited, NobodyLeftBehind
<1> QED
    BY <1>5, <1>6 DEF NextStage

LEMMA ShellStepCourse == Inv /\ ShellStep => Started' /\ Waited' /\ NobodyLeftBehind'
<1> SUFFICES ASSUME Inv, ShellStep PROVE Started' /\ Waited' /\ NobodyLeftBehind'
    OBVIOUS
<1> USE Numbers DEF Inv
<1>1. CASE Verify
    BY <1>1 DEF Verify, Return, Started, Waited, NobodyLeftBehind
<1>2. CASE MakePipe
    BY <1>2 DEF MakePipe, Started, Waited, NobodyLeftBehind
<1>3. CASE NoPipe
    BY <1>3 DEF NoPipe, Return, Started, Waited, NobodyLeftBehind
<1>4. CASE CopyVariables
    BY <1>4 DEF CopyVariables, Started, Waited, NobodyLeftBehind, Stage
<1>5. CASE Fork
    <2>1. /\ at \in Stage /\ proc'[at] = "setup"
          /\ \A s \in Stage : s # at => proc'[s] = proc[s]
        BY <1>5 DEF Fork, TypeOK
    <2>2. \A s \in Stage : s <= at => proc'[s] # "unborn"
        BY <1>5, <2>1 DEF Fork, Started
    <2>3. \A s \in Stage : s > at => proc'[s] = "unborn"
        BY <1>5, <2>1 DEF Fork, Started
    <2>4. CASE at = N
        BY <1>5, <2>1, <2>2, <2>4 DEF Fork, Started, Waited, NobodyLeftBehind, Stage
    <2>5. CASE at # N
        BY <1>5, <2>1, <2>2, <2>3, <2>5 DEF Fork, Started, Waited, NobodyLeftBehind, Stage
    <2> QED
        BY <2>4, <2>5
<1>6. CASE NoFork
    <2>1. \A s \in Stage : Alive(s)' => s \in term'
        BY <1>6 DEF NoFork, Started, Alive, TypeOK
    <2>2. proc'[N] = "unborn"
        BY <1>6 DEF NoFork, Started, TypeOK, Stage
    <2> QED
        BY <1>6, <2>1, <2>2 DEF NoFork, Return, Started, Waited, NobodyLeftBehind
<1>7. CASE CloseEnds
    <2>1. at = 1 /\ mode \in {"fg", "bg"}
        BY <1>7 DEF CloseEnds, TypeOK, Started
    <2> QED
        BY <1>7, <2>1 DEF CloseEnds, lineVars, Started, Waited, NobodyLeftBehind, Stage
<1>8. CASE TryWait
    <2>1. CASE UNCHANGED <<at, proc>> /\ pc' \in {"try", "kill"}
        BY <1>8, <2>1 DEF TryWait, lineVars, Started, Waited, NobodyLeftBehind
    <2> QED
        BY <1>8, <2>1, NextWaited DEF TryWait, lineVars
<1>9. CASE Kill
    BY <1>9 DEF Kill, lineVars, Started, Waited, NobodyLeftBehind
<1>10. CASE Block
    BY <1>10, NextWaited DEF Block, lineVars
<1>11. CASE ListLast
    BY <1>11 DEF ListLast, lineVars, Started, Waited, NobodyLeftBehind
<1>12. CASE FreeCopy
    BY <1>12 DEF FreeCopy, Return, lineVars, Started, Waited, NobodyLeftBehind
<1> QED
    BY <1>1, <1>2, <1>3, <1>4, <1>5, <1>6, <1>7, <1>8, <1>9, <1>10, <1>11, <1>12
    DEF ShellStep

(* A stage that goes its own way neither appears nor comes back, and keeps *)
(* its SIGTERM as long as it lives.                                        *)
LEMMA StageCourse ==
    ASSUME Inv, NEW s \in Stage, HandlerReap(s) \/ StageStep(s) \/ Terminate(s)
    PROVE  Started' /\ Waited' /\ NobodyLeftBehind' /\ CopyKept'
<1> USE DEF Inv
<1>1. UNCHANGED <<pc, at, mode, result>>
    BY DEF HandlerReap, StageStep, Terminate, SetUp, SetUpFails, Read, Write, BrokenPipe,
           Finish, EndBrief, lineVars, shellVars
<1>2. UNCHANGED copy
    BY Zenon DEF HandlerReap, StageStep, Terminate, SetUp, SetUpFails, Read, Write, BrokenPipe,
           Finish, EndBrief, shellVars
<1>3. CopyKept'
    BY <1>1, <1>2, Zenon DEF CopyKept
<1>4. /\ \A t \in Stage : t # s => proc'[t] = proc[t] /\ (t \in term' <=> t \in term)
      /\ proc[s] \in {"unborn", "reaped"} => proc'[s] = proc[s]
      /\ proc'[s] = "unborn" => proc[s] = "unborn"
      /\ Alive(s)' => Alive(s) /\ (s \in term' <=> s \in term)
    <2>1. CASE Read(s) \/ Write(s)
        BY <2>1 DEF Read, Write, Alive
    <2>2. CASE SetUp(s)
        BY <2>2 DEF SetUp, Alive, TypeOK
    <2>3. CASE HandlerReap(s)
        BY <2>3, ReapedOne DEF HandlerReap, Alive
    <2>4. CASE Exit(s) /\ Alive(s)
        BY <2>4 DEF Exit, Alive, TypeOK
    <2> QED
        BY <2>1, <2>2, <2>3, <2>4
        DEF StageStep, SetUpFails, BrokenPipe, Finish, EndBrief, Terminate, Filters, Alive
<1>5. Started' /\ Waited'
    BY <1>1, <1>4, Numbers DEF Started, Waited
<1>6. NobodyLeftBehind'
    BY <1>1, <1>4 DEF NobodyLeftBehind, Alive
<1> QED
    BY <1>3, <1>5, <1>6

-----------------------------------------------------------------------------
LEMMA Preserved == Inv /\ [Next]_vars => Inv'
<1> SUFFICES ASSUME Inv, [Next]_vars PROVE Inv'
    OBVIOUS
<1>1. CASE ShellStep
    BY <1>1, ShellStepTypes, ShellStepEnds, ShellStepCopy, ShellStepCourse DEF Inv
<1>2. ASSUME NEW s \in Stage, HandlerReap(s) \/ StageStep(s) \/ Terminate(s)
      PROVE  Inv'
    BY <1>2, StageTypes, StageEnds, StageCourse DEF Inv
<1>3. CASE UNCHANGED vars
    <2>1. UNCHANGED <<lineVars, pc, at, polls, listed, result, proc, term, endVars, flowVars, cut>>
        BY <1>3 DEF vars, shellVars
    <2>2. UNCHANGED copy
        BY <1>3, Zenon DEF vars, shellVars
    <2>3. TypeOK'
        BY <2>1, <2>2 DEF Inv, TypeOK, lineVars, endVars, flowVars
    <2>4. CopyKept'
        BY <2>1, <2>2, Zenon DEF Inv, CopyKept
    <2>5. /\ ShellHolds' /\ HaveEnds' /\ OnlyOwnEnds'
          /\ Started' /\ Waited' /\ NobodyLeftBehind'
        BY <2>1 DEF Inv, ShellHolds, HaveEnds, OnlyOwnEnds, HasEnds, Started, Waited, NobodyLeftBehind,
                    Alive, lineVars, endVars
    <2> QED
        BY <2>3, <2>4, <2>5 DEF Inv
<1> QED
    BY <1>1, <1>2, <1>3 DEF Next, Over

LEMMA Invariant == Spec => []Inv
BY Initially, Preserved, PTL DEF Spec

-----------------------------------------------------------------------------
(* What flows through the pipes.                                           *)

FlowInv == Inv /\ Conserved /\ InOrder /\ OnList

LEMMA InitialFlow == Init => Conserved /\ InOrder /\ OnList
BY Numbers DEF Init, Conserved, InOrder, OnList, Ended, Pipe, Stage

(* Reading moves from a pipe to a hand, writing from a hand to a pipe. *)
LEMMA ConservedKept ==
    ASSUME TypeOK, Conserved, NEW s \in Stage, Read(s) \/ Write(s)
    PROVE  Conserved'
<1> USE Numbers
<1>1. /\ \A t \in Stage : hand[t] \in Nat /\ wrote[t] \in Nat /\ t \in Nat
      /\ \A p \in Pipe : buf[p] \in Nat /\ p + 1 \in Stage /\ p \in Stage /\ p + 1 # p
    BY DEF TypeOK, Stage, Pipe
<1>2. CASE Read(s)
    <2>1. /\ s > 1 /\ s - 1 \in Pipe /\ buf[s - 1] > 0 /\ hand[s] = 0 /\ wrote' = wrote
          /\ hand'[s] = 1 /\ \A t \in Stage : t # s => hand'[t] = hand[t]
          /\ buf'[s - 1] = buf[s - 1] - 1 /\ \A p \in Pipe : p # s - 1 => buf'[p] = buf[p]
        BY <1>2 DEF Read, TypeOK, Stage, Pipe
    <2>2. ASSUME NEW p \in Pipe PROVE wrote'[p] = wrote'[p + 1] + hand'[p + 1] + buf'[p]
        <3>1. CASE p = s - 1
            BY <1>1, <2>1, <3>1 DEF Conserved
        <3>2. CASE p # s - 1
            BY <1>1, <2>1, <3>2 DEF Conserved
        <3> QED
            BY <3>1, <3>2
    <2> QED
        BY <2>1, <2>2 DEF Conserved
<1>3. CASE Write(s)
    <2>1. /\ hand[s] > 0
          /\ hand'[s] = hand[s] - 1 /\ \A t \in Stage : t # s => hand'[t] = hand[t]
          /\ wrote'[s] = wrote[s] + 1 /\ \A t \in Stage : t # s => wrote'[t] = wrote[t]
        BY <1>3 DEF Write, TypeOK
    <2>2. \A p \in Pipe : buf'[p] = IF p = s THEN buf[p] + 1 ELSE buf[p]
        <3>1. CASE s = N /\ UNCHANGED buf
            BY <3>1 DEF Pipe
        <3>2. CASE buf' = [buf EXCEPT ![s] = @ + 1]
            BY <3>2 DEF TypeOK
        <3> QED
            BY <1>3, <3>1, <3>2 DEF Write
    <2>3. ASSUME NEW p \in Pipe PROVE wrote'[p] = wrote'[p + 1] + hand'[p + 1] + buf'[p]
        <3>1. CASE p = s
            BY <1>1, <2>1, <2>2, <3>1 DEF Conserved
        <3>2. CASE p + 1 = s
            BY <1>1, <2>1, <2>2, <3>2 DEF Conserved
        <3>3. CASE p # s /\ p + 1 # s
            BY <1>1, <2>1, <2>2, <3>3 DEF Conserved
        <3> QED
            BY <3>1, <3>2, <3>3
    <2>4. wrote'[1] + hand'[1] = Items
        BY <1>1, <2>1 DEF Conserved
    <2> QED
        BY <2>3, <2>4 DEF Conserved
<1> QED
    BY <1>2, <1>3

(* Once a stage was started all those before it were, and one after it is  *)
(* missing only as long as the shell goes on forking.                      *)
LEMMA StartedInOrder ==
    ASSUME Inv, result # "nofork", NEW s \in Stage, proc[s] # "unborn",
           NEW t \in Stage, proc[t] = "unborn"
    PROVE  pc = "fork" /\ s < t
<1>1. pc = "returned" => result \in {"ok", "refused", "nopipe"}
    BY DEF Inv, NobodyLeftBehind
<1>2. pc # "returned"
    BY <1>1 DEF Inv, NobodyLeftBehind, Started
<1>3. pc \notin {"verify", "pipe"}
    BY DEF Inv, Started
<1>4. pc \notin {"close", "try", "kill", "block", "list", "free"}
    BY DEF Inv, Started
<1>5. pc = "fork"
    <2>1. pc \in ShellPoints
        BY DEF Inv, TypeOK
    <2> QED
        BY <1>2, <1>3, <1>4, <2>1 DEF ShellPoints
<1> QED
    BY <1>5, Numbers DEF Inv, TypeOK, Started

(* A stage finds its input at an end only when the one before has ended,   *)
(* and its output broken only when the one behind has.                     *)
LEMMA EndMeansEnded ==
    ASSUME Inv, result # "nofork", NEW s \in Stage, proc[s] = "running"
    PROVE  /\ s > 1 /\ writers[s - 1] = {} => Ended(s - 1)
           /\ s < N /\ readers[s] = {} => Ended(s + 1)
<1> USE Numbers DEF Inv
<1>1. ASSUME s > 1, writers[s - 1] = {} PROVE Ended(s - 1)
    <2>1. s - 1 \in Stage /\ s - 1 < N /\ ~(s < s - 1)
        BY <1>1 DEF Stage
    <2>2. ~Alive(s - 1)
        BY <1>1, <2>1 DEF HaveEnds, HasEnds
    <2>3. proc[s - 1] # "unborn"
        BY <2>1, StartedInOrder
    <2> QED
        BY <2>1, <2>2, <2>3 DEF TypeOK, ProcStates, Alive, Ended
<1>2. ASSUME s < N, readers[s] = {} PROVE Ended(s + 1)
    <2>1. s + 1 \in Stage /\ s + 1 > 1 /\ (s + 1) - 1 = s /\ s \in Pipe
        BY <1>2 DEF Stage, Pipe
    <2>2. ~Alive(s + 1)
        BY <1>2, <2>1 DEF HaveEnds, HasEnds
    <2>3. proc[s + 1] # "unborn"
        BY <1>2, <2>1, StartedInOrder DEF ShellHolds
    <2> QED
        BY <2>1, <2>2, <2>3 DEF TypeOK, ProcStates, Alive, Ended
<1> QED
    BY <1>1, <1>2

LEMMA FinishInOrder ==
    ASSUME FlowInv, cut = {}, result # "nofork", NEW s \in Stage, Finish(s)
    PROVE  wrote[s] = Items /\ \A t \in Stage : t < s => Ended(t)
<1> USE Numbers DEF FlowInv
<1>1. proc[s] = "running" /\ hand[s] = 0
    BY DEF Finish, Filters
<1>2. CASE s = 1
    BY <1>1, <1>2 DEF Conserved, Inv, TypeOK, Stage
<1>3. CASE s > 1
    <2>1. buf[s - 1] = 0 /\ writers[s - 1] = {} /\ s - 1 \in Pipe /\ s - 1 \in Stage
        BY <1>3 DEF Finish, Stage, Pipe
    <2>2. Ended(s - 1)
        BY <1>1, <1>3, <2>1, EndMeansEnded
    <2>3. wrote[s - 1] = Items /\ \A t \in Stage : t < s - 1 => Ended(t)
        BY <2>1, <2>2 DEF InOrder
    <2>4. wrote[s - 1] = wrote[s]
        <3>1. (s - 1) + 1 = s /\ wrote[s] \in Nat
            BY DEF Inv, TypeOK
        <3> QED
            BY <1>1, <2>1, <3>1 DEF Conserved
    <2>5. \A t \in Stage : t < s => t < s - 1 \/ t = s - 1
        OBVIOUS
    <2> QED
        BY <2>2, <2>3, <2>4, <2>5
<1> QED
    BY <1>2, <1>3 DEF Stage

LEMMA NoBrokenPipe ==
    ASSUME FlowInv, cut = {}, result # "nofork", NEW s \in Stage, BrokenPipe(s)
    PROVE  FALSE
<1>1. proc[s] = "running" /\ s < N /\ readers[s] = {}
    BY DEF BrokenPipe, Filters
<1>2. Ended(s + 1)
    BY <1>1, EndMeansEnded DEF FlowInv
<1>3. s + 1 \in Stage /\ s < s + 1
    BY <1>1, Numbers DEF Stage
<1>4. Ended(s)
    BY <1>2, <1>3 DEF FlowInv, InOrder
<1> QED
    BY <1>1, <1>4 DEF Ended

(* A stage that ends leaves what it has written. *)
LEMMA EndsInOrder ==
    ASSUME FlowInv, NEW s \in Stage, Exit(s), UNCHANGED <<result, wrote>>,
           cut' = {} /\ result # "nofork" =>
               cut = {} /\ wrote[s] = Items /\ \A t \in Stage : t < s => Ended(t)
    PROVE  InOrder'
<1>1. /\ proc'[s] \in {"zombie", "reaped"}
      /\ \A t \in Stage : t # s => proc'[t] = proc[t]
    BY DEF Exit, FlowInv, Inv, TypeOK
<1>2. \A t \in Stage : Ended(t)' <=> Ended(t) \/ t = s
    BY <1>1 DEF Ended
<1> QED
    BY <1>2 DEF FlowInv, InOrder

(* A step in which no stage ends, and only stages that live write. *)
LEMMA OrderKept ==
    ASSUME InOrder, cut' = cut, result = "nofork" => result' = "nofork",
           \A s \in Stage : (Ended(s)' <=> Ended(s)) /\ (Ended(s) => wrote'[s] = wrote[s])
    PROVE  InOrder'
BY DEF InOrder

LEMMA StageFlow ==
    ASSUME FlowInv, NEW s \in Stage, HandlerReap(s) \/ StageStep(s) \/ Terminate(s)
    PROVE  Conserved' /\ InOrder' /\ OnList'
<1> USE Numbers DEF FlowInv
<1>1. UNCHANGED <<pc, mode, result>>
    BY DEF HandlerReap, StageStep, Terminate, SetUp, SetUpFails, Read, Write, BrokenPipe,
           Finish, EndBrief, lineVars, shellVars
<1>2. CASE HandlerReap(s)
    <2>1. proc[s] = "zombie" /\ proc'[s] = "reaped" /\ \A t \in Stage : t # s => proc'[t] = proc[t]
        BY <1>2, ReapedOne DEF HandlerReap, Inv
    <2>2. \A t \in Stage : Ended(t)' <=> Ended(t)
        BY <2>1 DEF Ended
    <2>3. Conserved'
        BY <1>2 DEF HandlerReap, flowVars, Conserved
    <2>4. InOrder'
        BY <1>2, <2>2, OrderKept DEF HandlerReap, flowVars
    <2>5. Ended(s)' /\ listed' = listed \ {s}
        BY <1>2, <2>1 DEF HandlerReap, Ended
    <2>6. OnList'
        BY <1>1, <2>2, <2>5 DEF OnList
    <2> QED
        BY <2>3, <2>4, <2>6
<1>3. CASE Read(s) \/ Write(s)
    <2>1. UNCHANGED <<proc, listed, cut>> /\ \A t \in Stage : t # s => wrote'[t] = wrote[t]
        BY <1>3 DEF Read, Write, shellVars, Inv, TypeOK
    <2>2. \A t \in Stage : Ended(t)' <=> Ended(t)
        BY <2>1 DEF Ended
    <2>3. ~Ended(s)
        BY <1>3 DEF Read, Write, Filters, Ended
    <2>4. InOrder'
        BY <1>1, <2>1, <2>2, <2>3, OrderKept
    <2>5. OnList'
        BY <1>1, <2>1, <2>2 DEF OnList
    <2> QED
        BY <1>3, <2>4, <2>5, ConservedKept DEF Inv
<1>4. CASE SetUp(s)
    <2>1. UNCHANGED <<listed, cut, hand, wrote, buf>>
        BY <1>4 DEF SetUp, shellVars, flowVars
    <2>2. \A t \in Stage : Ended(t)' <=> Ended(t)
        BY <1>4 DEF SetUp, Ended, Inv, TypeOK
    <2>3. Conserved' /\ OnList'
        BY <1>1, <2>1, <2>2 DEF Conserved, OnList
    <2>4. InOrder'
        BY <1>1, <2>1, <2>2, OrderKept
    <2> QED
        BY <2>3, <2>4
<1>5. CASE SetUpFails(s) \/ BrokenPipe(s) \/ Finish(s) \/ EndBrief(s) \/ Terminate(s)
    <2>1. Exit(s) /\ UNCHANGED <<listed, hand, wrote, buf>>
        BY <1>5 DEF SetUpFails, BrokenPipe, Finish, EndBrief, Terminate, shellVars, flowVars
    <2>2. \A t \in Stage : Ended(t) => Ended(t)'
        BY <2>1 DEF Exit, Ended, Inv, TypeOK
    <2>3. Conserved' /\ OnList'
        BY <1>1, <2>1, <2>2 DEF Conserved, OnList
    <2>4. ASSUME cut' = {}, result # "nofork" PROVE Finish(s) /\ cut = {}
        <3>1. ~BrokenPipe(s)
            BY <2>4, NoBrokenPipe DEF BrokenPipe
        <3>2. ~SetUpFails(s)
            BY <2>4 DEF SetUpFails, Inv, HaveEnds, Alive
        <3> QED
            BY <1>5, <2>4, <3>1, <3>2 DEF Finish, EndBrief, Terminate
    <2>5. InOrder'
        BY <1>1, <2>1, <2>4, FinishInOrder, EndsInOrder
    <2> QED
        BY <2>3, <2>5
<1> QED
    BY <1>2, <1>3, <1>4, <1>5 DEF StageStep

LEMMA ShellFlow == FlowInv /\ ShellStep => Conserved' /\ InOrder' /\ OnList'
<1> SUFFICES ASSUME FlowInv, ShellStep PROVE Conserved' /\ InOrder' /\ OnList'
    OBVIOUS
<1> USE Numbers DEF FlowInv
<1>1. UNCHANGED <<mode, cut, hand, wrote, buf>>
    BY DEF ShellStep, Verify, MakePipe, NoPipe, CopyVariables, Fork, NoFork, CloseEnds, TryWait,
           Kill, Block, ListLast, FreeCopy, lineVars, flowVars
<1>2. result = "none" /\ pc # "returned"
    BY DEF ShellStep, Verify, MakePipe, NoPipe, CopyVariables, Fork, NoFork, CloseEnds, TryWait,
           Kill, Block, ListLast, FreeCopy, Inv, Started
<1>3. \A t \in Stage : Ended(t)' <=> Ended(t)
    <2>1. at \in Stage
        BY DEF Inv, TypeOK
    <2>2. CASE Fork
        BY <2>1, <2>2 DEF Fork, Inv, TypeOK, Started, Ended
    <2>3. CASE Reap(at) /\ Ended(at)
        BY <2>1, <2>3, ReapedOne DEF Ended, Inv
    <2>4. CASE UNCHANGED proc
        BY <2>4 DEF Ended
    <2> QED
        BY <2>2, <2>3, <2>4
        DEF ShellStep, Verify, MakePipe, NoPipe, CopyVariables, NoFork, CloseEnds, TryWait,
            Kill, Block, ListLast, FreeCopy
<1>4. Conserved'
    BY <1>1 DEF Conserved
<1>5. InOrder'
    BY <1>1, <1>2, <1>3, OrderKept
<1>6. OnList'
    <2>1. CASE ListLast
        BY <1>1, <1>2, <2>1 DEF ListLast, OnList
    <2>2. CASE FreeCopy
        BY <1>1, <1>3, <2>2 DEF FreeCopy, Return, OnList
    <2>3. CASE UNCHANGED listed /\ result' # "ok" /\ (pc' = "free" => mode = "fg")
        BY <1>1, <2>3 DEF OnList
    <2> QED
        BY <1>2, <2>1, <2>2, <2>3
        DEF ShellStep, Verify, MakePipe, NoPipe, CopyVariables, Fork, NoFork, CloseEnds, TryWait,
            Kill, Block, NextStage, Return, Inv, Waited
<1> QED
    BY <1>4, <1>5, <1>6

LEMMA FlowInvariant == Spec => []FlowInv
<1>1. Init => FlowInv
    BY Initially, InitialFlow DEF FlowInv
<1>2. FlowInv /\ [Next]_vars => FlowInv'
    <2> SUFFICES ASSUME FlowInv, [Next]_vars PROVE FlowInv'
        OBVIOUS
    <2>1. Inv'
        BY Preserved DEF FlowInv
    <2>2. CASE ShellStep
        BY <2>1, <2>2, ShellFlow DEF FlowInv
    <2>3. ASSUME NEW s \in Stage, HandlerReap(s) \/ StageStep(s) \/ Terminate(s)
          PROVE  FlowInv'
        BY <2>1, <2>3, StageFlow DEF FlowInv
    <2>4. CASE UNCHANGED vars
        <3>1. UNCHANGED <<mode, pc, result, listed, proc, cut, hand, wrote, buf>>
            BY <2>4 DEF vars, lineVars, shellVars, flowVars
        <3> QED
            BY <2>1, <3>1 DEF FlowInv, Conserved, InOrder, OnList, Ended
    <2> QED
        BY <2>2, <2>3, <2>4 DEF Next, Over
<1> QED
    BY <1>1, <1>2, PTL DEF Spec

-----------------------------------------------------------------------------
(* Every variable stays in its range: the loop index within the stages,    *)
(* the polls within their limit, the pipes within their capacity.          *)
THEOREM PipelineTypes == Spec => []TypeOK
<1>1. Inv => TypeOK
    BY DEF Inv
<1> QED
    BY <1>1, Invariant, PTL

(* Whatever the order of forks, failures and exits, every stage that lives *)
(* has its two ends, and once its program runs only these.                 *)
THEOREM EndsAreHandedOut == Spec => []EndsHandedOut
<1>1. Inv => EndsHandedOut
    BY DEF Inv, HaveEnds, OnlyOwnEnds, EndsHandedOut
<1> QED
    BY <1>1, Invariant, PTL

(* handle_pipeline leaves the shell without ends of pipes and, unless fork *)
(* failed, without the copy of its variables.                              *)
THEOREM NothingIsHeld == Spec => []NothingHeld
<1>1. Inv => NothingHeld
    <2>1. ASSUME Inv, pc = "returned"
          PROVE  \A p \in Pipe : Shell \notin readers[p] \cup writers[p]
        BY <2>1 DEF Inv, ShellHolds
    <2>2. ASSUME Inv, pc = "returned", result # "nofork" PROVE ~copy
        BY <2>2, Zenon DEF Inv, CopyKept
    <2> QED
        BY <2>1, <2>2, Zenon DEF NothingHeld
<1> QED
    BY <1>1, Invariant, PTL

(* When handle_pipeline returns, the stages it started are reaped, or run  *)
(* in the background, or have been told to end.                            *)
THEOREM NobodyIsLeftBehind == Spec => []NobodyLeftBehind
<1>1. Inv => NobodyLeftBehind
    BY DEF Inv
<1> QED
    BY <1>1, Invariant, PTL

(* Everything the first stage writes comes out of the last one, however    *)
(* many stages there are and however much it is, unless one is cut short.  *)
THEOREM EverythingDoesArrive == Spec => []EverythingArrives
<1>1. FlowInv => EverythingArrives
    BY Numbers DEF FlowInv, Inv, Started, InOrder, EverythingArrives, Ended
<1> QED
    BY <1>1, FlowInvariant, PTL

(* When the last stage of a background pipeline has left the job list, all *)
(* the others have ended.                                                  *)
THEOREM DoneDoesMeanDone == Spec => []DoneMeansDone
<1>1. FlowInv => DoneMeansDone
    <2> SUFFICES ASSUME FlowInv, pc = "returned", result = "ok", mode = "bg", listed = {}, cut = {}
                 PROVE  wrote[N] = Items /\ \A s \in Stage : Ended(s)
        BY DEF DoneMeansDone
    <2>1. Ended(N)
        BY DEF FlowInv, OnList
    <2>2. wrote[N] = Items /\ \A t \in Stage : t < N => Ended(t)
        BY <2>1, Numbers DEF FlowInv, InOrder
    <2> QED
        BY <2>1, <2>2, Numbers DEF Stage
<1> QED
    BY <1>1, FlowInvariant, PTL

=============================================================================
