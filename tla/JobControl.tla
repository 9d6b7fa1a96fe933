----------------------------- MODULE JobControl -----------------------------
(***************************************************************************)
(* Background jobs of mysh: the shell's main thread (main, mysh.c, and the *)
(* functions of commands.c it calls), the SIGCHLD handler that runs on top *)
(* of it, and the kernel that owns the children.                           *)
(*                                                                         *)
(* The main thread and the handler share two linked lists and a counter    *)
(* with no signal mask around any access.  The main thread is therefore    *)
(* modelled one shared access per step, and pc names the point a signal    *)
(* would interrupt.  The handler runs to its end before the main thread    *)
(* moves again, while children go on exiting.                              *)
(*                                                                         *)
(* The shell is built with AddressSanitizer (Makefile), so touching freed  *)
(* memory ends it: pc = "aborted".                                         *)
(***************************************************************************)
EXTENDS Naturals, Sequences, SequencesExt

CONSTANTS
    Procs,         \* the children the shell may fork, each at most once
    NoProc,        \* "no child": a NULL pointer
    Commands,      \* what the user may type, a subset of CommandKinds
    AllocFails     \* may malloc and strdup return NULL?

CommandKinds == {"bg", "fg", "ps", "server", "other", "exit"}

AddPoints == {"forked", "numbered", "bumped", "linked", "published"}
MainPoints == {"drain", "unlink", "read", "waiting", "listing", "freeing"} \cup AddPoints
Stopped == {"exited", "aborted"}

ASSUME NoProcAssumption == NoProc \notin Procs
ASSUME CommandsAssumption == Commands \subseteq CommandKinds
ASSUME AllocAssumption == AllocFails \in BOOLEAN

VARIABLES
    \* the kernel
    proc,        \* the state of each child
    pending,     \* is a SIGCHLD pending?  (pending signals are not counted)
    disp,        \* what the shell does with SIGCHLD
    \* the handler
    handling,    \* is the handler on the stack?
    \* the main thread
    pc,
    cur,         \* the child of the command being run; the cursor of ps
    newId,       \* new_process->job_id
    link,        \* new_process->next
    lastMsg,     \* was message->next NULL when get_next_bg_message read it?
    status,      \* the exit status execute_system_command computes from
    \* shared data
    jobs,        \* bg_process_list, head first
    jobId,       \* job_id of each child's cell
    dangling,    \* does the list end in a pointer to freed memory?
    nextJobId,
    queue,       \* bg_message_queue: whose Done messages wait, head first
    \* history
    background,  \* children started in the background and acknowledged by fork
    shown,       \* whose Done messages were displayed, in order
    \* history: the jobs that something went wrong with
    unseen,      \* ended where the handler could not find them: before they
                 \* were on the list, or while SIGCHLD was ignored
    unlisted,    \* no memory for their cell
    unheard,     \* no memory for their Done message, or it was appended to
                 \* a message that get_next_bg_message was unlinking
    outdated,    \* numbered before the counter was reset, listed after
    held         \* freed while the main thread had a pointer to their cell

kernelVars == <<proc, pending, disp>>
mainVars == <<pc, cur, newId, link, lastMsg, status>>
listVars == <<jobs, jobId, dangling, nextJobId>>
mishaps == <<unseen, unlisted, unheard, outdated, held>>
vars == <<kernelVars, handling, mainVars, listVars, queue, background, shown,
          mishaps>>

ProcStates == {"unborn", "running", "zombie", "reaped"}

TypeOK ==
    /\ proc \in [Procs -> ProcStates]
    /\ pending \in BOOLEAN
    /\ disp \in {"handler", "ignore"}
    /\ handling \in BOOLEAN
    /\ pc \in MainPoints \cup Stopped
    /\ cur \in Procs \cup {NoProc}
    /\ newId \in Nat
    /\ link \in Procs \cup {NoProc}
    /\ lastMsg \in BOOLEAN
    /\ status \in {"none", "exit", "unset"}
    /\ jobs \in Seq(Procs)
    /\ jobId \in [Procs -> Nat]
    /\ dangling \in BOOLEAN
    /\ nextJobId \in Nat
    /\ queue \in Seq(Procs)
    /\ background \in SUBSET Procs
    /\ shown \in Seq(Procs)
    /\ unseen \in SUBSET Procs
    /\ unlisted \in SUBSET Procs
    /\ unheard \in SUBSET Procs
    /\ outdated \in SUBSET Procs
    /\ held \in SUBSET Procs

Init ==
    /\ proc = [p \in Procs |-> "unborn"]
    /\ pending = FALSE
    /\ disp = "handler"
    /\ handling = FALSE
    /\ pc = "drain"
    /\ cur = NoProc
    /\ newId = 0
    /\ link = NoProc
    /\ lastMsg = FALSE
    /\ status = "none"
    /\ jobs = <<>>
    /\ jobId = [p \in Procs |-> 0]
    /\ dangling = FALSE
    /\ nextJobId = 1
    /\ queue = <<>>
    /\ background = {}
    /\ shown = <<>>
    /\ unseen = {} /\ unlisted = {} /\ unheard = {}
    /\ outdated = {} /\ held = {}

Listed == ToSet(jobs)
Running == pc \notin Stopped
Leaving == pc \in {"freeing", "exited"}

(* add_bg_process works on a cell that is not on the list yet. *)
Adding == pc \in AddPoints \ {"published"}

-----------------------------------------------------------------------------
(* The kernel: a child exits.  The parent gets a SIGCHLD and a zombie to   *)
(* reap, unless it ignores SIGCHLD, in which case nothing is left of it.   *)

ChildExit(p) ==
    /\ Running
    /\ proc[p] = "running"
    /\ \/ /\ disp = "handler"
          /\ proc' = [proc EXCEPT ![p] = "zombie"]
          /\ pending' = TRUE
          /\ UNCHANGED unseen
       \/ /\ disp = "ignore"
          /\ proc' = [proc EXCEPT ![p] = "reaped"]
          /\ unseen' = unseen \cup {p}
          /\ UNCHANGED pending
    /\ UNCHANGED <<disp, handling, mainVars, listVars, queue, background, shown,
                   unlisted, unheard, outdated, held>>

-----------------------------------------------------------------------------
(* The handler.                                                            *)

EnterHandler ==
    /\ pending /\ ~handling /\ disp = "handler"
    /\ Running
    /\ pending' = FALSE
    /\ handling' = TRUE
    /\ UNCHANGED <<proc, disp, mainVars, listVars, queue, background, shown,
                   mishaps>>

(* add_bg_message: append at the tail; the message is lost when memory is  *)
(* short.                                                                  *)
AddMessage_AtHead(p) == queue' = <<p>> \o queue

AddMessage(p) ==
    \/ queue' = Append(queue, p)
    \/ AllocFails /\ UNCHANGED queue

(* remove_bg_process for a child on the list: unlink its cell and reset    *)
(* the counter if bg_process_list is NULL now.                             *)
RemoveJob_KeepsCell(p) == UNCHANGED <<jobs, dangling, nextJobId>>

RemoveJob_NoRelink(p) ==
    \E i \in DOMAIN jobs :
        /\ jobs[i] = p
        /\ jobs' = SubSeq(jobs, 1, i - 1)
        /\ dangling' = (dangling \/ i > 1)
        /\ nextJobId' = IF jobs' = <<>> THEN 1 ELSE nextJobId

RemoveJob_AlwaysResets(p) ==
    \E i \in DOMAIN jobs :
        jobs[i] = p /\ jobs' = RemoveAt(jobs, i) /\ nextJobId' = 1 /\ UNCHANGED dangling

RemoveJob_NeverResets(p) ==
    \E i \in DOMAIN jobs :
        jobs[i] = p /\ jobs' = RemoveAt(jobs, i) /\ UNCHANGED <<nextJobId, dangling>>

RemoveJob(p) ==
    \E i \in DOMAIN jobs :
        /\ jobs[i] = p
        /\ jobs' = RemoveAt(jobs, i)
        /\ nextJobId' = IF jobs' = <<>> /\ ~dangling THEN 1 ELSE nextJobId
        /\ UNCHANGED dangling

(* The main thread has a pointer to the cell of p: the head it read for a  *)
(* new cell to point to, the new cell itself, or the cursor of ps.         *)
HoldsCell(p) ==
    \/ pc = "linked" /\ link = p
    \/ pc \in {"published", "listing"} /\ cur = p

(* mark_process_completed for a child on the list. *)
MarkCompleted(p) ==
    /\ p \in Listed
    /\ AddMessage(p)
    /\ RemoveJob(p)
    /\ unheard' = IF p \in ToSet(queue') /\ ~(pc = "unlink" /\ lastMsg)
                  THEN unheard ELSE unheard \cup {p}
    /\ outdated' = IF pc \in {"numbered", "bumped", "linked"} /\ jobs' = <<>>
                   THEN outdated \cup {cur} ELSE outdated
    /\ held' = IF HoldsCell(p) THEN held \cup {p} ELSE held
    /\ UNCHANGED <<pc, jobId, unseen>>

(* For a child that is not on the list the search runs off the list's end: *)
(* off the list that is being freed, perhaps.                              *)
MarkUnknown(p) ==
    /\ p \notin Listed
    /\ pc' = IF dangling THEN "aborted" ELSE pc
    /\ unseen' = IF Adding /\ cur = p THEN unseen \cup {p} ELSE unseen
    /\ held' = IF pc = "freeing" /\ dangling THEN held \cup {p} ELSE held
    /\ UNCHANGED <<listVars, queue, unheard, outdated>>

HandlerReap(p) ==
    /\ handling /\ Running
    /\ proc[p] = "zombie"
    /\ proc' = [proc EXCEPT ![p] = "reaped"]
    /\ MarkCompleted(p) \/ MarkUnknown(p)
    /\ UNCHANGED <<pending, disp, handling, cur, newId, link, lastMsg, status,
                   background, shown, unlisted>>

(* waitpid finds no further zombie. *)
HandlerReturn_AfterOne ==
    /\ handling /\ Running
    /\ handling' = FALSE
    /\ UNCHANGED <<kernelVars, mainVars, listVars, queue, background, shown,
                   mishaps>>

HandlerReturn ==
    /\ handling /\ Running
    /\ \A p \in Procs : proc[p] # "zombie"
    /\ handling' = FALSE
    /\ UNCHANGED <<kernelVars, mainVars, listVars, queue, background, shown,
                   mishaps>>

Handler == EnterHandler \/ (\E p \in Procs : HandlerReap(p)) \/ HandlerReturn

-----------------------------------------------------------------------------
(* The main thread, suspended while the handler runs.                      *)

At(point) == pc = point /\ ~handling
Goto(point) == pc' = point

(* get_next_bg_message up to its read of message->next. *)
LoadMessage_KeepsOne ==
    /\ At("drain")
    /\ \/ Len(queue) <= 1 /\ Goto("read") /\ UNCHANGED lastMsg
       \/ Len(queue) > 1 /\ Goto("unlink") /\ lastMsg' = FALSE
    /\ UNCHANGED <<kernelVars, handling, cur, newId, link, status, listVars,
                   queue, background, shown, mishaps>>

LoadMessage ==
    /\ At("drain")
    /\ \/ queue = <<>> /\ Goto("read") /\ UNCHANGED lastMsg
       \/ queue # <<>> /\ Goto("unlink") /\ lastMsg' = (Len(queue) = 1)
    /\ UNCHANGED <<kernelVars, handling, cur, newId, link, status, listVars,
                   queue, background, shown, mishaps>>

(* bg_message_queue = message->next with the value read before; then the   *)
(* message is displayed.                                                   *)
UnlinkMessage_DropsRest ==
    /\ At("unlink")
    /\ queue' = <<>>
    /\ shown' = Append(shown, Head(queue))
    /\ Goto("drain")
    /\ UNCHANGED <<kernelVars, handling, cur, newId, link, lastMsg, status,
                   listVars, background, mishaps>>

UnlinkMessage ==
    /\ At("unlink")
    /\ queue' = IF lastMsg THEN <<>> ELSE Tail(queue)
    /\ shown' = Append(shown, Head(queue))
    /\ Goto("drain")
    /\ UNCHANGED <<kernelVars, handling, cur, newId, link, lastMsg, status,
                   listVars, background, mishaps>>

Typed(c) == At("read") /\ c \in Commands

(* A command with no child and no access to the lists, and every command   *)
(* that fails before it has one.                                           *)
RunOther ==
    /\ Typed("other")
    /\ Goto("drain")
    /\ UNCHANGED <<kernelVars, handling, cur, newId, link, lastMsg, status,
                   listVars, queue, background, shown, mishaps>>

(* start-server: signal(SIGCHLD, SIG_IGN) in the shell itself, which also  *)
(* discards a pending SIGCHLD.  Nothing ever installs the handler again.   *)
StartServer ==
    /\ Typed("server")
    /\ disp' = "ignore"
    /\ pending' = FALSE
    /\ unseen' = unseen \cup {p \in Procs : proc[p] = "zombie"}
    /\ Goto("drain")
    /\ UNCHANGED <<proc, handling, cur, newId, link, lastMsg, status,
                   listVars, queue, background, shown, unlisted, unheard,
                   outdated, held>>

Fork(p) ==
    /\ proc[p] = "unborn"
    /\ proc' = [proc EXCEPT ![p] = "running"]
    /\ cur' = p
    /\ UNCHANGED <<pending, disp, handling, newId, link, lastMsg, listVars,
                   queue, shown, mishaps>>

ForkForeground(p) ==
    /\ Typed("fg")
    /\ Fork(p)
    /\ Goto("waiting")
    /\ status' = "none"
    /\ UNCHANGED background

WaitForeground_Retries ==
    /\ At("waiting")
    /\ proc[cur] = "zombie"
    /\ proc' = [proc EXCEPT ![cur] = "reaped"]
    /\ status' = "exit"
    /\ Goto("drain")
    /\ UNCHANGED <<pending, disp, handling, cur, newId, link, lastMsg,
                   listVars, queue, background, shown, mishaps>>

(* waitpid(pid, &status, 0): it sets status if the child is there to reap; *)
(* it fails and leaves status unset once the child is gone.                *)
WaitForeground ==
    /\ At("waiting")
    /\ \/ /\ proc[cur] = "zombie"
          /\ proc' = [proc EXCEPT ![cur] = "reaped"]
          /\ status' = "exit"
       \/ /\ proc[cur] = "reaped"
          /\ status' = "unset"
          /\ UNCHANGED proc
    /\ Goto("drain")
    /\ UNCHANGED <<pending, disp, handling, cur, newId, link, lastMsg,
                   listVars, queue, background, shown, mishaps>>

ForkBackground(p) ==
    /\ Typed("bg")
    /\ Fork(p)
    /\ Goto("forked")
    /\ background' = background \cup {p}
    /\ UNCHANGED status

(* add_bg_process returns early: the job runs but is on no list. *)
Unlisted ==
    /\ Goto("drain")
    /\ unlisted' = unlisted \cup {cur}

(* add_bg_process: malloc, and the read half of next_job_id++. *)
NumberJob ==
    /\ At("forked")
    /\ \/ /\ Goto("numbered")
          /\ newId' = nextJobId
          /\ UNCHANGED unlisted
       \/ AllocFails /\ Unlisted /\ UNCHANGED newId
    /\ UNCHANGED <<kernelVars, handling, cur, link, lastMsg, status, listVars,
                   queue, background, shown, unseen, unheard, outdated, held>>

(* The write half of next_job_id++. *)
BumpCounter ==
    /\ At("numbered")
    /\ nextJobId' = newId + 1
    /\ Goto("bumped")
    /\ UNCHANGED <<kernelVars, handling, cur, newId, link, lastMsg, status,
                   jobs, jobId, dangling, queue, background, shown,
                   mishaps>>

(* strdup, then new_process->next = bg_process_list. *)
LinkJob ==
    /\ At("bumped")
    /\ \/ /\ Goto("linked")
          /\ link' = IF jobs = <<>> THEN NoProc ELSE Head(jobs)
          /\ UNCHANGED unlisted
       \/ AllocFails /\ Unlisted /\ UNCHANGED link
    /\ UNCHANGED <<kernelVars, handling, cur, newId, lastMsg, status, listVars,
                   queue, background, shown, unseen, unheard, outdated, held>>

(* bg_process_list = new_process.  When the cell read as head has been     *)
(* freed meanwhile, the new cell points to freed memory and the rest of    *)
(* the list is out of reach.                                               *)
PublishJob ==
    /\ At("linked")
    /\ jobId' = [jobId EXCEPT ![cur] = newId]
    /\ \/ /\ link = NoProc \/ link \in Listed
          /\ jobs' = <<cur>> \o jobs
          /\ UNCHANGED dangling
       \/ /\ link # NoProc /\ link \notin Listed
          /\ jobs' = <<cur>>
          /\ dangling' = TRUE
    /\ Goto("published")
    /\ UNCHANGED <<kernelVars, handling, cur, newId, link, lastMsg, status,
                   nextJobId, queue, background, shown,
                   mishaps>>

(* "[job_id] pid": the cell is read again, through a pointer that the      *)
(* handler may have freed.                                                 *)
ReportJob ==
    /\ At("published")
    /\ Goto(IF cur \in Listed THEN "drain" ELSE "aborted")
    /\ UNCHANGED <<kernelVars, handling, cur, newId, link, lastMsg, status,
                   listVars, queue, background, shown, mishaps>>

(* ps walks the list with a cursor: cur is the cell it displays next. *)
StartPs ==
    /\ Typed("ps")
    /\ \/ /\ jobs # <<>>
          /\ cur' = Head(jobs)
          /\ Goto("listing")
       \/ /\ jobs = <<>>
          /\ Goto(IF dangling THEN "aborted" ELSE "drain")
          /\ UNCHANGED cur
    /\ UNCHANGED <<kernelVars, handling, newId, link, lastMsg, status,
                   listVars, queue, background, shown, mishaps>>

StepPs ==
    /\ At("listing")
    /\ \/ /\ cur \notin Listed
          /\ Goto("aborted") /\ UNCHANGED cur
       \/ \E i \in DOMAIN jobs :
             /\ jobs[i] = cur
             /\ \/ i < Len(jobs) /\ cur' = jobs[i + 1] /\ UNCHANGED pc
                \/ /\ i = Len(jobs)
                   /\ Goto(IF dangling THEN "aborted" ELSE "drain")
                   /\ UNCHANGED cur
    /\ UNCHANGED <<kernelVars, handling, newId, link, lastMsg, status,
                   listVars, queue, background, shown, mishaps>>

(* exit or end of input: free_bg_processes frees cell after cell and only  *)
(* at its end clears bg_process_list.                                      *)
BeginExit ==
    /\ Typed("exit")
    /\ Goto(IF dangling THEN "aborted" ELSE "freeing")
    /\ jobs' = IF dangling THEN jobs ELSE <<>>
    /\ dangling' = (dangling \/ jobs # <<>>)
    /\ UNCHANGED <<kernelVars, handling, cur, newId, link, lastMsg, status,
                   jobId, nextJobId, queue, background, shown,
                   mishaps>>

(* bg_process_list = NULL and free_bg_messages. *)
FinishExit ==
    /\ At("freeing")
    /\ Goto("exited")
    /\ dangling' = FALSE
    /\ queue' = <<>>
    /\ UNCHANGED <<kernelVars, handling, cur, newId, link, lastMsg, status,
                   jobs, jobId, nextJobId, background, shown,
                   mishaps>>

Main ==
    \/ LoadMessage \/ UnlinkMessage
    \/ RunOther \/ StartServer
    \/ (\E p \in Procs : ForkForeground(p)) \/ WaitForeground
    \/ (\E p \in Procs : ForkBackground(p))
    \/ NumberJob \/ BumpCounter \/ LinkJob \/ PublishJob \/ ReportJob
    \/ StartPs \/ StepPs
    \/ BeginExit \/ FinishExit

(* The process is gone; nothing more happens. *)
Terminated == ~Running /\ UNCHANGED vars

Next == (\E p \in Procs : ChildExit(p)) \/ Handler \/ Main \/ Terminated

Spec == Init /\ [][Next]_vars

-----------------------------------------------------------------------------
(* Children and their signals.                                             *)

Reported == shown \o queue

(* A zombie is never forgotten: while the handler is installed, a child    *)
(* that exited unnoticed has a SIGCHLD pending or the handler is running.  *)
(* Signals are not counted, so this is what the loop around waitpid in     *)
(* sigchld_handler is for (mysh.c:47).                                     *)
NoZombieForgotten ==
    (disp = "handler" /\ ~handling /\ Running) =>
        \A p \in Procs : proc[p] = "zombie" => pending

(* A Done message tells the truth wherever the signal strikes: it is about *)
(* a background job that was reaped and is no longer listed, and no job    *)
(* has two of them (mark_process_completed, commands.c:249-263).           *)
DoneTruthful ==
    /\ \A i \in DOMAIN Reported :
          /\ Reported[i] \in background
          /\ proc[Reported[i]] = "reaped"
          /\ Reported[i] \notin Listed
    /\ IsInjective(Reported)

(* The end of every background job gets to the user: a reaped job has its  *)
(* Done message displayed or waiting (tests_bg.py:124-142).                *)
EveryEndReported ==
    (Running /\ pc # "freeing") =>
        \A p \in background : proc[p] = "reaped" => p \in ToSet(Reported)

(* No end of a job gets lost but in three ways: the child was reaped before *)
(* add_bg_process had listed it or after start-server, there was no memory *)
(* for its cell or message, or its message was appended to the one that    *)
(* get_next_bg_message was taking off (commands.c:218-223).                *)
DoneNotLost ==
    (Running /\ pc # "freeing") =>
        \A p \in background :
            proc[p] = "reaped" =>
                p \in ToSet(Reported) \cup unseen \cup unlisted \cup unheard

(* ps lists no job that is over, but for one whose end the handler could   *)
(* not match with a cell (list_bg_processes, commands.c:146-157).          *)
JobsAlive == \A p \in Listed : proc[p] = "reaped" => p \in unseen

-----------------------------------------------------------------------------
(* The list and its counter.                                               *)

(* The shell touches freed memory, or keeps a list that leads to it, only  *)
(* when the handler removed a job whose cell the main thread had a pointer *)
(* to, or walked the list while it was being freed.  No other order of the *)
(* two threads' steps breaks the list (commands.c:58-126, 146-174).        *)
ListWhole ==
    (dangling \/ pc = "aborted") => (pc = "freeing" \/ held # {})

(* Two listed jobs have the same number only if one of them was numbered   *)
(* before the list became empty and the counter started again at 1         *)
(* (commands.c:70 and 117).                                                *)
IdsDistinct ==
    \A i, j \in DOMAIN jobs :
        jobId[jobs[i]] = jobId[jobs[j]] =>
            i = j \/ jobs[i] \in outdated \/ jobs[j] \in outdated

(* When every background job has been reaped and the shell waits for       *)
(* input, numbering starts again at 1 (tests_bg.py:169), unless a job is   *)
(* listed for ever, was never listed, or hangs off a torn list.            *)
CounterReset ==
    /\ pc = "read" /\ ~handling
    /\ \A p \in background : proc[p] = "reaped" /\ p \notin unseen \cup unlisted
    /\ held = {}
    => nextJobId = 1

-----------------------------------------------------------------------------
(* Progress.                                                               *)

(* The kernel delivers a signal that stays pending and runs the handler to *)
(* its end; the shell goes on, and its user enters lines; every child ends *)
(* some day.                                                               *)
FairHandler == WF_vars(Handler)
FairMain == WF_vars(Main)
FairChildren == \A p \in Procs : WF_vars(ChildExit(p))
FairSpec == Spec /\ FairHandler /\ FairMain /\ FairChildren

(* Every child that exits is reaped, unless start-server switched the      *)
(* handler off: no zombie stays for the life of the shell                  *)
(* (sigchld_handler, mysh.c:41-51).                                        *)
ZombiesReaped ==
    \A p \in Procs :
        (proc[p] = "zombie" /\ disp = "handler")
            ~> (proc[p] = "reaped" \/ disp = "ignore" \/ ~Running)

(* Every background job is announced as Done, or it is one of those of     *)
(* DoneNotLost, or the shell ends first (main's loop over                  *)
(* get_next_bg_message, mysh.c:337-342).                                   *)
EveryJobAnnounced ==
    \A p \in Procs :
        p \in background ~>
            (p \in ToSet(shown) \cup unseen \cup unlisted \cup unheard \/ ~Running)

(* The prompt comes back after every command: the wait for a foreground    *)
(* child ends whoever reaps the child, waitpid, the handler or the kernel  *)
(* (commands.c:476-478), ps comes to the end of a list that changes under  *)
(* it, and the messages run out.                                           *)
PromptReturns == Running ~> (pc = "read" \/ ~Running)

-----------------------------------------------------------------------------
(* The job list as its user sees it.  The counter is ahead of the list     *)
(* while a new cell is numbered but not yet published.                     *)
Table == INSTANCE JobTable WITH
    Jobs <- Procs,
    up <- ~Leaving,
    listed <- Listed,
    number <- jobId,
    counter <- IF pc \notin {"bumped", "linked"} THEN nextJobId
               ELSE IF cur \in outdated THEN 1 ELSE newId,
    finished <- IF Leaving THEN shown ELSE Reported,
    told <- Len(shown)

(* The code keeps the promises of JobTable, which names what each mishap   *)
(* may spoil: every step of add_bg_process, the handler, the message loop  *)
(* and the clean-up, wherever signals strike, is one of its steps or       *)
(* changes nothing the user can see.                                       *)
TableSpec == Table!Spec

=============================================================================
