-------------------------- MODULE JobControlProofs --------------------------
(***************************************************************************)
(* Theorems about JobControl, for every set of children and every choice   *)
(* of commands, with memory short or not, and with SIGCHLD striking at     *)
(* every point of the main thread.                                         *)
(***************************************************************************)
EXTENDS JobControl, ListLemmas

-----------------------------------------------------------------------------
(* Types.  The type of the lists needs two facts about the main thread:    *)
(* where a command has a child, cur is that child, and between the two     *)
(* halves of get_next_bg_message the queue is not empty.                   *)

TypeInv ==
    /\ TypeOK
    /\ pc \in AddPoints \cup {"waiting"} => cur \in Procs
    /\ pc = "unlink" => queue # <<>>

LEMMA TypeInvInit == Init => TypeInv
<1> SUFFICES ASSUME Init PROVE TypeInv
    OBVIOUS
<1>1. proc \in [Procs -> ProcStates] /\ jobId \in [Procs -> Nat]
    BY DEF Init, ProcStates
<1>2. <<>> \in Seq(Procs)
    OBVIOUS
<1> QED
    BY <1>1, <1>2 DEF Init, TypeInv, TypeOK, MainPoints, AddPoints

(* Removing a job keeps the list a list of children. *)
LEMMA RemoveJobType ==
    ASSUME TypeOK, NEW p, RemoveJob(p)
    PROVE  jobs' \in Seq(Procs) /\ nextJobId' \in Nat
<1>1. jobs' \in Seq(Procs)
    <2>1. PICK i \in 1 .. Len(jobs) : jobs' = RemoveAt(jobs, i)
        BY DEF RemoveJob, TypeOK
    <2> QED
        BY <2>1, RemoveAtProperties DEF TypeOK
<1>2. nextJobId' \in Nat
    BY DEF RemoveJob, TypeOK
<1> QED
    BY <1>1, <1>2

(* The history of mishaps: sets of children that only grow. *)
MishapType ==
    /\ unseen \subseteq Procs /\ unlisted \subseteq Procs
    /\ unheard \subseteq Procs /\ outdated \subseteq Procs /\ held \subseteq Procs

MishapsGrow ==
    /\ unseen \subseteq unseen' /\ unlisted \subseteq unlisted'
    /\ unheard \subseteq unheard' /\ outdated \subseteq outdated'
    /\ held \subseteq held'

LEMMA MishapsStep == TypeInv /\ [Next]_vars => MishapType' /\ MishapsGrow
<1> SUFFICES ASSUME TypeInv, [Next]_vars
             PROVE  MishapType' /\ MishapsGrow
    OBVIOUS
<1>0. MishapType /\ (pc \in AddPoints => cur \in Procs)
    BY DEF TypeInv, TypeOK, MishapType
<1> USE DEF MishapType, MishapsGrow, mishaps
<1>1. ASSUME NEW p \in Procs, ChildExit(p) PROVE MishapType' /\ MishapsGrow
    BY <1>0, <1>1 DEF ChildExit
<1>2. ASSUME NEW p \in Procs, HandlerReap(p) PROVE MishapType' /\ MishapsGrow
    <2>1. CASE MarkCompleted(p)
        BY <1>0, <1>2, <2>1 DEF HandlerReap, MarkCompleted, AddPoints
    <2>2. CASE MarkUnknown(p)
        BY <1>0, <1>2, <2>2 DEF HandlerReap, MarkUnknown
    <2> QED
        BY <1>2, <2>1, <2>2 DEF HandlerReap
<1>3. CASE StartServer
    BY <1>0, <1>3 DEF StartServer
<1>4. CASE NumberJob \/ LinkJob
    BY <1>0, <1>4 DEF NumberJob, LinkJob, Unlisted, At, AddPoints
<1>5. ASSUME UNCHANGED mishaps PROVE MishapType' /\ MishapsGrow
    BY <1>0, <1>5
<1>6. CASE EnterHandler \/ HandlerReturn
    BY <1>5, <1>6 DEF EnterHandler, HandlerReturn
<1>7. CASE LoadMessage \/ UnlinkMessage \/ RunOther \/ WaitForeground
    BY <1>5, <1>7 DEF LoadMessage, UnlinkMessage, RunOther, WaitForeground
<1>8. ASSUME NEW p \in Procs, ForkForeground(p) \/ ForkBackground(p)
      PROVE  MishapType' /\ MishapsGrow
    BY <1>5, <1>8 DEF ForkForeground, ForkBackground, Fork
<1>9. CASE BumpCounter \/ PublishJob \/ ReportJob
    BY <1>5, <1>9 DEF BumpCounter, PublishJob, ReportJob
<1>10. CASE StartPs \/ StepPs \/ BeginExit \/ FinishExit
    BY <1>5, <1>10 DEF StartPs, StepPs, BeginExit, FinishExit
<1>11. CASE UNCHANGED vars
    BY <1>5, <1>11 DEF vars
<1> QED
    BY <1>1, <1>2, <1>3, <1>4, <1>6, <1>7, <1>8, <1>9, <1>10, <1>11
    DEF Next, Handler, Main, Terminated

LEMMA TypeInvStep == TypeInv /\ [Next]_vars => TypeInv'
<1> SUFFICES ASSUME TypeInv, [Next]_vars
             PROVE  TypeInv'
    OBVIOUS
<1>0. /\ unseen' \in SUBSET Procs /\ unlisted' \in SUBSET Procs
      /\ unheard' \in SUBSET Procs /\ outdated' \in SUBSET Procs
      /\ held' \in SUBSET Procs
    BY MishapsStep DEF MishapType
<1> USE <1>0 DEF TypeInv, TypeOK, vars, kernelVars, mainVars, listVars, ProcStates,
            MainPoints, AddPoints, Stopped, Running, At, Goto, Typed, Fork
<1>1. ASSUME NEW p \in Procs, ChildExit(p) PROVE TypeInv'
    <2>1. proc' \in [Procs -> ProcStates]
        BY <1>1 DEF ChildExit
    <2>2. pending' \in BOOLEAN
        BY <1>1, Zenon DEF ChildExit
    <2> QED
        BY <1>1, <2>1, <2>2 DEF ChildExit
<1>2. CASE EnterHandler
    BY <1>2 DEF EnterHandler
<1>3. ASSUME NEW p \in Procs, HandlerReap(p) PROVE TypeInv'
    <2>1. proc' \in [Procs -> ProcStates]
        BY <1>3 DEF HandlerReap
    <2>2. CASE MarkCompleted(p)
        <3>1. jobs' \in Seq(Procs) /\ nextJobId' \in Nat
            BY <2>2, RemoveJobType DEF MarkCompleted
        <3>2. /\ queue' \in Seq(Procs)
              /\ queue # <<>> => queue' # <<>>
            <4>1. queue \in Seq(Procs)
                OBVIOUS
            <4>2. /\ Append(queue, p) \in Seq(Procs)
                  /\ Append(queue, p) # <<>>
                BY ONLY <4>1, <1>3, AppendProperties
            <4> QED
                BY <2>2, <4>2 DEF MarkCompleted, AddMessage
        <3>3. UNCHANGED <<pc, jobId, dangling, pending, disp, handling, cur, newId, link,
                          lastMsg, status, background, shown>>
            BY <1>3, <2>2 DEF HandlerReap, MarkCompleted, RemoveJob
        <3> QED
            BY <2>1, <3>1, <3>2, <3>3
    <2>3. CASE MarkUnknown(p)
        BY <1>3, <2>1, <2>3 DEF HandlerReap, MarkUnknown
    <2> QED
        BY <1>3, <2>2, <2>3 DEF HandlerReap
<1>4. CASE HandlerReturn
    <2>1. /\ handling' = FALSE
          /\ UNCHANGED <<kernelVars, mainVars, listVars, queue, background, shown>>
        BY <1>4 DEF HandlerReturn
    <2>2. pending' \in BOOLEAN /\ lastMsg' \in BOOLEAN /\ dangling' \in BOOLEAN
        BY <2>1, Zenon
    <2>3. /\ proc' \in [Procs -> ProcStates] /\ jobId' \in [Procs -> Nat]
          /\ jobs' \in Seq(Procs) /\ queue' \in Seq(Procs) /\ shown' \in Seq(Procs)
        BY <2>1, Zenon
    <2> QED
        BY <2>1, <2>2, <2>3
<1>5. CASE LoadMessage
    <2>1. lastMsg' \in BOOLEAN
        BY <1>5, Zenon DEF LoadMessage
    <2> QED
        BY <1>5, <2>1 DEF LoadMessage
<1>6. CASE UnlinkMessage
    <2>1. Head(queue) \in Procs /\ Tail(queue) \in Seq(Procs)
        BY <1>6, HeadTailProperties DEF UnlinkMessage
    <2>2. shown' \in Seq(Procs) /\ queue' \in Seq(Procs)
        BY <1>6, <2>1, AppendProperties DEF UnlinkMessage
    <2> QED
        BY <1>6, <2>2 DEF UnlinkMessage
<1>7. CASE RunOther
    BY <1>7 DEF RunOther
<1>8. CASE StartServer
    BY <1>8 DEF StartServer
<1>9. ASSUME NEW p \in Procs, ForkForeground(p) PROVE TypeInv'
    BY <1>9 DEF ForkForeground
<1>10. CASE WaitForeground
    BY <1>10 DEF WaitForeground
<1>11. ASSUME NEW p \in Procs, ForkBackground(p) PROVE TypeInv'
    BY <1>11 DEF ForkBackground
<1>12. CASE NumberJob
    BY <1>12 DEF NumberJob, Unlisted
<1>13. CASE BumpCounter
    BY <1>13 DEF BumpCounter
<1>14. CASE LinkJob
    <2>1. jobs # <<>> => Head(jobs) \in Procs
        BY HeadTailProperties
    <2> QED
        BY <1>14, <2>1 DEF LinkJob, Unlisted
<1>15. CASE PublishJob
    <2>1. <<cur>> \in Seq(Procs) /\ <<cur>> \o jobs \in Seq(Procs)
        BY <1>15, PushProperties DEF PublishJob
    <2>2. jobs' \in Seq(Procs)
        BY <1>15, <2>1 DEF PublishJob
    <2>3. jobId' \in [Procs -> Nat]
        BY <1>15 DEF PublishJob
    <2> QED
        BY <1>15, <2>2, <2>3 DEF PublishJob
<1>16. CASE ReportJob
    BY <1>16 DEF ReportJob
<1>17. CASE StartPs
    <2>1. jobs # <<>> => Head(jobs) \in Procs
        BY HeadTailProperties
    <2> QED
        BY <1>17, <2>1 DEF StartPs
<1>18. CASE StepPs
    <2>1. \A i \in DOMAIN jobs : i < Len(jobs) => jobs[i + 1] \in Procs
        OBVIOUS
    <2> QED
        BY <1>18, <2>1 DEF StepPs
<1>19. CASE BeginExit
    <2>1. pending' \in BOOLEAN /\ dangling' \in BOOLEAN
        BY <1>19, Zenon DEF BeginExit
    <2>2. jobs' \in Seq(Procs) /\ pc' \in {"freeing", "aborted"}
        BY <1>19 DEF BeginExit
    <2> QED
        BY <1>19, <2>1, <2>2 DEF BeginExit
<1>20. CASE FinishExit
    <2>1. pending' \in BOOLEAN /\ dangling' \in BOOLEAN
        BY <1>20, Zenon DEF FinishExit
    <2> QED
        BY <1>20, <2>1 DEF FinishExit
<1>21. CASE UNCHANGED vars
    BY <1>21
<1> QED
    BY <1>1, <1>2, <1>3, <1>4, <1>5, <1>6, <1>7, <1>8, <1>9, <1>10, <1>11,
       <1>12, <1>13, <1>14, <1>15, <1>16, <1>17, <1>18, <1>19, <1>20, <1>21
    DEF Next, Handler, Main, Terminated

LEMMA TypeInvAlways == Spec => []TypeInv
BY TypeInvInit, TypeInvStep, PTL DEF Spec

(* Every variable keeps its type, whatever the schedule of signals. *)
THEOREM TypeCorrect == Spec => []TypeOK
<1>1. Spec => []TypeInv
    BY TypeInvAlways
<1>2. TypeInv => TypeOK
    BY DEF TypeInv
<1> QED
    BY <1>1, <1>2, PTL

-----------------------------------------------------------------------------
(* Zombies.  Only an exit makes one, and then the signal is pending; the   *)
(* handler that takes the signal reaps until no zombie is left.            *)

(* The steps of the main thread that leave children and signals alone. *)
Elsewhere ==
    \/ LoadMessage \/ UnlinkMessage \/ RunOther
    \/ NumberJob \/ BumpCounter \/ LinkJob \/ PublishJob \/ ReportJob
    \/ StartPs \/ StepPs \/ BeginExit \/ FinishExit

LEMMA ElsewhereFrame ==
    Elsewhere => Running /\ proc' = proc /\ pending' = pending
                    /\ disp' = disp /\ handling' = handling
BY DEF Elsewhere, LoadMessage, UnlinkMessage, RunOther, NumberJob, BumpCounter,
       LinkJob, PublishJob, ReportJob, StartPs, StepPs, BeginExit, FinishExit,
       At, Typed, Running, Stopped, kernelVars

LEMMA NoZombieForgottenStep ==
    TypeInv /\ NoZombieForgotten /\ [Next]_vars => NoZombieForgotten'
<1> SUFFICES ASSUME TypeInv, NoZombieForgotten, [Next]_vars
             PROVE  NoZombieForgotten'
    OBVIOUS
<1> USE DEF NoZombieForgotten, kernelVars, mainVars, Running
<1>0. proc \in [Procs -> ProcStates]
    BY DEF TypeInv, TypeOK
<1>1. ASSUME NEW p \in Procs, ChildExit(p) PROVE NoZombieForgotten'
    BY <1>0, <1>1 DEF ChildExit
<1>2. CASE EnterHandler
    BY <1>2 DEF EnterHandler
<1>3. ASSUME NEW p \in Procs, HandlerReap(p) PROVE NoZombieForgotten'
    BY <1>3 DEF HandlerReap
<1>4. CASE HandlerReturn
    BY <1>4 DEF HandlerReturn
<1>5. CASE StartServer
    BY <1>5 DEF StartServer
<1>6. ASSUME NEW p \in Procs, ForkForeground(p) \/ ForkBackground(p)
      PROVE  NoZombieForgotten'
    BY <1>0, <1>6 DEF ForkForeground, ForkBackground, Fork, Typed, At, Stopped
<1>7. CASE WaitForeground
    BY <1>0, <1>7 DEF WaitForeground, At, Stopped
<1>8. CASE Elsewhere
    BY <1>8, ElsewhereFrame
<1>9. CASE UNCHANGED vars
    BY <1>9 DEF vars
<1> QED
    BY <1>1, <1>2, <1>3, <1>4, <1>5, <1>6, <1>7, <1>8, <1>9
    DEF Next, Handler, Main, Terminated, Elsewhere

(* No zombie is forgotten, at whatever points signals strike. *)
THEOREM ZombiesRemembered == Spec => []NoZombieForgotten
<1>1. Init => NoZombieForgotten
    BY DEF Init, NoZombieForgotten
<1>2. Spec => []TypeInv
    BY TypeInvAlways
<1> QED
    BY <1>1, <1>2, NoZombieForgottenStep, PTL DEF Spec

-----------------------------------------------------------------------------
(* Done messages.  A cell is in the list at most once, a child that is     *)
(* being added is in no list yet (though it may be over already), and the  *)
(* children whose messages were queued are reaped and off the list.        *)

Told == ToSet(shown) \cup ToSet(queue)



ReportInv ==
    /\ IsInjective(jobs)
    /\ Listed \subseteq background
    /\ \A p \in background : proc[p] # "unborn"
    /\ Adding => cur \in background /\ cur \notin Listed \cup Told
    /\ Told \subseteq background \ Listed
    /\ \A p \in Told : proc[p] = "reaped"
    /\ IsInjective(shown) /\ IsInjective(queue)
    /\ ToSet(shown) \cap ToSet(queue) = {}

LEMMA EmptyList == ToSet(<<>>) = {} /\ IsInjective(<<>>)
BY DEF ToSet, IsInjective

LEMMA ReportInvInit == Init => ReportInv
BY EmptyList DEF Init, ReportInv, Listed, Told, Adding, AddPoints

(* What unlinking a cell does to the set of listed children. *)
LEMMA RemoveJobSet ==
    ASSUME TypeOK, IsInjective(jobs), NEW p, RemoveJob(p)
    PROVE  Listed' = Listed \ {p} /\ IsInjective(jobs')
<1>1. PICK i \in 1 .. Len(jobs) : jobs[i] = p /\ jobs' = RemoveAt(jobs, i)
    BY DEF RemoveJob, TypeOK
<1> QED
    BY <1>1, RemoveAtSet DEF TypeOK, Listed

(* The steps that change no list: they keep the invariant if they bring no *)
(* new child to the point of being added.                                  *)
LEMMA ReportInvFrame ==
    ASSUME ReportInv, jobs' = jobs, queue' = queue, shown' = shown,
           background' = background,
           \A p \in background : proc'[p] # "unborn",
           \A p \in Told : proc'[p] = "reaped",
           Adding' => Adding /\ cur' = cur
    PROVE  ReportInv'
BY DEF ReportInv, Listed, Told

LEMMA ReportInvStep == TypeInv /\ ReportInv /\ [Next]_vars => ReportInv'
<1> SUFFICES ASSUME TypeInv, ReportInv, [Next]_vars
             PROVE  ReportInv'
    OBVIOUS
<1>0. /\ TypeOK
      /\ proc \in [Procs -> ProcStates]
      /\ jobs \in Seq(Procs) /\ queue \in Seq(Procs) /\ shown \in Seq(Procs)
      /\ background \subseteq Procs
    BY DEF TypeInv, TypeOK
<1>a. /\ \A p \in background : proc[p] # "unborn"
      /\ \A p \in Told : proc[p] = "reaped"
      /\ Told \subseteq Procs
    BY <1>0 DEF ReportInv
<1> USE DEF Adding, AddPoints, At, Goto, kernelVars, mainVars, listVars
<1>1. ASSUME NEW p \in Procs, ChildExit(p) PROVE ReportInv'
    <2>1. \A q \in background : proc'[q] # "unborn"
        BY <1>0, <1>a, <1>1 DEF ChildExit
    <2>2. \A q \in Told : proc'[q] = "reaped"
        BY <1>0, <1>a, <1>1 DEF ChildExit
    <2> QED
        BY <1>1, <2>1, <2>2, ReportInvFrame DEF ChildExit
<1>2. ASSUME NEW p \in Procs, HandlerReap(p) PROVE ReportInv'
    <2>1. proc' = [proc EXCEPT ![p] = "reaped"] /\ proc[p] = "zombie"
        BY <1>2 DEF HandlerReap
    <2>2. /\ \A q \in background : proc'[q] # "unborn"
          /\ \A q \in Told \cup {p} : proc'[q] = "reaped"
        BY <1>0, <1>a, <2>1
    <2>3. CASE MarkUnknown(p)
        BY <1>2, <2>2, <2>3, ReportInvFrame DEF HandlerReap, MarkUnknown
    <2>4. CASE MarkCompleted(p)
        <3>1. Listed' = Listed \ {p} /\ IsInjective(jobs') /\ p \in Listed
            BY <1>0, <2>4, RemoveJobSet DEF MarkCompleted, ReportInv
        <3>2. p \notin Told
            BY <1>a, <2>1
        <3>3. /\ ToSet(queue') \subseteq ToSet(queue) \cup {p}
              /\ IsInjective(queue')
            <4>1. /\ ToSet(Append(queue, p)) = ToSet(queue) \cup {p}
                  /\ IsInjective(Append(queue, p))
                BY <1>0, <3>2, AppendedProperties DEF ReportInv, Told
            <4> QED
                BY <2>4, <4>1 DEF MarkCompleted, AddMessage, ReportInv
        <3>4. /\ shown' = shown /\ background' = background
              /\ cur' = cur /\ pc' = pc
            BY <1>2, <2>4 DEF HandlerReap, MarkCompleted
        <3>5. Told' \subseteq Told \cup {p}
            BY <3>3, <3>4 DEF Told
        <3>6. ToSet(shown') \cap ToSet(queue') = {}
            BY <3>2, <3>3, <3>4 DEF ReportInv, Told
        <3>7. Adding' => cur' \in background' /\ cur' \notin Listed' \cup Told'
            BY <3>1, <3>4, <3>5 DEF ReportInv
        <3> QED
            BY <2>2, <3>1, <3>3, <3>4, <3>5, <3>6, <3>7 DEF ReportInv
    <2> QED
        BY <1>2, <2>3, <2>4 DEF HandlerReap
<1>3. CASE UnlinkMessage
    <2>1. queue # <<>>
        BY <1>3 DEF UnlinkMessage, TypeInv
    <2>2. /\ ToSet(queue) = ToSet(Tail(queue)) \cup {Head(queue)}
          /\ IsInjective(Tail(queue)) /\ Head(queue) \notin ToSet(Tail(queue))
          /\ Head(queue) \in Procs
        BY <1>0, <2>1, PopProperties DEF ReportInv
    <2>3. /\ ToSet(shown') = ToSet(shown) \cup {Head(queue)}
          /\ IsInjective(shown')
        BY <1>0, <1>3, <2>2, AppendedProperties DEF UnlinkMessage, ReportInv
    <2>4. /\ ToSet(queue') \subseteq ToSet(Tail(queue))
          /\ IsInjective(queue')
        BY <1>3, <2>2, EmptyList DEF UnlinkMessage
    <2>5. Told' \subseteq Told /\ ToSet(shown') \cap ToSet(queue') = {}
        BY <2>2, <2>3, <2>4 DEF Told, ReportInv
    <2>6. /\ jobs' = jobs /\ background' = background /\ proc' = proc
          /\ ~Adding'
        BY <1>3 DEF UnlinkMessage
    <2> QED
        BY <2>3, <2>4, <2>5, <2>6 DEF ReportInv, Listed
<1>4. ASSUME NEW p \in Procs, ForkForeground(p) PROVE ReportInv'
    <2>1. /\ \A q \in background : proc'[q] # "unborn"
          /\ \A q \in Told : proc'[q] = "reaped"
        BY <1>0, <1>a, <1>4 DEF ForkForeground, Fork
    <2> QED
        BY <1>4, <2>1, ReportInvFrame DEF ForkForeground, Fork
<1>5. ASSUME NEW p \in Procs, ForkBackground(p) PROVE ReportInv'
    <2>1. /\ proc[p] = "unborn" /\ proc' = [proc EXCEPT ![p] = "running"]
          /\ jobs' = jobs /\ queue' = queue /\ shown' = shown
          /\ background' = background \cup {p} /\ cur' = p
        BY <1>5 DEF ForkBackground, Fork
    <2>2. p \notin background /\ p \notin Listed /\ p \notin Told
        BY <1>a, <2>1 DEF ReportInv
    <2>3. /\ \A q \in background' : proc'[q] # "unborn"
          /\ \A q \in Told : proc'[q] = "reaped"
        BY <1>0, <1>a, <2>1, <2>2
    <2> QED
        BY <2>1, <2>2, <2>3 DEF ReportInv, Listed, Told
<1>6. CASE WaitForeground
    <2>1. /\ \A q \in background : proc'[q] # "unborn"
          /\ \A q \in Told : proc'[q] = "reaped"
        BY <1>0, <1>a, <1>6 DEF WaitForeground
    <2> QED
        BY <1>6, <2>1, ReportInvFrame DEF WaitForeground
<1>7. CASE PublishJob
    <2>1. /\ cur \in Procs /\ cur \in background
          /\ cur \notin Listed /\ cur \notin Told
        BY <1>7 DEF PublishJob, TypeInv, ReportInv
    <2>2. /\ ToSet(<<cur>> \o jobs) = Listed \cup {cur}
          /\ IsInjective(<<cur>> \o jobs)
        BY <1>0, <2>1, PushProperties DEF ReportInv, Listed
    <2>3. ToSet(<<cur>>) = {cur} /\ IsInjective(<<cur>>)
        BY DEF ToSet, IsInjective
    <2>4. Listed' \subseteq Listed \cup {cur} /\ IsInjective(jobs')
        BY <1>7, <2>2, <2>3 DEF PublishJob, Listed
    <2>5. /\ queue' = queue /\ shown' = shown /\ background' = background
          /\ proc' = proc /\ ~Adding'
        BY <1>7 DEF PublishJob
    <2> QED
        BY <2>1, <2>4, <2>5 DEF ReportInv, Told
<1>8. CASE BeginExit
    <2>1. Listed' \subseteq Listed /\ IsInjective(jobs')
        BY <1>8, EmptyList DEF BeginExit, Listed, ReportInv
    <2>2. /\ queue' = queue /\ shown' = shown /\ background' = background
          /\ proc' = proc /\ ~Adding'
        BY <1>8 DEF BeginExit
    <2> QED
        BY <2>1, <2>2 DEF ReportInv, Told
<1>9. CASE FinishExit
    <2>1. ToSet(queue') = {} /\ IsInjective(queue')
        BY <1>9, EmptyList DEF FinishExit
    <2>2. /\ jobs' = jobs /\ shown' = shown /\ background' = background
          /\ proc' = proc /\ ~Adding'
        BY <1>9 DEF FinishExit
    <2> QED
        BY <2>1, <2>2 DEF ReportInv, Told, Listed
<1>10. CASE EnterHandler
    BY <1>a, <1>10, ReportInvFrame DEF EnterHandler
<1>11. CASE HandlerReturn
    BY <1>a, <1>11, ReportInvFrame DEF HandlerReturn
<1>12. CASE LoadMessage
    BY <1>a, <1>12, ReportInvFrame DEF LoadMessage
<1>13. CASE RunOther
    BY <1>a, <1>13, ReportInvFrame DEF RunOther
<1>14. CASE StartServer
    BY <1>a, <1>14, ReportInvFrame DEF StartServer
<1>15. CASE NumberJob
    BY <1>a, <1>15, ReportInvFrame DEF NumberJob
<1>16. CASE BumpCounter
    BY <1>a, <1>16, ReportInvFrame DEF BumpCounter
<1>17. CASE LinkJob
    BY <1>a, <1>17, ReportInvFrame DEF LinkJob
<1>18. CASE ReportJob
    BY <1>a, <1>18, ReportInvFrame DEF ReportJob
<1>19. CASE StartPs
    BY <1>a, <1>19, ReportInvFrame DEF StartPs, Typed
<1>20. CASE StepPs
    BY <1>a, <1>20, ReportInvFrame DEF StepPs
<1>21. CASE UNCHANGED vars
    BY <1>a, <1>21, ReportInvFrame DEF vars
<1> QED
    BY <1>1, <1>2, <1>3, <1>4, <1>5, <1>6, <1>7, <1>8, <1>9, <1>10, <1>11,
       <1>12, <1>13, <1>14, <1>15, <1>16, <1>17, <1>18, <1>19, <1>20, <1>21
    DEF Next, Handler, Main, Terminated

LEMMA ReportInvAlways == Spec => []ReportInv
BY ReportInvInit, ReportInvStep, TypeInvAlways, PTL DEF Spec

LEMMA ReportInvTruthful == TypeInv /\ ReportInv => DoneTruthful
<1> SUFFICES ASSUME TypeInv, ReportInv
             PROVE  DoneTruthful
    OBVIOUS
<1>1. ToSet(Reported) = Told /\ IsInjective(Reported)
    BY ConcatSet DEF TypeInv, TypeOK, ReportInv, Reported, Told
<1>2. \A i \in DOMAIN Reported : Reported[i] \in Told
    BY <1>1 DEF ToSet
<1> QED
    BY <1>1, <1>2 DEF DoneTruthful, ReportInv

(* A Done message tells the truth, at whatever points signals strike. *)
THEOREM DoneMessagesTruthful == Spec => []DoneTruthful
BY ReportInvAlways, TypeInvAlways, ReportInvTruthful, PTL

-----------------------------------------------------------------------------
(* The list.  Where the main thread has a pointer to a cell, the cell is   *)
(* listed or was freed under it; so every way to freed memory goes through *)
(* a cell that is held.                                                    *)



ListInv ==
    /\ ListWhole
    /\ pc = "linked" => link = NoProc \/ link \in Listed \cup held
    /\ pc \in {"published", "listing"} => cur \in Listed \cup held
    /\ Leaving => Listed = {}

LEMMA ListInvInit == Init => ListInv
BY DEF Init, ListInv, ListWhole, Leaving

(* The steps that change no list, no cell and no pointer to one. *)
LEMMA ListInvFrame ==
    ASSUME ListInv, MishapsGrow, jobs' = jobs, dangling' = dangling,
           dangling => pc # "freeing" \/ pc' = pc,
           pc' = pc \/ pc' \in MainPoints
                                  \ {"linked", "published", "listing", "freeing"},
           pc' \in {"linked", "published", "listing"} => cur' = cur /\ link' = link
    PROVE  ListInv'
BY DEF ListInv, ListWhole, Listed, MishapsGrow, Leaving, MainPoints, AddPoints

LEMMA ListInvStep == TypeInv /\ ReportInv /\ ListInv /\ [Next]_vars => ListInv'
<1> SUFFICES ASSUME TypeInv, ReportInv, ListInv, [Next]_vars
             PROVE  ListInv'
    OBVIOUS
<1>0. TypeOK /\ jobs \in Seq(Procs) /\ IsInjective(jobs)
    BY DEF TypeInv, TypeOK, ReportInv
<1>a. MishapsGrow
    BY MishapsStep
<1>b. dangling \/ pc = "aborted" => pc = "freeing" \/ held # {}
    BY DEF ListInv, ListWhole
<1> USE DEF At, Goto, Typed, kernelVars, mainVars, listVars, Leaving, MainPoints, AddPoints
<1>1. ASSUME NEW p \in Procs, ChildExit(p) PROVE ListInv'
    BY <1>a, <1>1, ListInvFrame DEF ChildExit
<1>2. CASE EnterHandler
    BY <1>a, <1>2, ListInvFrame DEF EnterHandler
<1>3. ASSUME NEW p \in Procs, HandlerReap(p) PROVE ListInv'
    <2>1. CASE MarkUnknown(p)
        <3>1. /\ Listed' = Listed /\ (dangling' <=> dangling) /\ cur' = cur /\ link' = link
              /\ pc' = IF dangling THEN "aborted" ELSE pc
            BY <1>3, <2>1, Zenon DEF HandlerReap, MarkUnknown, Listed
        <3>2. dangling => held' # {}
            BY <1>a, <1>b, <2>1 DEF MarkUnknown, MishapsGrow
        <3> QED
            BY <1>a, <1>b, <3>1, <3>2 DEF ListInv, ListWhole, MishapsGrow
    <2>2. CASE MarkCompleted(p)
        <3>1. Listed' = Listed \ {p}
            BY <1>0, <2>2, RemoveJobSet DEF MarkCompleted
        <3>2. /\ (dangling' <=> dangling) /\ pc' = pc /\ cur' = cur /\ link' = link
              /\ HoldsCell(p) => p \in held'
            <4>0. RemoveJob(p) /\ UNCHANGED pc
                BY <2>2 DEF MarkCompleted
            <4>a. dangling' = dangling
                BY <4>0 DEF RemoveJob
            <4>1. (dangling' <=> dangling) /\ pc' = pc
                BY <4>0, <4>a, Zenon
            <4>2. HoldsCell(p) => p \in held'
                BY <2>2 DEF MarkCompleted
            <4> QED
                BY <1>3, <4>1, <4>2 DEF HandlerReap
        <3>3. ListWhole'
            BY <1>a, <1>b, <3>2 DEF ListWhole, MishapsGrow
        <3>4. pc = "linked" => link = NoProc \/ link \in Listed' \cup held'
            <4>1. pc = "linked" /\ link = p => p \in held'
                BY <3>2 DEF HoldsCell
            <4>2. pc = "linked" => link = NoProc \/ link \in Listed \cup held
                BY DEF ListInv
            <4> QED
                BY <1>a, <3>1, <4>1, <4>2 DEF MishapsGrow
        <3>5. pc \in {"published", "listing"} => cur \in Listed' \cup held'
            <4>1. pc \in {"published", "listing"} /\ cur = p => p \in held'
                BY <3>2 DEF HoldsCell
            <4>2. pc \in {"published", "listing"} => cur \in Listed \cup held
                BY DEF ListInv
            <4> QED
                BY <1>a, <3>1, <4>1, <4>2 DEF MishapsGrow
        <3> QED
            BY <3>1, <3>2, <3>3, <3>4, <3>5 DEF ListInv
    <2> QED
        BY <1>3, <2>1, <2>2 DEF HandlerReap
<1>4. CASE HandlerReturn
    BY <1>a, <1>4, ListInvFrame DEF HandlerReturn
<1>5. CASE LinkJob
    <2>1. jobs # <<>> => Head(jobs) \in Listed
        BY <1>0, PopProperties DEF Listed
    <2>2. /\ Listed' = Listed /\ (dangling' <=> dangling) /\ pc = "bumped"
          /\ \/ pc' = "linked" /\ link' = IF jobs = <<>> THEN NoProc ELSE Head(jobs)
             \/ pc' = "drain"
        BY <1>5 DEF LinkJob, Unlisted, Listed
    <2> QED
        BY <1>a, <1>b, <2>1, <2>2 DEF ListInv, ListWhole, MishapsGrow
<1>6. CASE PublishJob
    <2>1. pc = "linked" /\ pc' = "published" /\ cur' = cur /\ cur \in Procs
        BY <1>6 DEF PublishJob, TypeInv, AddPoints
    <2>2. cur \in Listed'
        BY <1>0, <1>6, <2>1, PushProperties DEF PublishJob, Listed, ToSet
    <2>3. dangling' => held # {}
        BY <1>b, <1>6, <2>1 DEF PublishJob, ListInv
    <2> QED
        BY <1>a, <2>1, <2>2, <2>3 DEF ListInv, ListWhole, MishapsGrow
<1>7. CASE ReportJob
    <2>1. /\ pc = "published" /\ (dangling' <=> dangling)
          /\ pc' = IF cur \in Listed THEN "drain" ELSE "aborted"
        BY <1>7 DEF ReportJob
    <2>2. pc' = "aborted" => held # {}
        BY <2>1 DEF ListInv
    <2> QED
        BY <1>a, <1>b, <2>1, <2>2 DEF ListInv, ListWhole, MishapsGrow
<1>8. CASE StartPs
    <2>1. jobs # <<>> => Head(jobs) \in Listed
        BY <1>0, PopProperties DEF Listed
    <2>2. /\ pc = "read" /\ Listed' = Listed /\ (dangling' <=> dangling)
          /\ \/ jobs # <<>> /\ cur' = Head(jobs) /\ pc' = "listing"
             \/ pc' = IF dangling THEN "aborted" ELSE "drain"
        BY <1>8 DEF StartPs, Listed
    <2> QED
        BY <1>a, <1>b, <2>1, <2>2 DEF ListInv, ListWhole, MishapsGrow
<1>9. CASE StepPs
    <2>1. /\ pc = "listing" /\ Listed' = Listed /\ (dangling' <=> dangling)
        BY <1>9 DEF StepPs, Listed
    <2>2. \/ cur \notin Listed /\ pc' = "aborted"
          \/ pc' = pc /\ cur' \in Listed
          \/ pc' = IF dangling THEN "aborted" ELSE "drain"
        <3>1. \A i \in DOMAIN jobs : i < Len(jobs) => jobs[i + 1] \in Listed
            BY <1>0 DEF Listed, ToSet
        <3> QED
            BY <1>9, <3>1 DEF StepPs
    <2>3. pc' = "aborted" => held # {}
        BY <1>b, <2>1, <2>2 DEF ListInv
    <2> QED
        BY <1>a, <1>b, <2>1, <2>2, <2>3 DEF ListInv, ListWhole, MishapsGrow
<1>10. CASE BeginExit
    <2>1. pc = "read" /\ pc' = IF dangling THEN "aborted" ELSE "freeing"
        BY <1>10 DEF BeginExit
    <2>2. ~dangling => Listed' = {}
        BY <1>10, EmptyList DEF BeginExit, Listed
    <2> QED
        BY <1>a, <1>b, <2>1, <2>2 DEF ListInv, ListWhole, MishapsGrow
<1>11. CASE FinishExit
    <2>1. pc = "freeing" /\ pc' = "exited" /\ ~dangling' /\ Listed' = Listed
        BY <1>11 DEF FinishExit, Listed
    <2> QED
        BY <2>1 DEF ListInv, ListWhole
<1>12. CASE LoadMessage \/ UnlinkMessage \/ RunOther \/ StartServer
    BY <1>a, <1>12, ListInvFrame
    DEF LoadMessage, UnlinkMessage, RunOther, StartServer
<1>13. ASSUME NEW p \in Procs, ForkForeground(p) \/ ForkBackground(p)
       PROVE  ListInv'
    BY <1>a, <1>13, ListInvFrame DEF ForkForeground, ForkBackground, Fork
<1>14. CASE WaitForeground
    BY <1>a, <1>14, ListInvFrame DEF WaitForeground
<1>15. CASE NumberJob
    BY <1>a, <1>15, ListInvFrame DEF NumberJob, Unlisted
<1>16. CASE BumpCounter
    BY <1>a, <1>16, ListInvFrame DEF BumpCounter
<1>17. CASE UNCHANGED vars
    BY <1>a, <1>17, ListInvFrame DEF vars
<1> QED
    BY <1>1, <1>2, <1>3, <1>4, <1>5, <1>6, <1>7, <1>8, <1>9, <1>10, <1>11,
       <1>12, <1>13, <1>14, <1>15, <1>16, <1>17
    DEF Next, Handler, Main, Terminated

LEMMA ListInvAlways == Spec => []ListInv
BY ListInvInit, ListInvStep, TypeInvAlways, ReportInvAlways, PTL DEF Spec

(* Wherever SIGCHLD strikes, freed memory is within reach only after the   *)
(* handler freed a cell that the main thread was using, or a walk met the  *)
(* freeing of the list.                                                    *)
THEOREM ListSound == Spec => []ListWhole
<1>1. ListInv => ListWhole
    BY DEF ListInv
<1> QED
    BY <1>1, ListInvAlways, PTL

-----------------------------------------------------------------------------
(* Job numbers.  The counter stays above the numbers in the list, and a    *)
(* number that was taken but is not in the list yet stays between them,    *)
(* except for a job in whose window the handler reset the counter.  That   *)
(* needs the list to become empty, so no other listed job is concerned.    *)

Numbered == pc \in {"numbered", "bumped", "linked"}
Bumped == pc \in {"bumped", "linked"}

NumberInv ==
    /\ outdated \subseteq background
    /\ unlisted \subseteq background
    /\ pc = "forked" => cur \notin outdated
    /\ 1 <= nextJobId
    /\ Numbered => 1 <= newId
    /\ \A p \in Listed \ outdated : jobId[p] < nextJobId
    /\ Numbered => \A p \in Listed \ outdated : jobId[p] < newId
    /\ Bumped => cur \in outdated \/ newId < nextJobId
    /\ \A p, q \in Listed \ outdated : jobId[p] = jobId[q] => p = q

(* While the list is whole the counter is where the list says, unless a    *)
(* number was skipped for want of memory.                                  *)
CounterInv ==
    held = {} =>
        /\ pc = "numbered" => nextJobId = IF cur \in outdated THEN 1 ELSE newId
        /\ Bumped => \/ nextJobId = newId + 1
                     \/ cur \in outdated /\ nextJobId = 1
        /\ Numbered /\ cur \in outdated => Listed = {}
        /\ Leaving \/ Bumped \/ unlisted # {} \/ (Listed = {} => nextJobId = 1)

LEMMA NumberInvInit == Init => NumberInv /\ CounterInv
BY EmptyList DEF Init, NumberInv, CounterInv, Listed, Numbered, Bumped

(* The steps outside the window that change no list, number or counter.    *)
LEMMA NumberInvFrame ==
    ASSUME NumberInv, CounterInv, MishapsGrow, jobs' = jobs, jobId' = jobId,
           nextJobId' = nextJobId, background \subseteq background',
           outdated' = outdated, unlisted' = unlisted,
           \/ pc' = pc /\ newId' = newId /\ cur' = cur
           \/ /\ ~Bumped /\ ~Numbered' /\ (Leaving => Leaving')
              /\ pc' = "forked" => cur' \notin outdated
    PROVE  NumberInv' /\ CounterInv'
<1>1. Listed' = Listed
    BY DEF Listed
<1>2. NumberInv'
    BY <1>1 DEF NumberInv, Numbered, Bumped
<1>3. CounterInv'
    BY <1>1 DEF CounterInv, Numbered, Bumped, MishapsGrow, Leaving
<1> QED
    BY <1>2, <1>3

(* The handler removes a job: every number stays below the counter, or no  *)
(* job is left and the counter starts again.                               *)
LEMMA NumberInvRemove ==
    ASSUME TypeInv, ReportInv, ListInv, NumberInv, CounterInv,
           NEW p \in Procs, HandlerReap(p), MarkCompleted(p)
    PROVE  NumberInv' /\ CounterInv'
<1>0. /\ TypeOK /\ jobId \in [Procs -> Nat] /\ newId \in Nat /\ nextJobId \in Nat
      /\ IsInjective(jobs) /\ Listed \subseteq Procs /\ background \subseteq Procs
      /\ Adding => cur \in background /\ cur \notin Listed
    BY DEF TypeInv, TypeOK, ReportInv
<1>1. /\ Listed' = Listed \ {p} /\ p \in Listed /\ jobs' \in Seq(Procs)
    BY <1>0, RemoveJobSet, RemoveJobType DEF MarkCompleted
<1>2. jobs' = <<>> <=> Listed' = {}
    BY <1>1, NoElements, EmptyList DEF Listed
<1>3. /\ pc' = pc /\ cur' = cur /\ newId' = newId /\ jobId' = jobId
      /\ unlisted' = unlisted /\ background' = background /\ held \subseteq held'
    BY DEF HandlerReap, MarkCompleted
<1>4. outdated' = IF Numbered /\ Listed' = {} THEN outdated \cup {cur} ELSE outdated
    BY <1>2 DEF MarkCompleted, Numbered
<1>5. nextJobId' = IF Listed' = {} /\ ~dangling THEN 1 ELSE nextJobId
    BY <1>2 DEF MarkCompleted, RemoveJob
<1>6. Numbered => cur \in background /\ cur \notin Listed
    BY <1>0 DEF Numbered, Adding, AddPoints
<1>7. held = {} /\ dangling => pc = "freeing"
    BY DEF ListInv, ListWhole
<1>8. NumberInv'
    <2>1. CASE Listed' = {}
        BY <1>0, <1>3, <1>4, <1>5, <1>6, <2>1 DEF NumberInv, Numbered, Bumped
    <2>2. CASE Listed' # {}
        BY <1>0, <1>1, <1>3, <1>4, <1>5, <2>2 DEF NumberInv, Numbered, Bumped
    <2> QED
        BY <2>1, <2>2
<1>9. CounterInv'
    <2> SUFFICES ASSUME held' = {} PROVE CounterInv'
        BY DEF CounterInv
    <2>0. held = {}
        BY <1>3
    <2>1. CASE Listed' = {}
        <3>1. CASE Numbered
            BY <1>3, <1>4, <1>5, <1>7, <2>0, <2>1, <3>1
            DEF CounterInv, Numbered, Bumped, Leaving
        <3>2. CASE ~Numbered
            BY <1>3, <1>4, <1>5, <1>7, <2>0, <2>1, <3>2
            DEF CounterInv, Numbered, Bumped, Leaving
        <3> QED
            BY <3>1, <3>2
    <2>2. CASE Listed' # {}
        BY <1>1, <1>3, <1>4, <1>5, <2>0, <2>2 DEF CounterInv, Numbered, Bumped
    <2> QED
        BY <2>1, <2>2
<1> QED
    BY <1>8, <1>9

LEMMA NumberInvStep ==
    ASSUME TypeInv, ReportInv, ListInv, NumberInv, CounterInv, [Next]_vars
    PROVE  NumberInv' /\ CounterInv'
<1>0. /\ TypeOK
      /\ jobs \in Seq(Procs) /\ jobId \in [Procs -> Nat]
      /\ newId \in Nat /\ nextJobId \in Nat
      /\ Listed \subseteq Procs /\ background \subseteq Procs
      /\ outdated \subseteq background
      /\ \A p \in background : proc[p] # "unborn"
      /\ Adding => cur \in background /\ cur \notin Listed
    BY DEF TypeInv, TypeOK, ReportInv, NumberInv
<1>a. MishapsGrow
    BY MishapsStep
<1>b. held = {} /\ dangling => pc = "freeing"
    BY DEF ListInv, ListWhole
<1> USE DEF At, Goto, Typed, kernelVars, mainVars, listVars, mishaps
<1>1. ASSUME NEW p \in Procs, ChildExit(p) PROVE NumberInv' /\ CounterInv'
    BY <1>a, <1>1, NumberInvFrame DEF ChildExit
<1>2. CASE EnterHandler
    BY <1>a, <1>2, NumberInvFrame DEF EnterHandler
<1>3. ASSUME NEW p \in Procs, HandlerReap(p) PROVE NumberInv' /\ CounterInv'
    <2>1. CASE MarkUnknown(p)
        <3>1. /\ jobs' = jobs /\ jobId' = jobId /\ nextJobId' = nextJobId
              /\ background' = background /\ outdated' = outdated
              /\ unlisted' = unlisted /\ newId' = newId /\ cur' = cur
              /\ pc' = IF dangling THEN "aborted" ELSE pc
            BY <1>3, <2>1 DEF HandlerReap, MarkUnknown
        <3>2. CASE ~dangling
            BY <1>a, <3>1, <3>2, NumberInvFrame
        <3>3. CASE dangling
            <4>1. held' # {}
                BY <1>a, <1>b, <2>1, <3>3 DEF MarkUnknown, MishapsGrow
            <4>2. NumberInv'
                BY <3>1, <3>3 DEF NumberInv, Numbered, Bumped, Listed
            <4> QED
                BY <4>1, <4>2 DEF CounterInv
        <3> QED
            BY <3>2, <3>3
    <2>2. CASE MarkCompleted(p)
        BY <1>3, <2>2, NumberInvRemove
    <2> QED
        BY <1>3, <2>1, <2>2 DEF HandlerReap
<1>4. CASE HandlerReturn
    BY <1>a, <1>4, NumberInvFrame DEF HandlerReturn
<1>5. CASE NumberJob
    <2>1. /\ Listed' = Listed /\ jobId' = jobId /\ nextJobId' = nextJobId
          /\ outdated' = outdated /\ held' = held /\ background' = background
          /\ cur' = cur /\ pc = "forked" /\ cur \in background
          /\ \/ pc' = "numbered" /\ newId' = nextJobId /\ unlisted' = unlisted
             \/ pc' = "drain" /\ unlisted' = unlisted \cup {cur}
        BY <1>0, <1>5 DEF NumberJob, Unlisted, Listed, Adding, AddPoints
    <2> QED
        BY <1>0, <2>1 DEF NumberInv, CounterInv, Numbered, Bumped, Leaving
<1>6. CASE BumpCounter
    <2>1. /\ Listed' = Listed /\ jobId' = jobId /\ nextJobId' = newId + 1
          /\ outdated' = outdated /\ held' = held /\ background' = background
          /\ unlisted' = unlisted /\ cur' = cur /\ newId' = newId
          /\ pc = "numbered" /\ pc' = "bumped"
        BY <1>6 DEF BumpCounter, Listed
    <2>2. \A p \in Listed \ outdated : jobId[p] < newId /\ jobId[p] \in Nat
        BY <1>0, <2>1 DEF NumberInv, Numbered
    <2>3. NumberInv'
        BY <1>0, <2>1, <2>2 DEF NumberInv, Numbered, Bumped
    <2>4. held = {} /\ cur \in outdated => Listed = {}
        BY <2>1 DEF CounterInv, Numbered
    <2>5. CounterInv'
        BY <2>1, <2>4 DEF CounterInv, Numbered, Bumped
    <2> QED
        BY <2>3, <2>5
<1>7. CASE LinkJob
    <2>1. /\ Listed' = Listed /\ jobId' = jobId /\ nextJobId' = nextJobId
          /\ outdated' = outdated /\ held' = held /\ background' = background
          /\ cur' = cur /\ newId' = newId /\ pc = "bumped" /\ cur \in background
          /\ \/ pc' = "linked" /\ unlisted' = unlisted
             \/ pc' = "drain" /\ unlisted' = unlisted \cup {cur}
        BY <1>0, <1>7 DEF LinkJob, Unlisted, Listed, Adding, AddPoints
    <2> QED
        BY <1>0, <2>1 DEF NumberInv, CounterInv, Numbered, Bumped, Leaving
<1>8. CASE PublishJob
    <2>1. /\ jobId' = [jobId EXCEPT ![cur] = newId] /\ nextJobId' = nextJobId
          /\ outdated' = outdated /\ held' = held /\ background' = background
          /\ unlisted' = unlisted /\ pc = "linked" /\ pc' = "published"
          /\ cur \in Procs /\ cur \notin Listed /\ cur' = cur
        BY <1>0, <1>8 DEF PublishJob, Adding, AddPoints
    <2>2. cur \in Listed' /\ Listed' \subseteq Listed \cup {cur}
        <3>1. ToSet(<<cur>> \o jobs) = Listed \cup {cur} /\ ToSet(<<cur>>) = {cur}
            <4>1. ToSet(<<cur>>) = {cur}
                BY DEF ToSet
            <4> QED
                BY <1>0, <2>1, <4>1, PushProperties DEF Listed
        <3>2. jobs' = <<cur>> \o jobs \/ jobs' = <<cur>>
            BY <1>8 DEF PublishJob
        <3> QED
            BY <3>1, <3>2 DEF Listed
    <2>3. /\ jobId'[cur] = newId
          /\ \A p \in Listed \ outdated :
                p # cur /\ jobId'[p] = jobId[p] /\ jobId[p] < newId /\ jobId[p] < nextJobId
          /\ cur \in outdated \/ newId < nextJobId
        BY <1>0, <2>1 DEF NumberInv, Numbered, Bumped
    <2>4. \A p \in (Listed \ outdated)' : jobId'[p] < nextJobId'
        BY <1>0, <2>1, <2>2, <2>3
    <2>5. \A p, q \in (Listed \ outdated)' : jobId'[p] = jobId'[q] => p = q
        BY <1>0, <2>1, <2>2, <2>3 DEF NumberInv
    <2>6. NumberInv'
        BY <2>1, <2>4, <2>5 DEF NumberInv, Numbered, Bumped
    <2>7. CounterInv'
        BY <2>1, <2>2 DEF CounterInv, Numbered, Bumped
    <2> QED
        BY <2>6, <2>7
<1>9. CASE BeginExit
    <2>1. /\ jobId' = jobId /\ nextJobId' = nextJobId /\ outdated' = outdated
          /\ held' = held /\ background' = background /\ unlisted' = unlisted
          /\ pc = "read" /\ pc' = IF dangling THEN "aborted" ELSE "freeing"
        BY <1>9 DEF BeginExit
    <2>2. Listed' \subseteq Listed
        BY <1>9, EmptyList DEF BeginExit, Listed
    <2>3. NumberInv'
        BY <2>1, <2>2 DEF NumberInv, Numbered, Bumped
    <2>4. CounterInv'
        BY <1>b, <2>1 DEF CounterInv, Numbered, Bumped, Leaving
    <2> QED
        BY <2>3, <2>4
<1>10. CASE FinishExit
    BY <1>a, <1>10, NumberInvFrame DEF FinishExit, Bumped, Numbered, Leaving
<1>11. CASE LoadMessage
    BY <1>a, <1>11, NumberInvFrame DEF LoadMessage, Bumped, Numbered, Leaving
<1>12. CASE UnlinkMessage
    BY <1>a, <1>12, NumberInvFrame DEF UnlinkMessage, Bumped, Numbered, Leaving
<1>13. CASE RunOther
    BY <1>a, <1>13, NumberInvFrame DEF RunOther, Bumped, Numbered, Leaving
<1>14. CASE StartServer
    BY <1>a, <1>14, NumberInvFrame DEF StartServer, Bumped, Numbered, Leaving
<1>15. ASSUME NEW p \in Procs, ForkForeground(p) \/ ForkBackground(p)
       PROVE  NumberInv' /\ CounterInv'
    <2>1. p \notin outdated
        BY <1>0, <1>15 DEF ForkForeground, ForkBackground, Fork
    <2>2. /\ jobs' = jobs /\ jobId' = jobId /\ nextJobId' = nextJobId
          /\ background \subseteq background' /\ outdated' = outdated
          /\ unlisted' = unlisted /\ pc = "read" /\ pc' \in {"waiting", "forked"}
          /\ cur' = p
        BY <1>15 DEF ForkForeground, ForkBackground, Fork
    <2> QED
        BY <1>a, <2>1, <2>2, NumberInvFrame DEF Bumped, Numbered, Leaving
<1>16. CASE WaitForeground
    BY <1>a, <1>16, NumberInvFrame DEF WaitForeground, Bumped, Numbered, Leaving
<1>17. CASE ReportJob
    BY <1>a, <1>17, NumberInvFrame DEF ReportJob, Bumped, Numbered, Leaving
<1>18. CASE StartPs
    BY <1>a, <1>18, NumberInvFrame DEF StartPs, Bumped, Numbered, Leaving
<1>19. CASE StepPs
    BY <1>a, <1>19, NumberInvFrame DEF StepPs, Bumped, Numbered, Leaving
<1>20. CASE UNCHANGED vars
    BY <1>a, <1>20, NumberInvFrame DEF vars
<1> QED
    BY <1>1, <1>2, <1>3, <1>4, <1>5, <1>6, <1>7, <1>8, <1>9, <1>10, <1>11,
       <1>12, <1>13, <1>14, <1>15, <1>16, <1>17, <1>18, <1>19, <1>20
    DEF Next, Handler, Main, Terminated

LEMMA NumberInvAlways == Spec => [](NumberInv /\ CounterInv)
<1>1. /\ TypeInv /\ ReportInv /\ ListInv /\ (NumberInv /\ CounterInv) /\ [Next]_vars
      => (NumberInv /\ CounterInv)'
    BY NumberInvStep
<1> QED
    BY <1>1, NumberInvInit, TypeInvAlways, ReportInvAlways, ListInvAlways, PTL
    DEF Spec

LEMMA NumberInvDistinct == TypeInv /\ ReportInv /\ NumberInv => IdsDistinct
<1> SUFFICES ASSUME TypeInv, ReportInv, NumberInv,
                    NEW i \in DOMAIN jobs, NEW j \in DOMAIN jobs,
                    jobId[jobs[i]] = jobId[jobs[j]],
                    jobs[i] \notin outdated, jobs[j] \notin outdated
             PROVE  i = j
    BY DEF IdsDistinct
<1>1. jobs[i] \in Listed /\ jobs[j] \in Listed
    BY DEF Listed, ToSet
<1>2. jobs[i] = jobs[j]
    BY <1>1 DEF NumberInv
<1> QED
    BY <1>2 DEF ReportInv, IsInjective

(* Two listed jobs have one number only if the handler emptied the list    *)
(* and reset the counter while add_bg_process was at work on one of them.  *)
THEOREM NumbersDistinct == Spec => []IdsDistinct
BY NumberInvDistinct, NumberInvAlways, TypeInvAlways, ReportInvAlways, PTL

-----------------------------------------------------------------------------
(* Every background job is accounted for: one that runs is being added,    *)
(* listed, or known to be off the list; one that was reaped is told about, *)
(* or known to be lost.                                                    *)

Missed == unseen \cup unlisted \cup unheard

Present == Running /\ pc # "freeing"

AccountInv ==
    /\ pc = "waiting" => cur \notin background
    /\ pc = "unlink" /\ lastMsg => ToSet(Tail(queue)) \subseteq unheard
    /\ JobsAlive
    /\ Adding => (proc[cur] = "reaped" => cur \in unseen)
    /\ Present =>
          \A p \in background :
              IF proc[p] = "reaped" THEN p \in Told \cup Missed
              ELSE p \in Listed \cup unlisted \/ (Adding /\ p = cur) \/ dangling

LEMMA AccountInvInit == Init => AccountInv
BY EmptyList DEF Init, AccountInv, Listed, JobsAlive, Adding, AddPoints

(* The steps of the main thread that change no list and no child.          *)
LEMMA AccountInvFrame ==
    ASSUME AccountInv, MishapsGrow, proc' = proc, background' = background,
           Listed' = Listed, Told \subseteq Told', dangling' = dangling,
           pc' # "waiting" \/ (pc' = pc /\ cur' = cur),
           Present' => Present,
           Adding' => Adding /\ cur' = cur,
           Present' /\ Adding => Adding' \/ cur \in Listed \cup unlisted',
           pc' = "unlink" /\ lastMsg' => ToSet(Tail(queue')) \subseteq unheard'
    PROVE  AccountInv'
<1>1. JobsAlive'
    BY DEF AccountInv, JobsAlive, MishapsGrow
<1>2. Adding' => (proc'[cur'] = "reaped" => cur' \in unseen')
    BY DEF AccountInv, MishapsGrow
<1>3. ASSUME Present', NEW p \in background
      PROVE  IF proc'[p] = "reaped" THEN p \in Told' \cup Missed'
             ELSE p \in Listed' \cup unlisted' \/ (Adding' /\ p = cur') \/ dangling'
    <2>1. IF proc[p] = "reaped" THEN p \in Told \cup Missed
          ELSE p \in Listed \cup unlisted \/ (Adding /\ p = cur) \/ dangling
        BY <1>3 DEF AccountInv
    <2>2. Missed \subseteq Missed' /\ unlisted \subseteq unlisted'
        BY DEF Missed, MishapsGrow
    <2>3. CASE proc[p] = "reaped"
        BY <2>1, <2>2, <2>3
    <2>4. CASE proc[p] # "reaped"
        BY <1>3, <2>1, <2>2, <2>4
    <2> QED
        BY <2>3, <2>4
<1>4. pc' = "waiting" => cur' \notin background'
    BY DEF AccountInv
<1> QED
    BY <1>1, <1>2, <1>3, <1>4 DEF AccountInv

(* A child comes to its end and everything else stays where it is.         *)
LEMMA AccountInvReap ==
    ASSUME TypeInv, ReportInv, AccountInv, MishapsGrow,
           NEW p \in Procs, proc' = [proc EXCEPT ![p] = "reaped"],
           background' = background, Listed' \subseteq Listed, cur' = cur,
           pc' = pc \/ (pc = "waiting" /\ pc' = "drain"), dangling' = dangling,
           Told \subseteq Told', Listed \subseteq Listed' \cup {p},
           p \in Listed => p \notin Listed' \/ p \in unseen',
           Adding /\ cur = p => p \in unseen',
           Present /\ p \in background => p \in Told' \cup Missed',
           pc' = "unlink" /\ lastMsg' => ToSet(Tail(queue')) \subseteq unheard'
    PROVE  AccountInv'
<1>0. /\ proc \in [Procs -> ProcStates] /\ Listed \subseteq Procs
      /\ background \subseteq Procs /\ (Adding => cur \in Procs)
    BY DEF TypeInv, TypeOK, ReportInv, Adding, AddPoints
<1>a. (Adding' <=> Adding) /\ (Present' <=> Present)
    BY DEF Adding, AddPoints, Present, Running, Stopped
<1>1. JobsAlive'
    BY <1>0 DEF AccountInv, JobsAlive, MishapsGrow
<1>2. Adding' => (proc'[cur'] = "reaped" => cur' \in unseen')
    BY <1>0, <1>a DEF AccountInv, MishapsGrow
<1>3. ASSUME Present', NEW q \in background
      PROVE  IF proc'[q] = "reaped" THEN q \in Told' \cup Missed'
             ELSE q \in Listed' \cup unlisted' \/ (Adding' /\ q = cur') \/ dangling'
    <2>1. IF proc[q] = "reaped" THEN q \in Told \cup Missed
          ELSE q \in Listed \cup unlisted \/ (Adding /\ q = cur) \/ dangling
        BY <1>a, <1>3 DEF AccountInv
    <2>2. Missed \subseteq Missed' /\ unlisted \subseteq unlisted'
        BY DEF Missed, MishapsGrow
    <2>3. CASE q = p
        BY <1>0, <1>a, <1>3, <2>3
    <2>4. CASE q # p /\ proc[q] = "reaped"
        BY <1>0, <2>1, <2>2, <2>4
    <2>5. CASE q # p /\ proc[q] # "reaped"
        BY <1>0, <1>a, <2>1, <2>2, <2>5
    <2> QED
        BY <2>3, <2>4, <2>5
<1>4. pc' = "waiting" => cur' \notin background'
    BY DEF AccountInv
<1> QED
    BY <1>1, <1>2, <1>3, <1>4 DEF AccountInv

LEMMA AccountInvStep ==
    ASSUME TypeInv, ReportInv, ListInv, AccountInv, [Next]_vars
    PROVE  AccountInv'
<1>0. /\ TypeOK
      /\ proc \in [Procs -> ProcStates]
      /\ jobs \in Seq(Procs) /\ queue \in Seq(Procs) /\ shown \in Seq(Procs)
      /\ background \subseteq Procs /\ Listed \subseteq background
      /\ Told \subseteq background
      /\ \A p \in background : proc[p] # "unborn"
    BY DEF TypeInv, TypeOK, ReportInv
<1>a. MishapsGrow
    BY MishapsStep
<1>b. pc = "unlink" /\ lastMsg => ToSet(Tail(queue)) \subseteq unheard'
    BY <1>a DEF AccountInv, MishapsGrow
<1> USE DEF At, Goto, Typed, Running, Stopped, kernelVars, mainVars, listVars,
            mishaps
<1>1. ASSUME NEW p \in Procs, ChildExit(p) PROVE AccountInv'
    <2>1. /\ Listed' = Listed /\ Told' = Told /\ queue' = queue /\ pc' = pc
          /\ background' = background /\ dangling' = dangling /\ cur' = cur
          /\ proc[p] = "running"
        BY <1>1 DEF ChildExit, Listed, Told
    <2>2. lastMsg' <=> lastMsg
        BY <1>1, Zenon DEF ChildExit
    <2>3. CASE proc' = [proc EXCEPT ![p] = "reaped"]
        <3>1. p \in unseen'
            BY <1>0, <1>1, <2>3 DEF ChildExit
        <3>2. pc' = "unlink" /\ lastMsg' => ToSet(Tail(queue')) \subseteq unheard'
            BY <1>b, <2>1, <2>2, Zenon
        <3> QED
            BY <1>a, <2>1, <2>3, <3>1, <3>2, AccountInvReap DEF Missed
    <2>4. CASE proc' = [proc EXCEPT ![p] = "zombie"]
        <3>1. \A q \in Procs : proc'[q] = "reaped" <=> proc[q] = "reaped"
            BY <1>0, <2>1, <2>4
        <3>2. JobsAlive'
            BY <1>0, <1>a, <2>1, <3>1 DEF AccountInv, JobsAlive, MishapsGrow
        <3>3. Adding' => (proc'[cur'] = "reaped" => cur' \in unseen')
            BY <1>a, <2>1, <3>1
            DEF AccountInv, TypeInv, MishapsGrow, Adding
        <3>4. Present' => \A q \in background :
                 IF proc'[q] = "reaped" THEN q \in Told' \cup Missed'
                 ELSE q \in Listed' \cup unlisted' \/ (Adding' /\ q = cur') \/ dangling'
            BY <1>0, <1>a, <2>1, <3>1
            DEF AccountInv, MishapsGrow, Missed, Present, Adding
        <3> QED
            BY <1>b, <2>1, <2>2, <3>2, <3>3, <3>4 DEF AccountInv
    <2> QED
        BY <1>1, <2>3, <2>4 DEF ChildExit
<1>2. ASSUME NEW p \in Procs, HandlerReap(p) PROVE AccountInv'
    <2>1. /\ proc' = [proc EXCEPT ![p] = "reaped"] /\ proc[p] = "zombie"
          /\ shown' = shown /\ background' = background /\ cur' = cur
        BY <1>2 DEF HandlerReap
    <2>2. lastMsg' <=> lastMsg
        BY <1>2, Zenon DEF HandlerReap
    <2>3. CASE MarkUnknown(p) /\ dangling
        <3>1. /\ pc' = "aborted" /\ Listed' = Listed /\ p \notin Listed
            BY <2>3 DEF MarkUnknown, Listed
        <3>2. JobsAlive'
            BY <1>0, <1>a, <2>1, <3>1 DEF AccountInv, JobsAlive, MishapsGrow
        <3> QED
            BY <3>1, <3>2 DEF AccountInv, Present, Adding, AddPoints
    <2>4. CASE MarkUnknown(p) /\ ~dangling
        <3>1. /\ pc' = pc /\ Listed' = Listed /\ Told' = Told /\ queue' = queue
              /\ dangling' = dangling /\ p \notin Listed
              /\ Adding /\ cur = p => p \in unseen'
            BY <2>1, <2>4 DEF MarkUnknown, Listed, Told
        <3>2. Present /\ p \in background => p \in Told' \cup Missed'
            BY <1>a, <2>1, <2>4, <3>1 DEF AccountInv, Missed, MishapsGrow
        <3>3. pc' = "unlink" /\ lastMsg' => ToSet(Tail(queue')) \subseteq unheard'
            BY <1>b, <2>2, <3>1, Zenon
        <3> QED
            BY <1>a, <2>1, <3>1, <3>2, <3>3, AccountInvReap
    <2>5. CASE MarkCompleted(p)
        <3>1. Listed' = Listed \ {p} /\ p \in Listed
            BY <1>0, <2>5, RemoveJobSet DEF MarkCompleted, ReportInv
        <3>2. pc' = pc /\ dangling' = dangling
            BY <2>5 DEF MarkCompleted, RemoveJob
        <3>3. queue' = Append(queue, p) \/ queue' = queue
            BY <2>5 DEF MarkCompleted, AddMessage
        <3>4. Told \subseteq Told'
            <4>1. ToSet(Append(queue, p)) = ToSet(queue) \cup {p}
                BY <1>0, AppendedProperties
            <4> QED
                BY <2>1, <3>3, <4>1 DEF Told
        <3>5. /\ p \in unheard' \/ p \in ToSet(queue')
              /\ pc = "unlink" /\ lastMsg => p \in unheard'
            BY <2>5 DEF MarkCompleted
        <3>6. p \in Told' \cup Missed'
            BY <3>5 DEF Told, Missed
        <3>7. pc = "unlink" /\ lastMsg => ToSet(Tail(queue')) \subseteq unheard'
            <4> SUFFICES ASSUME pc = "unlink", lastMsg
                         PROVE  ToSet(Tail(queue')) \subseteq unheard'
                OBVIOUS
            <4>1. queue # <<>>
                BY DEF TypeInv
            <4>2. ToSet(Tail(Append(queue, p))) \subseteq ToSet(Tail(queue)) \cup {p}
                BY <1>0, <4>1, TailOfAppend
            <4> QED
                BY <1>b, <3>3, <3>5, <4>2
        <3>8. Adding => cur # p
            BY <3>1 DEF ReportInv
        <3>9. pc' = "unlink" /\ lastMsg' => ToSet(Tail(queue')) \subseteq unheard'
            BY <2>2, <3>2, <3>7, Zenon
        <3> QED
            BY <1>a, <2>1, <3>1, <3>2, <3>4, <3>6, <3>8, <3>9, AccountInvReap
    <2> QED
        BY <1>2, <2>3, <2>4, <2>5 DEF HandlerReap
<1>3. CASE EnterHandler
    <2>1. lastMsg' <=> lastMsg
        BY <1>3, Zenon DEF EnterHandler
    <2> QED
        BY <1>a, <1>b, <1>3, <2>1, AccountInvFrame
        DEF EnterHandler, Listed, Told, Present, Adding
<1>4. CASE HandlerReturn
    <2>1. lastMsg' <=> lastMsg
        BY <1>4, Zenon DEF HandlerReturn
    <2> QED
        BY <1>a, <1>b, <1>4, <2>1, AccountInvFrame
        DEF HandlerReturn, Listed, Told, Present, Adding
<1>5. CASE LoadMessage
    <2>1. pc' = "unlink" => queue # <<>> /\ (lastMsg' <=> Len(queue) = 1)
        BY <1>5, Zenon DEF LoadMessage
    <2>2. queue # <<>> => (Len(queue) = 1 <=> Tail(queue) = <<>>)
        BY <1>0, LastOne
    <2>3. pc' = "unlink" /\ lastMsg' => ToSet(Tail(queue)) = {}
        BY <2>1, <2>2, EmptyList
    <2> QED
        BY <1>a, <1>5, <2>3, AccountInvFrame
        DEF LoadMessage, Listed, Told, Present, Adding, AddPoints
<1>6. CASE UnlinkMessage
    <2>1. /\ pc = "unlink" /\ pc' = "drain" /\ shown' = Append(shown, Head(queue))
          /\ queue' = IF lastMsg THEN <<>> ELSE Tail(queue)
          /\ jobs' = jobs /\ background' = background /\ proc' = proc
          /\ dangling' = dangling /\ queue # <<>>
        BY <1>6 DEF UnlinkMessage, TypeInv
    <2>2. /\ ToSet(queue) = ToSet(Tail(queue)) \cup {Head(queue)}
          /\ ToSet(shown') = ToSet(shown) \cup {Head(queue)}
        BY <1>0, <2>1, PopProperties, AppendedProperties
    <2>3. Told \subseteq Told' \cup unheard'
        BY <1>b, <2>1, <2>2 DEF Told
    <2>4. JobsAlive'
        BY <1>a, <2>1 DEF AccountInv, JobsAlive, Listed, MishapsGrow
    <2>5. ASSUME NEW p \in background
          PROVE  IF proc[p] = "reaped" THEN p \in Told' \cup Missed'
                 ELSE p \in Listed \cup unlisted' \/ dangling
        <3>1. IF proc[p] = "reaped" THEN p \in Told \cup Missed
              ELSE p \in Listed \cup unlisted \/ dangling
            BY <2>1 DEF AccountInv, Present, Adding, AddPoints
        <3> QED
            BY <1>a, <2>3, <3>1 DEF Missed, MishapsGrow
    <2> QED
        BY <2>1, <2>4, <2>5 DEF AccountInv, Adding, AddPoints, Listed
<1>7. CASE RunOther \/ StartServer
    <2>1. /\ Listed' = Listed /\ Told' = Told /\ proc' = proc
          /\ background' = background /\ dangling' = dangling
          /\ pc = "read" /\ pc' = "drain"
        BY <1>7 DEF RunOther, StartServer, Listed, Told
    <2> QED
        BY <1>a, <2>1, AccountInvFrame DEF Present, Adding, AddPoints
<1>8. ASSUME NEW p \in Procs, ForkForeground(p) \/ ForkBackground(p)
      PROVE  AccountInv'
    <2>1. /\ proc[p] = "unborn" /\ proc' = [proc EXCEPT ![p] = "running"]
          /\ Listed' = Listed /\ Told' = Told /\ dangling' = dangling
          /\ cur' = p /\ pc = "read"
          /\ \/ pc' = "waiting" /\ background' = background
             \/ pc' = "forked" /\ background' = background \cup {p}
        BY <1>8 DEF ForkForeground, ForkBackground, Fork, Listed, Told
    <2>2. p \notin background
        BY <1>0, <2>1
    <2>3. \A q \in Procs : proc'[q] = "reaped" <=> proc[q] = "reaped"
        BY <1>0, <2>1
    <2>4. JobsAlive'
        BY <1>0, <1>a, <2>1, <2>3 DEF AccountInv, JobsAlive, MishapsGrow
    <2>5. ASSUME NEW q \in background'
          PROVE  IF proc'[q] = "reaped" THEN q \in Told' \cup Missed'
                 ELSE q \in Listed' \cup unlisted' \/ (Adding' /\ q = cur') \/ dangling'
        <3>1. CASE q \in background
            <4>1. IF proc[q] = "reaped" THEN q \in Told \cup Missed
                  ELSE q \in Listed \cup unlisted \/ dangling
                BY <2>1, <3>1 DEF AccountInv, Present, Adding, AddPoints
            <4> QED
                BY <1>0, <1>a, <2>1, <2>3, <3>1, <4>1 DEF Missed, MishapsGrow
        <3>2. CASE q \notin background
            BY <1>0, <2>1, <3>2 DEF Adding, AddPoints
        <3> QED
            BY <3>1, <3>2
    <2>6. Adding' => proc'[cur'] # "reaped"
        BY <1>0, <2>1
    <2> QED
        BY <2>1, <2>2, <2>4, <2>5, <2>6 DEF AccountInv
<1>9. CASE WaitForeground
    <2>1. /\ Listed' = Listed /\ Told' = Told /\ cur' = cur /\ dangling' = dangling
          /\ background' = background /\ pc = "waiting" /\ pc' = "drain"
          /\ cur \in Procs /\ cur \notin background
        BY <1>9 DEF WaitForeground, Listed, Told, TypeInv, AccountInv
    <2>2. CASE proc' = [proc EXCEPT ![cur] = "reaped"]
        BY <1>0, <1>a, <2>1, <2>2, AccountInvReap DEF Adding, AddPoints
    <2>3. CASE proc' = proc
        BY <1>a, <2>1, <2>3, AccountInvFrame DEF Present, Adding, AddPoints
    <2> QED
        BY <1>9, <2>2, <2>3 DEF WaitForeground
<1>10. CASE NumberJob \/ BumpCounter \/ LinkJob
    <2>1. /\ Listed' = Listed /\ Told' = Told /\ proc' = proc /\ cur' = cur
          /\ background' = background /\ dangling' = dangling
          /\ pc \in {"forked", "numbered", "bumped"}
          /\ \/ pc' \in {"numbered", "bumped", "linked"}
             \/ pc' = "drain" /\ cur \in unlisted'
        <3>1. /\ Listed' = Listed /\ Told' = Told
              /\ dangling' = dangling /\ proc' = proc
            BY <1>10 DEF NumberJob, BumpCounter, LinkJob, Listed, Told
        <3>2. Unlisted => pc' = "drain" /\ cur \in unlisted'
            BY DEF Unlisted
        <3> QED
            BY <1>10, <3>1, <3>2 DEF NumberJob, BumpCounter, LinkJob
    <2> QED
        BY <1>a, <2>1, AccountInvFrame DEF Present, Adding, AddPoints
<1>11. CASE PublishJob
    <2>1. /\ pc = "linked" /\ pc' = "published" /\ cur' = cur /\ proc' = proc
          /\ Told' = Told /\ background' = background
          /\ \/ jobs' = <<cur>> \o jobs /\ dangling' = dangling
             \/ jobs' = <<cur>> /\ dangling' = TRUE
        BY <1>11 DEF PublishJob, Told
    <2>2. cur \in Procs
        BY <2>1 DEF TypeInv, AddPoints
    <2>3. ToSet(<<cur>> \o jobs) = Listed \cup {cur} /\ ToSet(<<cur>>) = {cur}
        <3>1. ToSet(<<cur>>) = {cur}
            BY DEF ToSet
        <3> QED
            BY <1>0, <2>2, <3>1, PushProperties DEF Listed
    <2>4. /\ Listed' \subseteq Listed \cup {cur} /\ cur \in Listed'
          /\ dangling' \/ Listed \subseteq Listed'
        BY <2>1, <2>3 DEF Listed
    <2>5. proc[cur] = "reaped" => cur \in unseen
        BY <2>1 DEF AccountInv, Adding, AddPoints
    <2>6. JobsAlive'
        BY <1>a, <2>1, <2>4, <2>5 DEF AccountInv, JobsAlive, MishapsGrow
    <2>7. ASSUME NEW p \in background
          PROVE  IF proc[p] = "reaped" THEN p \in Told \cup Missed'
                 ELSE p \in Listed' \cup unlisted' \/ dangling'
        <3>1. IF proc[p] = "reaped" THEN p \in Told \cup Missed
              ELSE p \in Listed \cup unlisted \/ p = cur \/ dangling
            BY <2>1 DEF AccountInv, Present, Adding, AddPoints
        <3>2. dangling => dangling'
            BY <2>1, Zenon
        <3> QED
            BY <1>a, <2>4, <3>1, <3>2 DEF Missed, MishapsGrow
    <2> QED
        BY <2>1, <2>6, <2>7 DEF AccountInv, Adding, AddPoints
<1>12. CASE ReportJob \/ StartPs \/ StepPs
    <2>1. /\ Listed' = Listed /\ Told' = Told /\ proc' = proc
          /\ background' = background /\ dangling' = dangling
          /\ pc \in {"published", "read", "listing"}
          /\ pc' \in {"drain", "listing", "aborted"}
        BY <1>12 DEF ReportJob, StartPs, StepPs, Listed, Told
    <2> QED
        BY <1>a, <2>1, AccountInvFrame DEF Present, Adding, AddPoints
<1>13. CASE BeginExit \/ FinishExit
    <2>1. /\ proc' = proc /\ background' = background
          /\ pc' \in {"freeing", "exited", "aborted"}
          /\ jobs' = jobs \/ jobs' = <<>>
        BY <1>13 DEF BeginExit, FinishExit
    <2>2. Listed' \subseteq Listed
        BY <2>1, EmptyList DEF Listed
    <2>3. JobsAlive'
        BY <1>a, <2>1, <2>2 DEF AccountInv, JobsAlive, MishapsGrow
    <2> QED
        BY <2>1, <2>3 DEF AccountInv, Present, Adding, AddPoints
<1>14. CASE UNCHANGED vars
    <2>1. lastMsg' <=> lastMsg
        BY <1>14, Zenon DEF vars
    <2> QED
        BY <1>a, <1>b, <1>14, <2>1, AccountInvFrame
        DEF vars, Listed, Told, Present, Adding
<1> QED
    BY <1>1, <1>2, <1>3, <1>4, <1>5, <1>6, <1>7, <1>8, <1>9, <1>10, <1>11,
       <1>12, <1>13, <1>14
    DEF Next, Handler, Main, Terminated

LEMMA AccountInvAlways == Spec => []AccountInv
<1>1. TypeInv /\ ReportInv /\ ListInv /\ AccountInv /\ [Next]_vars => AccountInv'
    BY AccountInvStep
<1> QED
    BY <1>1, AccountInvInit, TypeInvAlways, ReportInvAlways, ListInvAlways, PTL
    DEF Spec

LEMMA AccountInvImplies ==
    ASSUME TypeInv, ReportInv, NumberInv, CounterInv, AccountInv
    PROVE  JobsAlive /\ DoneNotLost /\ CounterReset
<1>1. ToSet(Reported) = Told
    BY ConcatSet DEF TypeInv, TypeOK, Reported, Told
<1>2. DoneNotLost
    BY <1>1 DEF AccountInv, DoneNotLost, Present, Missed
<1>3. ASSUME pc = "read", held = {},
             \A p \in background : proc[p] = "reaped" /\ p \notin unseen \cup unlisted
      PROVE  nextJobId = 1
    <2>1. Listed = {}
        BY <1>3 DEF AccountInv, JobsAlive, ReportInv
    <2>2. unlisted = {}
        BY <1>3 DEF NumberInv
    <2> QED
        BY <1>3, <2>1, <2>2 DEF CounterInv, Leaving, Bumped
<1> QED
    BY <1>2, <1>3 DEF AccountInv, CounterReset

(* ps lists no job that is over, except one that ended before it was on    *)
(* the list or after start-server.                                         *)
THEOREM OnlyLiveJobsListed == Spec => []JobsAlive
<1>1. AccountInv => JobsAlive
    BY DEF AccountInv
<1> QED
    BY <1>1, AccountInvAlways, PTL

(* The end of every background job is displayed or waits to be, except in  *)
(* the three ways of DoneNotLost, wherever SIGCHLD strikes.                *)
THEOREM NoMessageLost == Spec => []DoneNotLost
<1>1. TypeInv /\ ReportInv /\ (NumberInv /\ CounterInv) /\ AccountInv => DoneNotLost
    BY AccountInvImplies
<1> QED
    BY <1>1, AccountInvAlways, NumberInvAlways, TypeInvAlways, ReportInvAlways, PTL

(* Numbering starts again at 1 once every background job has been reaped,  *)
(* although the handler resets the counter under the main thread's hands.  *)
THEOREM CounterIsReset == Spec => []CounterReset
<1>1. TypeInv /\ ReportInv /\ (NumberInv /\ CounterInv) /\ AccountInv => CounterReset
    BY AccountInvImplies
<1> QED
    BY <1>1, AccountInvAlways, NumberInvAlways, TypeInvAlways, ReportInvAlways, PTL

-----------------------------------------------------------------------------
(* The code keeps the promises of JobTable: publishing a cell starts a     *)
(* job, the handler's reaping of a listed child ends it, displaying a      *)
(* message announces it, the clean-up is the user's leaving, and every     *)
(* other step changes nothing there, up to the mishaps JobTable names.     *)

(* The counter as JobTable sees it. *)
Counter == IF pc \notin {"bumped", "linked"} THEN nextJobId
           ELSE IF cur \in outdated THEN 1 ELSE newId

LEMMA TableInit == Init => Table!Init
BY EmptyList, ConcatEmptySeq
DEF Init, Table!Init, Listed, Reported, Leaving

(* The steps that the user does not see. *)
LEMMA TableStutter ==
    ASSUME jobs' = jobs, jobId' = jobId, queue' = queue, shown' = shown,
           Leaving' = Leaving, Counter' = Counter
    PROVE  UNCHANGED Table!vars
BY DEF Table!vars, Listed, Reported, Counter, Leaving

(* The handler takes a listed child. *)
LEMMA TableEnd ==
    ASSUME TypeInv, ReportInv, ListInv, held' = {}, held = {},
           NEW p \in Procs, HandlerReap(p), MarkCompleted(p)
    PROVE  Table!End(p) \/ Leaving
<1> SUFFICES ASSUME ~Leaving PROVE Table!End(p)
    OBVIOUS
<1>0. /\ TypeOK /\ IsInjective(jobs)
      /\ queue \in Seq(Procs) /\ shown \in Seq(Procs)
    BY DEF TypeInv, TypeOK, ReportInv
<1>1. Listed' = Listed \ {p} /\ p \in Listed /\ jobs' \in Seq(Procs)
    BY <1>0, RemoveJobSet, RemoveJobType DEF MarkCompleted
<1>2. /\ pc' = pc /\ jobId' = jobId /\ cur' = cur /\ newId' = newId /\ shown' = shown
    BY DEF HandlerReap, MarkCompleted
<1>3. jobs' = <<>> <=> Listed' = {}
    BY <1>1, NoElements, EmptyList DEF Listed
<1>4. \/ Reported' = Append(Reported, p)
      \/ Reported' = Reported /\ p \in unheard'
    <2>1. CASE queue' = Append(queue, p)
        BY <1>0, <1>2, <2>1, AppendToConcat DEF Reported
    <2>2. CASE queue' = queue
        <3>1. p \notin ToSet(queue)
            BY <1>1 DEF ReportInv, Told
        <3> QED
            BY <1>2, <2>2, <3>1 DEF MarkCompleted, Reported
    <2> QED
        BY <2>1, <2>2 DEF MarkCompleted, AddMessage
<1>5. ~dangling
    BY DEF ListInv, ListWhole, Leaving
<1>6. nextJobId' = IF Listed' = {} THEN 1 ELSE nextJobId
    BY <1>3, <1>5 DEF MarkCompleted, RemoveJob
<1>7. outdated' = IF Numbered /\ Listed' = {} THEN outdated \cup {cur} ELSE outdated
    BY <1>3 DEF MarkCompleted, Numbered
<1>8. Counter' = IF Listed' = {} THEN 1 ELSE Counter
    BY <1>2, <1>6, <1>7 DEF Counter, Numbered
<1>9. ~Leaving'
    BY <1>2 DEF Leaving
<1> QED
    BY <1>1, <1>2, <1>4, <1>8, <1>9 DEF Table!End, Counter

LEMMA TableStep ==
    ASSUME TypeInv, ReportInv, ListInv, NumberInv, CounterInv, AccountInv, [Next]_vars
    PROVE  [Table!Next \/ Table!Undefined']_(Table!vars)
<1> SUFFICES ASSUME held' = {}
             PROVE  [Table!Next]_(Table!vars)
    BY DEF Table!Undefined
<1>0. /\ TypeOK
      /\ jobs \in Seq(Procs) /\ queue \in Seq(Procs) /\ shown \in Seq(Procs)
      /\ newId \in Nat /\ nextJobId \in Nat
      /\ ToSet(Reported) = Told
    BY ConcatSet DEF TypeInv, TypeOK, Reported, Told
<1>a. MishapsGrow /\ held = {}
    BY MishapsStep DEF MishapsGrow
<1>b. dangling \/ pc = "aborted" => pc = "freeing"
    BY <1>a DEF ListInv, ListWhole
<1> USE DEF At, Goto, Typed, kernelVars, mainVars, listVars, Leaving, Counter, mishaps
<1>1. ASSUME NEW p \in Procs, ChildExit(p) PROVE UNCHANGED Table!vars
    BY <1>1, TableStutter DEF ChildExit
<1>2. CASE EnterHandler
    BY <1>2, TableStutter DEF EnterHandler
<1>3. ASSUME NEW p \in Procs, HandlerReap(p)
      PROVE  Table!End(p) \/ UNCHANGED Table!vars
    <2>1. CASE MarkUnknown(p)
        <3>1. ~dangling
            BY <1>b, <2>1 DEF MarkUnknown
        <3> QED
            BY <1>3, <2>1, <3>1, TableStutter DEF HandlerReap, MarkUnknown
    <2>2. CASE MarkCompleted(p) /\ ~Leaving
        BY <1>3, <1>a, <2>2, TableEnd
    <2>3. CASE MarkCompleted(p) /\ Leaving
        <3>1. Listed = {}
            BY <2>3 DEF ListInv
        <3> QED
            BY <2>3, <3>1 DEF MarkCompleted
    <2> QED
        BY <1>3, <2>1, <2>2, <2>3 DEF HandlerReap
<1>4. CASE HandlerReturn
    BY <1>4, TableStutter DEF HandlerReturn
<1>5. CASE LoadMessage
    BY <1>5, TableStutter DEF LoadMessage
<1>6. ASSUME UnlinkMessage PROVE Table!Announce
    <2>1. /\ pc = "unlink" /\ pc' = "drain" /\ shown' = Append(shown, Head(queue))
          /\ queue' = IF lastMsg THEN <<>> ELSE Tail(queue)
          /\ jobs' = jobs /\ jobId' = jobId /\ nextJobId' = nextJobId /\ queue # <<>>
        BY <1>6 DEF UnlinkMessage, TypeInv
    <2>2. Len(shown') = Len(shown) + 1
        BY <1>0, <2>1, PopProperties, AppendProperties
    <2>3. Len(shown) < Len(Reported)
        BY <1>0, <2>1, ConcatProperties, EmptySeq DEF Reported
    <2>4. CASE ~lastMsg
        <3>1. Reported' = Reported
            BY <1>0, <2>1, <2>4, MoveHead DEF Reported
        <3> QED
            BY <2>1, <2>2, <2>3, <3>1 DEF Table!Announce, Listed
    <2>5. CASE lastMsg
        <3>1. ToSet(Tail(queue)) \subseteq unheard
            BY <2>1, <2>5 DEF AccountInv
        <3>2. Append(shown, Head(queue)) \in Seq(Procs)
            BY <1>0, <2>1, PopProperties, AppendProperties
        <3>3. Reported' = Append(shown, Head(queue))
            BY <2>1, <2>5, <3>2, ConcatEmptySeq DEF Reported
        <3>4. /\ Reported' = SubSeq(Reported, 1, Len(shown'))
              /\ \A i \in Len(shown) + 2 .. Len(Reported) : Reported[i] \in unheard
            BY <1>0, <2>1, <2>2, <3>1, <3>3, CutBehindHead DEF Reported
        <3>5. \A i \in Len(shown') + 1 .. Len(Reported) : Reported[i] \in unheard
            BY <1>0, <2>2, <3>4
        <3> QED
            BY <2>1, <2>2, <2>3, <3>4, <3>5 DEF Table!Announce, Listed
    <2> QED
        BY <2>4, <2>5
<1>7. CASE RunOther
    BY <1>7, TableStutter DEF RunOther
<1>8. CASE StartServer
    BY <1>8, TableStutter DEF StartServer
<1>9. ASSUME NEW p \in Procs, ForkForeground(p) \/ ForkBackground(p)
      PROVE  UNCHANGED Table!vars
    BY <1>9, TableStutter DEF ForkForeground, ForkBackground, Fork
<1>10. CASE WaitForeground
    BY <1>10, TableStutter DEF WaitForeground
<1>11. CASE NumberJob
    BY <1>11, TableStutter DEF NumberJob, Unlisted
<1>12. CASE BumpCounter
    <2>1. Counter' = Counter
        BY <1>12, <1>a DEF BumpCounter, CounterInv
    <2> QED
        BY <1>12, <2>1, TableStutter DEF BumpCounter
<1>13. CASE LinkJob
    <2>1. /\ jobs' = jobs /\ jobId' = jobId /\ queue' = queue /\ shown' = shown
          /\ pc = "bumped" /\ nextJobId' = nextJobId /\ cur' = cur /\ newId' = newId
          /\ outdated' = outdated /\ cur \in Procs
          /\ \/ pc' = "linked"
             \/ pc' = "drain" /\ cur \in unlisted'
        BY <1>13 DEF LinkJob, Unlisted, TypeInv, AddPoints
    <2>2. CASE pc' = "linked"
        BY <2>1, <2>2, TableStutter
    <2>3. CASE pc' = "drain"
        <3>1. \/ Counter < nextJobId
              \/ Counter = nextJobId
            BY <1>0, <1>a, <2>1 DEF CounterInv, NumberInv, Numbered, Bumped
        <3>2. CASE Counter = nextJobId
            BY <2>1, <2>3, <3>2, TableStutter
        <3>3. CASE Counter < nextJobId
            <4>1. Table!Skip(cur)
                BY <1>0, <2>1, <2>3, <3>3 DEF Table!Skip, Listed, Reported
            <4> QED
                BY <2>1, <4>1 DEF Table!Next
        <3> QED
            BY <3>1, <3>2, <3>3
    <2> QED
        BY <2>1, <2>2, <2>3
<1>14. ASSUME PublishJob PROVE Table!Start(cur) /\ cur \in Procs
    <2>1. pc = "linked" /\ pc' = "published" /\ cur \in Procs /\ cur \notin Listed \cup Told
        BY <1>14 DEF PublishJob, TypeInv, ReportInv, Adding, AddPoints
    <2>2. link = NoProc \/ link \in Listed
        BY <1>a, <2>1 DEF ListInv
    <2>3. /\ jobs' = <<cur>> \o jobs
          /\ jobId' = [jobId EXCEPT ![cur] = newId] /\ nextJobId' = nextJobId
          /\ queue' = queue /\ shown' = shown /\ outdated' = outdated
        BY <1>14, <2>2 DEF PublishJob
    <2>4. Listed' = Listed \cup {cur}
        BY <1>0, <2>1, <2>3, PushProperties DEF Listed
    <2>5. Reported' = Reported
        BY <2>3 DEF Reported
    <2>6. cur \notin Listed \cup Table!ToSet(Reported)
        BY <1>0, <2>1 DEF ToSet, Table!ToSet
    <2>7. jobId' = [jobId EXCEPT ![cur] = newId] /\ jobId'[cur] = newId
        BY <1>0, <2>1, <2>3 DEF TypeOK
    <2>8. \/ Counter = newId /\ Counter' = newId + 1
          \/ /\ cur \in outdated /\ Counter <= newId
             /\ Counter' \in {Counter, newId + 1}
        BY <1>0, <1>a, <2>1, <2>3 DEF CounterInv, NumberInv, Numbered, Bumped
    <2>9. ~Leaving /\ ~Leaving'
        BY <2>1
    <2>10. Table!Start(cur)
        <3> HIDE DEF Counter, Leaving
        <3>1. CASE Counter = newId /\ Counter' = newId + 1
            BY <2>3, <2>4, <2>5, <2>6, <2>7, <2>9, <3>1
            DEF Table!Start, Counter, Leaving
        <3>2. CASE cur \in outdated /\ Counter <= newId /\ Counter' \in {Counter, newId + 1}
            BY <1>0, <2>3, <2>4, <2>5, <2>6, <2>7, <2>9, <3>2
            DEF Table!Start, Counter, Leaving
        <3> QED
            BY <2>8, <3>1, <3>2
    <2> QED
        BY <2>1, <2>10
<1>15. CASE ReportJob
    <2>1. pc' = "drain" \/ pc' = "aborted"
        BY <1>15 DEF ReportJob
    <2> QED
        BY <1>15, <2>1, TableStutter DEF ReportJob
<1>16. CASE StartPs
    BY <1>16, TableStutter DEF StartPs
<1>17. CASE StepPs
    BY <1>17, TableStutter DEF StepPs
<1>18. ASSUME BeginExit PROVE Table!Leave
    <2>1. /\ pc = "read" /\ pc' = "freeing" /\ jobs' = <<>>
          /\ shown' = shown /\ jobId' = jobId /\ nextJobId' = nextJobId
        BY <1>18, <1>b DEF BeginExit
    <2>2. Listed' = {}
        BY <2>1, EmptyList DEF Listed
    <2>3. SubSeq(Reported, 1, Len(shown)) = shown
        BY <1>0, FirstOfConcat DEF Reported
    <2> QED
        BY <2>1, <2>2, <2>3 DEF Table!Leave
<1>19. CASE FinishExit
    <2>1. /\ pc = "freeing" /\ pc' = "exited" /\ jobs' = jobs
          /\ shown' = shown /\ jobId' = jobId /\ nextJobId' = nextJobId
        BY <1>19 DEF FinishExit
    <2> QED
        BY <2>1 DEF Table!vars, Listed
<1>20. CASE UNCHANGED vars
    BY <1>20, TableStutter DEF vars
<1> QED
    BY <1>1, <1>2, <1>3, <1>4, <1>5, <1>6, <1>7, <1>8, <1>9, <1>10, <1>11,
       <1>12, <1>13, <1>14, <1>15, <1>16, <1>17, <1>18, <1>19, <1>20
    DEF Next, Handler, Main, Terminated, Table!Next

(* The shell implements the job list as its user sees it, with SIGCHLD     *)
(* striking anywhere, memory short and servers started; JobTable says what *)
(* each mishap may spoil.                                                  *)
THEOREM ShellRefines == Spec => TableSpec
<1>1. /\ TypeInv /\ ReportInv /\ ListInv /\ (NumberInv /\ CounterInv) /\ AccountInv
      /\ [Next]_vars
      => [Table!Next \/ Table!Undefined']_(Table!vars)
    BY TableStep
<1>2. TypeInv /\ [Next]_vars => [Table!MoreMishaps]_(Table!mishaps)
    BY MishapsStep DEF MishapsGrow, Table!MoreMishaps
<1> QED
    BY <1>1, <1>2, TableInit, AccountInvAlways, NumberInvAlways, ListInvAlways,
       TypeInvAlways, ReportInvAlways, PTL
    DEF Spec, TableSpec, Table!Spec

-----------------------------------------------------------------------------
(* What JobTable keeps, whatever implements it, as long as its memory is   *)
(* not broken: the news told are news there are, and the counter is ahead  *)
(* of every number in use but an outdated one, so that the next job's      *)
(* number is new.                                                          *)
TableInv ==
    Table!Undefined \/ (Table!TypeOK /\ Table!NumbersDistinct /\ Table!CounterAhead)

LEMMA TableInvInit == Table!Init => TableInv
BY DEF Table!Init, TableInv, Table!TypeOK, Table!NumbersDistinct, Table!CounterAhead

LEMMA TableInvStep ==
    TableInv /\ [Table!Next \/ Table!Undefined']_(Table!vars)
        /\ [Table!MoreMishaps]_(Table!mishaps) => TableInv'
<1> SUFFICES ASSUME TableInv, [Table!Next]_(Table!vars),
                    ~Table!Undefined',
                    [Table!MoreMishaps]_(Table!mishaps)
             PROVE  TableInv'
    BY DEF TableInv
<1> DEFINE finished == IF Leaving THEN shown ELSE Reported
           told == Len(shown)
<1>a. Table!MoreMishaps
    BY DEF Table!MoreMishaps, Table!mishaps
<1>b. Table!TypeOK /\ Table!NumbersDistinct /\ Table!CounterAhead
    BY <1>a DEF TableInv, Table!MoreMishaps, Table!Undefined
<1> SUFFICES Table!TypeOK' /\ Table!NumbersDistinct' /\ Table!CounterAhead'
    BY DEF TableInv
<1> USE <1>a, <1>b DEF Table!MoreMishaps,
        Table!TypeOK, Table!NumbersDistinct, Table!CounterAhead
<1>0. Len(finished) \in Nat
    OBVIOUS
<1>1. ASSUME NEW j \in Procs, Table!Start(j)
      PROVE  Table!TypeOK' /\ Table!NumbersDistinct' /\ Table!CounterAhead'
    <2> DEFINE count == IF pc \notin {"bumped", "linked"} THEN nextJobId
                        ELSE IF cur \in outdated THEN 1 ELSE newId
    <2>1. /\ Listed' = Listed \cup {j} /\ finished' = finished /\ told' = told
          /\ jobId' = [jobId EXCEPT ![j] = jobId'[j]]
          /\ jobId'[j] \in Nat /\ count' \in Nat
          /\ count <= jobId'[j] /\ count <= count'
          /\ j \in outdated \/ jobId'[j] < count'
        <3>1. CASE jobId' = [jobId EXCEPT ![j] = count] /\ count' = count + 1
            BY <1>1, <3>1 DEF Table!Start
        <3>2. CASE /\ j \in outdated
                   /\ jobId'[j] \in Nat /\ count <= jobId'[j]
                   /\ jobId' = [jobId EXCEPT ![j] = jobId'[j]]
                   /\ count' \in {count, jobId'[j] + 1}
            BY <1>1, <3>2 DEF Table!Start
        <3> QED
            BY <1>1, <3>1, <3>2 DEF Table!Start
    <2>2. /\ Listed \subseteq Procs /\ jobId \in [Procs -> Nat] /\ count \in Nat
          /\ finished \in Seq(Procs) /\ told \in 0 .. Len(finished)
          /\ \A i \in Listed \ outdated : jobId[i] < count
        OBVIOUS
    <2>3. \A i, k \in Listed :
             jobId[i] = jobId[k] => i = k \/ i \in outdated \/ k \in outdated
        OBVIOUS
    <2>4. outdated \subseteq outdated' /\ ~Leaving'
        BY <1>1 DEF Table!Start
    <2>5. /\ Listed' \subseteq Procs /\ jobId' \in [Procs -> Nat] /\ count' \in Nat
          /\ finished' \in Seq(Procs) /\ told' \in 0 .. Len(finished')
        <3> HIDE DEF count, finished, told
        <3> QED
            BY <2>1, <2>2
    <2>6. \A i \in Listed' \ outdated' : jobId'[i] < count'
        <3> HIDE DEF count, finished, told
        <3> QED
            BY <2>1, <2>2, <2>4
    <2>7. \A i, k \in Listed' :
             jobId'[i] = jobId'[k] => i = k \/ i \in outdated' \/ k \in outdated'
        <3> HIDE DEF count, finished, told
        <3> QED
            BY <2>1, <2>2, <2>3, <2>4
    <2> QED
        BY <2>5, <2>6, <2>7
<1>2. ASSUME NEW j \in Procs, Table!End(j)
      PROVE  Table!TypeOK' /\ Table!NumbersDistinct' /\ Table!CounterAhead'
    <2>1. finished' \in Seq(Procs) /\ Len(finished') >= Len(finished)
        <3>1. finished' = Append(finished, j) \/ finished' = finished
            BY <1>2 DEF Table!End
        <3>2. finished \in Seq(Procs)
            OBVIOUS
        <3>3. \A f \in Seq(Procs) :
                 Append(f, j) \in Seq(Procs) /\ Len(Append(f, j)) >= Len(f) /\ Len(f) >= Len(f)
            OBVIOUS
        <3> HIDE DEF finished
        <3> QED
            BY <3>1, <3>2, <3>3, Zenon
    <2> QED
        BY <1>0, <1>2, <2>1 DEF Table!End
<1>3. CASE Table!Announce
    <2>1. told < Len(finished) /\ told' = told + 1
        BY <1>3 DEF Table!Announce
    <2>2. finished' \in Seq(Procs) /\ told' \in 0 .. Len(finished')
        <3>1. finished' = finished \/ finished' = SubSeq(finished, 1, told')
            BY <1>3 DEF Table!Announce
        <3>2. finished \in Seq(Procs) /\ told \in Nat
            OBVIOUS
        <3>3. \A f \in Seq(Procs), n \in Nat :
                 n \in 1 .. Len(f) => SubSeq(f, 1, n) \in Seq(Procs)
                                        /\ Len(SubSeq(f, 1, n)) = n
            OBVIOUS
        <3>4. told' \in Nat /\ told' \in 1 .. Len(finished)
            BY <1>0, <2>1, <3>2
        <3> HIDE DEF finished, told
        <3>5. CASE finished' = finished
            BY <3>2, <3>4, <3>5
        <3>6. CASE finished' = SubSeq(finished, 1, told')
            <4>1. finished' \in Seq(Procs) /\ Len(finished') = told'
                BY <3>2, <3>3, <3>4, <3>6, Zenon
            <4> QED
                BY <3>4, <4>1
        <3> QED
            BY <3>1, <3>5, <3>6
    <2> QED
        BY <1>0, <1>3, <2>2 DEF Table!Announce
<1>4. CASE Table!Leave
    <2>1. finished' \in Seq(Procs) /\ Len(finished') = told
        BY <1>0, <1>4, SubSeqProperties DEF Table!Leave
    <2>2. told' = told /\ told \in 0 .. Len(finished')
        BY <1>0, <1>4, <2>1 DEF Table!Leave
    <2> QED
        BY <1>4, <2>1, <2>2 DEF Table!Leave
<1>5. ASSUME NEW j \in Procs, Table!Skip(j)
      PROVE  Table!TypeOK' /\ Table!NumbersDistinct' /\ Table!CounterAhead'
    BY <1>0, <1>5 DEF Table!Skip
<1>6. CASE UNCHANGED Table!vars
    BY <1>6 DEF Table!vars
<1> QED
    BY <1>1, <1>2, <1>3, <1>4, <1>5, <1>6 DEF Table!Next

(* A job list that keeps the promises of JobTable has two jobs under one   *)
(* number only if one of the numbers is outdated.                          *)
THEOREM TableSound ==
    Table!Spec => [](Table!Undefined \/ (Table!TypeOK /\ Table!NumbersDistinct
                                          /\ Table!CounterAhead))
<1> QED
    BY TableInvInit, TableInvStep, PTL DEF Table!Spec, TableInv

=============================================================================
