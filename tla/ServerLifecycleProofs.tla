----------------------- MODULE ServerLifecycleProofs -----------------------
(***************************************************************************)
(* What is proved about start-server and close-server, for any number of   *)
(* shells and process numbers and any number of polls.                     *)
(***************************************************************************)
EXTENDS ServerLifecycle, FiniteSetTheorems, TLAPS

(* While close-server is at work the shell still counts its server as      *)
(* running, and while start-server is, it does not.  The polls left are    *)
(* not used up while it waits.                                             *)
StepsFit ==
    \A s \in Shells :
        /\ pc[s] \in Closing => running[s]
        /\ pc[s] \in {"testing", "tested", "exited"} => ~running[s]
        /\ pc[s] = "waiting" => tries[s] > 0

Owned == \A p \in Pids : IsServer(p) => owner[p] \in Shells

Inv == TypeOK /\ StepsFit /\ Owned /\ NoServerForgotten

(* Without overlap there is at most one shell that is starting a server or *)
(* one server, and not one of each.                                        *)
OneAtATime ==
    ~overlapped =>
        /\ \A p, q \in Pids : IsServer(p) /\ IsServer(q) => p = q
        /\ \A s, t \in Shells :
              pc[s] \in {"testing", "tested"} /\ pc[t] \in {"testing", "tested"} => s = t
        /\ \A p \in Pids, s \in Shells : IsServer(p) => pc[s] \notin {"testing", "tested"}

LEMMA InitInv ==
    Init => Inv /\ OneAtATime
<1> SUFFICES ASSUME Init
             PROVE  Inv /\ OneAtATime
    OBVIOUS
<1>1. TypeOK
    <2>1. tries \in [Shells -> 0 .. MaxTries] /\ pc \in [Shells -> {"prompt"}]
        BY TriesAssumption DEF Init
    <2>2. /\ running \in [Shells -> BOOLEAN] /\ term \in [Pids -> BOOLEAN]
          /\ overlapped \in BOOLEAN
          /\ \A s \in Shells : ~running[s]
        BY Zenon DEF Init
    <2>3. /\ server_pid \in [Shells -> Pids \cup {NoPid}]
          /\ owner \in [Pids -> Shells \cup {NoPid}]
          /\ proc \in [Pids -> {"free", "starting", "serving", "stranger"}]
        BY DEF Init
    <2> QED
        BY <2>1, <2>2, <2>3 DEF TypeOK
<1>2. StepsFit /\ Owned /\ NoServerForgotten /\ OneAtATime
    BY DEF Init, StepsFit, Owned, NoServerForgotten, OneAtATime, IsServer, Closing
<1> QED
    BY <1>1, <1>2 DEF Inv

(* A process that goes away disturbs nothing. *)
LEMMA FreeKeeps ==
    ASSUME Inv, NEW p \in Pids, Free(p), UNCHANGED <<shellVars, overlapped>>
    PROVE  Inv'
<1> USE DEF Inv, Free, shellVars
<1>1. TypeOK'
    BY DEF TypeOK, Closing
<1>2. StepsFit'
    BY DEF StepsFit, Closing
<1>3. Owned'
    BY DEF Owned, IsServer, TypeOK
<1>4. NoServerForgotten'
    BY DEF NoServerForgotten, IsServer, TypeOK, At
<1> QED
    BY <1>1, <1>2, <1>3, <1>4

LEMMA StepInv ==
    Inv /\ [Next]_vars => Inv'
<1> SUFFICES ASSUME Inv, [Next]_vars
             PROVE  Inv'
    OBVIOUS
<1> USE DEF Inv
<1>1. ASSUME NEW s \in Shells, TestPort(s)
      PROVE  Inv'
    BY <1>1 DEF TestPort, At, Goto, TypeOK, StepsFit, Owned, NoServerForgotten, IsServer,
                Closing, procVars, UnderWay
<1>2. ASSUME NEW s \in Shells, CloseTest(s)
      PROVE  Inv'
    BY <1>2 DEF CloseTest, At, Goto, TypeOK, StepsFit, Owned, NoServerForgotten, IsServer,
                Closing, procVars
<1>3. ASSUME NEW s \in Shells, ForkServer(s)
      PROVE  Inv'
    <2>1. TypeOK'
        <3>1. /\ term' = term /\ overlapped' = overlapped
              /\ tries' = tries /\ pc' = [pc EXCEPT ![s] = "prompt"]
            BY <1>3 DEF ForkServer, Goto
        <3>2. CASE UNCHANGED <<proc, owner, running, server_pid>>
            BY <3>1, <3>2 DEF TypeOK, Closing
        <3>3. ASSUME NEW p \in Pids,
                     proc' = [proc EXCEPT ![p] = "starting"],
                     owner' = [owner EXCEPT ![p] = s],
                     running' = [running EXCEPT ![s] = TRUE],
                     server_pid' = [server_pid EXCEPT ![s] = p]
              PROVE  TypeOK'
            BY <3>1, <3>3 DEF TypeOK, Closing
        <3> QED
            BY <1>3, <3>2, <3>3 DEF ForkServer
    <2>2. StepsFit'
        BY <1>3 DEF ForkServer, At, Goto, TypeOK, StepsFit, Closing
    <2>3. Owned'
        BY <1>3 DEF ForkServer, At, Goto, TypeOK, Owned, IsServer
    <2>4. NoServerForgotten'
        BY <1>3 DEF ForkServer, At, Goto, TypeOK, StepsFit, Owned, NoServerForgotten, IsServer, Closing
    <2> QED
        BY <2>1, <2>2, <2>3, <2>4
<1>4. ASSUME NEW s \in Shells, Probe(s)
      PROVE  Inv'
    <2>1. TypeOK'
        <3>1. UNCHANGED <<tries, proc, owner, term, overlapped>>
            BY <1>4 DEF Probe, procVars
        <3>2. CASE CleanUp(s)
            BY <3>1, <3>2 DEF CleanUp, Goto, TypeOK
        <3>3. CASE Goto(s, "probed") /\ UNCHANGED <<running, server_pid>>
            BY <3>1, <3>3 DEF Goto, TypeOK, Closing
        <3> QED
            BY <1>4, <3>2, <3>3 DEF Probe
    <2>2. StepsFit'
        BY <1>4 DEF Probe, CleanUp, At, Goto, procVars, TypeOK, StepsFit, Closing
    <2>3. Owned'
        BY <1>4 DEF Probe, CleanUp, At, Goto, procVars, TypeOK, Owned, IsServer
    <2>4. NoServerForgotten'
        BY <1>4 DEF Probe, CleanUp, At, Goto, procVars, TypeOK, StepsFit, Owned, NoServerForgotten, IsServer, Closing
    <2> QED
        BY <2>1, <2>2, <2>3, <2>4
<1>5. ASSUME NEW s \in Shells, Terminate(s)
      PROVE  Inv'
    <2>1. TypeOK'
        <3>1. overlapped' \in BOOLEAN
            BY <1>5, Zenon DEF Terminate, TypeOK
        <3>2. proc' = proc /\ owner' = owner /\ MaxTries \in 0 .. MaxTries
            BY <1>5, TriesAssumption DEF Terminate
        <3>3. CASE CleanUp(s) /\ tries' = tries /\ term' = term
            BY <3>1, <3>2, <3>3 DEF CleanUp, Goto, TypeOK, Closing
        <3>4. CASE /\ term' = [term EXCEPT ![server_pid[s]] = TRUE]
                   /\ Goto(s, "waiting")
                   /\ tries' = [tries EXCEPT ![s] = MaxTries]
                   /\ running' = running /\ server_pid' = server_pid
            BY <3>1, <3>2, <3>4 DEF Goto, TypeOK, Closing
        <3>5. CASE /\ Goto(s, "prompt")
                   /\ running' = running /\ server_pid' = server_pid
                   /\ tries' = tries /\ term' = term
            BY <3>1, <3>2, <3>5 DEF Goto, TypeOK, Closing
        <3> QED
            BY <1>5, <3>3, <3>4, <3>5 DEF Terminate
    <2>2. StepsFit'
        BY <1>5, TriesAssumption DEF Terminate, CleanUp, ChildOf, At, Goto, TypeOK, StepsFit, Closing
    <2>3. Owned'
        BY <1>5 DEF Terminate, CleanUp, ChildOf, At, Goto, TypeOK, Owned, IsServer
    <2>4. NoServerForgotten'
        BY <1>5 DEF Terminate, CleanUp, ChildOf, At, Goto, TypeOK, StepsFit, Owned, NoServerForgotten, IsServer, Closing
    <2> QED
        BY <2>1, <2>2, <2>3, <2>4
<1>6. ASSUME NEW s \in Shells, Poll(s)
      PROVE  Inv'
    <2>1. TypeOK'
        <3>1. tries[s] - 1 \in 0 .. MaxTries
            BY <1>6, TriesAssumption DEF Poll, At, TypeOK, StepsFit
        <3>2. tries' \in [Shells -> 0 .. MaxTries]
            BY <1>6, <3>1 DEF Poll, TypeOK
        <3>3. UNCHANGED procVars /\ overlapped' \in BOOLEAN
            BY <1>6, Zenon DEF Poll, TypeOK
        <3>4. \/ Goto(s, "killing") /\ UNCHANGED <<running, server_pid>>
              \/ CleanUp(s)
              \/ UNCHANGED <<pc, running, server_pid>>
            BY <1>6 DEF Poll
        <3> QED
            BY <3>2, <3>3, <3>4 DEF CleanUp, Goto, procVars, TypeOK, Closing
    <2>2. StepsFit'
        BY <1>6, TriesAssumption DEF Poll, CleanUp, ChildOf, IsServer, At, Goto, procVars, TypeOK, StepsFit, Closing
    <2>3. Owned'
        BY <1>6 DEF Poll, CleanUp, ChildOf, IsServer, At, Goto, procVars, TypeOK, Owned, IsServer
    <2>4. NoServerForgotten'
        BY <1>6 DEF Poll, CleanUp, ChildOf, IsServer, At, Goto, procVars, TypeOK, StepsFit, Owned, NoServerForgotten, IsServer, Closing
    <2> QED
        BY <2>1, <2>2, <2>3, <2>4
<1>7. ASSUME NEW s \in Shells, Kill(s)
      PROVE  Inv'
    <2>1. TypeOK'
        BY <1>7 DEF Kill, CleanUp, Free, ChildOf, IsServer, At, Goto, procVars, TypeOK, StepsFit, Closing
    <2>2. StepsFit'
        BY <1>7 DEF Kill, CleanUp, Free, ChildOf, IsServer, At, Goto, procVars, TypeOK, StepsFit, Closing
    <2>3. Owned'
        BY <1>7 DEF Kill, CleanUp, Free, ChildOf, IsServer, At, Goto, procVars, TypeOK, Owned, IsServer
    <2>4. NoServerForgotten'
        BY <1>7 DEF Kill, CleanUp, Free, ChildOf, IsServer, At, Goto, procVars, TypeOK, StepsFit, Owned, NoServerForgotten, IsServer, Closing
    <2> QED
        BY <2>1, <2>2, <2>3, <2>4
<1>8. ASSUME NEW s \in Shells, SendNotices(s)
      PROVE  Inv'
    BY <1>8
       DEF SendNotices, At, Goto, TypeOK, StepsFit, Owned, NoServerForgotten, IsServer,
           Closing, procVars
<1>9. ASSUME NEW s \in Shells, Exit(s)
      PROVE  Inv'
    BY <1>9
       DEF Exit, At, Goto, TypeOK, StepsFit, Owned, NoServerForgotten, IsServer,
           Closing, procVars
<1>10. ASSUME NEW p \in Pids, ServerBind(p)
       PROVE  Inv'
    BY <1>10, FreeKeeps DEF ServerBind, TypeOK, StepsFit, Owned, NoServerForgotten, IsServer,
                            At, Closing, shellVars
<1>11. ASSUME NEW p \in Pids, TermServer(p) \/ ServerDies(p) \/ StrangerEnds(p)
       PROVE  Inv'
    BY <1>11, FreeKeeps DEF TermServer, ServerDies, StrangerEnds, TypeOK
<1>12. ASSUME NEW p \in Pids, StrangerStarts(p)
       PROVE  Inv'
    BY <1>12 DEF StrangerStarts, TypeOK, StepsFit, Owned, NoServerForgotten, IsServer,
                 At, Closing, shellVars
<1>13. ASSUME UNCHANGED vars
       PROVE  Inv'
    BY <1>13 DEF vars, shellVars, procVars, TypeOK, StepsFit, Owned, NoServerForgotten,
                 IsServer, At, Closing
<1> QED
    BY <1>1, <1>2, <1>3, <1>4, <1>5, <1>6, <1>7, <1>8, <1>9, <1>10, <1>11, <1>12, <1>13
       DEF Next, Start, Close, Server, World, Terminated

LEMMA StepOneAtATime ==
    Inv /\ OneAtATime /\ [Next]_vars => OneAtATime'
<1> SUFFICES ASSUME Inv, OneAtATime, [Next]_vars
             PROVE  OneAtATime'
    OBVIOUS
<1> USE DEF Inv
<1>1. ASSUME NEW s \in Shells, TestPort(s)
      PROVE  OneAtATime'
    BY <1>1 DEF TestPort, UnderWay, Starting, Serving, At, Goto, TypeOK, OneAtATime, IsServer,
                procVars
<1>2. ASSUME NEW s \in Shells, CloseTest(s)
      PROVE  OneAtATime'
    BY <1>2 DEF CloseTest, At, Goto, TypeOK, OneAtATime, IsServer, procVars
<1>3. ASSUME NEW s \in Shells, ForkServer(s)
      PROVE  OneAtATime'
    BY <1>3 DEF ForkServer, At, Goto, TypeOK, OneAtATime, IsServer
<1>4. ASSUME NEW s \in Shells, Probe(s) \/ Terminate(s) \/ Poll(s)
      PROVE  OneAtATime'
    BY <1>4 DEF Probe, Terminate, Poll, CleanUp, At, Goto, TypeOK, OneAtATime, IsServer,
                procVars, Closing
<1>5. ASSUME NEW s \in Shells, Kill(s)
      PROVE  OneAtATime'
    BY <1>5 DEF Kill, CleanUp, Free, At, Goto, TypeOK, OneAtATime, IsServer, procVars
<1>6. ASSUME NEW s \in Shells, SendNotices(s) \/ Exit(s)
      PROVE  OneAtATime'
    BY <1>6 DEF SendNotices, Exit, At, Goto, TypeOK, OneAtATime, IsServer, procVars
<1>7. ASSUME NEW p \in Pids, Server(p) \/ World(p)
      PROVE  OneAtATime'
    BY <1>7 DEF Server, World, ServerBind, TermServer, ServerDies, StrangerStarts, StrangerEnds,
                Free, TypeOK, OneAtATime, IsServer, shellVars
<1>8. ASSUME UNCHANGED vars
      PROVE  OneAtATime'
    BY <1>8 DEF vars, shellVars, procVars, OneAtATime, IsServer
<1> QED
    BY <1>1, <1>2, <1>3, <1>4, <1>5, <1>6, <1>7, <1>8
       DEF Next, Start, Close, Terminated

(* A shell that still runs knows every server it forked, and close-server  *)
(* leaves none behind (network.c:572-596).                                 *)
THEOREM ServersRemembered == Spec => []NoServerForgotten
<1>1. Inv => NoServerForgotten
    BY DEF Inv
<1> QED
    BY <1>1, InitInv, StepInv, PTL DEF Spec

(* Type correctness; in particular cmd_close_server's retries stay within  *)
(* their bounds (network.c:570-589).                                       *)
THEOREM LifecycleTypes == Spec => []TypeOK
<1>1. Inv => TypeOK
    BY DEF Inv
<1> QED
    BY <1>1, InitInv, StepInv, PTL DEF Spec

(* One server to a port, unless two start-servers overlapped               *)
(* (network.c:480, 292).                                                   *)
THEOREM PortNotShared == Spec => []OneServerPerPort
<1>1. OneAtATime => OneServerPerPort
    <2> SUFFICES ASSUME OneAtATime, ~overlapped
                 PROVE  Cardinality(Serving) <= 1
        BY DEF OneServerPerPort
    <2>1. \A p, q \in Serving : p = q
        BY DEF OneAtATime, Serving, IsServer
    <2>2. CASE Serving = {}
        BY <2>2, FS_EmptySet
    <2>3. CASE Serving # {}
        <3>1. PICK p \in Serving : Serving = {p}
            BY <2>1, <2>3
        <3> QED
            BY <3>1, FS_Singleton
    <2> QED
        BY <2>2, <2>3
<1> QED
    BY <1>1, InitInv, StepInv, StepOneAtATime, PTL DEF Spec

=============================================================================
