-------------------------- MODULE ServerLifecycle --------------------------
(***************************************************************************)
(* start-server, close-server and what the shell remembers of its server   *)
(* (cmd_start_server, cmd_close_server, cleanup_server and server_info,    *)
(* network.c), for shells that are all told the same port.                 *)
(*                                                                         *)
(* The server is a process of its own: it is forked after the port was     *)
(* tried, it binds the port some time after the shell has said that it     *)
(* started, it may die unnoticed, and since start-server ignores SIGCHLD   *)
(* nothing keeps its process number from being given to somebody else.     *)
(***************************************************************************)
EXTENDS Naturals, FiniteSets

CONSTANTS
    Shells,
    Pids,        \* process numbers
    NoPid,       \* server_pid = -1
    MaxTries     \* the 10 polls of cmd_close_server

ASSUME PidsAssumption == NoPid \notin Pids
ASSUME TriesAssumption == MaxTries \in Nat \ {0}

VARIABLES
    pc,          \* where each shell is
    running,     \* server_info.running of each shell
    server_pid,  \* server_info.server_pid of each shell
    tries,       \* retries in cmd_close_server
    proc,        \* the process behind each number
    owner,       \* the shell that forked the process, or NoPid
    term,        \* has the process a SIGTERM to act on?
    \* history
    overlapped   \* did one start-server begin while another was under way?

shellVars == <<pc, running, server_pid, tries>>
procVars == <<proc, owner, term>>
vars == <<shellVars, procVars, overlapped>>

Closing == {"probed", "waiting", "killing"}

TypeOK ==
    /\ pc \in [Shells -> {"prompt", "testing", "tested", "exited"} \cup Closing]
    /\ running \in [Shells -> BOOLEAN]
    /\ server_pid \in [Shells -> Pids \cup {NoPid}]
    /\ tries \in [Shells -> 0..MaxTries]
    /\ proc \in [Pids -> {"free", "starting", "serving", "stranger"}]
    /\ owner \in [Pids -> Shells \cup {NoPid}]
    /\ term \in [Pids -> BOOLEAN]
    /\ overlapped \in BOOLEAN
    /\ \A s \in Shells : running[s] => server_pid[s] \in Pids

Init ==
    /\ pc = [s \in Shells |-> "prompt"]
    /\ running = [s \in Shells |-> FALSE]
    /\ server_pid = [s \in Shells |-> NoPid]
    /\ tries = [s \in Shells |-> 0]
    /\ proc = [p \in Pids |-> "free"]
    /\ owner = [p \in Pids |-> NoPid]
    /\ term = [p \in Pids |-> FALSE]
    /\ overlapped = FALSE

At(s, point) == pc[s] = point
Goto(s, point) == pc' = [pc EXCEPT ![s] = point]

IsServer(p) == proc[p] \in {"starting", "serving"}
Serving == {p \in Pids : proc[p] = "serving"}
Testing == {s \in Shells : At(s, "testing")}
Starting == {p \in Pids : proc[p] = "starting"}

(* The children of shell s, as waitpid knows them. *)
ChildOf(s, p) == IsServer(p) /\ owner[p] = s

-----------------------------------------------------------------------------
(* start-server.  It is refused while running is set, and when the port is *)
(* found taken; neither changes anything.                                  *)

(* Is a start-server between its test of the port and its server's bind? *)
UnderWay == Starting # {} \/ \E s \in Shells : pc[s] \in {"testing", "tested"}

(* bind of the test socket, which asks for the port for itself alone. *)
TestPort_Shares(s) ==
    /\ At(s, "prompt") /\ ~running[s]
    /\ Goto(s, "testing")
    /\ overlapped' = (overlapped \/ UnderWay)
    /\ UNCHANGED <<running, server_pid, tries, procVars>>

TestPort(s) ==
    /\ At(s, "prompt") /\ ~running[s]
    /\ Serving = {} /\ Testing = {}
    /\ Goto(s, "testing")
    /\ overlapped' = (overlapped \/ UnderWay)
    /\ UNCHANGED <<running, server_pid, tries, procVars>>

CloseTest(s) ==
    /\ At(s, "testing")
    /\ Goto(s, "tested")
    /\ UNCHANGED <<running, server_pid, tries, procVars, overlapped>>

(* fork: the shell records the child and says that the server started. *)
ForkServer(s) ==
    /\ At(s, "tested")
    /\ Goto(s, "prompt")
    /\ \/ \E p \in Pids :
             /\ proc[p] = "free"
             /\ proc' = [proc EXCEPT ![p] = "starting"]
             /\ owner' = [owner EXCEPT ![p] = s]
             /\ running' = [running EXCEPT ![s] = TRUE]
             /\ server_pid' = [server_pid EXCEPT ![s] = p]
       \/ UNCHANGED <<proc, owner, running, server_pid>>
    /\ UNCHANGED <<tries, term, overlapped>>

-----------------------------------------------------------------------------
(* The server.                                                             *)

Free(p) ==
    /\ proc' = [proc EXCEPT ![p] = "free"]
    /\ owner' = [owner EXCEPT ![p] = NoPid]
    /\ term' = [term EXCEPT ![p] = FALSE]

(* run_server up to listen.  It sets SO_REUSEPORT, so that the sockets of  *)
(* other servers do not stand in its way; a test socket does.              *)
ServerBind(p) ==
    /\ proc[p] = "starting"
    /\ \/ /\ Testing = {}
          /\ proc' = [proc EXCEPT ![p] = "serving"]
          /\ UNCHANGED <<owner, term>>
       \/ /\ Testing # {}
          /\ Free(p)
    /\ UNCHANGED <<shellVars, overlapped>>

(* A system call of run_server's may fail before it serves, and a SIGPIPE   *)
(* in a broadcast may kill it later.                                        *)
ServerDies(p) ==
    /\ IsServer(p)
    /\ Free(p)
    /\ UNCHANGED <<shellVars, overlapped>>

(* The default action of SIGTERM. *)
TermServer(p) ==
    /\ IsServer(p) /\ term[p]
    /\ Free(p)
    /\ UNCHANGED <<shellVars, overlapped>>

(* Other processes of the machine come and go. *)
StrangerStarts(p) ==
    /\ proc[p] = "free"
    /\ proc' = [proc EXCEPT ![p] = "stranger"]
    /\ UNCHANGED <<shellVars, owner, term, overlapped>>

StrangerEnds(p) ==
    /\ proc[p] = "stranger"
    /\ Free(p)
    /\ UNCHANGED <<shellVars, overlapped>>

-----------------------------------------------------------------------------
(* close-server, refused unless running is set.                            *)

CleanUp(s) ==
    /\ running' = [running EXCEPT ![s] = FALSE]
    /\ server_pid' = [server_pid EXCEPT ![s] = NoPid]
    /\ Goto(s, "prompt")

(* kill(server_pid, 0): is there a process with that number? *)
Probe(s) ==
    /\ At(s, "prompt") /\ running[s]
    /\ \/ proc[server_pid[s]] = "free" /\ CleanUp(s)
       \/ proc[server_pid[s]] # "free" /\ Goto(s, "probed") /\ UNCHANGED <<running, server_pid>>
    /\ UNCHANGED <<tries, procVars, overlapped>>

(* Whatever process has the number gets the signal, unless it belongs to   *)
(* another user.                                                           *)
Terminate(s) ==
    LET p == server_pid[s] IN
    /\ At(s, "probed")
    /\ \/ /\ proc[p] = "free"
          /\ CleanUp(s)
          /\ UNCHANGED <<tries, term>>
       \/ /\ proc[p] # "free"
          /\ term' = [term EXCEPT ![p] = TRUE]
          /\ Goto(s, "waiting")
          /\ tries' = [tries EXCEPT ![s] = MaxTries]
          /\ UNCHANGED <<running, server_pid>>
       \/ /\ proc[p] = "stranger"
          /\ Goto(s, "prompt")
          /\ UNCHANGED <<running, server_pid, tries, term>>
    /\ UNCHANGED <<proc, owner, overlapped>>

(* One waitpid(server_pid, WNOHANG) and the sleep after it.  It returns 0  *)
(* while the child lives and -1 once it is gone, since SIGCHLD is ignored. *)
(* A child found gone at the last poll is still sent a SIGKILL.            *)
Poll_ForgetsAtLast(s) ==
    LET left == tries[s] - 1 IN
    /\ At(s, "waiting")
    /\ tries' = [tries EXCEPT ![s] = left]
    /\ \/ left = 0 /\ CleanUp(s)
       \/ left > 0 /\ ~ChildOf(s, server_pid[s]) /\ CleanUp(s)
       \/ left > 0 /\ ChildOf(s, server_pid[s]) /\ UNCHANGED <<pc, running, server_pid>>
    /\ UNCHANGED <<procVars, overlapped>>

Poll_Forever(s) ==
    /\ At(s, "waiting")
    /\ \/ ~ChildOf(s, server_pid[s]) /\ CleanUp(s)
       \/ ChildOf(s, server_pid[s]) /\ UNCHANGED <<pc, running, server_pid>>
    /\ UNCHANGED <<tries, procVars, overlapped>>

Poll(s) ==
    LET left == tries[s] - 1 IN
    /\ At(s, "waiting")
    /\ tries' = [tries EXCEPT ![s] = left]
    /\ \/ left = 0 /\ Goto(s, "killing") /\ UNCHANGED <<running, server_pid>>
       \/ left > 0 /\ ~ChildOf(s, server_pid[s]) /\ CleanUp(s)
       \/ left > 0 /\ ChildOf(s, server_pid[s]) /\ UNCHANGED <<pc, running, server_pid>>
    /\ UNCHANGED <<procVars, overlapped>>

(* SIGKILL to whatever process has the number, and waitpid without WNOHANG, *)
(* which returns at once: no child of that number is left.                  *)
Kill(s) ==
    LET p == server_pid[s] IN
    /\ At(s, "killing")
    /\ IF proc[p] = "free" THEN UNCHANGED procVars ELSE Free(p)
    /\ CleanUp(s)
    /\ UNCHANGED <<tries, overlapped>>

-----------------------------------------------------------------------------
(* send to the shell's own port notices that its server's number is free,  *)
(* before it tries to connect or after it failed to.                       *)
SendNotices(s) ==
    /\ At(s, "prompt") /\ running[s] /\ proc[server_pid[s]] = "free"
    /\ running' = [running EXCEPT ![s] = FALSE]
    /\ \E p \in {server_pid[s], NoPid} : server_pid' = [server_pid EXCEPT ![s] = p]
    /\ UNCHANGED <<pc, tries, procVars, overlapped>>

(* exit: cleanup_server forgets the server. *)
Exit(s) ==
    /\ At(s, "prompt")
    /\ pc' = [pc EXCEPT ![s] = "exited"]
    /\ running' = [running EXCEPT ![s] = FALSE]
    /\ server_pid' = [server_pid EXCEPT ![s] = NoPid]
    /\ UNCHANGED <<tries, procVars, overlapped>>

Start(s) == TestPort(s) \/ CloseTest(s) \/ ForkServer(s)
Close(s) == Probe(s) \/ Terminate(s) \/ Poll(s) \/ Kill(s)
Server(p) == ServerBind(p) \/ TermServer(p)
World(p) == ServerDies(p) \/ StrangerStarts(p) \/ StrangerEnds(p)

(* All shells are gone. *)
Terminated == (\A s \in Shells : At(s, "exited")) /\ UNCHANGED vars

Next ==
    \/ \E s \in Shells : Start(s) \/ Close(s) \/ SendNotices(s) \/ Exit(s)
    \/ \E p \in Pids : Server(p) \/ World(p)
    \/ Terminated

Spec == Init /\ [][Next]_vars

-----------------------------------------------------------------------------
(* Properties.                                                             *)

(* A shell that still runs never loses track of a server it forked: the    *)
(* server is the one it has recorded, and close-server does not report     *)
(* success while the server lives, not even when all its polls failed      *)
(* (network.c:572-596).                                                    *)
NoServerForgotten ==
    \A p \in Pids :
        IsServer(p) /\ ~At(owner[p], "exited") =>
            running[owner[p]] /\ server_pid[owner[p]] = p

(* close-server comes to an end, also when the server does not act on      *)
(* SIGTERM or its number has become another process (network.c:572-596).   *)
FairSpec == Spec /\ \A s \in Shells : WF_vars(Close(s) /\ pc[s] \in Closing)

CloseEnds == \A s \in Shells : At(s, "probed") ~> At(s, "prompt")

(* There is one server to a port: a start-server on a port that is in use  *)
(* reports an error (tests_short_client.py:84).  This takes that no two    *)
(* start-servers overlap; when they do, both servers bind the port, since  *)
(* the port is tried before the fork and bound after it, with SO_REUSEPORT *)
(* (network.c:292, 480).                                                   *)
OneServerPerPort == ~overlapped => Cardinality(Serving) <= 1

(* A server is shut down after its shell exited                            *)
(* (tests_short_client.py:65).  It does not hold: cleanup_server forgets   *)
(* the server and signals nobody.                                          *)
ServerEndsWithShell ==
    \A s \in Shells :
        At(s, "exited") ~> (\A p \in Pids : ~ChildOf(s, p))

FairEverything ==
    /\ Spec
    /\ \A s \in Shells : WF_vars((Start(s) \/ Close(s)) /\ pc[s] # "prompt")
    /\ \A p \in Pids : WF_vars(Server(p))

=============================================================================
