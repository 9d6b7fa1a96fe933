----------------------------- MODULE ChatClient -----------------------------
(***************************************************************************)
(* start-client (network.c): the shell itself becomes the sending half of  *)
(* an interactive chat client and forks the receiving half.  The two share *)
(* the socket; the shell makes its standard input non-blocking for as long *)
(* as the client runs; the receiver is one more child for the SIGCHLD      *)
(* handler, which may interrupt the sending loop and reap it.              *)
(*                                                                         *)
(* The module follows the shell from one prompt to the next, with a server *)
(* that may stop reading for long, close the connection or reset it at any *)
(* time, another child of the shell that may end, and possibly another     *)
(* reader of the terminal.                                                 *)
(*                                                                         *)
(* The input and the connection are streams of tokens: a piece of text,    *)
(* the command \connected at the place of one, or the newline that ends a  *)
(* line.  A read returns any nonempty prefix of what waits, because the    *)
(* input may be a pipe and because a line may be longer than the buffer.   *)
(***************************************************************************)
EXTENDS Naturals, Sequences, SequencesExt

CONSTANTS
    MaxSessions,  \* how many clients are started
    MaxTyped,     \* how many tokens the user types in each of them
    MaxChunk,     \* how many tokens one read may return
    Faults        \* what may go wrong: "connect", "fork", "stall", "steal"

Tokens == {"text", "connected", "newline"}

ASSUME BoundAssumption ==
    MaxSessions \in Nat /\ MaxTyped \in [1 .. MaxSessions -> Nat] /\ MaxChunk \in Nat \ {0}
ASSUME FaultsAssumption == Faults \subseteq {"connect", "fork", "stall", "steal"}

VARIABLES
    \* the shell
    pc,
    errno,      \* what errno says of the select that failed
    msg,        \* the message about to be sent
    saved,      \* flags: was stdin non-blocking before?
    nonblock,   \* is stdin non-blocking?
    disp,       \* what the shell does with SIGCHLD
    sessions,
    \* its children
    receiver,
    term,       \* has the receiver a pending SIGTERM?
    job,        \* a background job started earlier
    \* the connection
    holders,    \* who has the socket open
    conn,       \* what the client's kernel knows of the connection
    unblocked,  \* has the receiver made the socket, which it shares, non-blocking?
    \* the user
    typed,      \* what waits to be read
    eof,        \* has the user ended the input?
    \* history
    entered,    \* what was typed since the client started
    sent,       \* what was sent, as long as the server is there
    hitches,    \* what went less than smoothly since
    why         \* why the sending loop was left

inputVars == <<typed, eof, entered>>
shellVars == <<pc, errno, msg, saved, nonblock, sessions, why>>
childVars == <<receiver, term, job>>
connVars == <<holders, conn, sent>>
socketVars == <<unblocked, hitches>>
vars == <<inputVars, shellVars, disp, childVars, connVars, socketVars>>

Loop == {"select", "errno", "read", "send"}
Leaving == {"kill", "wait", "close", "restore"}
Outside == {"prompt", "exited", "dead"}
ChildStates == {"none", "running", "zombie", "reaped"}

(* "stalled": the server stopped reading for so long that the socket's     *)
(* buffer filled; "split": a read ended inside a line; "clipped": of a     *)
(* message only the beginning was sent, or nothing and the loop went on;   *)
(* "robbed": another process took input the user meant for the client.     *)
Hitches == {"stalled", "split", "clipped", "robbed"}

TypeOK ==
    /\ pc \in Loop \cup Leaving \cup Outside \cup {"connect", "fork", "flags"}
    /\ errno \in {"EINTR", "other"}
    /\ msg \in Seq(Tokens)
    /\ pc \in Loop \ {"send"} => msg = <<>>
    /\ saved \in BOOLEAN
    /\ nonblock \in BOOLEAN
    /\ disp \in {"handler", "ignore"}
    /\ sessions \in 0 .. MaxSessions
    /\ receiver \in ChildStates
    /\ term \in BOOLEAN
    /\ job \in ChildStates
    /\ holders \in SUBSET {"shell", "receiver"}
    /\ conn \in {"none", "up", "fin", "reset", "broken"}
    /\ unblocked \in BOOLEAN
    /\ hitches \in SUBSET Hitches
    /\ typed \in Seq(Tokens)
    /\ eof \in BOOLEAN
    /\ entered \in Seq(Tokens)
    /\ sent \in Seq(Tokens)
    /\ why \in {"none", "eof", "empty", "unreadable", "failed", "errno"}

Init ==
    /\ pc = "prompt"
    /\ errno = "EINTR"
    /\ msg = <<>>
    /\ saved = FALSE
    /\ nonblock = FALSE
    /\ disp \in {"handler", "ignore"}
    /\ sessions = 0
    /\ receiver = "none"
    /\ term = FALSE
    /\ job = "running"
    /\ holders = {}
    /\ conn = "none"
    /\ unblocked = FALSE
    /\ hitches = {}
    /\ typed = <<>>
    /\ eof = FALSE
    /\ entered = <<>>
    /\ sent = <<>>
    /\ why = "none"

ShellAlive == pc \notin {"exited", "dead"}

-----------------------------------------------------------------------------
(* The user and whatever else reads the terminal.                          *)

Type ==
    /\ ~eof
    /\ pc \notin Outside
    /\ Len(entered) < MaxTyped[sessions]
    /\ \E t \in Tokens : typed' = Append(typed, t) /\ entered' = Append(entered, t)
    /\ UNCHANGED <<eof, shellVars, disp, socketVars, childVars, connVars>>

EndInput ==
    /\ ~eof
    /\ eof' = TRUE
    /\ UNCHANGED <<typed, entered, shellVars, disp, socketVars, childVars, connVars>>

Steal ==
    /\ "steal" \in Faults
    /\ pc \notin Outside
    /\ typed # <<>>
    /\ typed' = Tail(typed)
    /\ hitches' = hitches \cup {"robbed"}
    /\ UNCHANGED <<eof, entered, shellVars, disp, unblocked, childVars, connVars>>

-----------------------------------------------------------------------------
(* The main loop's own read, between two clients: end of input ends the    *)
(* shell, and so does EAGAIN, which is what read answers on a non-blocking *)
(* input with nothing to read.  A line is a command that does not matter.  *)

MainRead ==
    /\ pc = "prompt"
    /\ \/ typed # <<>> /\ typed' = Tail(typed) /\ UNCHANGED pc
       \/ /\ typed = <<>>
          /\ eof \/ nonblock
          /\ pc' = "exited"
          /\ UNCHANGED typed
    /\ UNCHANGED <<eof, entered, errno, msg, saved, nonblock, sessions, why, disp, socketVars,
                   childVars, connVars>>

(* The user types start-client with a port and a host. *)
StartClient ==
    /\ pc = "prompt"
    /\ ~eof
    /\ sessions < MaxSessions
    /\ sessions' = sessions + 1
    /\ pc' = "connect"
    /\ receiver' = "none"
    /\ conn' = "none"
    /\ unblocked' = FALSE
    /\ entered' = typed
    /\ sent' = <<>>
    /\ hitches' = {}
    /\ why' = "none"
    /\ UNCHANGED <<typed, eof, errno, msg, saved, nonblock, disp, term, job, holders>>

Connect ==
    /\ pc = "connect"
    /\ \/ /\ holders' = {"shell"}
          /\ conn' = "up"
          /\ pc' = "fork"
       \/ /\ "connect" \in Faults
          /\ pc' = "prompt"
          /\ UNCHANGED <<holders, conn>>
    /\ UNCHANGED <<inputVars, errno, msg, saved, nonblock, sessions, why, disp, socketVars,
                   childVars, sent>>

ForkReceiver ==
    /\ pc = "fork"
    /\ \/ /\ receiver' = "running"
          /\ holders' = {"shell", "receiver"}
          /\ pc' = "flags"
       \/ /\ "fork" \in Faults
          /\ holders' = {}
          /\ pc' = "prompt"
          /\ UNCHANGED receiver
    /\ UNCHANGED <<inputVars, errno, msg, saved, nonblock, sessions, why, disp, socketVars,
                   term, job, conn, sent>>

SetNonblocking_SavesLate ==
    /\ pc = "flags"
    /\ saved' = TRUE
    /\ nonblock' = TRUE
    /\ pc' = "select"
    /\ UNCHANGED <<inputVars, errno, msg, sessions, why, disp, socketVars, childVars, connVars>>

SetNonblocking ==
    /\ pc = "flags"
    /\ saved' = nonblock
    /\ nonblock' = TRUE
    /\ pc' = "select"
    /\ UNCHANGED <<inputVars, errno, msg, sessions, why, disp, socketVars, childVars, connVars>>

-----------------------------------------------------------------------------
(* The sending loop.  select returns when there is something to read, or   *)
(* with EINTR when the handler ran meanwhile (see Handler), or after       *)
(* 100 ms, which changes nothing.                                          *)

Leave(reason) ==
    /\ pc' = "kill"
    /\ why' = reason

SelectReadable ==
    /\ pc = "select"
    /\ typed # <<>> \/ eof
    /\ pc' = "read"
    /\ UNCHANGED <<inputVars, errno, msg, saved, nonblock, sessions, why, disp, socketVars,
                   childVars, connVars>>

CheckErrno_EndsAlways ==
    /\ pc = "errno"
    /\ Leave("errno")
    /\ UNCHANGED <<inputVars, errno, msg, saved, nonblock, sessions, disp, socketVars,
                   childVars, connVars>>

CheckErrno ==
    /\ pc = "errno"
    /\ \/ errno = "EINTR" /\ pc' = "select" /\ UNCHANGED why
       \/ errno # "EINTR" /\ Leave("errno")
    /\ UNCHANGED <<inputVars, errno, msg, saved, nonblock, sessions, disp, socketVars,
                   childVars, connVars>>

(* What is sent for the bytes read: without the newline at their end, if   *)
(* there is one, and with one if what is left does not end in one.  Bytes  *)
(* that start with \connected are that command and nothing else.           *)
Stripped(chunk) == IF Last(chunk) = "newline" THEN Front(chunk) ELSE chunk

Ended(text) == IF Last(text) = "newline" THEN text ELSE Append(text, "newline")

Message_Unended(chunk) ==
    IF Head(chunk) = "connected" THEN <<"connected", "newline">> ELSE Stripped(chunk)

Message(chunk) ==
    IF Head(chunk) = "connected" THEN <<"connected", "newline">> ELSE Ended(Stripped(chunk))

ReadInput ==
    /\ pc = "read"
    /\ \/ /\ typed = <<>>
          /\ Leave(IF eof THEN "eof" ELSE "unreadable")     \* 0, or EAGAIN
          /\ UNCHANGED <<typed, msg, hitches>>
       \/ \E n \in 1 .. MaxChunk :
            /\ n <= Len(typed)
            /\ typed' = SubSeq(typed, n + 1, Len(typed))
            /\ hitches' = hitches \cup (IF typed[n] = "newline" THEN {} ELSE {"split"})
            /\ \/ /\ SubSeq(typed, 1, n) = <<"newline">>
                  /\ Leave("empty")
                  /\ UNCHANGED msg
               \/ /\ SubSeq(typed, 1, n) # <<"newline">>
                  /\ msg' = Message(SubSeq(typed, 1, n))
                  /\ pc' = "send"
                  /\ UNCHANGED why
    /\ UNCHANGED <<eof, entered, errno, saved, nonblock, sessions, disp, unblocked,
                   childVars, connVars>>

(* The branch for \connected does not look at what its send returns. *)
Unchecked == Head(msg) = "connected"

(* The receiver's O_NONBLOCK holds for the shell's sends too.  Before it,  *)
(* a send waits until there is room.                                       *)
Full == conn = "up" /\ unblocked /\ "stalled" \in hitches

(* send.  After the server's FIN it still succeeds, but the answer to it   *)
(* is a reset; on a connection known to be broken it raises SIGPIPE.       *)
SendDelivered ==
    /\ pc = "send"
    /\ \/ conn = "up" /\ sent' = sent \o msg /\ UNCHANGED conn
       \/ conn = "fin" /\ conn' \in {"fin", "broken"} /\ UNCHANGED sent
    /\ msg' = <<>>
    /\ pc' = "select"
    /\ UNCHANGED <<inputVars, errno, saved, nonblock, sessions, why, disp, socketVars,
                   childVars, holders>>

(* A full buffer takes the beginning of the message, which is no failure. *)
SendCut ==
    /\ pc = "send"
    /\ Full
    /\ \E n \in 0 .. Len(msg) - 1 : sent' = sent \o SubSeq(msg, 1, n)
    /\ hitches' = hitches \cup {"clipped"}
    /\ msg' = <<>>
    /\ pc' = "select"
    /\ UNCHANGED <<inputVars, errno, saved, nonblock, sessions, why, disp, unblocked,
                   childVars, holders, conn>>

(* -1: a reset, or EAGAIN because the buffer takes nothing. *)
SendFails ==
    /\ pc = "send"
    /\ \/ conn = "reset" /\ conn' = "broken"
       \/ Full /\ UNCHANGED conn
    /\ msg' = <<>>
    /\ \/ /\ Unchecked
          /\ pc' = "select"
          /\ hitches' = hitches \cup {"clipped"}
          /\ UNCHANGED why
       \/ ~Unchecked /\ Leave("failed") /\ UNCHANGED hitches
    /\ UNCHANGED <<inputVars, errno, saved, nonblock, sessions, disp, unblocked,
                   childVars, holders, sent>>

SendKilled ==
    /\ pc = "send"
    /\ conn = "broken"
    /\ pc' = "dead"
    /\ holders' = holders \ {"shell"}
    /\ UNCHANGED <<inputVars, errno, msg, saved, nonblock, sessions, why, disp, socketVars,
                   childVars, conn, sent>>

-----------------------------------------------------------------------------
(* Leaving: the receiver is killed and waited for, unless the handler was  *)
(* faster; then the socket is closed and stdin is as it was.               *)

KillReceiver_Forgotten ==
    /\ pc = "kill"
    /\ pc' = "wait"
    /\ UNCHANGED <<inputVars, errno, msg, saved, nonblock, sessions, why, disp, socketVars,
                   childVars, connVars>>

KillReceiver ==
    /\ pc = "kill"
    /\ term' = (receiver = "running")
    /\ pc' = "wait"
    /\ UNCHANGED <<inputVars, errno, msg, saved, nonblock, sessions, why, disp, socketVars,
                   receiver, job, connVars>>

WaitReceiver_NoHang ==
    /\ pc = "wait"
    /\ receiver' = IF receiver = "running" THEN receiver ELSE "reaped"
    /\ pc' = "close"
    /\ UNCHANGED <<inputVars, errno, msg, saved, nonblock, sessions, why, disp, socketVars,
                   term, job, connVars>>

WaitReceiver ==
    /\ pc = "wait"
    /\ receiver # "running"
    /\ receiver' = "reaped"
    /\ pc' = "close"
    /\ UNCHANGED <<inputVars, errno, msg, saved, nonblock, sessions, why, disp, socketVars,
                   term, job, connVars>>

CloseSocket ==
    /\ pc = "close"
    /\ holders' = holders \ {"shell"}
    /\ pc' = "restore"
    /\ UNCHANGED <<inputVars, errno, msg, saved, nonblock, sessions, why, disp, socketVars,
                   childVars, conn, sent>>

RestoreInput ==
    /\ pc = "restore"
    /\ nonblock' = saved
    /\ pc' = "prompt"
    /\ UNCHANGED <<inputVars, errno, msg, saved, sessions, why, disp, socketVars,
                   childVars, connVars>>

ShellStep ==
    \/ Connect \/ ForkReceiver \/ SetNonblocking
    \/ SelectReadable \/ CheckErrno \/ ReadInput
    \/ SendDelivered \/ SendCut \/ SendFails \/ SendKilled
    \/ KillReceiver \/ WaitReceiver \/ CloseSocket \/ RestoreInput

-----------------------------------------------------------------------------
(* The children and the handler.                                           *)

ExitState == IF disp = "handler" /\ ShellAlive THEN "zombie" ELSE "reaped"

ReceiverUnblocks ==
    /\ receiver = "running"
    /\ ~unblocked
    /\ unblocked' = TRUE
    /\ UNCHANGED <<inputVars, shellVars, disp, hitches, childVars, connVars>>

(* recv answers 0 after the server's FIN and -1 after a reset, which it    *)
(* then has consumed.                                                      *)
ConnectionOver_AtFin == conn = "fin"

ConnectionOver == conn \in {"fin", "reset", "broken"}

ReceiverEnds ==
    /\ receiver = "running"
    /\ unblocked
    /\ ConnectionOver
    /\ receiver' = ExitState
    /\ term' = FALSE
    /\ holders' = holders \ {"receiver"}
    /\ conn' = IF conn = "reset" THEN "broken" ELSE conn
    /\ UNCHANGED <<inputVars, shellVars, disp, socketVars, job, sent>>

ReceiverTerminated ==
    /\ receiver = "running"
    /\ term
    /\ receiver' = ExitState
    /\ term' = FALSE
    /\ holders' = holders \ {"receiver"}
    /\ UNCHANGED <<inputVars, shellVars, disp, socketVars, job, conn, sent>>

JobEnds ==
    /\ job = "running"
    /\ job' = ExitState
    /\ UNCHANGED <<inputVars, shellVars, disp, socketVars, receiver, term, connVars>>

(* sigchld_handler: reaps every zombie and does not save errno, which its  *)
(* last waitpid leaves at ECHILD.  In the middle of select it makes select *)
(* fail with EINTR; a second signal before the loop has looked at errno    *)
(* changes what it sees there.                                             *)
ReapedNow(c) == IF c = "zombie" THEN "reaped" ELSE c

Handler ==
    /\ disp = "handler"
    /\ ShellAlive
    /\ receiver = "zombie" \/ job = "zombie"
    /\ receiver' = ReapedNow(receiver)
    /\ job' = ReapedNow(job)
    /\ \/ UNCHANGED <<pc, errno>>                                   \* between two calls
       \/ pc = "select" /\ pc' = "errno" /\ errno' = "EINTR"
       \/ pc = "errno" /\ errno' = "other" /\ UNCHANGED pc
    /\ pc = "errno" => errno' = "other"
    /\ UNCHANGED <<inputVars, msg, saved, nonblock, sessions, why, disp, socketVars,
                   term, connVars>>

(* The server has not read for a long time, which shows when the shell     *)
(* sends ...                                                               *)
ServerStalls ==
    /\ "stall" \in Faults
    /\ pc = "send"
    /\ conn = "up"
    /\ hitches' = hitches \cup {"stalled"}
    /\ UNCHANGED <<inputVars, shellVars, disp, unblocked, childVars, connVars>>

(* ... or closes the connection, or its kernel resets it. *)
ServerCloses ==
    /\ conn = "up"
    /\ conn' \in {"fin", "reset"}
    /\ sent' = <<>>
    /\ UNCHANGED <<inputVars, shellVars, disp, socketVars, childVars, holders>>

Over ==
    /\ pc \in {"exited", "dead"} \/ (pc = "prompt" /\ ~eof /\ typed = <<>>)
    /\ UNCHANGED vars

Next ==
    \/ Type \/ EndInput \/ Steal \/ MainRead \/ StartClient \/ ShellStep
    \/ ReceiverUnblocks \/ ReceiverEnds \/ ReceiverTerminated \/ JobEnds \/ Handler
    \/ ServerStalls \/ ServerCloses \/ Over

(* The shell, its receiver and the kernel run.  The user and the server    *)
(* owe nothing, except that a server that stalls before the receiver has   *)
(* made the socket non-blocking reads again.                               *)
Spec ==
    /\ Init /\ [][Next]_vars
    /\ WF_vars(ShellStep) /\ WF_vars(Handler)
    /\ WF_vars(ReceiverUnblocks) /\ WF_vars(ReceiverEnds) /\ WF_vars(ReceiverTerminated)

-----------------------------------------------------------------------------
(* Properties.                                                             *)

(* A chat, however it ends, does not end the shell later on: the prompt    *)
(* after it finds an input that blocks, so the shell exits only at the end *)
(* of its input.                                                           *)
ShellOutlivesChat == pc = "exited" => eof

(* At a prompt nothing is left of a client: its receiver has been reaped   *)
(* and nobody has its socket open, so that the server learns of the        *)
(* departure.                                                              *)
NothingLeftOver ==
    pc = "prompt" => receiver \in {"none", "reaped"} /\ holders = {} /\ ~term

(* The user is thrown out of a chat only at the end of the input; by an    *)
(* empty line, or by what looks like one because the read before it ended  *)
(* inside the line; when the server has gone, or has not read for so long  *)
(* that the socket is full; when another process took the input; or when   *)
(* two children ended so close to one another that the second SIGCHLD hid  *)
(* that the first had interrupted select (network.c:1076-1152).            *)
EmptyLine ==
    \E i \in DOMAIN entered :
        entered[i] = "newline" /\ (i = 1 \/ entered[i - 1] = "newline")

LeftForAReason ==
    pc \in Leaving =>
        \/ eof
        \/ why = "empty" /\ (EmptyLine \/ {"split", "robbed"} \cap hitches # {})
        \/ why = "failed" /\ (conn = "broken" \/ "stalled" \in hitches)
        \/ why = "unreadable" /\ "robbed" \in hitches
        \/ why = "errno" /\ receiver = "reaped" /\ job = "reaped" /\ conn # "up"

(* A stream without its newlines, and without its empty lines. *)
TextsOf(tokens) ==
    FlattenSeq([i \in DOMAIN tokens |->
        IF tokens[i] = "newline" THEN <<>> ELSE <<tokens[i]>>])

LinesOf(tokens) ==
    FlattenSeq([i \in DOMAIN tokens |->
        IF tokens[i] = "newline" /\ (i = 1 \/ tokens[i - 1] = "newline")
        THEN <<>> ELSE <<tokens[i]>>])

(* As long as the server is there and reads, and unless \connected is      *)
(* typed or another process reads the terminal: what the server got, what  *)
(* is about to be sent and what waits to be read are the lines the user    *)
(* typed, but for empty ones, however reads cut them up.  If a read ended  *)
(* inside a line, they are still all its texts, in order, but a line may   *)
(* have become two (network.c:1082-1152).                                  *)
NoLineLost ==
    /\ pc \in Loop
    /\ conn = "up"
    /\ {"clipped", "robbed"} \cap hitches = {}
    /\ \A i \in DOMAIN entered : entered[i] # "connected"
    => LET all == sent \o msg \o typed IN
       IF "split" \in hitches THEN TextsOf(all) = TextsOf(entered)
                              ELSE LinesOf(all) = LinesOf(entered)

(* The end of the input always brings the prompt back, or SIGPIPE ends the *)
(* shell: the client does not hang in the wait for its receiver, whoever   *)
(* reaps it.                                                               *)
ClientEnds == (eof /\ pc \in Loop) ~> (pc \in Outside)

(* A receiver does not outlive its client, even if SIGPIPE killed it. *)
NoOrphan == (pc \in Outside) ~> (pc \notin Outside \/ receiver # "running")

=============================================================================
