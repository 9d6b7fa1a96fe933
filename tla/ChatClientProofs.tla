-------------------------- MODULE ChatClientProofs --------------------------
(***************************************************************************)
(* Theorems about ChatClient, for any number of tokens, sessions and       *)
(* tokens to a read, whatever fails: types, the shell's input after a      *)
(* chat, what a client leaves behind, why a chat ends, and what becomes of *)
(* the lines typed.                                                        *)
(***************************************************************************)
EXTENDS ChatClient, ListLemmas

(* A message exists only while it is being sent. *)
Unsent == pc \notin {"send", "dead"} => msg = <<>>

(* Standard input blocks whenever no client has it. *)
InputBlocks ==
    /\ saved = FALSE
    /\ pc \in {"prompt", "connect", "fork", "flags", "exited"} => nonblock = FALSE
    /\ ShellOutlivesChat

(* Who has the socket, and what has become of the receiver, point by point. *)
Held ==
    /\ pc \in {"prompt", "exited"} => holders = {} /\ receiver \in {"none", "reaped"}
    /\ pc = "connect" => holders = {} /\ receiver = "none"
    /\ pc = "fork" => holders = {"shell"} /\ receiver = "none"
    /\ pc \in Loop \cup {"flags", "kill", "wait"} =>
           /\ receiver # "none"
           /\ holders = IF receiver = "running" THEN {"shell", "receiver"} ELSE {"shell"}
    /\ pc = "close" => holders = {"shell"} /\ receiver = "reaped"
    /\ pc = "restore" => holders = {} /\ receiver = "reaped"
    /\ term # FALSE => pc = "wait" /\ receiver = "running"

TypeInv == TypeOK /\ Unsent

-----------------------------------------------------------------------------
(* A sequence and its last element. *)
LEMMA FrontOfAppend ==
    ASSUME NEW S, NEW u \in Seq(S), NEW e \in S
    PROVE  Front(Append(u, e)) = u /\ Last(Append(u, e)) = e
<1> DEFINE s == Append(u, e)
<1>1. Len(s) = Len(u) + 1 /\ Len(u) \in Nat /\ s[Len(u) + 1] = e
    BY AppendProperties, LenProperties
<1>2. SubSeq(s, 1, Len(u)) = u
    OBVIOUS
<1>3. Len(s) - 1 = Len(u)
    BY <1>1
<1> QED
    BY <1>1, <1>2, <1>3 DEF Last, Front

LEMMA InitTypes == Init => TypeInv
<1> SUFFICES ASSUME Init PROVE TypeInv
    OBVIOUS
<1>2. 0 \in 0 .. MaxSessions
    BY BoundAssumption
<1>3. holders \in SUBSET {"shell", "receiver"}
    BY DEF Init
<1>4. msg \in Seq(Tokens) /\ typed \in Seq(Tokens) /\ entered \in Seq(Tokens) /\ sent \in Seq(Tokens)
    BY DEF Init
<1>5. saved \in BOOLEAN /\ nonblock \in BOOLEAN /\ term \in BOOLEAN /\ eof \in BOOLEAN
    BY DEF Init
<1> QED
    BY <1>2, <1>3, <1>4, <1>5
       DEF Init, TypeInv, TypeOK, Unsent, Loop, Leaving, Outside, ChildStates, Hitches

(* A chunk without its newline at the end, or with one. *)
LEMMA MessageFits ==
    ASSUME NEW chunk \in Seq(Tokens), chunk # <<>>
    PROVE  Message(chunk) \in Seq(Tokens)
<1>1. PICK u \in Seq(Tokens), e \in Tokens : chunk = Append(u, e)
    BY SequenceEmptyOrAppend
<1>2. Front(chunk) = u
    BY <1>1, FrontOfAppend
<1>3. Stripped(chunk) \in Seq(Tokens)
    BY <1>1, <1>2 DEF Stripped
<1>4. Ended(Stripped(chunk)) \in Seq(Tokens)
    <2> DEFINE x == Stripped(chunk)
    <2>1. x \in Seq(Tokens) /\ Append(x, "newline") \in Seq(Tokens)
        BY <1>3, AppendProperties DEF Tokens
    <2> HIDE DEF x
    <2>2. Ended(x) \in Seq(Tokens)
        BY <2>1 DEF Ended
    <2> QED
        BY <2>2 DEF x
<1>5. <<"connected", "newline">> \in Seq(Tokens)
    BY DEF Tokens
<1> QED
    BY <1>4, <1>5 DEF Message

(* What a read takes and what it leaves. *)
LEMMA Chunks ==
    ASSUME typed \in Seq(Tokens), NEW n \in 1 .. Len(typed)
    PROVE  /\ SubSeq(typed, 1, n) \in Seq(Tokens)
           /\ SubSeq(typed, n + 1, Len(typed)) \in Seq(Tokens)
           /\ SubSeq(typed, 1, n) \o SubSeq(typed, n + 1, Len(typed)) = typed
           /\ Len(SubSeq(typed, 1, n)) = n
           /\ \A i \in 1 .. n : SubSeq(typed, 1, n)[i] = typed[i]
           /\ Head(SubSeq(typed, 1, n)) = typed[1]
           /\ Message(SubSeq(typed, 1, n)) \in Seq(Tokens)
<1> DEFINE chunk == SubSeq(typed, 1, n)
           rest == SubSeq(typed, n + 1, Len(typed))
<1>1. Len(typed) \in Nat /\ \A i \in 1 .. Len(typed) : typed[i] \in Tokens
    BY LenProperties
<1>2. chunk \in Seq(Tokens) /\ Len(chunk) = n /\ \A i \in 1 .. n : chunk[i] = typed[i]
    <2>1. \A i \in 1 .. n : typed[i] \in Tokens
        BY <1>1
    <2>2. /\ chunk \in Seq(Tokens)
          /\ Len(chunk) = IF 1 <= n THEN n - 1 + 1 ELSE 0
          /\ \A i \in 1 .. n - 1 + 1 : chunk[i] = typed[1 + i - 1]
        BY <2>1, <1>1, SubSeqProperties
    <2> HIDE DEF chunk
    <2> QED
        BY <2>2, <1>1
<1>3. rest \in Seq(Tokens)
    <2>1. \A i \in n + 1 .. Len(typed) : typed[i] \in Tokens
        BY <1>1
    <2>2. n + 1 \in Int /\ Len(typed) \in Int
        BY <1>1
    <2> QED
        BY <2>1, <2>2, SubSeqProperties
<1>4. chunk \o rest = typed
    <2>1. chunk \o rest = SubSeq(typed, 1, Len(typed))
        <3>1. 1 \in 1 .. Len(typed) + 1 /\ n \in 1 - 1 .. Len(typed) /\ Len(typed) \in n .. Len(typed)
            BY <1>1
        <3> QED
            BY <3>1, ConcatAdjacentSubSeq
    <2> QED
        BY <2>1, SubSeqFull
<1>5. Head(chunk) = typed[1]
    BY <1>1, HeadTailOfSubSeq
<1>6. Message(chunk) \in Seq(Tokens)
    <2> HIDE DEF chunk
    <2>1. chunk # <<>>
        BY <1>1, <1>2, EmptySeq
    <2> QED
        BY <1>2, <2>1, MessageFits
<1> QED
    BY <1>2, <1>3, <1>4, <1>5, <1>6

LEMMA TypesKept == TypeInv /\ [Next]_vars => TypeInv'
<1> SUFFICES ASSUME TypeInv, [Next]_vars PROVE TypeInv'
    OBVIOUS
<1> USE DEF TypeInv, TypeOK, Unsent, Loop, Leaving, Outside, ChildStates, Hitches,
            vars, inputVars, shellVars, socketVars, childVars, connVars
<1>1. CASE Type
    <2>1. ASSUME NEW t \in Tokens
          PROVE  Append(typed, t) \in Seq(Tokens) /\ Append(entered, t) \in Seq(Tokens)
        BY AppendProperties
    <2> QED
        BY <1>1, <2>1 DEF Type
<1>2. CASE EndInput
    BY <1>2 DEF EndInput
<1>3. CASE Steal
    <2>1. Tail(typed) \in Seq(Tokens)
        BY <1>3, HeadTailProperties DEF Steal
    <2> QED
        BY <1>3, <2>1 DEF Steal
<1>4. CASE MainRead
    <2>1. typed # <<>> => Tail(typed) \in Seq(Tokens)
        BY HeadTailProperties
    <2>2. CASE typed # <<>> /\ typed' = Tail(typed) /\ UNCHANGED pc
        <3>1. typed' \in Seq(Tokens)
            BY <2>1, <2>2
        <3> QED
            BY <1>4, <2>2, <3>1 DEF MainRead
    <2>3. CASE pc' = "exited" /\ UNCHANGED typed
        BY <1>4, <2>3 DEF MainRead
    <2> QED
        BY <1>4, <2>2, <2>3 DEF MainRead
<1>5. CASE StartClient
    <2>1. <<>> \in Seq(Tokens) /\ sessions + 1 \in 0 .. MaxSessions
        BY <1>5, BoundAssumption DEF StartClient
    <2> QED
        BY <1>5, <2>1 DEF StartClient
<1>6. CASE Connect
    <2>1. holders' \in SUBSET {"shell", "receiver"}
        BY <1>6 DEF Connect
    <2> QED
        BY <1>6, <2>1 DEF Connect
<1>7. CASE ForkReceiver
    <2>1. holders' \in SUBSET {"shell", "receiver"}
        BY <1>7 DEF ForkReceiver
    <2> QED
        BY <1>7, <2>1 DEF ForkReceiver
<1>8. CASE SetNonblocking
    BY <1>8 DEF SetNonblocking
<1>9. CASE SelectReadable
    BY <1>9 DEF SelectReadable
<1>10. CASE CheckErrno
    BY <1>10 DEF CheckErrno, Leave
<1>11. CASE ReadInput
    <2>1. CASE typed = <<>> /\ UNCHANGED <<typed, msg, hitches>>
               /\ Leave(IF eof THEN "eof" ELSE "unreadable")
        BY <1>11, <2>1 DEF ReadInput, Leave
    <2>2. ASSUME NEW n \in 1 .. MaxChunk, n <= Len(typed),
                 typed' = SubSeq(typed, n + 1, Len(typed)),
                 hitches' = hitches \cup (IF typed[n] = "newline" THEN {} ELSE {"split"}),
                 \/ Leave("empty") /\ UNCHANGED msg
                 \/ msg' = Message(SubSeq(typed, 1, n)) /\ pc' = "send" /\ UNCHANGED why
          PROVE  TypeInv'
        <3>1. n \in 1 .. Len(typed)
            BY <2>2, BoundAssumption, LenProperties
        <3>2. typed' \in Seq(Tokens) /\ Message(SubSeq(typed, 1, n)) \in Seq(Tokens)
            BY <2>2, <3>1, Chunks
        <3>3. /\ UNCHANGED <<eof, entered, errno, saved, nonblock, sessions, disp, unblocked,
                            childVars, connVars>>
              /\ hitches' \in SUBSET Hitches
            BY <1>11, <2>2 DEF ReadInput
        <3>4. CASE Leave("empty") /\ UNCHANGED msg
            <4>1. msg' = <<>> /\ pc' = "kill" /\ why' = "empty"
                BY <1>11, <3>4 DEF ReadInput, Leave
            <4> QED
                BY <3>2, <3>3, <4>1
        <3>5. CASE msg' = Message(SubSeq(typed, 1, n)) /\ pc' = "send" /\ UNCHANGED why
            <4>1. msg' \in Seq(Tokens)
                BY <3>2, <3>5
            <4> HIDE DEF Tokens
            <4> QED
                BY <3>2, <3>3, <3>5, <4>1
        <3> QED
            BY <2>2, <3>4, <3>5
    <2> QED
        BY <1>11, <2>1, <2>2 DEF ReadInput
<1>12. CASE SendDelivered
    <2>1. sent \o msg \in Seq(Tokens) /\ <<>> \in Seq(Tokens)
        BY ConcatProperties
    <2>2. sent' \in Seq(Tokens) /\ msg' = <<>>
        BY <1>12, <2>1 DEF SendDelivered
    <2>3. conn' \in {"none", "up", "fin", "reset", "broken"}
        BY <1>12 DEF SendDelivered
    <2> QED
        BY <1>12, <2>1, <2>2, <2>3 DEF SendDelivered
<1>13. CASE SendFails
    <2>1. /\ UNCHANGED <<inputVars, errno, saved, nonblock, sessions, disp, unblocked,
                        childVars, holders, sent>>
          /\ msg' = <<>> /\ conn' \in {conn, "broken"}
          /\ \/ pc' = "select" /\ hitches' = hitches \cup {"clipped"} /\ UNCHANGED why
             \/ Leave("failed") /\ UNCHANGED hitches
        BY <1>13 DEF SendFails
    <2>2. hitches' \in SUBSET Hitches /\ pc' \in {"select", "kill"} /\ why' \in {why, "failed"}
        BY <2>1 DEF Leave
    <2>3. conn' \in {"none", "up", "fin", "reset", "broken"}
        BY <2>1
    <2> QED
        BY <2>1, <2>2, <2>3
<1>14. CASE SendKilled
    BY <1>14 DEF SendKilled
<1>15. CASE KillReceiver
    <2>1. term' \in BOOLEAN
        BY <1>15 DEF KillReceiver
    <2> QED
        BY <1>15, <2>1 DEF KillReceiver
<1>16. CASE WaitReceiver
    BY <1>16 DEF WaitReceiver
<1>17. CASE CloseSocket
    BY <1>17 DEF CloseSocket
<1>18. CASE RestoreInput
    BY <1>18 DEF RestoreInput
<1>19. CASE ReceiverEnds
    <2>1. holders' \in SUBSET {"shell", "receiver"} /\ term' \in BOOLEAN
        BY <1>19 DEF ReceiverEnds
    <2>2. receiver' \in {"zombie", "reaped"}
        BY <1>19 DEF ReceiverEnds, ExitState
    <2>3. conn' \in {"none", "up", "fin", "reset", "broken"}
        BY <1>19 DEF ReceiverEnds
    <2> QED
        BY <1>19, <2>1, <2>2, <2>3 DEF ReceiverEnds
<1>20. CASE ReceiverTerminated
    <2>1. holders' \in SUBSET {"shell", "receiver"} /\ term' \in BOOLEAN
        BY <1>20 DEF ReceiverTerminated
    <2>2. receiver' \in {"zombie", "reaped"}
        BY <1>20 DEF ReceiverTerminated, ExitState
    <2> QED
        BY <1>20, <2>1, <2>2 DEF ReceiverTerminated
<1>21. CASE JobEnds
    BY <1>21 DEF JobEnds, ExitState
<1>22. CASE Handler
    BY <1>22 DEF Handler, ReapedNow
<1>23. CASE ServerCloses
    BY <1>23 DEF ServerCloses
<1>24. CASE UNCHANGED vars
    BY <1>24
<1>25. CASE SendCut
    <2>1. PICK n \in 0 .. Len(msg) - 1 : sent' = sent \o SubSeq(msg, 1, n)
        BY <1>25 DEF SendCut
    <2>2. sent' \in Seq(Tokens)
        <3>1. SubSeq(msg, 1, n) \in Seq(Tokens)
            OBVIOUS
        <3>2. sent \in Seq(Tokens)
            OBVIOUS
        <3> QED
            BY ONLY <2>1, <3>1, <3>2, ConcatProperties
    <2>3. hitches' \in SUBSET Hitches
        BY <1>25 DEF SendCut
    <2> QED
        BY <1>25, <2>2, <2>3 DEF SendCut
<1>26. CASE ReceiverUnblocks
    BY <1>26 DEF ReceiverUnblocks
<1>27. CASE ServerStalls
    BY <1>27 DEF ServerStalls
<1> QED
    BY <1>1, <1>2, <1>3, <1>4, <1>5, <1>6, <1>7, <1>8, <1>9, <1>10, <1>11, <1>12, <1>13,
       <1>14, <1>15, <1>16, <1>17, <1>18, <1>19, <1>20, <1>21, <1>22, <1>23, <1>24,
       <1>25, <1>26, <1>27
       DEF Next, ShellStep, Over

(* Types hold whatever fails, whoever reads the terminal and whenever the  *)
(* server closes; a message never outlives its send (network.c:1108).      *)
THEOREM ClientTypes == Spec => []TypeOK
<1>1. Spec => []TypeInv
    BY InitTypes, TypesKept, PTL DEF Spec
<1> QED
    BY <1>1, PTL DEF TypeInv

-----------------------------------------------------------------------------
LEMMA InputBlocksKept == TypeInv /\ InputBlocks /\ [Next]_vars => InputBlocks'
<1> SUFFICES ASSUME TypeInv, InputBlocks, [Next]_vars PROVE InputBlocks'
    OBVIOUS
<1> USE DEF TypeInv, TypeOK, InputBlocks, ShellOutlivesChat, Loop, Leaving, Outside,
            vars, inputVars, shellVars, socketVars, childVars, connVars
<1>1. CASE Type
    BY <1>1 DEF Type
<1>2. CASE EndInput
    BY <1>2 DEF EndInput
<1>3. CASE Steal
    BY <1>3 DEF Steal
<1>4. CASE MainRead
    BY <1>4 DEF MainRead
<1>5. CASE StartClient
    BY <1>5 DEF StartClient
<1>6. CASE Connect \/ ForkReceiver
    BY <1>6 DEF Connect, ForkReceiver
<1>7. CASE SetNonblocking
    BY <1>7 DEF SetNonblocking
<1>8. CASE SelectReadable \/ CheckErrno
    BY <1>8 DEF SelectReadable, CheckErrno, Leave
<1>9. CASE ReadInput
    BY <1>9 DEF ReadInput, Leave
<1>10. CASE SendDelivered \/ SendCut \/ SendFails \/ SendKilled
    BY <1>10 DEF SendDelivered, SendCut, SendFails, SendKilled, Leave
<1>11. CASE KillReceiver \/ WaitReceiver \/ CloseSocket
    BY <1>11 DEF KillReceiver, WaitReceiver, CloseSocket
<1>12. CASE RestoreInput
    BY <1>12 DEF RestoreInput
<1>13. CASE \/ ReceiverUnblocks \/ ReceiverEnds \/ ReceiverTerminated \/ JobEnds
            \/ ServerStalls \/ ServerCloses
    BY <1>13 DEF ReceiverUnblocks, ReceiverEnds, ReceiverTerminated, JobEnds, ServerStalls,
                 ServerCloses
<1>14. CASE Handler
    BY <1>14 DEF Handler
<1>15. CASE UNCHANGED vars
    BY <1>15
<1> QED
    BY <1>1, <1>2, <1>3, <1>4, <1>5, <1>6, <1>7, <1>8, <1>9, <1>10, <1>11, <1>12, <1>13,
       <1>14, <1>15 DEF Next, ShellStep, Over

(* However a chat ends, the prompt after it finds an input that blocks: the *)
(* flags saved at network.c:1060 are those of a blocking input each time,  *)
(* so EAGAIN never looks like the end of the input to main (mysh.c:349).   *)
THEOREM ShellDoesOutliveChat == Spec => []ShellOutlivesChat
<1>1. Init => InputBlocks
    BY DEF Init, InputBlocks, ShellOutlivesChat
<1>2. Spec => [](TypeInv /\ InputBlocks)
    BY <1>1, InitTypes, TypesKept, InputBlocksKept, PTL DEF Spec
<1> QED
    BY <1>2, PTL DEF InputBlocks

-----------------------------------------------------------------------------
LEMMA HeldKept == TypeInv /\ Held /\ [Next]_vars => Held'
<1> SUFFICES ASSUME TypeInv, Held, [Next]_vars PROVE Held'
    OBVIOUS
<1> USE DEF TypeInv, TypeOK, Held, Loop, Leaving, Outside, ChildStates,
            vars, inputVars, shellVars, socketVars, childVars, connVars
<1>1. CASE \/ Type \/ EndInput \/ Steal \/ JobEnds
           \/ ReceiverUnblocks \/ ServerStalls \/ ServerCloses
    BY <1>1 DEF Type, EndInput, Steal, JobEnds, ReceiverUnblocks, ServerStalls, ServerCloses
<1>2. CASE MainRead
    BY <1>2 DEF MainRead
<1>3. CASE StartClient
    BY <1>3 DEF StartClient
<1>4. CASE Connect
    BY <1>4 DEF Connect
<1>5. CASE ForkReceiver
    BY <1>5 DEF ForkReceiver
<1>6. CASE SetNonblocking \/ SelectReadable \/ CheckErrno
    BY <1>6 DEF SetNonblocking, SelectReadable, CheckErrno, Leave
<1>7. CASE ReadInput
    BY <1>7 DEF ReadInput, Leave
<1>8. CASE SendDelivered \/ SendCut \/ SendFails
    BY <1>8 DEF SendDelivered, SendCut, SendFails, Leave
<1>9. CASE SendKilled
    BY <1>9 DEF SendKilled
<1>10. CASE KillReceiver
    <2>1. term' # FALSE => receiver = "running"
        BY <1>10 DEF KillReceiver
    <2> QED
        BY <1>10, <2>1 DEF KillReceiver
<1>11. CASE WaitReceiver
    BY <1>11 DEF WaitReceiver
<1>12. CASE CloseSocket
    BY <1>12 DEF CloseSocket
<1>13. CASE RestoreInput
    BY <1>13 DEF RestoreInput
<1>14. CASE ReceiverEnds
    BY <1>14 DEF ReceiverEnds, ExitState
<1>15. CASE ReceiverTerminated
    BY <1>15 DEF ReceiverTerminated, ExitState
<1>16. CASE Handler
    BY <1>16 DEF Handler, ReapedNow
<1>17. CASE UNCHANGED vars
    BY <1>17
<1> QED
    BY <1>1, <1>2, <1>3, <1>4, <1>5, <1>6, <1>7, <1>8, <1>9, <1>10, <1>11, <1>12, <1>13,
       <1>14, <1>15, <1>16, <1>17 DEF Next, ShellStep, Over

(* At every prompt the receiver has been reaped, whether the shell, the    *)
(* handler or the kernel reaped it (network.c:1157), and no process has    *)
(* the client's socket.                                                    *)
THEOREM NothingIsLeftOver == Spec => []NothingLeftOver
<1>1. Init => Held
    BY DEF Init, Held, Loop
<1>2. TypeInv /\ Held => NothingLeftOver
    BY DEF TypeInv, TypeOK, Held, NothingLeftOver
<1>3. Spec => [](TypeInv /\ Held)
    BY <1>1, InitTypes, TypesKept, HeldKept, PTL DEF Spec
<1> QED
    BY <1>2, <1>3, PTL

-----------------------------------------------------------------------------
(* While a client runs, what waits is the end of what was typed in this    *)
(* session, unless somebody took some of it; and it starts with a line,    *)
(* unless a read ended inside one.                                         *)
Before == {"connect", "fork", "flags"}

Waits(t, e) ==
    Len(t) <= Len(e) /\ \A i \in 1 .. Len(t) : t[i] = e[Len(e) - Len(t) + i]

LineStarts(t, e) == Len(t) = Len(e) \/ e[Len(e) - Len(t)] = "newline"

Waiting ==
    pc \in Loop \cup Before /\ "robbed" \notin hitches =>
        Waits(typed, entered) /\ ("split" \notin hitches => LineStarts(typed, entered))

(* What the sending loop may conclude from what it sees. *)
Grounds ==
    /\ pc = "read" => typed # <<>> \/ eof = TRUE \/ "robbed" \in hitches
    /\ pc \in Loop \cup {"flags"} /\ receiver # "running" => conn \in {"fin", "broken"}
    /\ pc = "errno" => receiver = "reaped" \/ job = "reaped"
    /\ pc = "errno" /\ errno # "EINTR" => receiver = "reaped" /\ job = "reaped"

(* LeftForAReason, with the booleans spelled out. *)
Reasons ==
    pc \in Leaving =>
        \/ eof = TRUE
        \/ why = "empty" /\ (EmptyLine \/ "split" \in hitches \/ "robbed" \in hitches)
        \/ why = "failed" /\ (conn = "broken" \/ "stalled" \in hitches)
        \/ why = "unreadable" /\ "robbed" \in hitches
        \/ why = "errno" /\ receiver = "reaped" /\ job = "reaped" /\ conn # "up"

(* Typing adds to both ends alike. *)
LEMMA TypeWaits ==
    ASSUME NEW t \in Seq(Tokens), NEW e \in Seq(Tokens), NEW x \in Tokens, Waits(t, e)
    PROVE  /\ Waits(Append(t, x), Append(e, x))
           /\ LineStarts(t, e) => LineStarts(Append(t, x), Append(e, x))
<1> DEFINE tt == Append(t, x)
           ee == Append(e, x)
<1>1. /\ Len(tt) = Len(t) + 1 /\ tt[Len(t) + 1] = x /\ \A i \in 1 .. Len(t) : tt[i] = t[i]
      /\ Len(ee) = Len(e) + 1 /\ ee[Len(e) + 1] = x /\ \A i \in 1 .. Len(e) : ee[i] = e[i]
      /\ Len(t) \in Nat /\ Len(e) \in Nat
    BY AppendProperties, LenProperties
<1> HIDE DEF tt, ee
<1>2. ASSUME NEW i \in 1 .. Len(tt)
      PROVE  tt[i] = ee[Len(ee) - Len(tt) + i]
    <2>1. CASE i = Len(t) + 1
        BY <1>1, <2>1
    <2>2. CASE i # Len(t) + 1
        <3>1. i \in 1 .. Len(t)
            BY <1>1, <2>2
        <3>2. t[i] = e[Len(e) - Len(t) + i] /\ Len(t) <= Len(e)
            BY <3>1 DEF Waits
        <3>3. Len(e) - Len(t) + i \in 1 .. Len(e) /\ Len(ee) - Len(tt) + i = Len(e) - Len(t) + i
            BY <1>1, <3>1, <3>2
        <3> QED
            BY <1>1, <3>1, <3>2, <3>3
    <2> QED
        BY <2>1, <2>2
<1>3. Len(tt) <= Len(ee)
    BY <1>1 DEF Waits
<1>4. ASSUME LineStarts(t, e)
      PROVE  LineStarts(tt, ee)
    <2>1. CASE Len(t) = Len(e)
        BY <1>1, <2>1 DEF LineStarts
    <2>2. CASE Len(t) # Len(e)
        <3>1. e[Len(e) - Len(t)] = "newline"
            BY <1>4, <2>2 DEF LineStarts
        <3>2. Len(e) - Len(t) \in 1 .. Len(e) /\ Len(ee) - Len(tt) = Len(e) - Len(t)
            BY <1>1, <2>2 DEF Waits
        <3> QED
            BY <1>1, <3>1, <3>2 DEF LineStarts
    <2> QED
        BY <2>1, <2>2
<1> QED
    BY <1>2, <1>3, <1>4 DEF Waits, tt, ee

(* A read takes from the front, and leaves a line if it ends with one. *)
LEMMA ReadWaits ==
    ASSUME NEW t \in Seq(Tokens), NEW e \in Seq(Tokens), NEW n \in 1 .. Len(t), Waits(t, e)
    PROVE  /\ Waits(SubSeq(t, n + 1, Len(t)), e)
           /\ t[n] = "newline" => LineStarts(SubSeq(t, n + 1, Len(t)), e)
<1> DEFINE r == SubSeq(t, n + 1, Len(t))
<1>1. Len(t) \in Nat /\ Len(e) \in Nat /\ n \in Nat /\ 1 <= n /\ n <= Len(t)
    BY LenProperties
<1>2. /\ Len(r) = Len(t) - n
      /\ \A i \in 1 .. Len(r) : r[i] = t[n + i]
    <2>1. \A i \in n + 1 .. Len(t) : t[i] \in Tokens
        BY <1>1, ElementOfSeq
    <2>2. /\ Len(r) = IF n + 1 <= Len(t) THEN Len(t) - (n + 1) + 1 ELSE 0
          /\ \A i \in 1 .. Len(t) - (n + 1) + 1 : r[i] = t[n + 1 + i - 1]
        BY <1>1, <2>1, SubSeqProperties
    <2> HIDE DEF r
    <2>3. Len(r) = Len(t) - n /\ Len(t) - (n + 1) + 1 = Len(t) - n
        BY <1>1, <2>2
    <2>4. \A i \in 1 .. Len(t) - n : n + 1 + i - 1 = n + i
        BY <1>1
    <2> QED
        BY <2>2, <2>3, <2>4
<1> HIDE DEF r
<1>3. Len(t) <= Len(e) /\ \A i \in 1 .. Len(t) : t[i] = e[Len(e) - Len(t) + i]
    BY DEF Waits
<1>4. ASSUME NEW i \in 1 .. Len(r)
      PROVE  r[i] = e[Len(e) - Len(r) + i]
    <2>1. n + i \in 1 .. Len(t) /\ Len(e) - Len(t) + (n + i) = Len(e) - Len(r) + i
        BY <1>1, <1>2
    <2> QED
        BY <1>2, <1>3, <2>1
<1>5. ASSUME t[n] = "newline"
      PROVE  e[Len(e) - Len(r)] = "newline"
    <2>1. n \in 1 .. Len(t) /\ Len(e) - Len(t) + n = Len(e) - Len(r)
        BY <1>1, <1>2
    <2> QED
        BY <1>3, <1>5, <2>1
<1>6. Len(r) <= Len(e)
    BY <1>1, <1>2, <1>3
<1> QED
    BY <1>4, <1>5, <1>6 DEF Waits, LineStarts, r

(* An empty line read was an empty line typed. *)
LEMMA EmptyIsTyped ==
    ASSUME NEW t \in Seq(Tokens), NEW e \in Seq(Tokens), t # <<>>, t[1] = "newline",
           Waits(t, e), LineStarts(t, e)
    PROVE  \E i \in DOMAIN e : e[i] = "newline" /\ (i = 1 \/ e[i - 1] = "newline")
<1> DEFINE k == Len(e) - Len(t)
<1>1. Len(t) \in Nat /\ Len(t) # 0 /\ Len(e) \in Nat /\ DOMAIN e = 1 .. Len(e)
    BY EmptySeq, LenProperties
<1>2. k \in Nat /\ k + 1 \in DOMAIN e /\ e[k + 1] = "newline"
    BY <1>1 DEF Waits
<1>3. k = 0 \/ e[k] = "newline"
    BY <1>1 DEF LineStarts
<1> HIDE DEF k
<1>4. (k + 1) - 1 = k /\ (k = 0 => k + 1 = 1)
    BY <1>2
<1>5. k + 1 = 1 \/ e[(k + 1) - 1] = "newline"
    BY ONLY <1>3, <1>4
<1> QED
    BY ONLY <1>2, <1>5, Zenon

LEMMA WaitingKept == TypeInv /\ Waiting /\ [Next]_vars => Waiting'
<1> SUFFICES ASSUME TypeInv, Waiting, [Next]_vars PROVE Waiting'
    OBVIOUS
<1> USE DEF vars, inputVars, shellVars, socketVars, childVars, connVars
<1>1. typed \in Seq(Tokens) /\ entered \in Seq(Tokens)
    BY DEF TypeInv, TypeOK
<1>2. CASE Type
    <2>1. PICK x \in Tokens : typed' = Append(typed, x) /\ entered' = Append(entered, x)
        BY <1>2 DEF Type
    <2>2. pc' = pc /\ hitches' = hitches
        BY <1>2 DEF Type
    <2>3. Waits(typed, entered) =>
              /\ Waits(typed', entered')
              /\ LineStarts(typed, entered) => LineStarts(typed', entered')
        BY <1>1, <2>1, TypeWaits
    <2> QED
        BY <2>2, <2>3 DEF Waiting
<1>3. CASE Steal
    BY <1>3 DEF Steal, Waiting
<1>4. CASE MainRead
    BY <1>4 DEF MainRead, Waiting, Loop, Before
<1>5. CASE StartClient
    <2>1. typed' = typed /\ entered' = typed
        BY <1>5 DEF StartClient
    <2>2. Len(typed) \in Nat
        BY <1>1, LenProperties
    <2>3. Waits(typed, typed) /\ LineStarts(typed, typed)
        BY <2>2 DEF Waits, LineStarts
    <2> QED
        BY <2>1, <2>3 DEF Waiting
<1>6. CASE ReadInput
    <2>1. /\ UNCHANGED entered /\ pc = "read" /\ hitches \subseteq hitches'
          /\ pc' \in {"kill", "send"}
        BY <1>6 DEF ReadInput, Leave
    <2>2. CASE UNCHANGED <<typed, hitches>>
        BY <2>1, <2>2 DEF Waiting, Loop
    <2>3. ASSUME NEW n \in 1 .. MaxChunk, n <= Len(typed),
                 typed' = SubSeq(typed, n + 1, Len(typed)),
                 hitches' = hitches \cup (IF typed[n] = "newline" THEN {} ELSE {"split"})
          PROVE  Waiting'
        <3>1. n \in 1 .. Len(typed)
            BY <1>1, <2>3, BoundAssumption, LenProperties
        <3>2. Waits(typed, entered) =>
                  /\ Waits(typed', entered)
                  /\ typed[n] = "newline" => LineStarts(typed', entered)
            BY <1>1, <2>3, <3>1, ReadWaits
        <3>3. typed[n] = "newline" \/ "split" \in hitches'
            BY <2>3
        <3> QED
            BY <2>1, <3>2, <3>3 DEF Waiting, Loop
    <2> QED
        BY <1>6, <2>2, <2>3 DEF ReadInput
<1>7. ASSUME UNCHANGED <<typed, entered>>, hitches \subseteq hitches',
             pc' = pc \/ pc \in Loop \cup Before \/ pc' \notin Loop \cup Before
      PROVE  Waiting'
    BY <1>7 DEF Waiting
<1>8. CASE Connect \/ ForkReceiver \/ SetNonblocking \/ SelectReadable \/ CheckErrno
    BY <1>7, <1>8 DEF Connect, ForkReceiver, SetNonblocking, SelectReadable, CheckErrno, Loop, Before
<1>9. CASE SendDelivered \/ SendCut \/ SendFails \/ SendKilled
    BY <1>7, <1>9 DEF SendDelivered, SendCut, SendFails, SendKilled, Loop
<1>10. CASE KillReceiver \/ WaitReceiver \/ CloseSocket \/ RestoreInput
    BY <1>7, <1>10 DEF KillReceiver, WaitReceiver, CloseSocket, RestoreInput, Loop, Before
<1>11. CASE EndInput \/ ReceiverUnblocks \/ ReceiverEnds \/ ReceiverTerminated \/ JobEnds
            \/ ServerStalls \/ ServerCloses \/ UNCHANGED vars
    BY <1>7, <1>11 DEF EndInput, ReceiverUnblocks, ReceiverEnds, ReceiverTerminated, JobEnds,
                       ServerStalls, ServerCloses
<1>12. CASE Handler
    BY <1>7, <1>12 DEF Handler, Loop
<1> QED
    BY <1>2, <1>3, <1>4, <1>5, <1>6, <1>8, <1>9, <1>10, <1>11, <1>12 DEF Next, ShellStep, Over

LEMMA GroundsKept == TypeInv /\ Held /\ Grounds /\ [Next]_vars => Grounds'
<1> SUFFICES ASSUME TypeInv, Held, Grounds, [Next]_vars PROVE Grounds'
    OBVIOUS
<1> USE DEF TypeInv, TypeOK, Held, Grounds, Loop, Leaving, Outside, ChildStates,
            vars, inputVars, shellVars, socketVars, childVars, connVars
<1>1. CASE Type
    <2>1. typed' # <<>>
        BY <1>1, AppendProperties DEF Type
    <2> QED
        BY <1>1, <2>1 DEF Type
<1>2. CASE EndInput
    BY <1>2 DEF EndInput
<1>3. CASE Steal
    BY <1>3 DEF Steal
<1>4. CASE MainRead \/ StartClient
    BY <1>4 DEF MainRead, StartClient
<1>5. CASE Connect \/ ForkReceiver
    BY <1>5 DEF Connect, ForkReceiver
<1>6. CASE SetNonblocking
    BY <1>6 DEF SetNonblocking
<1>7. CASE SelectReadable
    BY <1>7 DEF SelectReadable
<1>8. CASE CheckErrno
    BY <1>8 DEF CheckErrno, Leave
<1>9. CASE ReadInput
    BY <1>9 DEF ReadInput, Leave
<1>10. CASE SendDelivered
    BY <1>10 DEF SendDelivered
<1>11. CASE SendCut \/ SendFails
    BY <1>11 DEF SendCut, SendFails, Leave
<1>12. CASE SendKilled \/ KillReceiver \/ WaitReceiver \/ CloseSocket \/ RestoreInput
    BY <1>12 DEF SendKilled, KillReceiver, WaitReceiver, CloseSocket, RestoreInput
<1>13. CASE ReceiverEnds
    BY <1>13 DEF ReceiverEnds, ConnectionOver, ExitState
<1>14. CASE ReceiverTerminated
    BY <1>14 DEF ReceiverTerminated, ExitState
<1>15. CASE JobEnds
    BY <1>15 DEF JobEnds, ExitState
<1>16. CASE Handler
    BY <1>16 DEF Handler, ReapedNow
<1>17. CASE ServerCloses
    BY <1>17 DEF ServerCloses
<1>18. CASE ReceiverUnblocks \/ ServerStalls \/ UNCHANGED vars
    BY <1>18 DEF ReceiverUnblocks, ServerStalls
<1> QED
    BY <1>1, <1>2, <1>3, <1>4, <1>5, <1>6, <1>7, <1>8, <1>9, <1>10, <1>11, <1>12, <1>13,
       <1>14, <1>15, <1>16, <1>17, <1>18 DEF Next, ShellStep, Over

(* More input does not make an empty line any longer. *)
LEMMA EmptyLineStays ==
    ASSUME TypeInv, NEW x \in Tokens, entered' = Append(entered, x),
           NEW i \in DOMAIN entered, entered[i] = "newline", i = 1 \/ entered[i - 1] = "newline"
    PROVE  \E j \in DOMAIN entered' :
               entered'[j] = "newline" /\ (j = 1 \/ entered'[j - 1] = "newline")
<1>1. entered \in Seq(Tokens)
    BY DEF TypeInv, TypeOK
<1>2. /\ Len(entered) \in Nat /\ DOMAIN entered = 1 .. Len(entered)
      /\ DOMAIN entered' = 1 .. Len(entered) + 1
      /\ \A j \in 1 .. Len(entered) : entered'[j] = entered[j]
    BY <1>1, AppendProperties, LenProperties
<1>3. i \in DOMAIN entered' /\ entered'[i] = "newline"
    BY <1>2
<1>4. i = 1 \/ entered'[i - 1] = "newline"
    BY <1>2
<1> QED
    BY <1>3, <1>4, Zenon

LEMMA ReasonsKept ==
    TypeInv /\ Held /\ Waiting /\ Grounds /\ Reasons /\ [Next]_vars => Reasons'
<1> SUFFICES ASSUME TypeInv, Held, Waiting, Grounds, Reasons, [Next]_vars PROVE Reasons'
    OBVIOUS
<1> USE DEF TypeInv, TypeOK, Held, Grounds, Reasons, Loop, Leaving, Outside, ChildStates,
            vars, inputVars, shellVars, socketVars, childVars, connVars
<1>0. UNCHANGED entered => EmptyLine' = EmptyLine
    BY DEF EmptyLine
<1>1. CASE Type
    <2>1. PICK x \in Tokens : entered' = Append(entered, x)
        BY <1>1 DEF Type
    <2>2. EmptyLine => EmptyLine'
        BY <2>1, EmptyLineStays DEF EmptyLine
    <2> QED
        BY <1>1, <2>2 DEF Type
<1>2. CASE EndInput
    BY <1>0, <1>2 DEF EndInput
<1>3. CASE Steal \/ MainRead \/ StartClient
    BY <1>0, <1>3 DEF Steal, MainRead, StartClient
<1>4. CASE Connect \/ ForkReceiver \/ SetNonblocking \/ SelectReadable
    BY <1>4 DEF Connect, ForkReceiver, SetNonblocking, SelectReadable
<1>5. CASE CheckErrno
    BY <1>5 DEF CheckErrno, Leave
<1>6. CASE ReadInput
    <2>1. CASE typed = <<>> /\ Leave(IF eof THEN "eof" ELSE "unreadable")
        <3>1. eof = TRUE \/ "robbed" \in hitches
            BY <1>6, <2>1 DEF ReadInput
        <3>2. eof' = eof /\ hitches \subseteq hitches'
            BY <1>6 DEF ReadInput
        <3>3. CASE eof = TRUE
            BY <3>2, <3>3
        <3>4. CASE eof # TRUE
            BY <2>1, <3>1, <3>2, <3>4 DEF Leave
        <3> QED
            BY <3>3, <3>4
    <2>2. ASSUME NEW n \in 1 .. MaxChunk, n <= Len(typed),
                 SubSeq(typed, 1, n) = <<"newline">>, Leave("empty")
          PROVE  Reasons'
        <3>1. n \in 1 .. Len(typed) /\ 1 \in 1 .. Len(typed) /\ typed # <<>>
            BY <2>2, BoundAssumption, EmptySeq, LenProperties
        <3>2. typed[1] = "newline"
            <4>1. 1 \in 1 .. n /\ SubSeq(typed, 1, n)[1] = typed[1]
                BY <3>1, Chunks
            <4>2. <<"newline">>[1] = "newline"
                OBVIOUS
            <4> QED
                BY <2>2, <4>1, <4>2
        <3>3. EmptyLine \/ "split" \in hitches \/ "robbed" \in hitches
            <4>1. SUFFICES ASSUME "split" \notin hitches, "robbed" \notin hitches
                           PROVE  EmptyLine
                OBVIOUS
            <4>2. Waits(typed, entered) /\ LineStarts(typed, entered)
                BY <1>6, <4>1 DEF ReadInput, Waiting
            <4> QED
                BY <3>1, <3>2, <4>2, EmptyIsTyped DEF EmptyLine
        <3>4. why' = "empty" /\ entered' = entered /\ hitches \subseteq hitches'
            BY <1>6, <2>2 DEF ReadInput, Leave
        <3> QED
            BY <1>0, <3>3, <3>4
    <2>3. CASE pc' = "send"
        BY <2>3
    <2> QED
        BY <1>6, <2>1, <2>2, <2>3 DEF ReadInput
<1>7. CASE SendDelivered
    BY <1>7 DEF SendDelivered
<1>8. CASE SendFails
    BY <1>8 DEF SendFails, Full, Leave
<1>9. CASE SendKilled \/ KillReceiver \/ CloseSocket \/ RestoreInput
    BY <1>0, <1>9 DEF SendKilled, KillReceiver, CloseSocket, RestoreInput
<1>10. CASE WaitReceiver
    BY <1>0, <1>10 DEF WaitReceiver
<1>11. CASE ReceiverEnds
    BY <1>0, <1>11 DEF ReceiverEnds, ExitState
<1>12. CASE ReceiverTerminated
    BY <1>0, <1>12 DEF ReceiverTerminated, ExitState
<1>13. CASE JobEnds
    BY <1>0, <1>13 DEF JobEnds, ExitState
<1>14. CASE Handler
    BY <1>0, <1>14 DEF Handler, ReapedNow
<1>15. CASE ServerCloses
    BY <1>0, <1>15 DEF ServerCloses
<1>16. CASE SendCut \/ ReceiverUnblocks \/ ServerStalls \/ UNCHANGED vars
    BY <1>0, <1>16 DEF SendCut, ReceiverUnblocks, ServerStalls
<1> QED
    BY <1>1, <1>2, <1>3, <1>4, <1>5, <1>6, <1>7, <1>8, <1>9, <1>10, <1>11, <1>12, <1>13,
       <1>14, <1>15, <1>16 DEF Next, ShellStep, Over

Why == TypeInv /\ Held /\ Waiting /\ Grounds /\ Reasons

LEMMA WhyHolds == Spec => []Why
<1>1. Init => Held /\ Waiting /\ Grounds /\ Reasons
    BY DEF Init, Held, Waiting, Grounds, Reasons, Loop, Leaving, Before
<1>2. Init => Why
    BY <1>1, InitTypes DEF Why
<1>3. Why /\ [Next]_vars => Why'
    BY TypesKept, HeldKept, WaitingKept, GroundsKept, ReasonsKept DEF Why
<1> QED
    BY <1>2, <1>3, PTL DEF Spec

(* The user is thrown out of a chat for one of the reasons listed, a full  *)
(* socket that refuses the send (network.c:1147) among them.  The last is  *)
(* the handler's (mysh.c:41): errno is examined after it may have changed  *)
(* it (network.c:1078), but that takes the end of two children, and then   *)
(* the server has gone.                                                    *)
THEOREM ChatLeftForAReason == Spec => []LeftForAReason
<1>1. Why => LeftForAReason
    <2> SUFFICES ASSUME Why PROVE LeftForAReason
        OBVIOUS
    <2>1. Reasons
        BY DEF Why
    <2> QED
        BY <2>1 DEF Reasons, LeftForAReason
<1> QED
    BY <1>1, WhyHolds, PTL

-----------------------------------------------------------------------------
(* Streams: their texts and their lines, piece by piece.                   *)

AtStart(s) == s = <<>> \/ Last(s) = "newline"

TextPart(s, i) == IF s[i] = "newline" THEN <<>> ELSE <<s[i]>>

LinePart(s, i) ==
    IF s[i] = "newline" /\ (i = 1 \/ s[i - 1] = "newline") THEN <<>> ELSE <<s[i]>>

(* Both are put together from one part for each token. *)
LEMMA PartsFit ==
    ASSUME NEW s \in Seq(Tokens)
    PROVE  /\ [i \in DOMAIN s |-> TextPart(s, i)] \in Seq(Seq(Tokens))
           /\ [i \in DOMAIN s |-> LinePart(s, i)] \in Seq(Seq(Tokens))
           /\ TextsOf(s) = FlattenSeq([i \in DOMAIN s |-> TextPart(s, i)])
           /\ LinesOf(s) = FlattenSeq([i \in DOMAIN s |-> LinePart(s, i)])
           /\ TextsOf(s) \in Seq(Tokens) /\ LinesOf(s) \in Seq(Tokens)
<1>1. Len(s) \in Nat /\ DOMAIN s = 1 .. Len(s) /\ \A i \in 1 .. Len(s) : s[i] \in Tokens
    BY ElementOfSeq, LenProperties
<1>2. \A i \in 1 .. Len(s) : TextPart(s, i) \in Seq(Tokens) /\ LinePart(s, i) \in Seq(Tokens)
    BY <1>1 DEF TextPart, LinePart
<1>3. \A f : (\A i \in 1 .. Len(s) : f[i] \in Seq(Tokens)) =>
                 [i \in 1 .. Len(s) |-> f[i]] \in Seq(Seq(Tokens))
    BY <1>1
<1> DEFINE p == [i \in DOMAIN s |-> TextPart(s, i)]
           q == [i \in DOMAIN s |-> LinePart(s, i)]
<1>4. p \in Seq(Seq(Tokens))
    BY <1>1, <1>2
<1>5. q \in Seq(Seq(Tokens))
    BY <1>1, <1>2
<1>6. TextsOf(s) = FlattenSeq(p)
    BY DEF TextsOf, TextPart
<1>7. LinesOf(s) = FlattenSeq(q)
    BY DEF LinesOf, LinePart
<1> HIDE DEF p, q
<1>8. FlattenSeq(p) \in Seq(Tokens) /\ FlattenSeq(q) \in Seq(Tokens)
    BY <1>4, <1>5, FlattenAppend
<1> QED
    BY <1>4, <1>5, <1>6, <1>7, <1>8 DEF p, q

LEMMA AppendedIs ==
    ASSUME NEW S, NEW p \in Seq(S), NEW r \in Seq(S), NEW x \in S,
           Len(r) = Len(p) + 1, r[Len(p) + 1] = x, \A i \in 1 .. Len(p) : r[i] = p[i]
    PROVE  r = Append(p, x)
<1> DEFINE t == Append(p, x)
<1>1. /\ t \in Seq(S) /\ Len(t) = Len(p) + 1 /\ Len(p) \in Nat
      /\ t[Len(p) + 1] = x /\ \A i \in 1 .. Len(p) : t[i] = p[i]
    BY AppendProperties, LenProperties
<1> HIDE DEF t
<1>2. \A i \in 1 .. Len(r) : r[i] = t[i]
    <2>1. \A i \in 1 .. Len(r) : i = Len(p) + 1 \/ i \in 1 .. Len(p)
        BY <1>1
    <2> QED
        BY <1>1, <2>1
<1> QED
    BY <1>1, <1>2, SeqEqual DEF t

(* Parts that agree with those of the pieces flatten to the pieces.        *)
LEMMA PartsConcat ==
    ASSUME NEW p \in Seq(Seq(Tokens)), NEW q \in Seq(Seq(Tokens)), NEW r \in Seq(Seq(Tokens)),
           Len(r) = Len(p) + Len(q),
           \A i \in 1 .. Len(p) + Len(q) : r[i] = IF i <= Len(p) THEN p[i] ELSE q[i - Len(p)]
    PROVE  FlattenSeq(r) = FlattenSeq(p) \o FlattenSeq(q)
<1>1. /\ p \o q \in Seq(Seq(Tokens)) /\ Len(p \o q) = Len(p) + Len(q)
      /\ \A i \in 1 .. Len(p) + Len(q) :
             (p \o q)[i] = IF i <= Len(p) THEN p[i] ELSE q[i - Len(p)]
    BY ConcatProperties
<1>2. r = p \o q
    BY <1>1, SeqEqual
<1> QED
    BY <1>2, FlattenConcat

(* A stream that is cut anywhere keeps its texts; one that is cut between  *)
(* two lines keeps its lines.                                              *)
LEMMA CutAnywhere ==
    ASSUME NEW s \in Seq(Tokens), NEW t \in Seq(Tokens)
    PROVE  /\ TextsOf(s \o t) = TextsOf(s) \o TextsOf(t)
           /\ AtStart(s) => LinesOf(s \o t) = LinesOf(s) \o LinesOf(t)
<1> DEFINE u == s \o t
<1>1. /\ u \in Seq(Tokens)
      /\ Len(s) \in Nat /\ Len(t) \in Nat /\ Len(u) = Len(s) + Len(t)
      /\ \A i \in 1 .. Len(s) + Len(t) : u[i] = IF i <= Len(s) THEN s[i] ELSE t[i - Len(s)]
      /\ DOMAIN s = 1 .. Len(s) /\ DOMAIN t = 1 .. Len(t) /\ DOMAIN u = 1 .. Len(s) + Len(t)
    BY ConcatProperties, LenProperties
<1> HIDE DEF u
<1>2. TextsOf(u) = TextsOf(s) \o TextsOf(t)
    <2> DEFINE p == [i \in DOMAIN s |-> TextPart(s, i)]
               q == [i \in DOMAIN t |-> TextPart(t, i)]
               r == [i \in DOMAIN u |-> TextPart(u, i)]
    <2>1. /\ p \in Seq(Seq(Tokens)) /\ q \in Seq(Seq(Tokens)) /\ r \in Seq(Seq(Tokens))
          /\ TextsOf(s) = FlattenSeq(p) /\ TextsOf(t) = FlattenSeq(q) /\ TextsOf(u) = FlattenSeq(r)
        BY <1>1, PartsFit
    <2>2. Len(p) = Len(s) /\ Len(q) = Len(t) /\ Len(r) = Len(s) + Len(t)
        BY <1>1
    <2>3. ASSUME NEW i \in 1 .. Len(s) + Len(t)
          PROVE  r[i] = IF i <= Len(s) THEN p[i] ELSE q[i - Len(s)]
        <3>1. CASE i <= Len(s)
            BY <1>1, <3>1 DEF TextPart
        <3>2. CASE ~ (i <= Len(s))
            <4>1. i - Len(s) \in DOMAIN t /\ u[i] = t[i - Len(s)]
                BY <1>1, <3>2
            <4> QED
                BY <1>1, <3>2, <4>1 DEF TextPart
        <3> QED
            BY <3>1, <3>2
    <2> HIDE DEF p, q, r
    <2>4. /\ Len(r) = Len(p) + Len(q)
          /\ \A i \in 1 .. Len(p) + Len(q) : r[i] = IF i <= Len(p) THEN p[i] ELSE q[i - Len(p)]
        BY ONLY <2>2, <2>3
    <2>5. /\ p \in Seq(Seq(Tokens)) /\ q \in Seq(Seq(Tokens)) /\ r \in Seq(Seq(Tokens))
        BY ONLY <2>1
    <2>6. FlattenSeq(r) = FlattenSeq(p) \o FlattenSeq(q)
        BY ONLY <2>4, <2>5, PartsConcat
    <2> QED
        BY <2>1, <2>6
<1>3. ASSUME AtStart(s)
      PROVE  LinesOf(u) = LinesOf(s) \o LinesOf(t)
    <2> DEFINE p == [i \in DOMAIN s |-> LinePart(s, i)]
               q == [i \in DOMAIN t |-> LinePart(t, i)]
               r == [i \in DOMAIN u |-> LinePart(u, i)]
    <2>1. /\ p \in Seq(Seq(Tokens)) /\ q \in Seq(Seq(Tokens)) /\ r \in Seq(Seq(Tokens))
          /\ LinesOf(s) = FlattenSeq(p) /\ LinesOf(t) = FlattenSeq(q) /\ LinesOf(u) = FlattenSeq(r)
        BY <1>1, PartsFit
    <2>2. Len(p) = Len(s) /\ Len(q) = Len(t) /\ Len(r) = Len(s) + Len(t)
        BY <1>1
    <2>3. ASSUME NEW i \in 1 .. Len(s) + Len(t)
          PROVE  r[i] = IF i <= Len(s) THEN p[i] ELSE q[i - Len(s)]
        <3>1. CASE i <= Len(s)
            <4>1. i \in DOMAIN s /\ i \in DOMAIN u /\ u[i] = s[i]
                BY <1>1, <3>1
            <4>2. i = 1 \/ u[i - 1] = s[i - 1]
                BY <1>1, <3>1
            <4>3. LinePart(u, i) = LinePart(s, i)
                BY <4>1, <4>2 DEF LinePart
            <4> QED
                BY <3>1, <4>1, <4>3
        <3>2. CASE ~ (i <= Len(s))
            <4>1. i \in DOMAIN u /\ i - Len(s) \in DOMAIN t /\ u[i] = t[i - Len(s)]
                BY <1>1, <3>2
            <4>2. (i = 1 \/ u[i - 1] = "newline")
                      <=> (i - Len(s) = 1 \/ t[(i - Len(s)) - 1] = "newline")
                <5>1. CASE i = Len(s) + 1
                    <6>1. i = 1 \/ (i - 1 = Len(s) /\ Len(s) \in 1 .. Len(s) + Len(t) /\ s # <<>>)
                        BY <1>1, <5>1, EmptySeq
                    <6>2. i = 1 \/ u[i - 1] = "newline"
                        BY <1>1, <1>3, <6>1 DEF AtStart, Last
                    <6>3. i - Len(s) = 1
                        BY <1>1, <5>1
                    <6> QED
                        BY <6>2, <6>3
                <5>2. CASE i # Len(s) + 1
                    <6>1. /\ i # 1 /\ i - Len(s) # 1 /\ i - 1 \in 1 .. Len(s) + Len(t)
                          /\ ~ (i - 1 <= Len(s)) /\ (i - 1) - Len(s) = (i - Len(s)) - 1
                        BY <1>1, <3>2, <5>2
                    <6>2. u[i - 1] = t[(i - Len(s)) - 1]
                        BY <1>1, <6>1
                    <6> QED
                        BY <6>1, <6>2
                <5> QED
                    BY <5>1, <5>2
            <4>3. LinePart(u, i) = LinePart(t, i - Len(s))
                BY <4>1, <4>2 DEF LinePart
            <4> QED
                BY <3>2, <4>1, <4>3
        <3> QED
            BY <3>1, <3>2
    <2> HIDE DEF p, q, r
    <2>4. /\ Len(r) = Len(p) + Len(q)
          /\ \A i \in 1 .. Len(p) + Len(q) : r[i] = IF i <= Len(p) THEN p[i] ELSE q[i - Len(p)]
        BY ONLY <2>2, <2>3
    <2>5. /\ p \in Seq(Seq(Tokens)) /\ q \in Seq(Seq(Tokens)) /\ r \in Seq(Seq(Tokens))
        BY ONLY <2>1
    <2>6. FlattenSeq(r) = FlattenSeq(p) \o FlattenSeq(q)
        BY ONLY <2>4, <2>5, PartsConcat
    <2> QED
        BY <2>1, <2>6
<1> QED
    BY <1>2, <1>3 DEF u

(* One more token. *)
LEMMA OneMore ==
    ASSUME NEW s \in Seq(Tokens), NEW x \in Tokens
    PROVE  /\ TextsOf(Append(s, x)) = TextsOf(s) \o (IF x = "newline" THEN <<>> ELSE <<x>>)
           /\ LinesOf(Append(s, x))
                  = LinesOf(s) \o (IF x = "newline" /\ AtStart(s) THEN <<>> ELSE <<x>>)
<1> DEFINE u == Append(s, x)
           n == Len(s)
<1>1. /\ u \in Seq(Tokens) /\ Len(s) \in Nat /\ Len(u) = n + 1 /\ u[n + 1] = x
      /\ \A i \in 1 .. n : u[i] = s[i]
      /\ DOMAIN s = 1 .. n /\ DOMAIN u = 1 .. n + 1
    BY AppendProperties, LenProperties
<1> HIDE DEF u
<1>2. TextPart(u, n + 1) = IF x = "newline" THEN <<>> ELSE <<x>>
    BY <1>1 DEF TextPart
<1>3. LinePart(u, n + 1) = IF x = "newline" /\ AtStart(s) THEN <<>> ELSE <<x>>
    <2>1. n = 0 \/ u[(n + 1) - 1] = s[n]
        BY <1>1
    <2>2. AtStart(s) <=> (n = 0 \/ s[n] = "newline")
        BY <1>1, EmptySeq DEF AtStart, Last
    <2>3. n + 1 = 1 <=> n = 0
        BY <1>1
    <2> HIDE DEF n
    <2>4. AtStart(s) <=> (n + 1 = 1 \/ u[(n + 1) - 1] = "newline")
        <3>1. CASE n = 0
            BY ONLY <2>2, <2>3, <3>1
        <3>2. CASE n # 0
            BY ONLY <2>1, <2>2, <2>3, <3>2
        <3> QED
            BY ONLY <3>1, <3>2
    <2>5. u[n + 1] = x
        BY <1>1
    <2>6. LinePart(u, n + 1)
              = IF u[n + 1] = "newline" /\ (n + 1 = 1 \/ u[(n + 1) - 1] = "newline")
                THEN <<>> ELSE <<u[n + 1]>>
        BY ONLY DEF LinePart
    <2>7. u[n + 1] = "newline" /\ (n + 1 = 1 \/ u[(n + 1) - 1] = "newline")
              <=> x = "newline" /\ AtStart(s)
        BY ONLY <2>4, <2>5
    <2>8. CASE x = "newline" /\ AtStart(s)
        BY ONLY <2>6, <2>7, <2>8
    <2>9. CASE ~ (x = "newline" /\ AtStart(s))
        BY ONLY <2>5, <2>6, <2>7, <2>9
    <2> QED
        BY ONLY <2>8, <2>9
<1>4. TextPart(u, n + 1) \in Seq(Tokens) /\ LinePart(u, n + 1) \in Seq(Tokens)
    <2>1. <<>> \in Seq(Tokens) /\ <<x>> \in Seq(Tokens)
        OBVIOUS
    <2> HIDE DEF n
    <2>2. TextPart(u, n + 1) \in {<<>>, <<x>>} /\ LinePart(u, n + 1) \in {<<>>, <<x>>}
        BY ONLY <1>2, <1>3
    <2> QED
        BY ONLY <2>1, <2>2
<1>5. TextsOf(u) = TextsOf(s) \o TextPart(u, n + 1)
    <2> DEFINE p == [i \in DOMAIN s |-> TextPart(s, i)]
               r == [i \in DOMAIN u |-> TextPart(u, i)]
    <2>1. /\ p \in Seq(Seq(Tokens)) /\ r \in Seq(Seq(Tokens))
          /\ TextsOf(s) = FlattenSeq(p) /\ TextsOf(u) = FlattenSeq(r)
        BY <1>1, PartsFit
    <2>2. /\ Len(p) = n /\ Len(r) = n + 1 /\ r[n + 1] = TextPart(u, n + 1)
          /\ \A i \in 1 .. n : r[i] = p[i]
        BY <1>1 DEF TextPart
    <2> HIDE DEF p, r, n
    <2>3. r = Append(p, TextPart(u, n + 1))
        BY <1>4, <2>1, <2>2, AppendedIs
    <2> QED
        BY <1>4, <2>1, <2>3, FlattenAppend
<1>6. LinesOf(u) = LinesOf(s) \o LinePart(u, n + 1)
    <2> DEFINE p == [i \in DOMAIN s |-> LinePart(s, i)]
               r == [i \in DOMAIN u |-> LinePart(u, i)]
    <2>1. /\ p \in Seq(Seq(Tokens)) /\ r \in Seq(Seq(Tokens))
          /\ LinesOf(s) = FlattenSeq(p) /\ LinesOf(u) = FlattenSeq(r)
        BY <1>1, PartsFit
    <2>2. \A i \in 1 .. n : LinePart(u, i) = LinePart(s, i)
        <3>1. \A i \in 1 .. n : u[i] = s[i] /\ (i = 1 \/ u[i - 1] = s[i - 1])
            BY <1>1
        <3> QED
            BY <3>1 DEF LinePart
    <2>3. /\ Len(p) = n /\ Len(r) = n + 1 /\ r[n + 1] = LinePart(u, n + 1)
          /\ \A i \in 1 .. n : r[i] = p[i]
        BY <1>1, <2>2
    <2> HIDE DEF p, r, n
    <2>4. r = Append(p, LinePart(u, n + 1))
        BY <1>4, <2>1, <2>3, AppendedIs
    <2> QED
        BY <1>4, <2>1, <2>4, FlattenAppend
<1> QED
    BY <1>2, <1>3, <1>5, <1>6 DEF u

(* The message made of whole lines is these lines, but for empty ones, and *)
(* ends with a line; that of any chunk has its texts.                      *)
LEMMA MessageIsChunk ==
    ASSUME NEW chunk \in Seq(Tokens), chunk # <<>>, chunk # <<"newline">>,
           Head(chunk) # "connected"
    PROVE  /\ TextsOf(Message(chunk)) = TextsOf(chunk)
           /\ Last(chunk) = "newline" =>
                  AtStart(Message(chunk)) /\ LinesOf(Message(chunk)) = LinesOf(chunk)
<1>1. PICK u \in Seq(Tokens), e \in Tokens : chunk = Append(u, e)
    BY SequenceEmptyOrAppend
<1>2. Front(chunk) = u /\ Last(chunk) = e
    BY <1>1, FrontOfAppend
<1>3. Message(chunk) = Ended(IF e = "newline" THEN u ELSE chunk)
    BY <1>2 DEF Message, Stripped
<1>4. "newline" \in Tokens
    BY DEF Tokens
<1>5. CASE e # "newline"
    <2>1. Message(chunk) = Append(chunk, "newline")
        BY <1>2, <1>3, <1>5 DEF Ended
    <2>2. TextsOf(Append(chunk, "newline")) = TextsOf(chunk) \o <<>>
        BY <1>4, OneMore
    <2>3. TextsOf(chunk) \o <<>> = TextsOf(chunk)
        BY PartsFit, ConcatEmptySeq
    <2> QED
        BY <1>2, <1>5, <2>1, <2>2, <2>3
<1>6. CASE e = "newline" /\ Last(u) # "newline"
    <2>1. Message(chunk) = chunk
        BY <1>1, <1>3, <1>6 DEF Ended
    <2> QED
        BY <1>2, <1>6, <2>1 DEF AtStart
<1>7. CASE e = "newline" /\ Last(u) = "newline"
    <2>1. Message(chunk) = u
        BY <1>3, <1>7 DEF Ended
    <2>2. AtStart(u)
        BY <1>7 DEF AtStart
    <2>3. TextsOf(chunk) = TextsOf(u) \o <<>> /\ LinesOf(chunk) = LinesOf(u) \o <<>>
        BY <1>1, <1>7, <2>2, OneMore
    <2>4. TextsOf(u) \o <<>> = TextsOf(u) /\ LinesOf(u) \o <<>> = LinesOf(u)
        BY PartsFit, ConcatEmptySeq
    <2> QED
        BY <2>1, <2>2, <2>3, <2>4
<1> QED
    BY <1>5, <1>6, <1>7

-----------------------------------------------------------------------------
NoCommand == \A i \in 1 .. Len(entered) : entered[i] # "connected"

(* What the three parts of the stream have in common with what was typed.  *)
Parts(s, m, t, e) == TextsOf(s) \o TextsOf(m) \o TextsOf(t) = TextsOf(e)

Lines(s, m, t, e) ==
    AtStart(s) /\ AtStart(m) /\ LinesOf(s) \o LinesOf(m) \o LinesOf(t) = LinesOf(e)

(* NoLineLost, with the parts of the stream apart, from the start of a     *)
(* session on.                                                             *)
Kept ==
    "robbed" \notin hitches =>
        /\ pc \in Before => sent = <<>> /\ typed = entered
        /\ pc \in Loop /\ conn = "up" /\ NoCommand /\ "clipped" \notin hitches =>
               /\ Parts(sent, msg, typed, entered)
               /\ "split" \notin hitches => Lines(sent, msg, typed, entered)

(* Nothing is sent yet. *)
LEMMA NothingSent ==
    ASSUME NEW e \in Seq(Tokens)
    PROVE  Parts(<<>>, <<>>, e, e) /\ Lines(<<>>, <<>>, e, e)
<1>1. TextsOf(<<>>) = <<>> /\ LinesOf(<<>>) = <<>>
    BY DEF TextsOf, LinesOf, FlattenSeq
<1>2. TextsOf(e) \in Seq(Tokens) /\ LinesOf(e) \in Seq(Tokens)
    BY PartsFit
<1>3. \A x \in Seq(Tokens) : <<>> \o <<>> \o x = x
    BY ConcatEmptySeq
<1> QED
    BY <1>1, <1>2, <1>3 DEF Parts, Lines, AtStart

LEMMA Associate ==
    \A s, t, u \in Seq(Tokens) : (s \o t) \o u = s \o (t \o u)
BY ConcatAssociative

LEMMA Regroup ==
    ASSUME NEW a \in Seq(Tokens), NEW b \in Seq(Tokens), NEW c \in Seq(Tokens)
    PROVE  (a \o b) \o c = a \o (b \o c)
BY Associate

(* Three pieces with nothing among them. *)
LEMMA NothingBetween ==
    ASSUME NEW a \in Seq(Tokens), NEW b \in Seq(Tokens), NEW c \in Seq(Tokens)
    PROVE  ((a \o b) \o <<>>) \o c = (a \o b) \o c
<1>1. a \o b \in Seq(Tokens)
    BY ConcatProperties
<1>2. (a \o b) \o <<>> = a \o b
    BY <1>1, ConcatEmptySeq
<1> QED
    BY ONLY <1>2

(* One more token is typed. *)
LEMMA OneMoreTyped ==
    ASSUME NEW s, NEW m, NEW t, NEW e, NEW x,
           s \in Seq(Tokens), m \in Seq(Tokens), t \in Seq(Tokens), e \in Seq(Tokens), x \in Tokens
    PROVE  /\ Parts(s, m, t, e) => Parts(s, m, Append(t, x), Append(e, x))
           /\ (AtStart(t) <=> AtStart(e)) /\ Lines(s, m, t, e)
                  => Lines(s, m, Append(t, x), Append(e, x))
<1>2. /\ TextsOf(s) \in Seq(Tokens) /\ TextsOf(m) \in Seq(Tokens) /\ TextsOf(t) \in Seq(Tokens)
      /\ LinesOf(s) \in Seq(Tokens) /\ LinesOf(m) \in Seq(Tokens) /\ LinesOf(t) \in Seq(Tokens)
    BY PartsFit
<1>3. <<>> \in Seq(Tokens) /\ <<x>> \in Seq(Tokens)
    OBVIOUS
<1>4. ASSUME Parts(s, m, t, e)
      PROVE  Parts(s, m, Append(t, x), Append(e, x))
    <2>1. PICK d : /\ d \in Seq(Tokens)
                   /\ TextsOf(Append(t, x)) = TextsOf(t) \o d
                   /\ TextsOf(Append(e, x)) = TextsOf(e) \o d
        BY <1>3, OneMore
    <2>2. TextsOf(s) \o TextsOf(m) \o (TextsOf(t) \o d) = (TextsOf(s) \o TextsOf(m) \o TextsOf(t)) \o d
        <3> DEFINE a == TextsOf(s) \o TextsOf(m)
                   b == TextsOf(t)
        <3>1. a \in Seq(Tokens) /\ b \in Seq(Tokens) /\ d \in Seq(Tokens)
            BY <1>2, <2>1, ConcatProperties
        <3> HIDE DEF a, b
        <3>2. (a \o b) \o d = a \o (b \o d)
            BY ONLY <3>1, Regroup
        <3> QED
            BY ONLY <3>2 DEF a, b
    <2> QED
        BY <1>4, <2>1, <2>2 DEF Parts
<1>5. ASSUME AtStart(t) <=> AtStart(e), Lines(s, m, t, e)
      PROVE  Lines(s, m, Append(t, x), Append(e, x))
    <2>1. PICK d : /\ d \in Seq(Tokens)
                   /\ LinesOf(Append(t, x)) = LinesOf(t) \o d
                   /\ LinesOf(Append(e, x)) = LinesOf(e) \o d
        <3>1. CASE x = "newline" /\ AtStart(t)
            <4>1. LinesOf(Append(t, x)) = LinesOf(t) \o <<>> /\ LinesOf(Append(e, x)) = LinesOf(e) \o <<>>
                BY <1>5, <3>1, OneMore
            <4> QED
                BY <1>3, <4>1
        <3>2. CASE ~ (x = "newline" /\ AtStart(t))
            <4>1. LinesOf(Append(t, x)) = LinesOf(t) \o <<x>> /\ LinesOf(Append(e, x)) = LinesOf(e) \o <<x>>
                BY <1>5, <3>2, OneMore
            <4> QED
                BY <1>3, <4>1
        <3> QED
            BY <3>1, <3>2
    <2>2. LinesOf(s) \o LinesOf(m) \o (LinesOf(t) \o d) = (LinesOf(s) \o LinesOf(m) \o LinesOf(t)) \o d
        <3> DEFINE a == LinesOf(s) \o LinesOf(m)
                   b == LinesOf(t)
        <3>1. a \in Seq(Tokens) /\ b \in Seq(Tokens) /\ d \in Seq(Tokens)
            BY <1>2, <2>1, ConcatProperties
        <3> HIDE DEF a, b
        <3>2. (a \o b) \o d = a \o (b \o d)
            BY ONLY <3>1, Regroup
        <3> QED
            BY ONLY <3>2 DEF a, b
    <2> QED
        BY <1>5, <2>1, <2>2 DEF Lines
<1> QED
    BY <1>4, <1>5

(* A chunk is read. *)
LEMMA ChunkRead ==
    ASSUME NEW s, NEW t, NEW e, NEW chunk, NEW rest,
           s \in Seq(Tokens), t \in Seq(Tokens), e \in Seq(Tokens),
           chunk \in Seq(Tokens), rest \in Seq(Tokens), t = chunk \o rest,
           chunk # <<>>, chunk # <<"newline">>, Head(chunk) # "connected"
    PROVE  /\ Parts(s, <<>>, t, e) => Parts(s, Message(chunk), rest, e)
           /\ Last(chunk) = "newline" /\ Lines(s, <<>>, t, e) => Lines(s, Message(chunk), rest, e)
<1>1. TextsOf(<<>>) = <<>> /\ LinesOf(<<>>) = <<>>
    BY DEF TextsOf, LinesOf, FlattenSeq
<1>3. /\ TextsOf(s) \in Seq(Tokens) /\ TextsOf(chunk) \in Seq(Tokens) /\ TextsOf(rest) \in Seq(Tokens)
      /\ LinesOf(s) \in Seq(Tokens) /\ LinesOf(chunk) \in Seq(Tokens) /\ LinesOf(rest) \in Seq(Tokens)
    BY PartsFit
<1>4. ASSUME Parts(s, <<>>, t, e)
      PROVE  Parts(s, Message(chunk), rest, e)
    <2>1. TextsOf(t) = TextsOf(chunk) \o TextsOf(rest)
        BY CutAnywhere
    <2>2. TextsOf(Message(chunk)) = TextsOf(chunk)
        BY MessageIsChunk
    <2>3. TextsOf(s) \o <<>> \o (TextsOf(chunk) \o TextsOf(rest))
              = TextsOf(s) \o TextsOf(chunk) \o TextsOf(rest)
        <3> DEFINE a == TextsOf(s)
                   b == TextsOf(chunk)
                   c == TextsOf(rest)
        <3>1. a \in Seq(Tokens) /\ b \in Seq(Tokens) /\ c \in Seq(Tokens)
            BY <1>3
        <3> HIDE DEF a, b, c
        <3>2. a \o <<>> = a
            BY ONLY <3>1, ConcatEmptySeq
        <3>3. (a \o b) \o c = a \o (b \o c)
            BY ONLY <3>1, Regroup
        <3> QED
            BY ONLY <3>2, <3>3 DEF a, b, c
    <2> QED
        BY <1>1, <1>4, <2>1, <2>2, <2>3 DEF Parts
<1>5. ASSUME Last(chunk) = "newline", Lines(s, <<>>, t, e)
      PROVE  Lines(s, Message(chunk), rest, e)
    <2>1. LinesOf(t) = LinesOf(chunk) \o LinesOf(rest)
        BY <1>5, CutAnywhere DEF AtStart
    <2>2. LinesOf(Message(chunk)) = LinesOf(chunk) /\ AtStart(Message(chunk))
        BY <1>5, MessageIsChunk
    <2>3. LinesOf(s) \o <<>> \o (LinesOf(chunk) \o LinesOf(rest))
              = LinesOf(s) \o LinesOf(chunk) \o LinesOf(rest)
        <3> DEFINE a == LinesOf(s)
                   b == LinesOf(chunk)
                   c == LinesOf(rest)
        <3>1. a \in Seq(Tokens) /\ b \in Seq(Tokens) /\ c \in Seq(Tokens)
            BY <1>3
        <3> HIDE DEF a, b, c
        <3>2. a \o <<>> = a
            BY ONLY <3>1, ConcatEmptySeq
        <3>3. (a \o b) \o c = a \o (b \o c)
            BY ONLY <3>1, Regroup
        <3> QED
            BY ONLY <3>2, <3>3 DEF a, b, c
    <2> QED
        BY <1>1, <1>5, <2>1, <2>2, <2>3 DEF Lines
<1> QED
    BY <1>4, <1>5

LEMMA WholeLines ==
    ASSUME NEW s \in Seq(Tokens), NEW m \in Seq(Tokens), AtStart(s), AtStart(m)
    PROVE  AtStart(s \o m)
<1>1. CASE m = <<>>
    <2>1. s \o m = s
        BY <1>1, ConcatEmptySeq
    <2> QED
        BY <2>1
<1>2. CASE m # <<>>
    <2>1. PICK u \in Seq(Tokens), x \in Tokens : m = Append(u, x)
        BY <1>2, SequenceEmptyOrAppend
    <2>2. s \o m = Append(s \o u, x) /\ s \o u \in Seq(Tokens)
        BY <2>1, AppendToConcat, ConcatProperties
    <2>3. Last(Append(s \o u, x)) = x /\ Last(Append(u, x)) = x
        BY <2>1, <2>2, FrontOfAppend
    <2> QED
        BY <1>2, <2>1, <2>2, <2>3 DEF AtStart
<1> QED
    BY <1>1, <1>2

(* The message is sent. *)
LEMMA MessageSent ==
    ASSUME NEW s, NEW m, NEW t, NEW e,
           s \in Seq(Tokens), m \in Seq(Tokens), t \in Seq(Tokens), e \in Seq(Tokens)
    PROVE  /\ Parts(s, m, t, e) => Parts(s \o m, <<>>, t, e)
           /\ Lines(s, m, t, e) => Lines(s \o m, <<>>, t, e)
<1>1. TextsOf(<<>>) = <<>> /\ LinesOf(<<>>) = <<>> /\ AtStart(<<>>)
    BY DEF TextsOf, LinesOf, FlattenSeq, AtStart
<1>3. /\ TextsOf(s) \in Seq(Tokens) /\ TextsOf(m) \in Seq(Tokens) /\ TextsOf(t) \in Seq(Tokens)
      /\ LinesOf(s) \in Seq(Tokens) /\ LinesOf(m) \in Seq(Tokens) /\ LinesOf(t) \in Seq(Tokens)
    BY PartsFit
<1>4. ASSUME Parts(s, m, t, e)
      PROVE  Parts(s \o m, <<>>, t, e)
    <2>1. TextsOf(s \o m) = TextsOf(s) \o TextsOf(m)
        BY CutAnywhere
    <2>2. (TextsOf(s) \o TextsOf(m)) \o <<>> \o TextsOf(t) = TextsOf(s) \o TextsOf(m) \o TextsOf(t)
        BY ONLY <1>3, NothingBetween
    <2> QED
        BY <1>1, <1>4, <2>1, <2>2 DEF Parts
<1>5. ASSUME Lines(s, m, t, e)
      PROVE  Lines(s \o m, <<>>, t, e)
    <2>1. LinesOf(s \o m) = LinesOf(s) \o LinesOf(m)
        BY <1>5, CutAnywhere DEF Lines
    <2>2. (LinesOf(s) \o LinesOf(m)) \o <<>> \o LinesOf(t) = LinesOf(s) \o LinesOf(m) \o LinesOf(t)
        BY ONLY <1>3, NothingBetween
    <2>3. AtStart(s \o m)
        BY <1>5, WholeLines DEF Lines
    <2> QED
        BY <1>1, <1>5, <2>1, <2>2, <2>3 DEF Lines
<1> QED
    BY <1>4, <1>5

(* Waits, for the ends of the two streams. *)
LEMMA SameEnds ==
    ASSUME NEW t \in Seq(Tokens), NEW e \in Seq(Tokens), Waits(t, e), LineStarts(t, e)
    PROVE  AtStart(t) <=> AtStart(e)
<1>1. /\ Len(t) \in Nat /\ Len(e) \in Nat
      /\ (t = <<>> <=> Len(t) = 0) /\ (e = <<>> <=> Len(e) = 0)
    BY EmptySeq, LenProperties
<1>2. CASE Len(t) = 0
    <2>1. AtStart(t)
        BY <1>1, <1>2 DEF AtStart
    <2>2. AtStart(e)
        BY <1>1, <1>2 DEF AtStart, LineStarts, Last
    <2> QED
        BY <2>1, <2>2
<1>3. CASE Len(t) # 0
    <2>1. Len(e) # 0 /\ t[Len(t)] = e[Len(e) - Len(t) + Len(t)]
        BY <1>1, <1>3 DEF Waits
    <2>2. Len(e) - Len(t) + Len(t) = Len(e)
        BY <1>1
    <2>3. t # <<>> /\ e # <<>> /\ Last(t) = Last(e)
        BY <1>1, <1>3, <2>1, <2>2 DEF Last
    <2> QED
        BY <2>3 DEF AtStart
<1> QED
    BY <1>2, <1>3

LEMMA KeptKept == TypeInv /\ Waiting /\ Kept /\ [Next]_vars => Kept'
<1> SUFFICES ASSUME TypeInv, Waiting, Kept, [Next]_vars PROVE Kept'
    OBVIOUS
<1> USE DEF vars, inputVars, shellVars, socketVars, childVars, connVars
<1>1. /\ typed \in Seq(Tokens) /\ entered \in Seq(Tokens) /\ sent \in Seq(Tokens) /\ msg \in Seq(Tokens)
      /\ pc \notin {"send", "dead"} => msg = <<>>
    BY DEF TypeInv, TypeOK, Unsent
<1>2. CASE Type
    <2>1. PICK x \in Tokens : typed' = Append(typed, x) /\ entered' = Append(entered, x)
        BY <1>2 DEF Type
    <2>2. NoCommand' => NoCommand
        <3>1. /\ Len(entered') = Len(entered) + 1 /\ Len(entered) \in Nat
              /\ \A i \in 1 .. Len(entered) : entered'[i] = entered[i]
            BY <1>1, <2>1, AppendProperties, LenProperties
        <3> QED
            BY <3>1 DEF NoCommand
    <2>3. UNCHANGED <<hitches, pc, conn, sent, msg>>
        BY <1>2 DEF Type
    <2>4. Parts(sent, msg, typed, entered) => Parts(sent, msg, typed', entered')
        BY <1>1, <2>1, OneMoreTyped
    <2>5. pc \in Loop /\ "robbed" \notin hitches /\ "split" \notin hitches
              /\ Lines(sent, msg, typed, entered) => Lines(sent, msg, typed', entered')
        <3>1. SUFFICES ASSUME pc \in Loop, "robbed" \notin hitches, "split" \notin hitches,
                              Lines(sent, msg, typed, entered)
                       PROVE  Lines(sent, msg, typed', entered')
            OBVIOUS
        <3>2. Waits(typed, entered) /\ LineStarts(typed, entered)
            BY <3>1 DEF Waiting
        <3>3. AtStart(typed) <=> AtStart(entered)
            BY <1>1, <3>2, SameEnds
        <3> QED
            BY <1>1, <2>1, <3>1, <3>3, OneMoreTyped
    <2>6. CASE "robbed" \in hitches
        BY <2>3, <2>6 DEF Kept
    <2>7. CASE "robbed" \notin hitches /\ pc \in Before
        <3>1. pc' \notin Loop
            BY <2>3, <2>7 DEF Before, Loop
        <3>2. sent' = <<>> /\ typed' = entered'
            BY <2>1, <2>3, <2>7 DEF Kept
        <3> QED
            BY <3>1, <3>2 DEF Kept
    <2>8. CASE "robbed" \notin hitches /\ pc \notin Before
        <3>1. pc \in Loop /\ conn = "up" /\ NoCommand /\ "clipped" \notin hitches =>
                  /\ Parts(sent, msg, typed, entered)
                  /\ "split" \notin hitches => Lines(sent, msg, typed, entered)
            BY <2>8 DEF Kept
        <3>2. pc \in Loop /\ conn = "up" /\ NoCommand' /\ "clipped" \notin hitches =>
                  /\ Parts(sent, msg, typed', entered')
                  /\ "split" \notin hitches => Lines(sent, msg, typed', entered')
            BY ONLY <2>2, <2>4, <2>5, <2>8, <3>1
        <3> QED
            BY <2>3, <2>8, <3>2 DEF Kept
    <2> QED
        BY <2>6, <2>7, <2>8
<1>3. CASE Steal
    BY <1>3 DEF Steal, Kept
<1>4. CASE MainRead
    BY <1>4 DEF MainRead, Kept, Loop, Before
<1>5. CASE StartClient
    BY <1>5 DEF StartClient, Kept, Loop
<1>6. CASE Connect \/ ForkReceiver
    BY <1>6 DEF Connect, ForkReceiver, Kept, Loop, Before
<1>7. CASE SetNonblocking
    <2>1. /\ pc = "flags" /\ pc' = "select"
          /\ UNCHANGED <<hitches, sent, msg, typed, entered>>
        BY <1>7 DEF SetNonblocking
    <2>2. "robbed" \notin hitches => sent = <<>> /\ typed = entered /\ msg = <<>>
        BY <1>1, <2>1 DEF Kept, Before
    <2>3. Parts(<<>>, <<>>, entered, entered) /\ Lines(<<>>, <<>>, entered, entered)
        BY <1>1, NothingSent
    <2>4. "robbed" \notin hitches =>
              Parts(sent, msg, typed, entered) /\ Lines(sent, msg, typed, entered)
        BY <2>2, <2>3
    <2>5. pc' \notin Before
        BY <2>1 DEF Before
    <2> QED
        BY <2>1, <2>4, <2>5 DEF Kept
<1>8. CASE ReadInput
    <2>1. CASE pc' = "kill"
        BY <2>1 DEF Kept, Loop, Before
    <2>2. ASSUME NEW n \in 1 .. MaxChunk, n <= Len(typed),
                 typed' = SubSeq(typed, n + 1, Len(typed)),
                 hitches' = hitches \cup (IF typed[n] = "newline" THEN {} ELSE {"split"}),
                 SubSeq(typed, 1, n) # <<"newline">>,
                 msg' = Message(SubSeq(typed, 1, n)), pc' = "send"
          PROVE  Kept'
        <3> DEFINE chunk == SubSeq(typed, 1, n)
                   rest == SubSeq(typed, n + 1, Len(typed))
        <3>1. n \in 1 .. Len(typed) /\ 1 \in 1 .. Len(typed)
            BY <1>1, <2>2, BoundAssumption, LenProperties
        <3>2. /\ chunk \in Seq(Tokens) /\ rest \in Seq(Tokens)
              /\ chunk \o rest = typed /\ Head(chunk) = typed[1]
              /\ Len(chunk) = n /\ chunk[n] = typed[n]
            BY <1>1, <3>1, Chunks
        <3>3. pc = "read" /\ UNCHANGED <<entered, conn, sent>> /\ msg = <<>>
            BY <1>1, <1>8 DEF ReadInput
        <3>4. chunk # <<>> /\ Last(chunk) = typed[n]
            BY <3>1, <3>2, EmptySeq DEF Last
        <3>5. ASSUME "robbed" \notin hitches, NoCommand
              PROVE  Head(chunk) # "connected"
            <4>1. Waits(typed, entered)
                BY <3>3, <3>5 DEF Waiting, Loop
            <4>2. typed[1] = entered[Len(entered) - Len(typed) + 1]
                BY <3>1, <4>1 DEF Waits
            <4>3. Len(entered) - Len(typed) + 1 \in 1 .. Len(entered)
                BY <1>1, <3>1, <4>1, LenProperties DEF Waits
            <4> QED
                BY <3>2, <3>5, <4>2, <4>3 DEF NoCommand
        <3>6. ASSUME "robbed" \notin hitches, NoCommand
              PROVE  /\ Parts(sent, msg, typed, entered) => Parts(sent, msg', rest, entered)
                     /\ typed[n] = "newline" /\ Lines(sent, msg, typed, entered)
                            => Lines(sent, msg', rest, entered)
            <4>1. chunk # <<"newline">> /\ msg' = Message(chunk)
                BY <2>2
            <4> HIDE DEF chunk, rest
            <4>2. Head(chunk) # "connected"
                BY <3>5, <3>6
            <4>3. /\ Parts(sent, <<>>, typed, entered) => Parts(sent, Message(chunk), rest, entered)
                  /\ Last(chunk) = "newline" /\ Lines(sent, <<>>, typed, entered)
                         => Lines(sent, Message(chunk), rest, entered)
                BY <1>1, <3>2, <3>4, <4>1, <4>2, ChunkRead
            <4> QED
                BY ONLY <3>3, <3>4, <4>1, <4>3
        <3>7. NoCommand' <=> NoCommand
            BY <3>3 DEF NoCommand
        <3>8. typed' = rest
            BY <2>2
        <3>9. /\ "robbed" \notin hitches' => "robbed" \notin hitches
              /\ "clipped" \notin hitches' => "clipped" \notin hitches
              /\ "split" \notin hitches' => "split" \notin hitches /\ typed[n] = "newline"
            BY <2>2
        <3>10. "robbed" \notin hitches =>
                   (pc \in Loop /\ conn = "up" /\ NoCommand /\ "clipped" \notin hitches =>
                        /\ Parts(sent, msg, typed, entered)
                        /\ "split" \notin hitches => Lines(sent, msg, typed, entered))
            BY DEF Kept
        <3>11. pc \in Loop /\ pc' \notin Before
            BY <2>2, <3>3 DEF Loop, Before
        <3> HIDE DEF chunk, rest
        <3>12. "robbed" \notin hitches' /\ conn = "up" /\ NoCommand /\ "clipped" \notin hitches' =>
                   /\ Parts(sent, msg', typed', entered)
                   /\ "split" \notin hitches' => Lines(sent, msg', typed', entered)
            BY ONLY <3>6, <3>8, <3>9, <3>10, <3>11
        <3> QED
            BY <3>3, <3>7, <3>11, <3>12 DEF Kept
    <2> QED
        BY <1>8, <2>1, <2>2 DEF ReadInput, Leave
<1>9. CASE SendDelivered
    <2>1. CASE conn = "up" /\ sent' = sent \o msg /\ UNCHANGED conn
        <3>1. /\ Parts(sent, msg, typed, entered) => Parts(sent \o msg, <<>>, typed, entered)
              /\ Lines(sent, msg, typed, entered) => Lines(sent \o msg, <<>>, typed, entered)
            BY <1>1, MessageSent
        <3>2. /\ msg' = <<>> /\ pc = "send" /\ pc' = "select"
              /\ UNCHANGED <<hitches, typed, entered>>
            BY <1>9 DEF SendDelivered
        <3>3. NoCommand' <=> NoCommand
            BY <3>2 DEF NoCommand
        <3> QED
            BY <2>1, <3>1, <3>2, <3>3 DEF Kept, Loop, Before
    <2>2. CASE conn' \in {"fin", "broken"}
        BY <1>9, <2>2 DEF SendDelivered, Kept, Before
    <2> QED
        BY <1>9, <2>1, <2>2 DEF SendDelivered
<1>10. CASE SendCut
    BY <1>10 DEF SendCut, Kept, Before
<1>11. CASE SendFails
    BY <1>11 DEF SendFails, Leave, Kept, Loop, Before
<1>12. CASE SendKilled \/ KillReceiver \/ WaitReceiver \/ CloseSocket \/ RestoreInput
    BY <1>12 DEF SendKilled, KillReceiver, WaitReceiver, CloseSocket, RestoreInput, Kept, Loop, Before
<1>13. ASSUME UNCHANGED <<msg, typed, entered>>, hitches \subseteq hitches',
              pc' = pc \/ (pc \in Loop /\ pc' \notin Before)
                       \/ (pc \notin Loop /\ pc' \notin Loop \cup Before),
              UNCHANGED sent \/ (sent' = <<>> /\ conn' # "up"),
              conn' = "up" => conn = "up"
       PROVE  Kept'
    <2>1. NoCommand' <=> NoCommand
        BY <1>13 DEF NoCommand
    <2> QED
        BY <1>13, <2>1 DEF Kept, Loop, Before
<1>14. CASE EndInput \/ SelectReadable
    BY <1>13, <1>14 DEF EndInput, SelectReadable, Loop, Before
<1>15. CASE CheckErrno
    BY <1>13, <1>15 DEF CheckErrno, Leave, Loop, Before
<1>16. CASE ReceiverEnds \/ ReceiverTerminated \/ JobEnds
    BY <1>13, <1>16 DEF ReceiverEnds, ReceiverTerminated, JobEnds
<1>17. CASE Handler
    BY <1>13, <1>17 DEF Handler, Loop, Before
<1>18. CASE ReceiverUnblocks \/ ServerStalls \/ ServerCloses
    BY <1>13, <1>18 DEF ReceiverUnblocks, ServerStalls, ServerCloses
<1>19. CASE UNCHANGED vars
    BY <1>13, <1>19
<1> QED
    BY <1>2, <1>3, <1>4, <1>5, <1>6, <1>7, <1>8, <1>9, <1>10, <1>11, <1>12, <1>14, <1>15,
       <1>16, <1>17, <1>18, <1>19 DEF Next, ShellStep, Over

(* The parts put together. *)
LEMMA PartsTogether ==
    ASSUME NEW s, NEW m, NEW t, NEW e,
           s \in Seq(Tokens), m \in Seq(Tokens), t \in Seq(Tokens), e \in Seq(Tokens)
    PROVE  /\ Parts(s, m, t, e) => TextsOf((s \o m) \o t) = TextsOf(e)
           /\ Lines(s, m, t, e) => LinesOf((s \o m) \o t) = LinesOf(e)
<1>1. s \o m \in Seq(Tokens)
    BY ConcatProperties
<1>2. TextsOf((s \o m) \o t) = (TextsOf(s) \o TextsOf(m)) \o TextsOf(t)
    <2>1. TextsOf(s \o m) = TextsOf(s) \o TextsOf(m)
        BY CutAnywhere
    <2>2. TextsOf((s \o m) \o t) = TextsOf(s \o m) \o TextsOf(t)
        BY <1>1, CutAnywhere
    <2> QED
        BY ONLY <2>1, <2>2
<1>3. ASSUME Lines(s, m, t, e)
      PROVE  LinesOf((s \o m) \o t) = (LinesOf(s) \o LinesOf(m)) \o LinesOf(t)
    <2>1. AtStart(s) /\ AtStart(m)
        BY <1>3 DEF Lines
    <2>2. AtStart(s \o m)
        BY <2>1, WholeLines
    <2>3. LinesOf(s \o m) = LinesOf(s) \o LinesOf(m)
        BY <2>1, CutAnywhere
    <2>4. LinesOf((s \o m) \o t) = LinesOf(s \o m) \o LinesOf(t)
        BY <1>1, <2>2, CutAnywhere
    <2> QED
        BY ONLY <2>3, <2>4
<1> QED
    BY <1>2, <1>3 DEF Parts, Lines

(* With the server there and reading, no other reader and no \connected,   *)
(* the server gets the lines that were typed, in this order, however reads *)
(* cut them up and whatever interrupts the loop; if a read ends inside a   *)
(* line, it gets their texts (network.c:1082-1152).                        *)
THEOREM NoLineIsLost == Spec => []NoLineLost
<1>1. Init => Kept
    BY DEF Init, Kept, Loop, Before
<1>2. Why /\ Kept => NoLineLost
    <2> SUFFICES ASSUME Why, Kept, pc \in Loop, conn = "up",
                        {"clipped", "robbed"} \cap hitches = {},
                        \A i \in DOMAIN entered : entered[i] # "connected"
                 PROVE  IF "split" \in hitches
                        THEN TextsOf((sent \o msg) \o typed) = TextsOf(entered)
                        ELSE LinesOf((sent \o msg) \o typed) = LinesOf(entered)
        BY DEF NoLineLost
    <2>1. /\ typed \in Seq(Tokens) /\ entered \in Seq(Tokens) /\ sent \in Seq(Tokens)
          /\ msg \in Seq(Tokens) /\ DOMAIN entered = 1 .. Len(entered)
        BY LenProperties DEF Why, TypeInv, TypeOK
    <2>2. /\ Parts(sent, msg, typed, entered)
          /\ "split" \notin hitches => Lines(sent, msg, typed, entered)
        BY <2>1 DEF Kept, NoCommand
    <2> QED
        BY <2>1, <2>2, PartsTogether
<1>3. Spec => [](Why /\ Kept)
    <2>1. Why /\ Kept /\ [Next]_vars => Kept'
        BY KeptKept DEF Why
    <2> QED
        BY <1>1, <2>1, WhyHolds, PTL DEF Spec
<1> QED
    BY <1>2, <1>3, PTL

=============================================================================
