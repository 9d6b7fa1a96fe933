-------------------------- MODULE ChatServerProofs --------------------------
(***************************************************************************)
(* Theorems about the chat server, for any set of connections, any number  *)
(* of slots and any texts: its state is typed, its count is right, its     *)
(* messages carry the right names, everybody sees the same conversation,   *)
(* no text is lost or shown twice and nobody is dropped too early.         *)
(***************************************************************************)
EXTENDS ChatServer, ListLemmas, FiniteSetTheorems

-----------------------------------------------------------------------------
(* The inductive invariant.                                                *)

(* A connection in a slot was admitted under the number beside it. *)
SlotsFit ==
    \A i \in Occupied :
        id[client_sockets[i]] # 0 /\ client_ids[i] = id[client_sockets[i]]

(* A connection waits once for accept, after its client opened it and      *)
(* before it is admitted.                                                  *)
BacklogFit ==
    /\ IsInjective(backlog)
    /\ \A c \in ToSet(backlog) : id[c] = 0 /\ client[c] # "away"
    /\ \A c \in Conns : client[c] = "away" => id[c] = 0

(* Numbers are given out in order, and messages only come from admitted    *)
(* connections.                                                            *)
NumbersFit ==
    /\ \A c \in Conns : id[c] <= client_count
    /\ \A k \in DOMAIN log : log[k].id # 0

(* accept is called when a connection waits. *)
AcceptFits == pc = "accept" => backlog # <<>>

Fits == CountHonest /\ NamesFit /\ SlotsFit /\ BacklogFit /\ NumbersFit /\ AcceptFits

Inv == TypeOK /\ Fits

-----------------------------------------------------------------------------

(* Sets of slots are finite. *)
LEMMA SlotsFinite ==
    ASSUME NEW S \in SUBSET Slots
    PROVE  IsFiniteSet(S) /\ Cardinality(S) \in Nat
<1>1. IsFiniteSet(Slots)
    BY MaxClientsAssumption, FS_Interval DEF Slots
<1> QED
    BY <1>1, FS_Subset, FS_CardinalityType

LEMMA InitInv == Init => Inv
<1> SUFFICES ASSUME Init
             PROVE  Inv
    OBVIOUS
<1>1. unread \in [Conns -> BOOLEAN]
    BY Zenon DEF Init
<1>2. /\ scan \in 1..(MaxClients + 1)
      /\ cast \in 1..(MaxClients + 1)
    BY MaxClientsAssumption DEF Init
<1>3. TypeOK
    <2>1. /\ client \in [Conns -> {"away", "open", "half", "done", "gone"}]
          /\ wire \in [Conns -> WireStates]
          /\ inbox \in [Conns -> Seq(Tokens)]
          /\ client_sockets \in [Slots -> Conns \cup {NoConn}]
          /\ client_ids \in [Slots -> Nat]
          /\ sent \in [Conns -> Seq(Texts)]
          /\ id \in [Conns -> Nat]
          /\ joined \in [Conns -> Nat]
          /\ seen \in [Conns -> Seq(Nat)]
          /\ cut \in [Conns -> SUBSET Nat]
        BY DEF Init, WireStates
    <2>2. /\ backlog \in Seq(Conns)
          /\ log \in Seq(Message)
          /\ pc \in {"select", "accept", "scan", "cast", "killed"}
          /\ client_count \in Nat /\ connected_clients \in Nat
          /\ ready \in SUBSET (Conns \cup {Listener})
          /\ dropped \in SUBSET Conns
        BY DEF Init
    <2> QED
        BY ONLY <1>1, <1>2, <2>1, <2>2 DEF TypeOK
<1>4. Occupied = {}
    BY DEF Init, Occupied
<1>5. CountHonest
    BY <1>4, FS_EmptySet DEF Init, CountHonest
<1>6. NamesFit /\ NumbersFit
    BY DEF Init, NamesFit, NumbersFit, Admitted
<1>7. SlotsFit /\ AcceptFits
    BY <1>4 DEF Init, SlotsFit, AcceptFits
<1>8. BacklogFit
    BY DEF Init, BacklogFit, IsInjective, ToSet
<1> QED
    BY <1>3, <1>5, <1>6, <1>7, <1>8 DEF Inv, Fits

(* A step that leaves slots, numbers, messages and backlog alone.          *)
LEMMA FitsKept ==
    ASSUME Fits,
           UNCHANGED <<slotVars, backlog, log, id>>,
           \A c \in Conns : client'[c] = "away" => client[c] = "away",
           \A c \in ToSet(backlog) : client[c] # "away" => client'[c] # "away",
           pc' = "accept" => pc = "accept"
    PROVE  Fits'
<1>1. Occupied' = Occupied /\ Admitted' = Admitted
    BY DEF Occupied, Admitted, slotVars
<1>2. CountHonest' /\ NamesFit' /\ SlotsFit'
    BY <1>1 DEF Fits, CountHonest, NamesFit, SlotsFit, slotVars
<1>3. BacklogFit'
    BY DEF Fits, BacklogFit
<1>4. NumbersFit' /\ AcceptFits'
    BY DEF Fits, NumbersFit, AcceptFits, slotVars
<1> QED
    BY <1>2, <1>3, <1>4 DEF Fits

(* Closing the connections of some slots empties these slots and no other, *)
(* and counts right.                                                       *)
LEMMA CloseSlotsTypes ==
    ASSUME TypeOK, CountHonest, NEW S \in SUBSET Occupied, CloseSlots(S)
    PROVE  /\ client_sockets' \in [Slots -> Conns \cup {NoConn}]
           /\ client_ids' \in [Slots -> Nat]
           /\ client_count' \in Nat
           /\ connected_clients' \in Nat
           /\ dropped' \in SUBSET Conns
           /\ Occupied' = Occupied \ S
           /\ \A i \in Occupied' : client_sockets'[i] = client_sockets[i]
           /\ CountHonest'
<1>1. S \subseteq Slots /\ Occupied \subseteq Slots
    BY DEF Occupied
<1>2. \A i \in S : client_sockets[i] \in Conns
    BY DEF TypeOK, Occupied
<1>3. /\ client_sockets' \in [Slots -> Conns \cup {NoConn}]
      /\ client_ids' \in [Slots -> Nat]
      /\ client_count' \in Nat
      /\ dropped' \in SUBSET Conns
    BY <1>1, <1>2 DEF TypeOK, CloseSlots
<1>4. /\ Occupied' = Occupied \ S
      /\ \A i \in Occupied' : client_sockets'[i] = client_sockets[i]
    BY <1>1 DEF CloseSlots, Occupied
<1>5. /\ IsFiniteSet(Occupied) /\ IsFiniteSet(S)
      /\ Cardinality(Occupied) \in Nat /\ Cardinality(S) \in Nat
    BY <1>1, SlotsFinite
<1>6. /\ Cardinality(Occupied \ S) \in Nat
      /\ Cardinality(Occupied \ S) = Cardinality(Occupied) - Cardinality(S)
    <2>1. Occupied \cap S = S
        OBVIOUS
    <2>2. Cardinality(Occupied \ S) = Cardinality(Occupied) - Cardinality(Occupied \cap S)
        BY <1>5, FS_Difference
    <2>3. Cardinality(Occupied \ S) \in Nat
        BY <1>1, SlotsFinite
    <2> QED
        BY <2>1, <2>2, <2>3
<1>7. connected_clients' = Cardinality(Occupied')
    BY <1>4, <1>6 DEF CloseSlots, CountHonest
<1>8. CountHonest'
    BY <1>4, <1>7 DEF CountHonest
<1> QED
    BY <1>3, <1>4, <1>6, <1>7, <1>8

LEMMA CloseSlotsFit ==
    ASSUME Inv, NEW S \in SUBSET Occupied, CloseSlots(S),
           UNCHANGED <<client, backlog, log, id>>, AcceptFits'
    PROVE  Fits'
<1> USE DEF Inv, Fits
<1>1. /\ Occupied' = Occupied \ S
      /\ \A i \in Occupied' : client_sockets'[i] = client_sockets[i]
      /\ CountHonest'
    BY CloseSlotsTypes
<1>2. SlotsFit'
    BY <1>1 DEF CloseSlots, SlotsFit
<1>3. NamesFit' /\ NumbersFit' /\ BacklogFit'
    BY DEF CloseSlots, NamesFit, NumbersFit, BacklogFit, Admitted
<1> QED
    BY <1>1, <1>2, <1>3

-----------------------------------------------------------------------------
(* The steps of a client.                                                  *)

LEMMA ClientStep ==
    ASSUME Inv, NEW c \in Conns, Client(c)
    PROVE  Inv'
<1> USE DEF Inv
<1>1. CASE Connect(c)
    <2>1. client[c] = "away" /\ id[c] = 0 /\ c \notin ToSet(backlog)
        BY <1>1 DEF Connect, Fits, BacklogFit
    <2>2. TypeOK'
        BY <1>1 DEF Connect, TypeOK, WireStates, slotVars, loopVars, histVars
    <2>3. /\ ToSet(backlog') = ToSet(backlog) \cup {c}
          /\ IsInjective(backlog')
          /\ backlog' # <<>>
        <3>1. backlog \in Seq(Conns) /\ IsInjective(backlog) /\ backlog' = Append(backlog, c)
            BY <1>1 DEF TypeOK, Fits, BacklogFit, Connect
        <3>2. Append(backlog, c) # <<>>
            BY <3>1
        <3> QED
            BY <2>1, <3>1, <3>2, AppendedProperties
    <2>4. /\ client' = [client EXCEPT ![c] = "open"] /\ id' = id
          /\ UNCHANGED <<slotVars, log, pc>>
        BY <1>1 DEF Connect, histVars, loopVars
    <2>5. \A d \in Conns : client'[d] = IF d = c THEN "open" ELSE client[d]
        BY <2>4 DEF TypeOK
    <2>6. ToSet(backlog) \subseteq Conns
        BY DEF TypeOK, ToSet
    <2>7. BacklogFit'
        BY <2>1, <2>3, <2>4, <2>5, <2>6 DEF BacklogFit, Fits
    <2>8. Occupied' = Occupied /\ Admitted' = Admitted
        BY <2>4 DEF Occupied, Admitted, slotVars
    <2>9. CountHonest' /\ NamesFit' /\ SlotsFit'
        BY <2>4, <2>8 DEF Fits, CountHonest, NamesFit, SlotsFit, slotVars
    <2>10. NumbersFit' /\ AcceptFits'
        BY <2>3, <2>4 DEF Fits, NumbersFit, AcceptFits, slotVars
    <2> QED
        BY <2>2, <2>7, <2>9, <2>10 DEF Fits
<1>2. CASE Refuse(c)
    <2>1. TypeOK'
        BY <1>2 DEF Refuse, TypeOK, WireStates, slotVars, loopVars, histVars
    <2>2. Fits'
        BY <1>2, FitsKept DEF Refuse, slotVars, loopVars, histVars
    <2> QED
        BY <2>1, <2>2
<1>3. CASE ClientLine(c)
    <2>1. PICK t \in Texts : /\ Write(c, <<t, Newline>>)
                              /\ sent' = [sent EXCEPT ![c] = Append(@, t)]
        BY <1>3 DEF ClientLine
    <2>2. client' = client
        BY <1>3 DEF ClientLine
    <2>3. <<t, Newline>> \in Seq(Tokens)
        BY DEF Tokens
    <2>a. inbox' \in [Conns -> Seq(Tokens)] /\ sent' \in [Conns -> Seq(Texts)]
        BY <2>1, <2>3 DEF Write, TypeOK
    <2>4. TypeOK'
        BY <2>1, <2>2, <2>a DEF Write, TypeOK, slotVars, loopVars
    <2>5. Fits'
        BY <2>1, <2>2, FitsKept DEF Write, slotVars, loopVars
    <2> QED
        BY <2>4, <2>5
<1>4. CASE SendText(c)
    <2>1. PICK t \in Texts : /\ Write(c, <<t>>)
                              /\ sent' = [sent EXCEPT ![c] = Append(@, t)]
        BY <1>4 DEF SendText
    <2>2. client' = [client EXCEPT ![c] = "half"]
        BY <1>4 DEF SendText
    <2>3. <<t>> \in Seq(Tokens)
        BY DEF Tokens
    <2>a. inbox' \in [Conns -> Seq(Tokens)] /\ sent' \in [Conns -> Seq(Texts)]
        BY <2>1, <2>3 DEF Write, TypeOK
    <2>4. TypeOK'
        BY <2>1, <2>2, <2>a DEF Write, TypeOK, slotVars, loopVars
    <2>5. \A d \in Conns : client'[d] = client[d] \/ client'[d] = "half"
        BY <2>2 DEF TypeOK
    <2>6. ToSet(backlog) \subseteq Conns
        BY DEF TypeOK, ToSet
    <2>7. Fits'
        BY <2>1, <2>5, <2>6, FitsKept DEF Write, slotVars, loopVars
    <2> QED
        BY <2>4, <2>7
<1>5. CASE SendNewline(c)
    <2>1. /\ Write(c, <<Newline>>)
          /\ client' = [client EXCEPT ![c] = "done"] /\ sent' = sent
        BY <1>5 DEF SendNewline
    <2>2. <<Newline>> \in Seq(Tokens)
        BY DEF Tokens
    <2>a. /\ inbox' \in [Conns -> Seq(Tokens)]
          /\ client' \in [Conns -> {"away", "open", "half", "done", "gone"}]
        BY <2>1, <2>2 DEF Write, TypeOK
    <2>3. TypeOK'
        BY <2>1, <2>a DEF Write, TypeOK, slotVars, loopVars
    <2>4. \A d \in Conns : client'[d] = client[d] \/ client'[d] = "done"
        BY <2>1 DEF TypeOK
    <2>5. ToSet(backlog) \subseteq Conns
        BY DEF TypeOK, ToSet
    <2>6. Fits'
        BY <2>1, <2>4, <2>5, FitsKept DEF Write, slotVars, loopVars
    <2> QED
        BY <2>3, <2>6
<1>6. CASE ClientRead(c)
    <2>1. TypeOK'
        BY <1>6 DEF ClientRead, TypeOK, slotVars, loopVars, histVars
    <2>2. Fits'
        BY <1>6, FitsKept DEF ClientRead, slotVars, loopVars, histVars
    <2> QED
        BY <2>1, <2>2
<1>7. CASE ClientClose(c)
    <2>1. TypeOK'
        BY <1>7 DEF ClientClose, TypeOK, WireStates, slotVars, loopVars, histVars
    <2>2. \A d \in Conns : client'[d] = client[d] \/ client'[d] = "gone"
        BY <1>7 DEF ClientClose, TypeOK
    <2>3. ToSet(backlog) \subseteq Conns
        BY DEF TypeOK, ToSet
    <2>4. Fits'
        BY <1>7, <2>2, <2>3, FitsKept DEF ClientClose, slotVars, loopVars, histVars
    <2> QED
        BY <2>1, <2>4
<1> QED
    BY <1>1, <1>2, <1>3, <1>4, <1>5, <1>6, <1>7 DEF Client

-----------------------------------------------------------------------------
(* The steps of the server.                                                *)

LEMMA SelectStep ==
    ASSUME Inv, Select
    PROVE  Inv'
<1> USE DEF Inv
<1>1. PICK broken \in {{}, {i \in Occupied : Failed(client_sockets[i])}} :
          /\ CloseSlots(broken)
          /\ ready' = {c \in {client_sockets[i] : i \in Occupied \ broken} : Readable(c)}
                        \cup (IF backlog # <<>> THEN {Listener} ELSE {})
    BY DEF Select
<1>2. broken \in SUBSET Occupied
    OBVIOUS
<1>3. /\ pc = "select"
      /\ pc' = (IF ready' = {} THEN "select" ELSE IF Listener \in ready' THEN "accept" ELSE "scan")
      /\ UNCHANGED <<netVars, scan, cast, log, sent, id, joined, seen, cut>>
    BY DEF Select
<1>4. {client_sockets[i] : i \in Occupied} \subseteq Conns
    BY DEF TypeOK, Occupied
<1>5. ready' \in SUBSET (Conns \cup {Listener})
    BY <1>1, <1>4
<1>6. AcceptFits'
    <2>1. Listener \in ready' => backlog # <<>>
        BY <1>1, <1>4, ConnsAssumption
    <2> QED
        BY <1>3, <2>1 DEF AcceptFits, netVars
<1>7. Fits'
    BY <1>1, <1>2, <1>3, <1>6, CloseSlotsFit DEF netVars
<1>8. TypeOK'
    <2>1. CountHonest
        BY DEF Fits
    <2>2. /\ client_sockets' \in [Slots -> Conns \cup {NoConn}]
          /\ client_ids' \in [Slots -> Nat]
          /\ client_count' \in Nat
          /\ connected_clients' \in Nat
          /\ dropped' \in SUBSET Conns
        BY <1>1, <1>2, <2>1, CloseSlotsTypes
    <2> QED
        BY <1>3, <1>5, <2>2 DEF TypeOK, netVars
<1> QED
    BY <1>7, <1>8

(* The number that handle_new_connection gives is new, and so is the       *)
(* connection in the slots and in the messages.                            *)
LEMMA AdmitStep ==
    ASSUME Inv, Accept, NEW slot \in Slots \ Occupied, Admit(Head(backlog), slot)
    PROVE  Inv'
<1> DEFINE c == Head(backlog)
<1> USE DEF Inv
<1>1. /\ backlog \in Seq(Conns) /\ backlog # <<>> /\ IsInjective(backlog)
    BY DEF Accept, TypeOK, Fits, AcceptFits, BacklogFit
<1>2. /\ c \in Conns /\ c \in ToSet(backlog)
      /\ Tail(backlog) \in Seq(Conns)
      /\ ToSet(Tail(backlog)) = ToSet(backlog) \ {c}
      /\ IsInjective(Tail(backlog))
    BY <1>1, PopProperties
<1>3. id[c] = 0 /\ client[c] # "away"
    BY <1>2 DEF Fits, BacklogFit
<1>4. /\ client_count' = client_count + 1
      /\ client_sockets' = [client_sockets EXCEPT ![slot] = c]
      /\ client_ids' = [client_ids EXCEPT ![slot] = client_count + 1]
      /\ connected_clients' = connected_clients + 1
      /\ id' = [id EXCEPT ![c] = client_count + 1]
      /\ joined' = [joined EXCEPT ![c] = Len(log)]
      /\ dropped' = dropped
    BY DEF Admit
<1>5. /\ backlog' = Tail(backlog) /\ pc' = "scan"
      /\ UNCHANGED <<client, inbox, ready, scan, cast, log, sent, seen, cut>>
    BY DEF Accept
<1>6. /\ \A i \in Slots : client_sockets'[i] = IF i = slot THEN c ELSE client_sockets[i]
      /\ \A i \in Slots : client_ids'[i] = IF i = slot THEN client_count + 1 ELSE client_ids[i]
      /\ \A d \in Conns : id'[d] = IF d = c THEN client_count + 1 ELSE id[d]
      /\ client_count \in Nat /\ connected_clients \in Nat
    BY <1>2, <1>4 DEF TypeOK
<1>7. Occupied' = Occupied \cup {slot}
    BY <1>2, <1>6, ConnsAssumption DEF Occupied
<1>8. \A i \in Occupied : client_sockets[i] \in Conns \ {c} /\ i \in Slots
    BY <1>3 DEF Fits, SlotsFit, TypeOK, Occupied
<1>9. TypeOK'
    <2>1. wire' \in [Conns -> WireStates]
        BY <1>2 DEF Admit, Delivered, Vanished, TypeOK, WireStates
    <2>2. unread' \in [Conns -> BOOLEAN]
        BY <1>2 DEF Admit, Delivered, Vanished, TypeOK
    <2>3. /\ client_sockets' \in [Slots -> Conns \cup {NoConn}]
          /\ client_ids' \in [Slots -> Nat]
          /\ client_count' \in Nat /\ connected_clients' \in Nat
          /\ id' \in [Conns -> Nat]
        <3>1. /\ client_sockets \in [Slots -> Conns \cup {NoConn}]
              /\ client_ids \in [Slots -> Nat]
              /\ id \in [Conns -> Nat]
            BY DEF TypeOK
        <3>2. client_count + 1 \in Nat /\ connected_clients + 1 \in Nat
            BY <1>6
        <3> QED
            BY <1>2, <1>4, <3>1, <3>2
    <2>4. joined' \in [Conns -> Nat]
        <3>1. Len(log) \in Nat /\ joined \in [Conns -> Nat]
            BY DEF TypeOK
        <3> QED
            BY <1>2, <1>4, <3>1
    <2> QED
        BY <1>2, <1>4, <1>5, <2>1, <2>2, <2>3, <2>4 DEF TypeOK
<1>10. CountHonest'
    <2>1. IsFiniteSet(Occupied)
        BY SlotsFinite DEF Occupied
    <2>2. Cardinality(Occupied') = Cardinality(Occupied) + 1
        BY <1>7, <2>1, FS_AddElement
    <2>3. connected_clients' = Cardinality(Occupied')
        BY <1>4, <2>2 DEF Fits, CountHonest
    <2>4. \A i, j \in Occupied' : client_sockets'[i] = client_sockets'[j] => i = j
        BY <1>6, <1>7, <1>8 DEF Fits, CountHonest
    <2> QED
        BY <2>3, <2>4 DEF CountHonest
<1>11. NamesFit'
    <2>1. \A k \in DOMAIN log : log[k].conn \in Conns \ {c}
        <3>1. \A k \in DOMAIN log : log[k] \in Message
            BY DEF TypeOK
        <3>2. \A k \in DOMAIN log : log[k].conn \in Conns
            BY <3>1 DEF Message
        <3>3. \A k \in DOMAIN log : id[log[k].conn] # 0
            BY DEF Fits, NamesFit, NumbersFit
        <3> QED
            BY <1>3, <3>2, <3>3
    <2>2. \A k \in DOMAIN log' : log'[k].id = id'[log'[k].conn]
        BY <1>5, <1>6, <2>1 DEF Fits, NamesFit
    <2>3. \A d \in Conns : id[d] \in Nat /\ id[d] <= client_count
        BY DEF Fits, NumbersFit, TypeOK
    <2>4. \A d, e \in Admitted' : id'[d] = id'[e] => d = e
        BY <1>6, <2>3 DEF Fits, NamesFit, Admitted
    <2> QED
        BY <2>2, <2>4 DEF NamesFit
<1>12. SlotsFit'
    BY <1>2, <1>6, <1>7, <1>8 DEF Fits, SlotsFit
<1>13. BacklogFit'
    <2>1. ToSet(backlog) \subseteq Conns
        BY <1>1 DEF ToSet
    <2> QED
        BY <1>2, <1>3, <1>5, <1>6, <2>1 DEF Fits, BacklogFit
<1>14. NumbersFit' /\ AcceptFits'
    <2>1. \A d \in Conns : id[d] \in Nat /\ id[d] <= client_count
        BY DEF Fits, NumbersFit, TypeOK
    <2> QED
        BY <1>4, <1>5, <1>6, <2>1 DEF Fits, NumbersFit, AcceptFits
<1> QED
    BY <1>9, <1>10, <1>11, <1>12, <1>13, <1>14 DEF Fits

LEMMA AcceptStep ==
    ASSUME Inv, Accept
    PROVE  Inv'
<1> DEFINE c == Head(backlog)
<1>1. CASE TurnAway(c)
    <2> USE DEF Inv
    <2>1. /\ backlog \in Seq(Conns) /\ backlog # <<>> /\ IsInjective(backlog)
        BY DEF Accept, TypeOK, Fits, AcceptFits, BacklogFit
    <2>2. /\ c \in Conns
          /\ Tail(backlog) \in Seq(Conns)
          /\ ToSet(Tail(backlog)) \subseteq ToSet(backlog)
          /\ IsInjective(Tail(backlog))
        BY <2>1, PopProperties
    <2>3. /\ backlog' = Tail(backlog) /\ pc' = "scan"
          /\ UNCHANGED <<client, inbox, ready, scan, cast, log, sent, seen, cut>>
        BY DEF Accept
    <2>4. /\ dropped' = dropped \cup {c}
          /\ UNCHANGED <<slotVars, id, joined, wire, unread>>
        BY <1>1 DEF TurnAway
    <2>5. TypeOK'
        BY <2>2, <2>3, <2>4 DEF TypeOK, slotVars
    <2>6. BacklogFit'
        BY <2>2, <2>3, <2>4 DEF Fits, BacklogFit
    <2>7. Occupied' = Occupied /\ Admitted' = Admitted
        BY <2>4 DEF Occupied, Admitted, slotVars
    <2>8. CountHonest' /\ NamesFit' /\ SlotsFit' /\ NumbersFit' /\ AcceptFits'
        BY <2>3, <2>4, <2>7
           DEF Fits, CountHonest, NamesFit, SlotsFit, NumbersFit, AcceptFits, slotVars
    <2> QED
        BY <2>5, <2>6, <2>8 DEF Fits
<1>2. ASSUME NEW slot \in Slots, FirstFree(slot), Admit(c, slot)
      PROVE  Inv'
    <2>1. slot \in Slots \ Occupied
        BY <1>2 DEF FirstFree
    <2> QED
        BY <1>2, <2>1, AdmitStep
<1> QED
    BY <1>1, <1>2 DEF Accept

LEMMA DropStep ==
    ASSUME Inv, NEW i \in Slots, Drop(i)
    PROVE  Inv'
<1> USE DEF Inv
<1>1. /\ i \in scan..MaxClients /\ client_sockets[i] \in ready
      /\ CloseSlots({i})
      /\ scan' = i + 1
      /\ UNCHANGED <<netVars, pc, ready, cast, log, sent, id, joined, seen, cut>>
    BY DEF Drop, Serves
<1>2. {i} \in SUBSET Occupied
    BY <1>1, ConnsAssumption DEF TypeOK, Occupied
<1>3. AcceptFits'
    BY <1>1 DEF Fits, AcceptFits, netVars
<1>4. Fits'
    BY <1>1, <1>2, <1>3, CloseSlotsFit DEF netVars
<1>5. scan' \in 1..(MaxClients + 1)
    BY <1>1, MaxClientsAssumption DEF Slots
<1>6. TypeOK'
    <2>1. CountHonest
        BY DEF Fits
    <2>2. /\ client_sockets' \in [Slots -> Conns \cup {NoConn}]
          /\ client_ids' \in [Slots -> Nat]
          /\ client_count' \in Nat
          /\ connected_clients' \in Nat
          /\ dropped' \in SUBSET Conns
        BY <1>1, <1>2, <2>1, CloseSlotsTypes
    <2> QED
        BY <1>1, <1>5, <2>2 DEF TypeOK, netVars
<1> QED
    BY <1>4, <1>6

(* What is broadcast carries the number of the connection it came from. *)
LEMMA ReceiveStep ==
    ASSUME Inv, NEW i \in Slots, Receive(i)
    PROVE  Inv'
<1> DEFINE c == client_sockets[i]
<1> USE DEF Inv
<1>1. PICK n \in DOMAIN inbox[c] :
          /\ log' = Append(log, Formatted(i, SubSeq(inbox[c], 1, n)))
          /\ inbox' = [inbox EXCEPT ![c] = SubSeq(@, n + 1, Len(@))]
    BY DEF Receive
<1>2. /\ i \in scan..MaxClients /\ c \in ready
      /\ pc' = "cast"
      /\ scan' = i + 1
      /\ UNCHANGED <<client, wire, unread, backlog, slotVars, ready, cast, sent, id,
                     joined, seen, cut, dropped>>
    BY DEF Receive, Serves
<1>3. c \in Conns /\ i \in Occupied
    BY <1>2, ConnsAssumption DEF TypeOK, Occupied
<1>4. inbox[c] \in Seq(Tokens) /\ n \in 1..Len(inbox[c]) /\ Len(inbox[c]) \in Nat
    BY <1>3 DEF TypeOK
<1> DEFINE received == SubSeq(inbox[c], 1, n)
           message == Formatted(i, received)
<1>5. received \in Seq(Tokens) /\ Len(received) = n
    BY <1>4, SubSeqProperties
<1>6. StripNewline(received) \in Seq(Tokens)
    <2>1. \A k \in 1..n - 1 : received[k] \in Tokens
        BY <1>4, <1>5
    <2>2. Front(received) \in Seq(Tokens)
        BY <1>4, <1>5, <2>1, SubSeqProperties DEF Front
    <2> QED
        BY <1>5, <2>2 DEF StripNewline
<1>7. client_ids[i] \in Nat /\ connected_clients \in Nat
    BY DEF TypeOK
<1>8. /\ message \in Message
      /\ message.id = client_ids[i]
      /\ message.conn = c
    BY <1>3, <1>6, <1>7 DEF Formatted, Message
<1>9. TypeOK'
    <2>1. log \in Seq(Message)
        BY DEF TypeOK
    <2>2. log' \in Seq(Message)
        BY ONLY <1>1, <1>8, <2>1
    <2>3. SubSeq(inbox[c], n + 1, Len(inbox[c])) \in Seq(Tokens)
        BY <1>4, SubSeqProperties
    <2>4. inbox' \in [Conns -> Seq(Tokens)]
        BY <1>1, <1>3, <2>3 DEF TypeOK
    <2>5. scan' \in 1..(MaxClients + 1)
        BY <1>2, MaxClientsAssumption DEF Slots
    <2> QED
        BY <1>2, <2>2, <2>4, <2>5 DEF TypeOK, slotVars
<1>10. /\ Len(log) \in Nat
       /\ DOMAIN log = 1..Len(log) /\ DOMAIN log' = 1..Len(log) + 1
       /\ \A k \in 1..Len(log) : log'[k] = log[k]
       /\ log'[Len(log) + 1] = message
    <2>1. log \in Seq(Message)
        BY DEF TypeOK
    <2> QED
        BY ONLY <1>1, <1>8, <2>1
<1>11. message.id = id[c] /\ message.id # 0
    BY <1>3, <1>8 DEF Fits, SlotsFit
<1>12. /\ \A k \in DOMAIN log' : log'[k].id = id'[log'[k].conn]
       /\ \A k \in DOMAIN log' : log'[k].id # 0
    BY <1>2, <1>8, <1>10, <1>11 DEF Fits, NamesFit, NumbersFit
<1>13. Occupied' = Occupied /\ Admitted' = Admitted
    BY <1>2 DEF Occupied, Admitted, slotVars
<1>14. CountHonest' /\ SlotsFit' /\ BacklogFit' /\ AcceptFits'
    BY <1>2, <1>13
       DEF Fits, CountHonest, SlotsFit, BacklogFit, AcceptFits, slotVars
<1>15. NamesFit' /\ NumbersFit'
    BY <1>2, <1>12, <1>13 DEF Fits, NamesFit, NumbersFit, slotVars
<1> QED
    BY <1>9, <1>14, <1>15 DEF Fits

LEMMA CastStep ==
    ASSUME Inv, NEW i \in Slots,
           CastDelivered(i) \/ CastCut(i) \/ CastFails(i) \/ CastKilled(i)
    PROVE  Inv'
<1> DEFINE c == client_sockets[i]
<1> USE DEF Inv
<1>1. /\ i + 1 \in 1..(MaxClients + 1)
      /\ Len(log) \in Nat
    BY MaxClientsAssumption DEF Slots, TypeOK
<1>2. {i} \in SUBSET Occupied /\ c \in Conns
    BY DEF CastDelivered, CastCut, CastFails, CastKilled, SendsTo, TypeOK, Occupied
<1>3. CASE CastDelivered(i) \/ CastCut(i)
    <2>1. /\ cast' = i + 1
          /\ UNCHANGED <<client, inbox, backlog, slotVars, pc, ready, scan, log, sent,
                         id, joined, dropped>>
        BY <1>3 DEF CastDelivered, CastCut, netVars
    <2>2. Fits'
        BY <2>1, FitsKept
    <2>3. wire' \in [Conns -> WireStates]
        <3>1. wire' = wire \/ wire' = [wire EXCEPT ![c] = "finsent"]
            BY <1>3 DEF CastDelivered, CastCut, Delivered, Vanished, netVars
        <3> QED
            BY <3>1 DEF TypeOK, WireStates
    <2>4. unread' \in [Conns -> BOOLEAN]
        <3>1. unread' = unread \/ unread' = [unread EXCEPT ![c] = TRUE]
            BY <1>3 DEF CastDelivered, CastCut, Delivered, Vanished, netVars
        <3> QED
            BY <3>1 DEF TypeOK
    <2>5. seen' \in [Conns -> Seq(Nat)]
        <3>1. \/ seen' = [seen EXCEPT ![c] = Append(@, Len(log))]
              \/ seen' = seen
            BY <1>3 DEF CastDelivered, CastCut
        <3>2. seen \in [Conns -> Seq(Nat)]
            BY DEF TypeOK
        <3>3. seen[c] \in Seq(Nat)
            BY <1>2, <3>2
        <3>4. Append(seen[c], Len(log)) \in Seq(Nat)
            BY ONLY <1>1, <3>3
        <3> QED
            BY ONLY <1>2, <3>1, <3>2, <3>4
    <2>6. cut' \in [Conns -> SUBSET Nat]
        <3>1. cut' = cut \/ cut' = [cut EXCEPT ![c] = @ \cup {Len(log)}]
            BY <1>3 DEF CastDelivered, CastCut
        <3>2. cut \in [Conns -> SUBSET Nat]
            BY DEF TypeOK
        <3> QED
            BY ONLY <1>1, <1>2, <3>1, <3>2
    <2>7. TypeOK'
        BY <1>1, <2>1, <2>3, <2>4, <2>5, <2>6 DEF TypeOK, slotVars
    <2> QED
        BY <2>2, <2>7
<1>4. CASE CastFails(i)
    <2>1. /\ CloseSlots({i})
          /\ cast' = i + 1
          /\ UNCHANGED <<netVars, pc, ready, scan, log, sent, id, joined, seen, cut>>
        BY <1>4 DEF CastFails
    <2>2. AcceptFits'
        BY <2>1 DEF Fits, AcceptFits, netVars
    <2>3. Fits'
        BY <1>2, <2>1, <2>2, CloseSlotsFit DEF netVars
    <2>4. CountHonest
        BY DEF Fits
    <2>5. /\ client_sockets' \in [Slots -> Conns \cup {NoConn}]
          /\ client_ids' \in [Slots -> Nat]
          /\ client_count' \in Nat
          /\ connected_clients' \in Nat
          /\ dropped' \in SUBSET Conns
        BY <1>2, <2>1, <2>4, CloseSlotsTypes
    <2>6. TypeOK'
        BY <1>1, <2>1, <2>5 DEF TypeOK, netVars
    <2> QED
        BY <2>3, <2>6
<1>5. CASE CastKilled(i)
    <2>1. /\ pc' = "killed"
          /\ UNCHANGED <<netVars, slotVars, ready, scan, cast, histVars>>
        BY <1>5 DEF CastKilled
    <2>2. Fits'
        BY <2>1, FitsKept DEF netVars, histVars
    <2>3. TypeOK'
        BY <2>1 DEF TypeOK, netVars, slotVars, histVars
    <2> QED
        BY <2>2, <2>3
<1> QED
    BY <1>3, <1>4, <1>5

(* The ends of the loops. *)
LEMMA EndStep ==
    ASSUME Inv, EndScan \/ EndCast
    PROVE  Inv'
<1> USE DEF Inv
<1>1. 1 \in 1..(MaxClients + 1)
    BY MaxClientsAssumption
<1>2. CASE EndScan
    <2>1. TypeOK'
        BY <1>1, <1>2 DEF EndScan, TypeOK, netVars, slotVars, histVars
    <2>2. Fits'
        BY <1>2, FitsKept DEF EndScan, netVars, histVars
    <2> QED
        BY <2>1, <2>2
<1>3. CASE EndCast
    <2>1. TypeOK'
        BY <1>1, <1>3 DEF EndCast, TypeOK, netVars, slotVars, histVars
    <2>2. Fits'
        BY <1>3, FitsKept DEF EndCast, netVars, histVars
    <2> QED
        BY <2>1, <2>2
<1> QED
    BY <1>2, <1>3

LEMMA UnchangedStep ==
    ASSUME Inv, UNCHANGED vars
    PROVE  Inv'
<1>1. TypeOK'
    BY DEF Inv, TypeOK, vars, netVars, slotVars, loopVars, histVars
<1>2. Fits'
    BY FitsKept DEF Inv, vars, netVars, slotVars, loopVars, histVars
<1> QED
    BY <1>1, <1>2 DEF Inv

LEMMA StepInv == Inv /\ [Next]_vars => Inv'
<1> SUFFICES ASSUME Inv, [Next]_vars
             PROVE  Inv'
    OBVIOUS
<1>1. ASSUME NEW c \in Conns, Client(c)
      PROVE  Inv'
    BY <1>1, ClientStep
<1>2. CASE Server
    BY <1>2, SelectStep, AcceptStep, DropStep, ReceiveStep, CastStep, EndStep DEF Server
<1>3. CASE Dead \/ UNCHANGED vars
    BY <1>3, UnchangedStep DEF Dead
<1> QED
    BY <1>1, <1>2, <1>3 DEF Next

-----------------------------------------------------------------------------
(* The theorems.                                                           *)

(* Type correctness; in particular connected_clients never goes below zero *)
(* (network.c:120, 217, 235, 366), and no loop leaves the slots.           *)
THEOREM ServerTypes == Spec => []TypeOK
<1>1. Inv => TypeOK
    BY DEF Inv
<1> QED
    BY <1>1, InitInv, StepInv, PTL DEF Spec

(* The number "\connected" reports is right, however connections end, and  *)
(* no connection is in two slots.                                          *)
THEOREM CountIsHonest == Spec => []CountHonest
<1>1. Inv => CountHonest
    BY DEF Inv, Fits
<1> QED
    BY <1>1, InitInv, StepInv, PTL DEF Spec

(* Every message carries the number its writer was welcomed with, and no   *)
(* number is given twice, although slots are reused.                       *)
THEOREM NamesAreRight == Spec => []NamesFit
<1>1. Inv => NamesFit
    BY DEF Inv, Fits
<1> QED
    BY <1>1, InitInv, StepInv, PTL DEF Spec

-----------------------------------------------------------------------------
(* The conversation: what the invariant must say for the server to         *)
(* implement ChatRoom.                                                     *)

RoomLeft == {c \in Conns : wire[c] \notin {"none", "up"}}
RoomMembers == {client_sockets[i] : i \in Occupied}
RoomSaid == [k \in DOMAIN log |-> [from |-> log[k].conn, name |-> log[k].id,
                                   question |-> log[k].body = <<Connected>>,
                                   count |-> log[k].count]]
RoomHeard == [c \in Conns |-> joined[c] + Len(seen[c])]

(* What is sent to a client follows on what it was sent before, and it is  *)
(* sent in part only to a slow one.                                        *)
NoGaps ==
    \A c \in Conns :
        /\ \A k \in DOMAIN seen[c] : seen[c][k] = joined[c] + k
        /\ cut[c] \subseteq (IF c \in Slow THEN ToSet(seen[c]) ELSE {})

(* Clients that are not admitted were sent nothing, and those that are     *)
(* have a slot until they are dropped.                                     *)
Seated ==
    /\ \A c \in Conns : id[c] = 0 => seen[c] = <<>>
    /\ \A c \in Admitted \ dropped : c \in RoomMembers
    /\ \A c \in RoomMembers : wire[c] # "none"

(* Only the slots the broadcast has not come to miss its message. *)
CaughtUp ==
    /\ pc \notin {"cast", "killed"} => cast = 1
    /\ pc = "cast" => Len(log) > 0
    /\ pc # "killed" =>
           \A i \in Occupied : wire[client_sockets[i]] = "up" =>
               joined[client_sockets[i]] + Len(seen[client_sockets[i]])
                   = IF pc = "cast" /\ cast <= i THEN Len(log) - 1 ELSE Len(log)

(* Nothing is known of a connection before its client opens it. *)
NotYet == \A c \in Conns : client[c] = "away" => wire[c] = "none"

Talk == NoGaps /\ Seated /\ CaughtUp /\ NotYet

LEMMA InitTalk == Init => Talk
<1> SUFFICES ASSUME Init PROVE Talk
    OBVIOUS
<1>1. Occupied = {} /\ Admitted = {}
    BY DEF Init, Occupied, Admitted
<1>2. NoGaps
    BY DEF Init, NoGaps
<1>3. Seated
    BY <1>1 DEF Init, Seated, RoomMembers
<1>4. CaughtUp
    BY <1>1 DEF Init, CaughtUp
<1>5. NotYet
    BY DEF Init, NotYet
<1> QED
    BY <1>2, <1>3, <1>4, <1>5 DEF Talk

LEMMA MembersFit ==
    ASSUME Inv
    PROVE  /\ \A i \in Occupied : i \in Slots /\ client_sockets[i] \in Conns
                                    /\ id[client_sockets[i]] # 0
           /\ RoomMembers \subseteq Conns
           /\ \A i, j \in Occupied : client_sockets[i] = client_sockets[j] => i = j
BY DEF Inv, Fits, TypeOK, SlotsFit, CountHonest, Occupied, RoomMembers

(* connected_clients is the number of members. *)
LEMMA MembersCounted ==
    ASSUME Inv
    PROVE  Cardinality(RoomMembers) = connected_clients
<1> DEFINE f == [i \in Occupied |-> client_sockets[i]]
<1>1. IsFiniteSet(Occupied)
    BY SlotsFinite DEF Occupied
<1>2. f \in Surjection(Occupied, RoomMembers)
    BY DEF Surjection, RoomMembers
<1>3. f \in Injection(Occupied, RoomMembers)
    BY <1>2, MembersFit DEF Injection, IsInjective, Surjection
<1>4. Cardinality(RoomMembers) = Cardinality(Occupied)
    BY <1>1, <1>2, <1>3, FS_Surjection
<1> QED
    BY <1>4 DEF Inv, Fits, CountHonest

LEMMA SameCardinality == \A S : Room!Cardinality(S) = Cardinality(S)
BY DEF Room!Cardinality, Cardinality

LEMMA RoomInit == Init => Room!Init
<1> SUFFICES ASSUME Init PROVE Room!Init
    OBVIOUS
<1>1. Occupied = {}
    BY DEF Init, Occupied
<1>2. /\ id = [c \in Conns |-> 0] /\ client_count = 0 /\ log = <<>>
      /\ \A c \in Conns : wire[c] = "none" /\ joined[c] = 0 /\ seen[c] = <<>>
      /\ cut = [c \in Conns |-> {}]
    BY DEF Init
<1>3. RoomLeft = {} /\ RoomMembers = {} /\ RoomSaid = <<>> /\ RoomHeard = [c \in Conns |-> 0]
    BY <1>1, <1>2 DEF RoomLeft, RoomMembers, RoomSaid, RoomHeard
<1> QED
    BY <1>2, <1>3 DEF Room!Init, RoomLeft, RoomMembers, RoomSaid, RoomHeard

(* The steps users do not notice. *)
LEMMA RoomStutter ==
    ASSUME RoomLeft' = RoomLeft, RoomMembers' = RoomMembers,
           UNCHANGED <<id, client_count, log, joined, seen, cut>>
    PROVE  UNCHANGED Room!vars
BY DEF Room!vars, RoomLeft, RoomMembers

(* The steps of one user. *)
LEMMA RoomMove ==
    ASSUME NEW c \in Conns, Room!Join(c) \/ Room!Say(c) \/ Room!Hear(c) \/ Room!Leave(c)
    PROVE  [Room!Next]_(Room!vars)
BY DEF Room!Next

-----------------------------------------------------------------------------
LEMMA NotYetKept == NotYet /\ UNCHANGED <<client, wire>> => NotYet'
BY DEF NotYet

LEMMA ClientTalk ==
    ASSUME Inv, Talk, NEW c \in Conns, Client(c)
    PROVE  Talk' /\ [Room!Next]_(Room!vars)
<1>1. UNCHANGED <<slotVars, loopVars, log, id, joined, seen, cut, dropped>>
    BY DEF Client, Refuse, Connect, ClientLine, SendText, SendNewline, Write, ClientRead,
           ClientClose, histVars
<1>2. wire \in [Conns -> WireStates]
    BY DEF Inv, TypeOK
<1>3. \/ wire' = wire
      \/ wire' = [wire EXCEPT ![c] = "up"] /\ client[c] = "away"
      \/ wire' = [wire EXCEPT ![c] = "finrst"] /\ wire[c] = "finsent"
      \/ wire' = [wire EXCEPT ![c] = "reset"] \/ wire' = [wire EXCEPT ![c] = "fin"]
    BY DEF Client, Refuse, Connect, ClientLine, SendText, SendNewline, Write, ClientRead,
           ClientClose
<1>4. Occupied' = Occupied /\ RoomMembers' = RoomMembers /\ Admitted' = Admitted
    BY <1>1 DEF Occupied, RoomMembers, Admitted, slotVars
<1>5. client[c] = "away" => c \notin RoomMembers
    BY MembersFit DEF Inv, Fits, BacklogFit, RoomMembers
<1>6. \A d \in RoomMembers : /\ wire'[d] = "up" => wire[d] = "up"
                             /\ wire[d] # "none" => wire'[d] # "none"
    BY <1>2, <1>3, <1>5, MembersFit
<1>7. Talk'
    <2>1. NoGaps'
        BY <1>1 DEF Talk, NoGaps
    <2>2. Seated'
        BY <1>1, <1>4, <1>6 DEF Talk, Seated
    <2>3. CaughtUp'
        <3>1. \A i \in Occupied : client_sockets[i] \in RoomMembers
            BY DEF RoomMembers
        <3> QED
            BY <1>1, <1>4, <1>6, <3>1 DEF Talk, CaughtUp, slotVars, loopVars
    <2>4. NotYet'
        <3>1. \A d \in Conns : client'[d] = "away" => client[d] = "away" /\ (client' = client \/ d # c)
            BY DEF Client, Refuse, Connect, ClientLine, SendText, SendNewline, Write, ClientRead,
                   ClientClose, Inv, TypeOK
        <3>2. client' = client => wire' = wire \/ wire[c] = "finsent"
            BY DEF Client, Refuse, Connect, ClientLine, SendText, SendNewline, Write, ClientRead,
                   ClientClose, Inv, TypeOK
        <3>3. \A d \in Conns \ {c} : wire'[d] = wire[d]
            BY <1>2, <1>3
        <3> QED
            BY <3>1, <3>2, <3>3 DEF Talk, NotYet
    <2> QED
        BY <2>1, <2>2, <2>3, <2>4 DEF Talk
<1>8. [Room!Next]_(Room!vars)
    <2>1. CASE RoomLeft' = RoomLeft
        BY <1>1, <1>4, <2>1, RoomStutter DEF slotVars
    <2>2. CASE RoomLeft' # RoomLeft
        <3>1. c \notin RoomLeft /\ RoomLeft' = RoomLeft \cup {c}
            <4>1. \A d \in Conns \ {c} : wire'[d] = wire[d]
                BY <1>2, <1>3
            <4>2. CASE wire'[c] \in {"reset", "fin"}
                BY <2>2, <4>1, <4>2 DEF RoomLeft
            <4>3. CASE wire' = wire
                BY <2>2, <4>3 DEF RoomLeft
            <4>4. CASE wire'[c] = "up" /\ client[c] = "away"
                BY <2>2, <4>1, <4>4 DEF RoomLeft, Talk, NotYet
            <4>5. CASE wire'[c] = "finrst" /\ wire[c] = "finsent"
                BY <2>2, <4>1, <4>5 DEF RoomLeft
            <4> QED
                BY <1>2, <1>3, <4>2, <4>3, <4>4, <4>5
        <3>2. Room!Leave(c)
            BY <1>1, <1>4, <3>1
               DEF Room!Leave, RoomLeft, RoomMembers, slotVars
        <3> QED
            BY <3>2, RoomMove
    <2> QED
        BY <2>1, <2>2
<1> QED
    BY <1>7, <1>8

(* Closing slots: nobody else loses the seat, and only members that left,  *)
(* or are slow, lose theirs.                                               *)
LEMMA CloseTalk ==
    ASSUME Inv, Talk, NEW S \in SUBSET Occupied, CloseSlots(S),
           \A i \in S : client_sockets[i] \in RoomLeft \cup Slow,
           UNCHANGED <<wire, log, id, joined, seen, cut>>
    PROVE  /\ NoGaps' /\ Seated'
           /\ Occupied' = Occupied \ S
           /\ \A i \in Occupied' : client_sockets'[i] = client_sockets[i]
           /\ [Room!Next]_(Room!vars)
<1> DEFINE gone == {client_sockets[i] : i \in S}
<1>1. /\ Occupied' = Occupied \ S
      /\ \A i \in Occupied' : client_sockets'[i] = client_sockets[i]
    BY CloseSlotsTypes DEF Inv, Fits
<1>2. RoomMembers' = RoomMembers \ gone
    BY <1>1, MembersFit DEF RoomMembers
<1>3. NoGaps'
    BY DEF Talk, NoGaps
<1>4. Seated'
    <2>1. Admitted' = Admitted /\ dropped' = dropped \cup gone
        BY DEF Admitted, CloseSlots
    <2> QED
        BY <1>2, <2>1 DEF Talk, Seated
<1>5. [Room!Next]_(Room!vars)
    <2>1. gone \subseteq RoomMembers /\ gone \subseteq RoomLeft \cup Slow
        BY DEF RoomMembers
    <2>2. RoomLeft' = RoomLeft /\ client_count' = client_count
        BY DEF RoomLeft, CloseSlots
    <2> HIDE DEF gone
    <2>3. PICK g \in SUBSET RoomMembers : g = gone
        BY <2>1
    <2>4. Room!Remove(g)
        BY <1>2, <2>1, <2>2, <2>3 DEF Room!Remove, RoomMembers, RoomLeft
    <2>5. g \in SUBSET {client_sockets[i] : i \in Occupied}
        BY <2>3 DEF RoomMembers
    <2> QED
        BY <2>4, <2>5 DEF Room!Next
<1> QED
    BY <1>1, <1>3, <1>4, <1>5

LEMMA SelectTalk ==
    ASSUME Inv, Talk, Select
    PROVE  Talk' /\ [Room!Next]_(Room!vars)
<1>1. PICK broken \in {{}, {i \in Occupied : Failed(client_sockets[i])}} : CloseSlots(broken)
    BY DEF Select
<1>2. broken \in SUBSET Occupied /\ \A i \in broken : client_sockets[i] \in RoomLeft \cup Slow
    BY <1>1, MembersFit DEF Failed, RoomLeft
<1>3. /\ pc = "select" /\ pc' \in {"select", "accept", "scan"}
      /\ UNCHANGED <<wire, cast, log, id, joined, seen, cut>>
    BY DEF Select, netVars
<1>4. /\ NoGaps' /\ Seated' /\ Occupied' = Occupied \ broken
      /\ \A i \in Occupied' : client_sockets'[i] = client_sockets[i]
      /\ [Room!Next]_(Room!vars)
    BY <1>1, <1>2, <1>3, CloseTalk
<1>5. CaughtUp'
    BY <1>3, <1>4 DEF Talk, CaughtUp
<1> QED
    BY <1>3, <1>4, <1>5, NotYetKept DEF Talk, Select, netVars

LEMMA AdmitTalk ==
    ASSUME Inv, Talk, Accept, NEW slot \in Slots \ Occupied, Admit(Head(backlog), slot)
    PROVE  Talk' /\ [Room!Next]_(Room!vars)
<1> DEFINE c == Head(backlog)
<1>1. backlog \in Seq(Conns) /\ backlog # <<>>
    BY DEF Accept, Inv, TypeOK, Fits, AcceptFits
<1>2. c \in Conns /\ id[c] = 0
    BY <1>1, PopProperties DEF Inv, Fits, BacklogFit
<1>3. /\ client_count' = client_count + 1
      /\ client_sockets' = [client_sockets EXCEPT ![slot] = c]
      /\ id' = [id EXCEPT ![c] = client_count + 1]
      /\ joined' = [joined EXCEPT ![c] = Len(log)]
      /\ dropped' = dropped
    BY DEF Admit
<1>4. /\ pc = "accept" /\ pc' = "scan"
      /\ UNCHANGED <<cast, log, seen, cut>>
    BY DEF Accept
<1>5. /\ wire \in [Conns -> WireStates] /\ joined \in [Conns -> Nat] /\ id \in [Conns -> Nat]
      /\ seen \in [Conns -> Seq(Nat)] /\ client_count \in Nat
      /\ client_sockets \in [Slots -> Conns \cup {NoConn}] /\ Len(log) \in Nat
    <2>1. log \in Seq(Message)
        BY DEF Inv, TypeOK
    <2>2. Len(log) \in Nat
        BY ONLY <2>1
    <2> QED
        BY <2>2, Zenon DEF Inv, TypeOK
<1>6. /\ \A d \in Conns \ {c} : wire'[d] = wire[d]
      /\ wire'[c] # "none"
      /\ wire[c] \in {"none", "up"} <=> wire'[c] \in {"none", "up"}
    BY <1>2, <1>5 DEF Admit, Delivered, Vanished, WireStates
<1>7. Occupied' = Occupied \cup {slot}
    BY <1>2, <1>3, <1>5, ConnsAssumption DEF Occupied
<1>8. c \notin RoomMembers /\ RoomMembers' = RoomMembers \cup {c}
    <2>1. c \notin RoomMembers
        BY <1>2, MembersFit DEF RoomMembers
    <2>2. /\ client_sockets'[slot] = c
          /\ \A i \in Occupied : client_sockets'[i] = client_sockets[i]
        BY <1>3, <1>5, MembersFit
    <2> QED
        BY <1>7, <2>1, <2>2 DEF RoomMembers
<1>9. RoomLeft' = RoomLeft
    BY <1>2, <1>6 DEF RoomLeft
<1>10. seen[c] = <<>>
    BY <1>2 DEF Talk, Seated
<1> HIDE DEF c
<1>11. NoGaps'
    BY <1>2, <1>3, <1>4, <1>5, <1>10 DEF Talk, NoGaps
<1>12. Seated'
    <2>1. \A d \in Conns : id'[d] = IF d = c THEN client_count + 1 ELSE id[d]
        BY <1>2, <1>3, <1>5
    <2>2. \A d \in Conns : id'[d] = 0 => seen'[d] = <<>>
        BY <1>4, <1>5, <2>1 DEF Talk, Seated
    <2>3. \A d \in Admitted' \ dropped' : d \in RoomMembers'
        BY <1>3, <1>8, <2>1 DEF Talk, Seated, Admitted
    <2>4. \A d \in RoomMembers' : wire'[d] # "none"
        BY <1>6, <1>8, MembersFit DEF Talk, Seated
    <2> QED
        BY <2>2, <2>3, <2>4 DEF Seated
<1>13. CaughtUp'
    <2>1. cast' = 1 /\ pc' = "scan"
        BY <1>4 DEF Talk, CaughtUp
    <2>2. ASSUME NEW i \in Occupied', wire'[client_sockets'[i]] = "up"
          PROVE  joined'[client_sockets'[i]] + Len(seen'[client_sockets'[i]]) = Len(log')
        <3>1. CASE i = slot
            <4>1. client_sockets'[i] = c /\ joined'[c] = Len(log) /\ seen'[c] = <<>>
                BY <1>2, <1>3, <1>4, <1>5, <1>10, <3>1
            <4> QED
                BY <1>4, <1>5, <4>1
        <3>2. CASE i # slot
            <4>1. i \in Occupied /\ client_sockets'[i] = client_sockets[i]
                BY <1>3, <1>5, <1>7, <2>2, <3>2, MembersFit
            <4>2. client_sockets[i] \in Conns \ {c}
                BY <1>8, <4>1, MembersFit DEF RoomMembers
            <4>3. wire[client_sockets[i]] = "up"
                BY <1>6, <2>2, <4>1, <4>2
            <4>4. joined[client_sockets[i]] + Len(seen[client_sockets[i]]) = Len(log)
                BY <1>4, <4>1, <4>3 DEF Talk, CaughtUp
            <4>5. joined'[client_sockets[i]] = joined[client_sockets[i]]
                BY <1>3, <1>5, <4>2
            <4> QED
                BY <1>4, <4>1, <4>4, <4>5
        <3> QED
            BY <3>1, <3>2
    <2> QED
        BY <2>1, <2>2 DEF CaughtUp
<1>14. PICK p \in Conns : p = c
    BY <1>2
<1>15. Room!Join(p)
    <2>1. RoomHeard' = [RoomHeard EXCEPT ![c] = Len(RoomSaid)]
        <3>1. Len(RoomSaid) = Len(log)
            BY DEF RoomSaid, Inv, TypeOK
        <3>2. \A d \in Conns : joined'[d] = IF d = c THEN Len(log) ELSE joined[d]
            BY <1>2, <1>3, <1>5
        <3>3. Len(seen[c]) = 0
            BY <1>10
        <3>4. \A d \in Conns : joined'[d] + Len(seen'[d])
                                  = IF d = c THEN Len(RoomSaid) ELSE joined[d] + Len(seen[d])
            BY <1>2, <1>4, <1>5, <3>1, <3>2, <3>3
        <3> QED
            BY ONLY <1>2, <3>4 DEF RoomHeard
    <2>2. RoomSaid' = RoomSaid
        BY <1>4 DEF RoomSaid
    <2>3. cut' = cut
        BY <1>4
    <2> QED
        BY <1>2, <1>3, <1>8, <1>9, <1>14, <2>1, <2>2, <2>3
           DEF Room!Join, RoomMembers, RoomLeft, RoomSaid, RoomHeard
<1>16. [Room!Next]_(Room!vars)
    BY <1>15, RoomMove
<1>17. NotYet'
    <2>1. client' = client
        BY DEF Accept
    <2>2. client[c] # "away"
        BY <1>1, PopProperties DEF Inv, Fits, BacklogFit, c
    <2> QED
        BY <1>6, <2>1, <2>2 DEF Talk, NotYet
<1> QED
    BY <1>11, <1>12, <1>13, <1>16, <1>17 DEF Talk

LEMMA AcceptTalk ==
    ASSUME Inv, Talk, Accept
    PROVE  Talk' /\ [Room!Next]_(Room!vars)
<1> DEFINE c == Head(backlog)
<1>1. CASE TurnAway(c)
    <2>1. /\ pc = "accept" /\ pc' = "scan" /\ dropped' = dropped \cup {c}
          /\ UNCHANGED <<slotVars, wire, cast, log, id, joined, seen, cut>>
        BY <1>1 DEF Accept, TurnAway
    <2>2. Occupied' = Occupied /\ RoomMembers' = RoomMembers /\ Admitted' = Admitted
        BY <2>1 DEF Occupied, RoomMembers, Admitted, slotVars
    <2>3. NoGaps' /\ Seated' /\ CaughtUp'
        BY <2>1, <2>2 DEF Talk, NoGaps, Seated, CaughtUp, slotVars
    <2>4. UNCHANGED Room!vars
        BY <2>1, <2>2, RoomStutter DEF RoomLeft, slotVars
    <2> QED
        BY <2>1, <2>3, <2>4, NotYetKept DEF Talk, Accept
<1>2. ASSUME NEW slot \in Slots, FirstFree(slot), Admit(c, slot)
      PROVE  Talk' /\ [Room!Next]_(Room!vars)
    <2>1. slot \in Slots \ Occupied
        BY <1>2 DEF FirstFree
    <2> QED
        BY <1>2, <2>1, AdmitTalk
<1> QED
    BY <1>1, <1>2 DEF Accept

LEMMA DropTalk ==
    ASSUME Inv, Talk, NEW i \in Slots, Drop(i)
    PROVE  Talk' /\ [Room!Next]_(Room!vars)
<1>1. /\ i \in Slots /\ client_sockets[i] \in ready
      /\ HangUp(client_sockets[i])
      /\ CloseSlots({i})
      /\ pc = "scan"
      /\ UNCHANGED <<wire, pc, cast, log, id, joined, seen, cut>>
    BY DEF Drop, Serves, netVars
<1>2. {i} \in SUBSET Occupied
    BY <1>1, ConnsAssumption DEF Inv, TypeOK, Occupied
<1>3. \A j \in {i} : client_sockets[j] \in RoomLeft \cup Slow
    BY <1>1, <1>2, MembersFit DEF HangUp, Failed, RoomLeft
<1>4. /\ NoGaps' /\ Seated' /\ Occupied' = Occupied \ {i}
      /\ \A j \in Occupied' : client_sockets'[j] = client_sockets[j]
      /\ [Room!Next]_(Room!vars)
    BY <1>1, <1>2, <1>3, CloseTalk
<1>5. CaughtUp'
    BY <1>1, <1>4 DEF Talk, CaughtUp
<1> QED
    BY <1>1, <1>4, <1>5, NotYetKept DEF Talk, Drop, netVars

LEMMA ReceiveTalk ==
    ASSUME Inv, Talk, NEW i \in Slots, Receive(i)
    PROVE  Talk' /\ [Room!Next]_(Room!vars)
<1> DEFINE c == client_sockets[i]
<1>1. PICK n \in DOMAIN inbox[c] :
          log' = Append(log, Formatted(i, SubSeq(inbox[c], 1, n)))
    BY DEF Receive
<1> DEFINE m == Formatted(i, SubSeq(inbox[c], 1, n))
<1>2. /\ c \in ready /\ pc = "scan" /\ pc' = "cast"
      /\ UNCHANGED <<wire, slotVars, cast, id, joined, seen, cut, dropped>>
    BY DEF Receive, Serves
<1>3. c \in Conns /\ i \in Occupied
    BY <1>2, ConnsAssumption DEF Inv, TypeOK, Occupied
<1>4. Occupied' = Occupied /\ RoomMembers' = RoomMembers /\ Admitted' = Admitted
      /\ RoomLeft' = RoomLeft
    BY <1>2 DEF Occupied, RoomMembers, Admitted, RoomLeft, slotVars
<1>5. Len(log) \in Nat /\ Len(log') = Len(log) + 1
    BY <1>1 DEF Inv, TypeOK
<1>6. NoGaps' /\ Seated'
    BY <1>2, <1>4 DEF Talk, NoGaps, Seated
<1>7. \A j \in Occupied : wire[client_sockets[j]] = "up" =>
          joined[client_sockets[j]] + Len(seen[client_sockets[j]]) = Len(log)
    BY <1>2 DEF Talk, CaughtUp
<1>8. CaughtUp'
    <2>1. \A j \in Occupied : cast' <= j
        BY <1>2, MembersFit DEF Talk, CaughtUp, Slots
    <2> QED
        BY <1>2, <1>4, <1>5, <1>7, <2>1 DEF CaughtUp, slotVars
<1>9. PICK p \in Conns : p = c
    BY <1>3
<1>10. Room!Say(p)
    <2>1. c \in RoomMembers
        BY <1>3 DEF RoomMembers
    <2>2. \A d \in RoomMembers \ RoomLeft : RoomHeard[d] = Len(RoomSaid)
        <3>1. Len(RoomSaid) = Len(log)
            BY DEF RoomSaid, Inv, TypeOK
        <3>2. ASSUME NEW d \in RoomMembers \ RoomLeft
              PROVE  RoomHeard[d] = Len(log)
            <4>1. PICK j \in Occupied : client_sockets[j] = d
                BY <3>2 DEF RoomMembers
            <4>2. d \in Conns /\ wire[d] = "up"
                BY <3>2, MembersFit DEF RoomLeft, Talk, Seated
            <4> QED
                BY <1>7, <4>1, <4>2 DEF RoomHeard
        <3> QED
            BY <3>1, <3>2
    <2>3. PICK asks \in BOOLEAN : asks = (m.body = <<Connected>>)
        OBVIOUS
    <2>4. /\ m.conn = c /\ m.id = client_ids[i] /\ client_ids[i] = id[c]
          /\ m.count = IF asks THEN Cardinality(RoomMembers) ELSE 0
        BY <1>3, <2>3, MembersCounted DEF Formatted, Inv, Fits, SlotsFit
    <2> DEFINE line == [from |-> c, name |-> id[c], question |-> asks,
                        count |-> IF asks THEN Cardinality(RoomMembers) ELSE 0]
    <2>5. RoomSaid' = Append(RoomSaid, line)
        <3>1. /\ DOMAIN log = 1 .. Len(log) /\ DOMAIN log' = 1 .. Len(log) + 1
              /\ \A k \in 1 .. Len(log) : log'[k] = log[k]
              /\ log'[Len(log) + 1] = m
            BY <1>1, <1>5 DEF Inv, TypeOK
        <3>2. line = [from |-> m.conn, name |-> m.id, question |-> m.body = <<Connected>>,
                      count |-> m.count]
            BY <2>3, <2>4
        <3> HIDE DEF line, m
        <3>3. RoomSaid' = [k \in 1 .. Len(log) + 1 |->
                               IF k = Len(log) + 1 THEN line ELSE RoomSaid[k]]
            BY <1>5, <3>1, <3>2 DEF RoomSaid
        <3>4. RoomSaid = [k \in 1 .. Len(log) |-> RoomSaid[k]]
            BY <3>1 DEF RoomSaid
        <3> QED
            BY <1>5, <3>3, <3>4
    <2> HIDE DEF m, c
    <2>6. p \in RoomMembers /\ RoomSaid' = Append(RoomSaid,
              [from |-> p, name |-> id[p], question |-> asks,
               count |-> IF asks THEN Cardinality(RoomMembers) ELSE 0])
        BY <1>9, <2>1, <2>5
    <2>7. UNCHANGED <<RoomLeft, RoomMembers, id, client_count, RoomHeard, cut>>
        BY <1>2, <1>4 DEF RoomHeard, slotVars
    <2> QED
        BY <2>2, <2>3, <2>6, <2>7, SameCardinality
           DEF Room!Say, RoomMembers, RoomLeft, RoomSaid, RoomHeard
<1>11. [Room!Next]_(Room!vars)
    BY <1>10, RoomMove
<1> QED
    BY <1>2, <1>6, <1>8, <1>11, NotYetKept DEF Talk, Receive

LEMMA DeliverTalk ==
    ASSUME Inv, Talk, NEW i \in Slots, CastDelivered(i) \/ CastCut(i)
    PROVE  Talk' /\ [Room!Next]_(Room!vars)
<1> DEFINE c == client_sockets[i]
<1>1. /\ cast' = i + 1 /\ pc = "cast"
      /\ UNCHANGED <<slotVars, pc, log, id, joined, dropped>>
      /\ i \in Occupied /\ cast <= i /\ \A j \in Occupied : cast <= j => i <= j
    BY DEF CastDelivered, CastCut, SendsTo
<1>2. c \in Conns /\ id[c] # 0
    BY <1>1, MembersFit
<1>3. /\ wire \in [Conns -> WireStates] /\ joined \in [Conns -> Nat]
      /\ seen \in [Conns -> Seq(Nat)] /\ Len(log) \in Nat /\ cast \in Nat
      /\ \A j \in Occupied : j \in Nat
    BY MaxClientsAssumption DEF Inv, TypeOK, Occupied, Slots
<1>4. /\ Occupied' = Occupied /\ RoomMembers' = RoomMembers /\ Admitted' = Admitted
      /\ RoomSaid' = RoomSaid
    BY <1>1 DEF Occupied, RoomMembers, Admitted, RoomSaid, slotVars
<1>5. \A j \in Occupied : j # i => client_sockets[j] \in Conns \ {c}
    BY <1>1, MembersFit
<1>6. ASSUME wire'[c] # "none",
             \A d \in Conns \ {c} : wire'[d] = wire[d] /\ seen'[d] = seen[d],
             wire'[c] = "up" => joined[c] + Len(seen'[c]) = Len(log)
      PROVE  Seated' /\ CaughtUp'
    <2>1. Seated'
        BY <1>1, <1>2, <1>4, <1>6, MembersFit DEF Talk, Seated
    <2>2. ASSUME NEW j \in Occupied, wire'[client_sockets[j]] = "up"
          PROVE  joined[client_sockets[j]] + Len(seen'[client_sockets[j]])
                     = IF cast' <= j THEN Len(log) - 1 ELSE Len(log)
        <3>1. CASE j = i
            BY <1>1, <1>3, <1>6, <2>2, <3>1
        <3>2. CASE j # i
            <4>1. client_sockets[j] \in Conns \ {c}
                BY <1>5, <3>2
            <4>2. wire[client_sockets[j]] = "up" /\ seen'[client_sockets[j]] = seen[client_sockets[j]]
                BY <1>6, <2>2, <4>1
            <4>3. joined[client_sockets[j]] + Len(seen[client_sockets[j]])
                      = IF cast <= j THEN Len(log) - 1 ELSE Len(log)
                BY <1>1, <4>2 DEF Talk, CaughtUp
            <4>4. cast <= j <=> cast' <= j
                BY <1>1, <1>3, <3>2
            <4> QED
                BY <4>2, <4>3, <4>4
        <3> QED
            BY <3>1, <3>2
    <2> QED
        BY <1>1, <1>4, <2>1, <2>2 DEF Talk, CaughtUp, slotVars
<1>7. CASE Vanished(c) /\ UNCHANGED <<client, seen, cut>>
    <2>1. /\ \A d \in Conns \ {c} : wire'[d] = wire[d]
          /\ wire'[c] = "finsent" /\ wire[c] \in {"fin", "finsent"}
        BY <1>2, <1>3, <1>7 DEF Vanished
    <2>2. Seated' /\ CaughtUp'
        BY <1>6, <1>7, <2>1
    <2>3. NoGaps'
        BY <1>1, <1>7 DEF Talk, NoGaps
    <2>4. RoomLeft' = RoomLeft
        BY <1>2, <2>1 DEF RoomLeft
    <2>5. UNCHANGED Room!vars
        BY <1>1, <1>4, <1>7, <2>4, RoomStutter DEF slotVars
    <2>6. NotYet'
        BY <1>2, <1>7, <2>1 DEF Talk, NotYet
    <2> QED
        BY <2>2, <2>3, <2>5, <2>6 DEF Talk
<1>8. CASE /\ wire[c] = "up" /\ UNCHANGED <<client, wire>>
           /\ seen' = [seen EXCEPT ![c] = Append(@, Len(log))]
           /\ cut' = cut \/ (c \in Slow /\ cut' = [cut EXCEPT ![c] = @ \cup {Len(log)}])
    <2>1. wire' = wire /\ wire[c] = "up"
        BY <1>8
    <2>2. joined[c] + Len(seen[c]) = Len(log) - 1
        BY <1>1, <2>1 DEF Talk, CaughtUp
    <2>3. /\ seen[c] \in Seq(Nat) /\ Len(seen[c]) \in Nat /\ joined[c] \in Nat
          /\ seen'[c] = Append(seen[c], Len(log))
          /\ \A d \in Conns \ {c} : seen'[d] = seen[d]
        BY <1>2, <1>3, <1>8
    <2>4. /\ Len(seen'[c]) = Len(seen[c]) + 1
          /\ DOMAIN seen'[c] = 1 .. Len(seen[c]) + 1 /\ DOMAIN seen[c] = 1 .. Len(seen[c])
          /\ seen'[c][Len(seen[c]) + 1] = Len(log)
          /\ \A k \in 1 .. Len(seen[c]) : seen'[c][k] = seen[c][k]
        BY ONLY <1>3, <2>3
    <2>5. Seated' /\ CaughtUp'
        <3>1. joined[c] + Len(seen'[c]) = Len(log)
            BY <1>3, <2>2, <2>3, <2>4
        <3> QED
            BY <1>6, <2>1, <2>3, <3>1
    <2>6. NoGaps'
        <3>1. ASSUME NEW k \in 1 .. Len(seen[c]) + 1
              PROVE  seen'[c][k] = joined[c] + k
            <4>1. CASE k \in 1 .. Len(seen[c])
                BY <1>2, <2>4, <4>1 DEF Talk, NoGaps
            <4>2. CASE k = Len(seen[c]) + 1
                <5>1. seen'[c][k] = Len(log)
                    BY <2>4, <4>2
                <5>2. joined[c] + (Len(seen[c]) + 1) = Len(log)
                    <6>1. \A x, y, z \in Nat : x + y = z - 1 => x + (y + 1) = z
                        OBVIOUS
                    <6>2. Len(log) \in Nat
                        BY <1>3
                    <6>3. joined[c] \in Nat /\ Len(seen[c]) \in Nat
                        BY <2>3
                    <6> QED
                        BY ONLY <2>2, <6>1, <6>2, <6>3
                <5> QED
                    BY <4>2, <5>1, <5>2
            <4> QED
                BY <2>3, <4>1, <4>2
        <3>2. \A d \in Conns \ {c} : \A k \in DOMAIN seen'[d] : seen'[d][k] = joined[d] + k
            BY <2>3 DEF Talk, NoGaps
        <3>3. \A d \in Conns : cut[d] \subseteq (IF d \in Slow THEN ToSet(seen[d]) ELSE {})
            BY DEF Talk, NoGaps
        <3>4. ToSet(seen'[c]) = ToSet(seen[c]) \cup {Len(log)}
            <4>1. Len(log) \in Nat /\ seen[c] \in Seq(Nat)
                BY <1>3, <2>3
            <4>2. ToSet(Append(seen[c], Len(log))) = ToSet(seen[c]) \cup {Len(log)}
                BY ONLY <4>1, AppendedProperties
            <4> QED
                BY <2>3, <4>2
        <3>5. cut \in [Conns -> SUBSET Nat]
            BY DEF Inv, TypeOK
        <3>6. \A d \in Conns : \/ cut'[d] = cut[d]
                                \/ (d = c /\ c \in Slow /\ cut'[d] = cut[d] \cup {Len(log)})
            BY <1>8, <3>5
        <3>7. \A d \in Conns : cut'[d] \subseteq (IF d \in Slow THEN ToSet(seen'[d]) ELSE {})
            BY <2>3, <3>3, <3>4, <3>6
        <3> QED
            BY <1>1, <2>4, <3>1, <3>2, <3>7 DEF NoGaps
    <2>7. PICK p \in Conns : p = c
        BY <1>2
    <2>8. Room!Hear(p)
        <3>1. c \in RoomMembers \ RoomLeft
            BY <1>1, <2>1 DEF RoomMembers, RoomLeft
        <3>2. Len(RoomSaid) = Len(log) /\ RoomHeard[c] < Len(RoomSaid)
            <4>1. Len(RoomSaid) = Len(log)
                BY DEF RoomSaid, Inv, TypeOK
            <4> QED
                BY <1>2, <1>3, <2>2, <4>1 DEF RoomHeard
        <3>3. RoomHeard' = [RoomHeard EXCEPT ![c] = @ + 1]
            <4>1. \A d \in Conns : joined'[d] + Len(seen'[d])
                      = IF d = c THEN (joined[d] + Len(seen[d])) + 1 ELSE joined[d] + Len(seen[d])
                <5>1. joined[c] + (Len(seen[c]) + 1) = (joined[c] + Len(seen[c])) + 1
                    <6>1. \A x, y \in Nat : x + (y + 1) = (x + y) + 1
                        OBVIOUS
                    <6> QED
                        BY ONLY <2>3, <6>1
                <5>2. joined' = joined
                    BY <1>1
                <5> QED
                    BY <2>3, <2>4, <5>1, <5>2
            <4> QED
                BY ONLY <1>2, <4>1 DEF RoomHeard
        <3>4. RoomLeft' = RoomLeft
            BY <2>1 DEF RoomLeft
        <3>5. RoomHeard'[c] = Len(log)
            <4>1. joined'[c] + Len(seen'[c]) = Len(log)
                <5>1. \A x, y, z \in Nat : x + y = z - 1 => x + (y + 1) = z
                    OBVIOUS
                <5>2. joined' = joined /\ Len(log) \in Nat
                    BY <1>1, <1>3
                <5>3. joined[c] + (Len(seen[c]) + 1) = Len(log)
                    BY ONLY <2>2, <2>3, <5>1, <5>2
                <5> QED
                    BY <2>4, <5>2, <5>3
            <4> QED
                BY <1>2, <4>1 DEF RoomHeard
        <3>6. \/ cut' = cut
              \/ (p \in Slow /\ cut' = [cut EXCEPT ![p] = @ \cup {RoomHeard'[p]}])
            BY <1>8, <2>7, <3>5
        <3> QED
            BY <1>1, <1>4, <2>7, <3>1, <3>2, <3>3, <3>4, <3>6
               DEF Room!Hear, RoomMembers, RoomLeft, RoomSaid, RoomHeard, slotVars
    <2>9. NotYet'
        BY <1>8, NotYetKept DEF Talk
    <2> QED
        BY <2>5, <2>6, <2>8, <2>9, RoomMove DEF Talk
<1>9. CASE CastCut(i)
    BY <1>8, <1>9 DEF CastCut, Full, netVars
<1>10. CASE CastDelivered(i)
    BY <1>7, <1>8, <1>10 DEF CastDelivered, Delivered, Vanished
<1> QED
    BY <1>9, <1>10

LEMMA CastFailsTalk ==
    ASSUME Inv, Talk, NEW i \in Slots, CastFails(i)
    PROVE  Talk' /\ [Room!Next]_(Room!vars)
<1>1. /\ cast' = i + 1 /\ pc = "cast" /\ CloseSlots({i})
      /\ SendError(client_sockets[i])
      /\ UNCHANGED <<wire, pc, log, id, joined, seen, cut>>
      /\ i \in Occupied /\ cast <= i /\ \A j \in Occupied : cast <= j => i <= j
    BY DEF CastFails, SendsTo, netVars
<1>2. \A j \in {i} : client_sockets[j] \in RoomLeft \cup Slow
    BY <1>1, MembersFit DEF SendError, Full, RoomLeft
<1>3. /\ NoGaps' /\ Seated' /\ Occupied' = Occupied \ {i}
      /\ \A j \in Occupied' : client_sockets'[j] = client_sockets[j]
      /\ [Room!Next]_(Room!vars)
    BY <1>1, <1>2, CloseTalk
<1>4. cast \in Nat /\ i \in Nat /\ \A j \in Occupied : j \in Nat
    BY MaxClientsAssumption DEF Inv, TypeOK, Occupied, Slots
<1>5. \A j \in Occupied' : cast' <= j <=> cast <= j
    <2>1. \A j \in Occupied \ {i} : j \in Nat /\ j # i /\ (cast <= j => i <= j)
        BY <1>1, <1>4
    <2>2. \A j \in Occupied \ {i} : i + 1 <= j <=> cast <= j
        <3>1. \A x, y, z \in Nat :
                 z <= x /\ y # x /\ (z <= y => x <= y) => (x + 1 <= y <=> z <= y)
            OBVIOUS
        <3>2. cast \in Nat /\ i \in Nat /\ cast <= i
            BY <1>1, <1>4
        <3> QED
            BY ONLY <2>1, <3>1, <3>2
    <2>3. cast' = i + 1 /\ Occupied' = Occupied \ {i}
        BY <1>1, <1>3
    <2> QED
        BY ONLY <2>2, <2>3
<1>6. CaughtUp'
    BY <1>1, <1>3, <1>5 DEF Talk, CaughtUp
<1> QED
    BY <1>1, <1>3, <1>6, NotYetKept DEF Talk, CastFails, netVars

(* The steps of the loops that touch neither slots nor messages. *)
LEMMA LoopTalk ==
    ASSUME Inv, Talk, EndScan \/ EndCast \/ (\E i \in Slots : CastKilled(i)) \/ UNCHANGED vars
    PROVE  Talk' /\ [Room!Next]_(Room!vars)
<1>1. UNCHANGED <<slotVars, wire, log, id, joined, seen, cut, dropped>>
    BY DEF EndScan, EndCast, CastKilled, vars, netVars, histVars
<1>2. /\ Occupied' = Occupied /\ RoomMembers' = RoomMembers /\ Admitted' = Admitted
      /\ RoomLeft' = RoomLeft
    BY <1>1 DEF Occupied, RoomMembers, Admitted, RoomLeft, slotVars
<1>3. NoGaps' /\ Seated'
    BY <1>1, <1>2 DEF Talk, NoGaps, Seated
<1>4. CaughtUp'
    <2>1. CASE EndScan
        BY <1>1, <1>2, <2>1 DEF EndScan, Talk, CaughtUp, slotVars
    <2>2. CASE EndCast
        <3>1. \A i \in Occupied : ~(cast <= i)
            BY <2>2, MaxClientsAssumption DEF EndCast, Inv, TypeOK, Occupied, Slots
        <3> QED
            BY <1>1, <1>2, <2>2, <3>1 DEF EndCast, Talk, CaughtUp, slotVars
    <2>3. CASE \E i \in Slots : CastKilled(i)
        BY <2>3 DEF CastKilled, CaughtUp
    <2>4. CASE UNCHANGED vars
        BY <1>1, <1>2, <2>4 DEF Talk, CaughtUp, vars, loopVars, slotVars
    <2> QED
        BY <2>1, <2>2, <2>3, <2>4
<1>5. UNCHANGED Room!vars
    BY <1>1, <1>2, RoomStutter DEF slotVars
<1>6. client' = client
    BY DEF EndScan, EndCast, CastKilled, vars, netVars
<1> QED
    BY <1>1, <1>3, <1>4, <1>5, <1>6, NotYetKept DEF Talk

LEMMA StepTalk == Inv /\ Talk /\ [Next]_vars => Talk' /\ [Room!Next]_(Room!vars)
<1> SUFFICES ASSUME Inv, Talk, [Next]_vars PROVE Talk' /\ [Room!Next]_(Room!vars)
    OBVIOUS
<1>1. ASSUME NEW c \in Conns, Client(c) PROVE Talk' /\ [Room!Next]_(Room!vars)
    BY <1>1, ClientTalk
<1>2. CASE Select \/ Accept
    BY <1>2, SelectTalk, AcceptTalk
<1>3. ASSUME NEW i \in Slots,
             Drop(i) \/ Receive(i) \/ CastDelivered(i) \/ CastCut(i) \/ CastFails(i)
      PROVE  Talk' /\ [Room!Next]_(Room!vars)
    BY <1>3, DropTalk, ReceiveTalk, DeliverTalk, CastFailsTalk
<1>4. CASE EndScan \/ EndCast \/ (\E i \in Slots : CastKilled(i)) \/ UNCHANGED vars
    BY <1>4, LoopTalk
<1> QED
    BY <1>1, <1>2, <1>3, <1>4 DEF Next, Server, Dead

(* All clients are sent the same conversation without a gap, however       *)
(* broadcasts fail and connections end under way (network.c:102-123).      *)
THEOREM OneConversation == Spec => []SameConversation
<1>1. Inv /\ Talk => SameConversation
    <2> SUFFICES ASSUME Inv, Talk PROVE SameConversation
        OBVIOUS
    <2>1. \A c \in Admitted :
              /\ \A k \in DOMAIN seen[c] : seen[c][k] = joined[c] + k
              /\ cut[c] \subseteq (IF c \in Slow THEN ToSet(seen[c]) ELSE {})
        BY DEF Talk, NoGaps, Admitted
    <2>2. ASSUME NEW c \in Admitted, pc = "select", c \notin dropped, wire[c] = "up"
          PROVE  joined[c] + Len(seen[c]) = Len(log)
        <3>1. PICK i \in Occupied : client_sockets[i] = c
            BY <2>2 DEF Talk, Seated, RoomMembers
        <3> QED
            BY <2>2, <3>1 DEF Talk, CaughtUp
    <2> QED
        BY <2>1, <2>2 DEF SameConversation
<1> QED
    BY <1>1, InitInv, StepInv, InitTalk, StepTalk, PTL DEF Spec

(* The server implements ChatRoom: one order of messages for everybody,    *)
(* names given once, answers to "\connected" that count the members, and   *)
(* nobody removed who is there and listens (network.c:90-271).             *)
THEOREM ServerIsARoom == Spec => RoomSpec
<1>1. Spec => [](Inv /\ Talk)
    BY InitInv, StepInv, InitTalk, StepTalk, PTL DEF Spec
<1> QED
    BY <1>1, RoomInit, StepTalk, PTL DEF Spec, RoomSpec, Room!Spec

-----------------------------------------------------------------------------
(* Streams.  What is shown of a client's stream and what the server has    *)
(* not read of it make up what the client wrote.                           *)

(* What TextsOf puts together. *)
TextParts(tokens) ==
    [i \in DOMAIN tokens |-> IF tokens[i] \in Texts THEN <<tokens[i]>> ELSE <<>>]

LEMMA TextPartsFit ==
    ASSUME NEW s \in Seq(Tokens)
    PROVE  /\ TextParts(s) \in Seq(Seq(Texts)) /\ Len(TextParts(s)) = Len(s)
           /\ TextsOf(s) = FlattenSeq(TextParts(s))
           /\ TextsOf(s) \in Seq(Texts)
<1>1. Len(s) \in Nat /\ DOMAIN s = 1 .. Len(s)
    OBVIOUS
<1>2. \A i \in 1 .. Len(s) : TextParts(s)[i] \in Seq(Texts)
    BY <1>1 DEF TextParts
<1>3. TextParts(s) = [i \in 1 .. Len(s) |-> TextParts(s)[i]]
    BY <1>1 DEF TextParts
<1>4. TextParts(s) \in Seq(Seq(Texts)) /\ Len(TextParts(s)) = Len(s)
    BY <1>1, <1>2, <1>3
<1>5. TextsOf(s) = FlattenSeq(TextParts(s))
    BY DEF TextsOf, TextParts
<1> QED
    BY <1>4, <1>5, FlattenAppend

(* The texts of two pieces are those of the whole. *)
LEMMA TextsOfConcat ==
    ASSUME NEW s \in Seq(Tokens), NEW t \in Seq(Tokens)
    PROVE  TextsOf(s \o t) = TextsOf(s) \o TextsOf(t)
<1>1. /\ s \o t \in Seq(Tokens)
      /\ Len(s) \in Nat /\ Len(t) \in Nat /\ Len(s \o t) = Len(s) + Len(t)
      /\ \A i \in 1 .. Len(s) + Len(t) :
             (s \o t)[i] = IF i <= Len(s) THEN s[i] ELSE t[i - Len(s)]
    BY ConcatProperties, LenProperties
<1>2. /\ TextParts(s) \in Seq(Seq(Texts)) /\ Len(TextParts(s)) = Len(s)
      /\ TextParts(t) \in Seq(Seq(Texts)) /\ Len(TextParts(t)) = Len(t)
      /\ TextParts(s \o t) \in Seq(Seq(Texts)) /\ Len(TextParts(s \o t)) = Len(s) + Len(t)
    BY <1>1, TextPartsFit
<1> DEFINE u == TextParts(s) \o TextParts(t)
<1>3. /\ u \in Seq(Seq(Texts)) /\ Len(u) = Len(s) + Len(t)
      /\ \A i \in 1 .. Len(s) + Len(t) :
             u[i] = IF i <= Len(s) THEN TextParts(s)[i] ELSE TextParts(t)[i - Len(s)]
    <2> DEFINE v == TextParts(s)
               w == TextParts(t)
    <2>1. v \in Seq(Seq(Texts)) /\ w \in Seq(Seq(Texts)) /\ Len(v) = Len(s) /\ Len(w) = Len(t)
        BY <1>2
    <2> HIDE DEF v, w
    <2>2. /\ v \o w \in Seq(Seq(Texts)) /\ Len(v \o w) = Len(v) + Len(w)
          /\ \A i \in 1 .. Len(v) + Len(w) :
                 (v \o w)[i] = IF i <= Len(v) THEN v[i] ELSE w[i - Len(v)]
        BY <2>1, ConcatProperties
    <2> QED
        BY <2>1, <2>2 DEF v, w
<1>4. DOMAIN s = 1 .. Len(s) /\ DOMAIN t = 1 .. Len(t) /\ DOMAIN (s \o t) = 1 .. Len(s) + Len(t)
    BY <1>1, LenProperties
<1>5. ASSUME NEW i \in 1 .. Len(s) + Len(t)
      PROVE  TextParts(s \o t)[i] = u[i]
    <2>1. CASE i <= Len(s)
        <3>1. i \in DOMAIN s /\ i \in DOMAIN (s \o t) /\ (s \o t)[i] = s[i]
            BY <1>1, <1>4, <2>1
        <3>2. TextParts(s \o t)[i] = TextParts(s)[i]
            BY <3>1 DEF TextParts
        <3> QED
            BY <1>3, <2>1, <3>2
    <2>2. CASE ~ (i <= Len(s))
        <3>1. /\ i - Len(s) \in DOMAIN t /\ i \in DOMAIN (s \o t)
              /\ (s \o t)[i] = t[i - Len(s)]
            BY <1>1, <1>4, <2>2
        <3>2. TextParts(s \o t)[i] = TextParts(t)[i - Len(s)]
            BY <3>1 DEF TextParts
        <3> QED
            BY <1>3, <2>2, <3>2
    <2> QED
        BY <2>1, <2>2
<1>6. TextParts(s \o t) = u
    <2> HIDE DEF u
    <2> QED
        BY <1>2, <1>3, <1>5, SeqEqual
<1> QED
    <2>1. FlattenSeq(u) = FlattenSeq(TextParts(s)) \o FlattenSeq(TextParts(t))
        BY <1>2, FlattenConcat
    <2>2. /\ TextsOf(s \o t) = FlattenSeq(TextParts(s \o t))
          /\ TextsOf(s) = FlattenSeq(TextParts(s)) /\ TextsOf(t) = FlattenSeq(TextParts(t))
        BY <1>1, TextPartsFit
    <2> HIDE DEF u
    <2> QED
        BY <1>6, <2>1, <2>2

LEMMA TextsOfOne ==
    ASSUME NEW e \in Tokens
    PROVE  TextsOf(<<e>>) = IF e \in Texts THEN <<e>> ELSE <<>>
<1> DEFINE p == IF e \in Texts THEN <<e>> ELSE <<>>
<1>1. TextParts(<<e>>) = Append(<<>>, p)
    BY DEF TextParts
<1>2. p \in Seq(Texts) /\ <<>> \in Seq(Seq(Texts))
    OBVIOUS
<1> HIDE DEF p
<1>3. FlattenSeq(Append(<<>>, p)) = FlattenSeq(<<>>) \o p
    BY <1>2, FlattenAppend
<1>4. FlattenSeq(<<>>) = <<>>
    BY DEF FlattenSeq
<1>5. TextsOf(<<e>>) = <<>> \o p
    <2>1. <<e>> \in Seq(Tokens)
        OBVIOUS
    <2>2. TextsOf(<<e>>) = FlattenSeq(TextParts(<<e>>))
        BY <2>1, TextPartsFit
    <2> QED
        BY <1>1, <1>3, <1>4, <2>2
<1> QED
    BY <1>2, <1>5, ConcatEmptySeq DEF p

LEMMA TextsOfNone == TextsOf(<<>>) = <<>>
BY DEF TextsOf, FlattenSeq

(* Taking the newline off a message takes no text off it. *)
LEMMA TextsOfStripped ==
    ASSUME NEW s \in Seq(Tokens), s # <<>>
    PROVE  /\ StripNewline(s) \in Seq(Tokens)
           /\ TextsOf(StripNewline(s)) = TextsOf(s)
<1>1. PICK u \in Seq(Tokens), e \in Tokens : s = Append(u, e)
    BY SequenceEmptyOrAppend
<1>2. Last(s) = e /\ Front(s) = u
    <2>1. Len(s) = Len(u) + 1 /\ Len(u) \in Nat /\ s[Len(s)] = e
        BY <1>1, AppendProperties, LenProperties
    <2>2. SubSeq(s, 1, Len(u)) = u
        BY <1>1
    <2>3. Len(s) - 1 = Len(u)
        BY <2>1
    <2> QED
        BY <2>1, <2>2, <2>3 DEF Last, Front
<1>3. CASE e # Newline
    BY <1>2, <1>3 DEF StripNewline
<1>4. CASE e = Newline
    <2>1. StripNewline(s) = u
        BY <1>2, <1>4 DEF StripNewline
    <2>2. s = u \o <<e>> /\ <<e>> \in Seq(Tokens)
        BY <1>1, AppendIsConcat
    <2>3. TextsOf(s) = TextsOf(u) \o TextsOf(<<e>>)
        BY <2>2, TextsOfConcat
    <2>4. TextsOf(<<e>>) = <<>> /\ TextsOf(u) \in Seq(Texts)
        BY <1>4, TextsOfOne, TextsAssumption, TextPartsFit
    <2> QED
        BY <2>1, <2>3, <2>4, ConcatEmptySeq
<1> QED
    BY <1>3, <1>4

(* A message adds its texts to what is shown of its writer, and nothing to *)
(* what is shown of others.                                                *)
Bodies(messages, c) ==
    [k \in DOMAIN messages |-> IF messages[k].conn = c THEN messages[k].body ELSE <<>>]

LEMMA BodiesFit ==
    ASSUME NEW messages \in Seq(Message), NEW c
    PROVE  /\ Bodies(messages, c) \in Seq(Seq(Tokens))
           /\ Len(Bodies(messages, c)) = Len(messages)
<1>1. Len(messages) \in Nat /\ DOMAIN messages = 1 .. Len(messages)
    OBVIOUS
<1>2. \A i \in 1 .. Len(messages) : Bodies(messages, c)[i] \in Seq(Tokens)
    <2> TAKE i \in 1 .. Len(messages)
    <2>1. messages[i] \in Message
        OBVIOUS
    <2>2. messages[i].body \in Seq(Tokens)
        BY <2>1 DEF Message
    <2> QED
        BY <1>1, <2>2 DEF Bodies
<1>3. Bodies(messages, c) = [i \in 1 .. Len(messages) |-> Bodies(messages, c)[i]]
    BY <1>1 DEF Bodies
<1> QED
    BY <1>1, <1>2, <1>3

LEMMA BodiesAppend ==
    ASSUME NEW messages \in Seq(Message), NEW m \in Message, NEW c
    PROVE  TextsOf(FlattenSeq(Bodies(Append(messages, m), c)))
               = IF m.conn = c THEN TextsOf(FlattenSeq(Bodies(messages, c))) \o TextsOf(m.body)
                 ELSE TextsOf(FlattenSeq(Bodies(messages, c)))
<1> DEFINE b == IF m.conn = c THEN m.body ELSE <<>>
           old == Bodies(messages, c)
           new == Bodies(Append(messages, m), c)
<1>1. m.body \in Seq(Tokens)
    BY DEF Message
<1>2. b \in Seq(Tokens) /\ old \in Seq(Seq(Tokens)) /\ Len(old) = Len(messages)
    BY <1>1, BodiesFit
<1>3. /\ Append(messages, m) \in Seq(Message)
      /\ Len(Append(messages, m)) = Len(messages) + 1 /\ Len(messages) \in Nat
      /\ \A i \in 1 .. Len(messages) : Append(messages, m)[i] = messages[i]
      /\ Append(messages, m)[Len(messages) + 1] = m
    BY AppendProperties, LenProperties
<1>4. new \in Seq(Seq(Tokens)) /\ Len(new) = Len(messages) + 1
    BY <1>3, BodiesFit
<1>5. ASSUME NEW i \in 1 .. Len(messages) + 1
      PROVE  new[i] = Append(old, b)[i]
    <2>1. i \in DOMAIN Append(messages, m)
        BY <1>3, LenProperties
    <2>2. new[i] = IF Append(messages, m)[i].conn = c THEN Append(messages, m)[i].body ELSE <<>>
        BY <2>1 DEF Bodies
    <2>3. CASE i = Len(messages) + 1
        <3>1. Append(old, b)[i] = b
            BY <1>2, <2>3, AppendProperties
        <3> QED
            BY <1>3, <2>2, <2>3, <3>1
    <2>4. CASE i # Len(messages) + 1
        <3>1. i \in 1 .. Len(messages) /\ i \in DOMAIN messages
            BY <1>3, <2>4, LenProperties
        <3>2. old[i] = IF messages[i].conn = c THEN messages[i].body ELSE <<>>
            BY <3>1 DEF Bodies
        <3>3. Append(old, b)[i] = old[i]
            BY <1>2, <3>1, AppendProperties
        <3> QED
            BY <1>3, <2>2, <3>1, <3>2, <3>3
    <2> QED
        BY <2>3, <2>4
<1>6. new = Append(old, b)
    <2>1. Append(old, b) \in Seq(Seq(Tokens)) /\ Len(Append(old, b)) = Len(messages) + 1
        BY <1>2, AppendProperties
    <2> HIDE DEF old, new, b
    <2> QED
        BY <1>4, <1>5, <2>1, SeqEqual
<1>7. FlattenSeq(new) = FlattenSeq(old) \o b /\ FlattenSeq(old) \in Seq(Tokens)
    <2> HIDE DEF old, new, b
    <2> QED
        BY <1>2, <1>6, FlattenAppend
<1>8. TextsOf(FlattenSeq(new)) = TextsOf(FlattenSeq(old)) \o TextsOf(b)
    <2> HIDE DEF old, new, b
    <2> QED
        BY <1>2, <1>7, TextsOfConcat
<1>9. CASE m.conn = c
    BY <1>8, <1>9
<1>10. CASE m.conn # c
    <2>1. TextsOf(b) = <<>> /\ TextsOf(FlattenSeq(old)) \in Seq(Texts)
        BY <1>7, <1>10, TextsOfNone, TextPartsFit
    <2> HIDE DEF old, new, b
    <2>2. TextsOf(FlattenSeq(new)) = TextsOf(FlattenSeq(old))
        BY <1>8, <2>1, ConcatEmptySeq
    <2> QED
        BY <1>10, <2>2 DEF old, new
<1> QED
    BY <1>9, <1>10

LEMMA TextsAssociate ==
    \A s, t, u \in Seq(Texts) : (s \o t) \o u = s \o (t \o u)
BY ConcatAssociative

LEMMA LoggedIs ==
    \A c : Logged(c) = TextsOf(FlattenSeq(Bodies(log, c)))
BY DEF Logged, Bodies

LEMMA LoggedType ==
    ASSUME TypeOK, NEW c
    PROVE  Logged(c) \in Seq(Texts)
<1>1. log \in Seq(Message)
    BY DEF TypeOK
<1>2. Bodies(log, c) \in Seq(Seq(Tokens))
    BY <1>1, BodiesFit
<1>3. FlattenSeq(Bodies(log, c)) \in Seq(Tokens)
    BY <1>2, FlattenAppend
<1> QED
    BY <1>3, LoggedIs, TextPartsFit

LEMMA StreamInit == Init => StreamKept
<1> SUFFICES ASSUME Init, NEW c \in Conns
             PROVE  Logged(c) \o TextsOf(inbox[c]) = sent[c]
    BY DEF StreamKept
<1>1. log = <<>> /\ inbox[c] = <<>> /\ sent[c] = <<>>
    BY DEF Init
<1>2. Logged(c) = <<>>
    <2>1. Bodies(<<>>, c) = <<>>
        BY DEF Bodies
    <2>2. FlattenSeq(<<>>) = <<>>
        BY DEF FlattenSeq
    <2> QED
        BY <1>1, <2>1, <2>2, LoggedIs, TextsOfNone
<1>3. <<>> \o <<>> = <<>>
    OBVIOUS
<1> QED
    BY <1>1, <1>2, <1>3, TextsOfNone

LEMMA StreamUntouched ==
    ASSUME StreamKept, UNCHANGED <<log, inbox, sent>>
    PROVE  StreamKept'
BY DEF StreamKept, Logged, TextsOf

(* What a client writes is still to be read. *)
LEMMA StreamWrite ==
    ASSUME TypeOK, StreamKept, NEW c \in Conns, NEW tokens \in Seq(Tokens),
           Write(c, tokens),
           sent' = [sent EXCEPT ![c] = @ \o TextsOf(tokens)]
    PROVE  StreamKept'
<1> SUFFICES ASSUME NEW d \in Conns
             PROVE  (Logged(d) \o TextsOf(inbox[d]) = sent[d])'
    BY DEF StreamKept
<1>1. log' = log /\ inbox' = [inbox EXCEPT ![c] = @ \o tokens]
    BY DEF Write
<1>2. Logged(d)' = Logged(d) /\ Logged(d) \in Seq(Texts)
    BY <1>1, LoggedType DEF Logged
<1>3. Logged(d) \o TextsOf(inbox[d]) = sent[d] /\ inbox[d] \in Seq(Tokens)
    BY DEF StreamKept, TypeOK
<1>4. CASE d # c
    <2>1. inbox'[d] = inbox[d] /\ sent'[d] = sent[d]
        BY <1>1, <1>4 DEF TypeOK
    <2>2. TextsOf(inbox[d])' = TextsOf(inbox[d])
        BY <2>1 DEF TextsOf
    <2> QED
        BY <1>2, <1>3, <2>1, <2>2
<1>5. CASE d = c
    <2>1. inbox'[d] = inbox[d] \o tokens /\ sent'[d] = sent[d] \o TextsOf(tokens)
        BY <1>1, <1>5 DEF TypeOK
    <2>2. TextsOf(inbox[d])' = TextsOf(inbox[d] \o tokens)
        BY <2>1 DEF TextsOf
    <2>3. TextsOf(inbox[d] \o tokens) = TextsOf(inbox[d]) \o TextsOf(tokens)
        BY <1>3, TextsOfConcat
    <2>4. TextsOf(inbox[d]) \in Seq(Texts) /\ TextsOf(tokens) \in Seq(Texts)
        BY <1>3, TextPartsFit
    <2>5. Logged(d) \o (TextsOf(inbox[d]) \o TextsOf(tokens))
              = (Logged(d) \o TextsOf(inbox[d])) \o TextsOf(tokens)
        BY <1>2, <2>4, TextsAssociate
    <2> QED
        BY <1>2, <1>3, <2>1, <2>2, <2>3, <2>5
<1> QED
    BY <1>4, <1>5

LEMMA ClientStreams ==
    ASSUME TypeOK, StreamKept, NEW c \in Conns, Client(c)
    PROVE  StreamKept'
<1>0. sent[c] \in Seq(Texts) /\ <<>> \in Seq(Texts)
    BY DEF TypeOK
<1>1. CASE Refuse(c) \/ Connect(c) \/ ClientRead(c) \/ ClientClose(c)
    BY <1>1, StreamUntouched DEF Refuse, Connect, ClientRead, ClientClose, histVars
<1>2. ASSUME NEW t \in Texts PROVE TextsOf(<<t>>) = <<t>> /\ <<t>> \in Seq(Tokens)
    BY TextsOfOne DEF Tokens
<1>3. TextsOf(<<Newline>>) = <<>> /\ <<Newline>> \in Seq(Tokens)
    BY TextsOfOne, TextsAssumption DEF Tokens
<1>4. ASSUME NEW t \in Texts, sent' = [sent EXCEPT ![c] = Append(@, t)]
      PROVE  sent' = [sent EXCEPT ![c] = @ \o <<t>>]
    BY <1>0, <1>4, AppendIsConcat
<1>5. CASE ClientLine(c)
    <2>1. PICK t \in Texts : /\ Write(c, <<t, Newline>>)
                             /\ sent' = [sent EXCEPT ![c] = Append(@, t)]
        BY <1>5 DEF ClientLine
    <2>2. /\ <<t, Newline>> = <<t>> \o <<Newline>> /\ <<t, Newline>> \in Seq(Tokens)
          /\ <<t>> \o <<>> = <<t>>
        BY <1>2, <1>3
    <2>3. TextsOf(<<t, Newline>>) = <<t>>
        BY <1>2, <1>3, <2>2, TextsOfConcat
    <2>4. sent' = [sent EXCEPT ![c] = @ \o TextsOf(<<t, Newline>>)]
        BY <1>4, <2>1, <2>3
    <2> QED
        BY <2>1, <2>2, <2>4, StreamWrite
<1>6. CASE SendText(c)
    <2>1. PICK t \in Texts : /\ Write(c, <<t>>)
                             /\ sent' = [sent EXCEPT ![c] = Append(@, t)]
        BY <1>6 DEF SendText
    <2>2. sent' = [sent EXCEPT ![c] = @ \o TextsOf(<<t>>)]
        BY <1>2, <1>4, <2>1
    <2> QED
        BY <1>2, <2>1, <2>2, StreamWrite
<1>7. CASE SendNewline(c)
    <2>1. Write(c, <<Newline>>) /\ sent' = sent
        BY <1>7 DEF SendNewline
    <2>2. sent[c] \o TextsOf(<<Newline>>) = sent[c]
        BY <1>0, <1>3, ConcatEmptySeq
    <2>3. sent' = [sent EXCEPT ![c] = @ \o TextsOf(<<Newline>>)]
        BY <2>1, <2>2 DEF TypeOK
    <2> QED
        BY <1>3, <2>1, <2>3, StreamWrite
<1> QED
    BY <1>1, <1>5, <1>6, <1>7 DEF Client

(* What recv returns is taken off the front of what was not read yet, and  *)
(* broadcast without its newline.                                          *)
LEMMA ReceiveStreams ==
    ASSUME TypeOK, StreamKept, NEW i \in Slots, Receive(i)
    PROVE  StreamKept'
<1> DEFINE c == client_sockets[i]
<1>0. c \in Conns
    BY ConnsAssumption DEF Receive, Serves, TypeOK
<1>1. inbox[c] \in Seq(Tokens) /\ Len(inbox[c]) \in Nat /\ DOMAIN inbox[c] = 1 .. Len(inbox[c])
    BY <1>0 DEF TypeOK
<1>2. PICK n \in DOMAIN inbox[c] :
          /\ log' = Append(log, Formatted(i, SubSeq(inbox[c], 1, n)))
          /\ inbox' = [inbox EXCEPT ![c] = SubSeq(@, n + 1, Len(@))]
    BY DEF Receive
<1> DEFINE first == SubSeq(inbox[c], 1, n)
           rest == SubSeq(inbox[c], n + 1, Len(inbox[c]))
           m == Formatted(i, first)
<1>3. first \in Seq(Tokens) /\ rest \in Seq(Tokens) /\ first # <<>> /\ inbox[c] = first \o rest
    <2>1. n \in 1 .. Len(inbox[c]) /\ n \in 0 .. Len(inbox[c])
        BY <1>1, <1>2
    <2>2. /\ \A k \in 1 .. n : inbox[c][k] \in Tokens
          /\ \A k \in n + 1 .. Len(inbox[c]) : inbox[c][k] \in Tokens
        BY <1>1, <2>1
    <2>3. first \in Seq(Tokens) /\ Len(first) = n
        BY <1>1, <2>1, <2>2, SubSeqProperties
    <2>4. rest \in Seq(Tokens)
        BY <1>1, <2>1, <2>2, SubSeqProperties
    <2>5. first \o rest = SubSeq(inbox[c], 1, Len(inbox[c]))
        <3>1. 1 \in 1 .. Len(inbox[c]) + 1 /\ n \in 1 - 1 .. Len(inbox[c])
              /\ Len(inbox[c]) \in n .. Len(inbox[c])
            BY <1>1, <2>1
        <3> QED
            BY <1>1, <3>1, ConcatAdjacentSubSeq
    <2>6. SubSeq(inbox[c], 1, Len(inbox[c])) = inbox[c]
        BY <1>1, SubSeqFull
    <2>7. first # <<>>
        BY <2>1, <2>3, EmptySeq
    <2> QED
        BY <2>3, <2>4, <2>5, <2>6, <2>7
<1>4. StripNewline(first) \in Seq(Tokens) /\ TextsOf(StripNewline(first)) = TextsOf(first)
    BY <1>3, TextsOfStripped
<1>5. m \in Message /\ m.conn = c /\ m.body = StripNewline(first)
    BY <1>0, <1>4 DEF Formatted, Message, TypeOK
<1>6. log \in Seq(Message) /\ log' = Append(log, m) /\ sent' = sent
    BY <1>2 DEF TypeOK, Receive
<1> HIDE DEF first, rest, m
<1>7. /\ inbox'[c] = rest
      /\ \A d \in Conns : d # c => inbox'[d] = inbox[d]
    BY <1>0, <1>2 DEF TypeOK, rest
<1> SUFFICES ASSUME NEW d \in Conns
             PROVE  (Logged(d) \o TextsOf(inbox[d]) = sent[d])'
    BY DEF StreamKept
<1>8. Logged(d)' = IF d = c THEN Logged(d) \o TextsOf(first) ELSE Logged(d)
    <2>1. Logged(d)' = TextsOf(FlattenSeq(Bodies(Append(log, m), d)))
        BY <1>6 DEF Logged, TextsOf, Bodies
    <2> QED
        BY <1>4, <1>5, <1>6, <2>1, BodiesAppend, LoggedIs
<1>9. Logged(d) \o TextsOf(inbox[d]) = sent[d]
    BY DEF StreamKept
<1>10. CASE d # c
    <2>1. TextsOf(inbox[d])' = TextsOf(inbox[d])
        BY <1>7, <1>10 DEF TextsOf
    <2> QED
        BY <1>6, <1>8, <1>9, <1>10, <2>1
<1>11. CASE d = c
    <2>1. TextsOf(inbox[d])' = TextsOf(rest)
        BY <1>7, <1>11 DEF TextsOf
    <2>2. TextsOf(inbox[d]) = TextsOf(first) \o TextsOf(rest)
        BY <1>3, <1>11, TextsOfConcat
    <2>3. Logged(d) \in Seq(Texts) /\ TextsOf(first) \in Seq(Texts) /\ TextsOf(rest) \in Seq(Texts)
        BY <1>3, LoggedType, TextPartsFit
    <2>4. (Logged(d) \o TextsOf(first)) \o TextsOf(rest)
              = Logged(d) \o (TextsOf(first) \o TextsOf(rest))
        BY <2>3, TextsAssociate
    <2> QED
        BY <1>6, <1>8, <1>9, <1>11, <2>1, <2>2, <2>4
<1> QED
    BY <1>10, <1>11

LEMMA StreamStep == TypeOK /\ StreamKept /\ [Next]_vars => StreamKept'
<1> SUFFICES ASSUME TypeOK, StreamKept, [Next]_vars PROVE StreamKept'
    OBVIOUS
<1>1. ASSUME NEW c \in Conns, Client(c) PROVE StreamKept'
    BY <1>1, ClientStreams
<1>2. ASSUME NEW i \in Slots, Receive(i) PROVE StreamKept'
    BY <1>2, ReceiveStreams
<1>3. CASE Select \/ Accept \/ EndScan \/ EndCast \/ UNCHANGED vars
    BY <1>3, StreamUntouched
    DEF Select, Accept, EndScan, EndCast, vars, netVars, histVars
<1>4. ASSUME NEW i \in Slots, Drop(i) \/ CastDelivered(i) \/ CastCut(i) \/ CastFails(i) \/ CastKilled(i)
      PROVE  StreamKept'
    BY <1>4, StreamUntouched
    DEF Drop, CastDelivered, CastCut, CastFails, CastKilled, netVars, histVars
<1> QED
    BY <1>1, <1>2, <1>3, <1>4 DEF Next, Server, Dead

(* However recv cuts the stream, and whatever else the server does between *)
(* two reads, what a client wrote is shown in order, once and completely   *)
(* (network.c:224-267).                                                    *)
THEOREM NothingLeftOut == Spec => []StreamKept
<1>1. Inv => TypeOK
    BY DEF Inv
<1> QED
    BY <1>1, InitInv, StepInv, StreamInit, StreamStep, PTL DEF Spec

-----------------------------------------------------------------------------
(* Leaving.  A connection that was dropped, whose client reads, was left by *)
(* its client; and what the client had written by then was read, unless    *)
(* the server got an error from it.                                        *)
LeftFirst ==
    \A c \in (Admitted \cap dropped) \ Slow :
        /\ wire[c] \in {"fin", "finsent", "finrst", "reset"}
        /\ wire[c] = "fin" => inbox[c] = <<>>

(* A client that has not closed its connection has one. *)
Open == \A c \in Conns : client[c] \in {"open", "half", "done"} => wire[c] = "up"

(* The server drops what it has accepted, no sooner.                       *)
NotDroppedYet ==
    /\ \A c \in ToSet(backlog) : c \notin dropped
    /\ \A c \in dropped : client[c] # "away"

Leaving == LeftFirst /\ Open /\ NotDroppedYet

LEMMA LeavingInit == Init => Leaving
BY DEF Init, Leaving, LeftFirst, Open, NotDroppedYet, Admitted, ToSet

LEMMA ClientLeaves ==
    ASSUME Inv, Leaving, NEW c \in Conns, Client(c)
    PROVE  Leaving'
<1>0. /\ client \in [Conns -> {"away", "open", "half", "done", "gone"}]
      /\ wire \in [Conns -> WireStates] /\ inbox \in [Conns -> Seq(Tokens)]
      /\ backlog \in Seq(Conns) /\ dropped \subseteq Conns
    BY DEF Inv, TypeOK
<1>1. ToSet(backlog) \subseteq Conns /\ Admitted \subseteq Conns
    BY <1>0 DEF ToSet, Admitted
<1>2. CASE Connect(c)
    <2>1. /\ client[c] = "away" /\ id[c] = 0 /\ c \notin dropped
          /\ client' = [client EXCEPT ![c] = "open"] /\ wire' = [wire EXCEPT ![c] = "up"]
          /\ backlog' = Append(backlog, c)
          /\ UNCHANGED <<inbox, id, dropped>>
        BY <1>2 DEF Connect, Inv, Fits, BacklogFit, Leaving, NotDroppedYet, histVars
    <2>2. ToSet(backlog') = ToSet(backlog) \cup {c}
        BY <1>0, <2>1, AppendedProperties
    <2>3. LeftFirst'
        BY <1>0, <1>1, <2>1 DEF Leaving, LeftFirst, Admitted
    <2>4. Open'
        BY <1>0, <2>1 DEF Leaving, Open
    <2>5. NotDroppedYet'
        BY <1>0, <2>1, <2>2 DEF Leaving, NotDroppedYet
    <2> QED
        BY <2>3, <2>4, <2>5 DEF Leaving
<1>3. CASE Refuse(c)
    <2>1. /\ wire[c] = "finsent" /\ wire' = [wire EXCEPT ![c] = "finrst"]
          /\ UNCHANGED <<client, backlog, inbox, id, dropped>>
        BY <1>3 DEF Refuse, histVars
    <2>2. LeftFirst'
        BY <1>0, <1>1, <2>1 DEF Leaving, LeftFirst, Admitted
    <2>3. Open' /\ NotDroppedYet'
        BY <1>0, <2>1 DEF Leaving, Open, NotDroppedYet
    <2> QED
        BY <2>2, <2>3 DEF Leaving
<1>4. ASSUME NEW tokens, Write(c, tokens), client[c] # "away",
             client' = client \/ (client[c] \in {"open", "half"} /\
                 \E s \in {"half", "done"} : client' = [client EXCEPT ![c] = s])
      PROVE  Leaving'
    <2>1. /\ c \notin dropped /\ inbox' = [inbox EXCEPT ![c] = @ \o tokens]
          /\ UNCHANGED <<wire, backlog, id, dropped>>
        BY <1>4 DEF Write
    <2>2. LeftFirst'
        BY <1>0, <1>1, <2>1 DEF Leaving, LeftFirst, Admitted
    <2>3. /\ \A d \in Conns : client'[d] = "away" <=> client[d] = "away"
          /\ \A d \in Conns : client'[d] \in {"open", "half", "done"}
                                  <=> client[d] \in {"open", "half", "done"}
        BY <1>0, <1>4
    <2>4. Open' /\ NotDroppedYet'
        BY <1>0, <2>1, <2>3 DEF Leaving, Open, NotDroppedYet
    <2> QED
        BY <2>2, <2>4 DEF Leaving
<1>5. CASE ClientLine(c)
    BY <1>4, <1>5 DEF ClientLine
<1>6. CASE SendText(c)
    BY <1>4, <1>6 DEF SendText
<1>7. CASE SendNewline(c)
    BY <1>4, <1>7 DEF SendNewline
<1>8. CASE ClientRead(c)
    <2>1. UNCHANGED <<client, wire, inbox, backlog, id, dropped>>
        BY <1>8 DEF ClientRead, histVars
    <2> QED
        BY <2>1 DEF Leaving, LeftFirst, Open, NotDroppedYet, Admitted
<1>9. CASE ClientClose(c)
    <2>1. /\ client[c] \in {"open", "done"} /\ wire[c] = "up"
          /\ client' = [client EXCEPT ![c] = "gone"]
          /\ \E s \in {"reset", "fin"} : wire' = [wire EXCEPT ![c] = s]
          /\ UNCHANGED <<inbox, backlog, id, dropped>>
        BY <1>9 DEF ClientClose, Leaving, Open, histVars
    <2>2. c \notin (Admitted \cap dropped) \ Slow
        BY <2>1 DEF Leaving, LeftFirst
    <2>3. LeftFirst'
        BY <1>0, <1>1, <2>1, <2>2 DEF Leaving, LeftFirst, Admitted
    <2>4. Open' /\ NotDroppedYet'
        BY <1>0, <2>1 DEF Leaving, Open, NotDroppedYet
    <2> QED
        BY <2>3, <2>4 DEF Leaving
<1> QED
    BY <1>2, <1>3, <1>5, <1>6, <1>7, <1>8, <1>9 DEF Client

(* Closing slots of connections that may be dropped. *)
LEMMA CloseLeaves ==
    ASSUME Inv, Leaving, NEW S \in SUBSET Occupied, CloseSlots(S),
           UNCHANGED <<netVars, id>>,
           \A i \in S : \/ client_sockets[i] \in Slow
                        \/ wire[client_sockets[i]] \in {"finsent", "finrst", "reset"}
                        \/ /\ wire[client_sockets[i]] = "fin"
                           /\ inbox[client_sockets[i]] = <<>>
    PROVE  Leaving'
<1>1. dropped' = dropped \cup {client_sockets[i] : i \in S}
    BY DEF CloseSlots
<1>2. UNCHANGED <<client, wire, inbox, backlog, id>>
    BY DEF netVars
<1>3. \A i \in S : client_sockets[i] \in Conns /\ id[client_sockets[i]] # 0
    BY MembersFit
<1>4. LeftFirst'
    BY <1>1, <1>2 DEF Leaving, LeftFirst, Admitted
<1>5. Open'
    BY <1>2 DEF Leaving, Open
<1>6. NotDroppedYet'
    BY <1>1, <1>2, <1>3 DEF Leaving, NotDroppedYet, Inv, Fits, BacklogFit
<1> QED
    BY <1>4, <1>5, <1>6 DEF Leaving

LEMMA AcceptLeaves ==
    ASSUME Inv, Leaving, Accept
    PROVE  Leaving'
<1> DEFINE c == Head(backlog)
<1>0. /\ wire \in [Conns -> WireStates] /\ id \in [Conns -> Nat]
      /\ inbox \in [Conns -> Seq(Tokens)]
      /\ backlog \in Seq(Conns) /\ backlog # <<>> /\ IsInjective(backlog)
      /\ dropped \subseteq Conns
    BY DEF Inv, TypeOK, Fits, BacklogFit, AcceptFits, Accept
<1>1. /\ c \in Conns /\ c \in ToSet(backlog)
      /\ ToSet(Tail(backlog)) = ToSet(backlog) \ {c}
    BY <1>0, PopProperties
<1>2. id[c] = 0 /\ client[c] # "away" /\ c \notin dropped
    BY <1>1 DEF Inv, Fits, BacklogFit, Leaving, NotDroppedYet
<1>3. backlog' = Tail(backlog) /\ client' = client /\ inbox' = inbox
    BY DEF Accept
<1>4. CASE TurnAway(c)
    <2>1. dropped' = dropped \cup {c} /\ UNCHANGED <<id, wire>>
        BY <1>4 DEF TurnAway
    <2>2. LeftFirst'
        BY <1>2, <1>3, <2>1 DEF Leaving, LeftFirst, Admitted
    <2>3. Open' /\ NotDroppedYet'
        BY <1>1, <1>2, <1>3, <2>1 DEF Leaving, Open, NotDroppedYet
    <2> QED
        BY <2>2, <2>3 DEF Leaving
<1>5. ASSUME NEW slot \in Slots, Admit(c, slot)
      PROVE  Leaving'
    <2>1. /\ dropped' = dropped /\ \A d \in Conns : d # c => id'[d] = id[d]
          /\ \A d \in Conns : d # c => wire'[d] = wire[d]
          /\ wire[c] = "up" => wire'[c] = "up"
        BY <1>0, <1>1, <1>5 DEF Admit, Delivered, Vanished
    <2>2. LeftFirst'
        BY <1>2, <1>3, <2>1 DEF Leaving, LeftFirst, Admitted
    <2>3. Open' /\ NotDroppedYet'
        BY <1>1, <1>3, <2>1 DEF Leaving, Open, NotDroppedYet
    <2> QED
        BY <2>2, <2>3 DEF Leaving
<1> QED
    BY <1>4, <1>5 DEF Accept

LEMMA LeavingStep == Inv /\ Leaving /\ [Next]_vars => Leaving'
<1> SUFFICES ASSUME Inv, Leaving, [Next]_vars PROVE Leaving'
    OBVIOUS
<1>0. /\ wire \in [Conns -> WireStates] /\ inbox \in [Conns -> Seq(Tokens)]
      /\ \A i \in Occupied : client_sockets[i] \in Conns
    BY MembersFit DEF Inv, TypeOK
<1>1. ASSUME NEW c \in Conns, Client(c) PROVE Leaving'
    BY <1>1, ClientLeaves
<1>2. CASE Select
    <2>1. PICK broken \in {{}, {i \in Occupied : Failed(client_sockets[i])}} : CloseSlots(broken)
        BY <1>2 DEF Select
    <2>2. broken \in SUBSET Occupied /\ \A i \in broken : Failed(client_sockets[i])
        OBVIOUS
    <2>3. UNCHANGED <<netVars, id>>
        BY <1>2 DEF Select
    <2> QED
        BY <2>1, <2>2, <2>3, CloseLeaves DEF Failed
<1>3. CASE Accept
    BY <1>3, AcceptLeaves
<1>4. ASSUME NEW i \in Slots, Drop(i) PROVE Leaving'
    <2>1. i \in Occupied
        BY <1>4, ConnsAssumption DEF Drop, Serves, Occupied, Inv, TypeOK
    <2>2. CloseSlots({i}) /\ HangUp(client_sockets[i]) /\ UNCHANGED <<netVars, id>>
        BY <1>4 DEF Drop
    <2>3. {i} \in SUBSET Occupied
        BY <2>1
    <2> QED
        BY <2>2, <2>3, CloseLeaves DEF HangUp, Failed
<1>5. ASSUME NEW i \in Slots, Receive(i) PROVE Leaving'
    <2> DEFINE c == client_sockets[i]
    <2>1. PICK n \in DOMAIN inbox[c] : inbox' = [inbox EXCEPT ![c] = SubSeq(@, n + 1, Len(@))]
        BY <1>5 DEF Receive
    <2>2. UNCHANGED <<client, wire, backlog, id, dropped>>
        BY <1>5 DEF Receive
    <2>3. \A d \in Conns : inbox[d] = <<>> => inbox'[d] = <<>>
        BY <1>0, <2>1
    <2>4. LeftFirst'
        BY <2>2, <2>3 DEF Leaving, LeftFirst, Admitted
    <2> QED
        BY <2>2, <2>4 DEF Leaving, Open, NotDroppedYet
<1>6. ASSUME NEW i \in Slots, CastDelivered(i) \/ CastCut(i) PROVE Leaving'
    <2> DEFINE c == client_sockets[i]
    <2>1. c \in Conns /\ UNCHANGED <<client, inbox, backlog, id, dropped>>
        BY <1>0, <1>6, MembersFit DEF CastDelivered, CastCut, SendsTo, netVars
    <2>2. wire' = wire \/ (wire[c] \in {"fin", "finsent"} /\ wire' = [wire EXCEPT ![c] = "finsent"])
        BY <1>6 DEF CastDelivered, CastCut, Delivered, Vanished, netVars
    <2>3. LeftFirst'
        BY <1>0, <2>1, <2>2 DEF Leaving, LeftFirst, Admitted
    <2>4. Open' /\ NotDroppedYet'
        BY <1>0, <2>1, <2>2 DEF Leaving, Open, NotDroppedYet
    <2> QED
        BY <2>3, <2>4 DEF Leaving
<1>7. ASSUME NEW i \in Slots, CastFails(i) PROVE Leaving'
    <2>1. /\ {i} \in SUBSET Occupied /\ CloseSlots({i}) /\ SendError(client_sockets[i])
          /\ UNCHANGED <<netVars, id>>
        BY <1>7 DEF CastFails, SendsTo
    <2> QED
        BY <2>1, CloseLeaves DEF SendError, Full
<1>8. CASE EndScan \/ EndCast \/ (\E i \in Slots : CastKilled(i)) \/ UNCHANGED vars
    <2>1. UNCHANGED <<client, wire, inbox, backlog, id, dropped>>
        BY <1>8 DEF EndScan, EndCast, CastKilled, vars, netVars, histVars
    <2> QED
        BY <2>1 DEF Leaving, LeftFirst, Open, NotDroppedYet, Admitted
<1> QED
    BY <1>1, <1>2, <1>3, <1>4, <1>5, <1>6, <1>7, <1>8 DEF Next, Server, Dead

(* Nobody who reads its messages is dropped before it left, nor, unless a  *)
(* broadcast crossed its leaving, before everything it wrote was shown     *)
(* (network.c:226-235).                                                    *)
THEOREM LeaveIsOrderly == Spec => []OrderlyLeave
<1>1. Inv /\ StreamKept /\ Leaving => OrderlyLeave
    <2> SUFFICES ASSUME Inv, StreamKept, Leaving, NEW c \in (Admitted \cap dropped) \ Slow
                 PROVE  wire[c] # "up" /\ (wire[c] = "fin" => Logged(c) = sent[c])
        BY DEF OrderlyLeave
    <2>1. wire[c] # "up" /\ (wire[c] = "fin" => inbox[c] = <<>>)
        BY DEF Leaving, LeftFirst
    <2>2. c \in Conns /\ Logged(c) \o TextsOf(inbox[c]) = sent[c] /\ Logged(c) \in Seq(Texts)
        BY LoggedType DEF Admitted, StreamKept, Inv
    <2>3. inbox[c] = <<>> => Logged(c) = sent[c]
        BY <2>2, TextsOfNone, ConcatEmptySeq
    <2> QED
        BY <2>1, <2>3
<1>2. Inv => TypeOK
    BY DEF Inv
<1> QED
    BY <1>1, <1>2, InitInv, StepInv, StreamInit, StreamStep, LeavingInit, LeavingStep, PTL DEF Spec

=============================================================================
