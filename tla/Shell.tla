-------------------------------- MODULE Shell --------------------------------
(***************************************************************************)
(* The main loop of mysh as it treats one line after the other: read it,   *)
(* cut it into tokens, replace variables token by token, decide what it is *)
(* and, if it is an assignment, change the variable list.                  *)
(*                                                                         *)
(* Replaced tokens live in memory of their own, which the shell remembers  *)
(* in an array that grows, and frees when the next line has been read.     *)
(* Memory may be short at every allocation.  The shell is built with       *)
(* AddressSanitizer (Makefile): access outside allocated memory ends it,   *)
(* pc = "aborted".                                                         *)
(***************************************************************************)
EXTENDS CommandLine

CONSTANTS
    Batches,      \* what the user may type at once: sequences of lines
    Inputs,       \* what the shell may read from: "terminal", "pipe"
    MaxBatches,   \* how often the user types: a bound for TLC
    Capacity,     \* initial expanded_capacity: 10 in the code
    AllocFails    \* may an allocation fail?

Lines == UNION {ToSet(b) : b \in Batches}

ASSUME InputAssumption ==
    /\ \A b \in Batches : b \in Seq(Seq(Symbol) \ {<<>>})
    /\ Inputs \subseteq {"terminal", "pipe"}
ASSUME SizeAssumption ==
    MaxBatches \in Nat /\ Capacity \in Nat \ {0} /\ AllocFails \in BOOLEAN

VARIABLES
    pc,
    from,       \* what stdin is
    typed,      \* how often the user has typed
    stdin,      \* lines waiting to be read
    input,      \* input_buf as it was read
    tokens,     \* token_arr
    hasPipe,    \* has_pipe: found before variables are replaced
    at,         \* the token being looked at
    varList,    \* var_list
    message,    \* what send_message has sent for this line, or the last one
    \* the memory of replaced tokens
    count,      \* expanded_count
    capacity,   \* expanded_capacity
    room,       \* how many pointers the array has memory for; 0: NULL
    stale,      \* tokens whose memory has been freed
    \* history
    short       \* did an allocation fail while this line was executed?

commandVars == <<input, tokens, hasPipe, at, stale>>
arrayVars == <<count, capacity, room>>
inputVars == <<from, typed, stdin>>
vars == <<pc, inputVars, commandVars, arrayVars, varList, message, short>>

Points == {"prompt", "tokenize", "expand", "dispatch", "exited", "aborted"}

TypeOK ==
    /\ pc \in Points
    /\ from \in {"terminal", "pipe"}
    /\ typed \in 0 .. MaxBatches
    /\ stdin \in Seq(Lines)
    /\ Len(input) <= MaxLen
    /\ at \in 1 .. Len(tokens) + 1
    /\ hasPipe \in BOOLEAN
    /\ \A i \in DOMAIN varList : Len(varList[i].value) <= MaxLen
    /\ Len(message) <= BufferSize - 2
    /\ count \in Nat /\ capacity \in Nat /\ room \in Nat
    /\ stale \subseteq DOMAIN tokens
    /\ short \in BOOLEAN

Init ==
    /\ pc = "prompt"
    /\ from \in Inputs
    /\ typed = 0
    /\ stdin = <<>>
    /\ input = <<>>
    /\ tokens = <<>>
    /\ hasPipe = FALSE
    /\ at = 1
    /\ varList = <<>>
    /\ message = <<>>
    /\ count = 0 /\ capacity = 0 /\ room = 0
    /\ stale = {}
    /\ short = FALSE

(* What is typed while a line is executed might as well be typed at the    *)
(* next prompt: nothing reads it before.                                   *)
Type ==
    /\ pc = "prompt"
    /\ stdin = <<>>
    /\ typed < MaxBatches
    /\ typed' = typed + 1
    /\ stdin' \in Batches
    /\ UNCHANGED <<pc, from, commandVars, arrayVars, varList, message, short>>

(* token_arr is not looked at again before tokenize_input has filled it:   *)
(* the model forgets it.                                                   *)
NextPrompt ==
    /\ pc' = "prompt"
    /\ input' = <<>> /\ tokens' = <<>> /\ hasPipe' = FALSE /\ at' = 1
    /\ stale' = {}

Stop(how) == pc' = how /\ UNCHANGED commandVars

(* free_expanded_memory, once the next line has been read.                 *)
FreeExpanded_KeepsCount == room' = 0 /\ UNCHANGED <<count, capacity>>

FreeExpanded ==
    IF room = 0 THEN UNCHANGED arrayVars ELSE room' = 0 /\ count' = 0 /\ capacity' = 0

(* get_input.  A read takes one line from a terminal, and from a pipe      *)
(* whatever is there.                                                      *)
Available ==
    IF from = "terminal" /\ stdin # <<>> THEN Head(stdin) ELSE FlattenSeq(stdin)

ReadLine ==
    /\ pc = "prompt"
    /\ stdin # <<>>
    /\ Len(Available) <= MaxLen
    /\ stdin' = IF from = "terminal" THEN Tail(stdin) ELSE <<>>
    /\ input' = Available
    /\ FreeExpanded
    /\ pc' = "tokenize"
    /\ short' = FALSE
    /\ message' = <<>>
    /\ UNCHANGED <<from, typed, tokens, hasPipe, at, stale, varList>>

(* Nothing left to read, or more than MAX_STR_LEN at once, which get_input *)
(* reports as an error: either ends the shell.                             *)
ReadNothing ==
    /\ pc = "prompt"
    /\ Available = <<>> \/ Len(Available) > MaxLen
    /\ FreeExpanded
    /\ Stop("exited")
    /\ UNCHANGED <<inputVars, varList, message, short>>

(* The buffer has MaxLen + 1 symbols; the blanks that tokenize_input puts  *)
(* into the line may need more.                                            *)
Tokenize ==
    /\ pc = "tokenize"
    /\ Len(Padded(input)) <= MaxLen
    /\ \/ Tokenized(input) = <<>> /\ NextPrompt
       \/ /\ Tokenized(input) # <<>>
          /\ tokens' = Tokenized(input)
          /\ hasPipe' = (<<"|">> \in ToSet(tokens'))
          /\ pc' = IF Head(tokens') = <<"exit">> THEN "exited" ELSE "expand"
          /\ UNCHANGED <<input, at, stale>>
    /\ UNCHANGED <<inputVars, arrayVars, varList, message, short>>

OverrunLine ==
    /\ pc = "tokenize"
    /\ Len(Padded(input)) > MaxLen
    /\ Stop("aborted")
    /\ UNCHANGED <<inputVars, arrayVars, varList, message, short>>

-----------------------------------------------------------------------------
(* expand_variables_in_tokens and track_expanded_memory.                   *)

NeedsExpansion(i) ==
    /\ "$" \in ToSet(tokens[i])
    /\ ~(i = 1 /\ IsVariableAssignment(tokens[1]))

Expanding ==
    /\ pc = "expand"
    /\ at <= Len(tokens)
    /\ at' = at + 1
    /\ UNCHANGED <<pc, inputVars, input, hasPipe, varList, message>>

SkipToken ==
    /\ Expanding
    /\ ~NeedsExpansion(at)
    /\ UNCHANGED <<tokens, stale, arrayVars, short>>

(* expand_variables returns NULL: the token stays as it is. *)
ExpandFails ==
    /\ AllocFails
    /\ Expanding
    /\ NeedsExpansion(at)
    /\ short' = TRUE
    /\ UNCHANGED <<tokens, stale, arrayVars>>

(* The array of pointers is allocated first, or doubled when it is full.   *)
MustAllocate == room = 0
MustGrow == room # 0 /\ count >= capacity

NewCapacity ==
    IF MustAllocate THEN Capacity ELSE IF MustGrow THEN 2 * capacity ELSE capacity
NewRoom == IF MustAllocate \/ MustGrow THEN NewCapacity ELSE room

ExpandToken ==
    /\ Expanding
    /\ NeedsExpansion(at)
    /\ tokens' = [tokens EXCEPT ![at] = ExpandVariables(@, varList)]
    /\ capacity' = NewCapacity
    /\ \/ /\ count < NewRoom
          /\ room' = NewRoom
          /\ count' = count + 1
          /\ UNCHANGED <<stale, short>>
       \/ (* No memory for the array: the new string is freed, but the    *)
          (* token points to it.  The capacity has grown all the same.    *)
          /\ AllocFails
          /\ MustAllocate \/ MustGrow
          /\ stale' = stale \cup {at}
          /\ short' = TRUE
          /\ UNCHANGED <<count, room>>

(* The pointer is written behind the array. *)
OverrunArray ==
    /\ pc = "expand"
    /\ at <= Len(tokens)
    /\ NeedsExpansion(at)
    /\ count >= NewRoom
    /\ Stop("aborted")
    /\ UNCHANGED <<inputVars, arrayVars, varList, message, short>>

EndExpansion ==
    /\ pc = "expand"
    /\ at > Len(tokens)
    /\ pc' = "dispatch"
    /\ UNCHANGED <<inputVars, commandVars, arrayVars, varList, message, short>>

-----------------------------------------------------------------------------
(* What the line is.  A pipe goes before everything else, then an          *)
(* assignment, then all the commands that do not touch the variables.      *)

Assignment_InPipeToo == IsVariableAssignment(Head(tokens))
Assignment == ~hasPipe /\ IsVariableAssignment(Head(tokens))

Dispatching == pc = "dispatch" /\ UNCHANGED <<inputVars, arrayVars>>

(* The first token is read by everybody, the others by all but an          *)
(* assignment: is one of those that are read gone?                         *)
TouchesFreed == IF Assignment THEN 1 \in stale ELSE stale # {}

UseFreed ==
    /\ Dispatching
    /\ TouchesFreed
    /\ Stop("aborted")
    /\ UNCHANGED <<varList, message, short>>

Assign ==
    /\ Dispatching
    /\ ~TouchesFreed
    /\ Assignment
    /\ LET w == Head(tokens)
       IN varList' = SetVariable(varList, KeyPart(w), ExpandVariables(ValuePart(w), varList))
    /\ NextPrompt
    /\ UNCHANGED <<message, short>>

(* The key cannot be copied, or set_variable fails: nothing is set.  The   *)
(* value cannot be expanded: it is set as it stands.                       *)
AssignFails ==
    /\ AllocFails
    /\ Dispatching
    /\ ~TouchesFreed
    /\ Assignment
    /\ LET w == Head(tokens)
       IN varList' \in {varList, SetVariable(varList, KeyPart(w), ValuePart(w))}
    /\ NextPrompt
    /\ short' = TRUE
    /\ UNCHANGED message

Commanding == Dispatching /\ ~TouchesFreed /\ ~Assignment

(* cmd_send puts its message together, replaces the variables in it once   *)
(* more, if there is memory, and hands it to send_message.  The port, the  *)
(* host and the connection are left out: where they are no good nothing is *)
(* sent, which RunCommand allows.  SIGPIPE may end the shell.              *)
Sending == ~hasPipe /\ Head(tokens) = <<"send">>

SendMessage ==
    /\ Commanding
    /\ Sending
    /\ Len(tokens) > 3
    /\ Len(Joined(tokens)) < BufferSize
    /\ \/ /\ message' = Normalized(ExpandVariables(Joined(tokens), varList))
          /\ UNCHANGED short
       \/ /\ AllocFails
          /\ message' = Normalized(Joined(tokens))
          /\ short' = TRUE
    /\ NextPrompt \/ Stop("exited")
    /\ UNCHANGED varList

(* The text is written behind the buffer. *)
OverrunMessage ==
    /\ Commanding
    /\ Sending
    /\ Len(tokens) > 3
    /\ Len(Joined(tokens)) >= BufferSize
    /\ Stop("aborted")
    /\ UNCHANGED <<varList, message, short>>

(* Any other command, or a pipeline.  The text of a background job, without *)
(* the & unless it is a pipeline, is put together in MaxLen symbols.       *)
Background == Last(tokens) = <<"&">>
JobText == IF hasPipe THEN tokens ELSE Front(tokens)

RunCommand ==
    /\ Commanding
    /\ \/ NextPrompt
       \/ ~Sending /\ Background /\ CommandLength(JobText) > MaxLen /\ Stop("aborted")
    /\ UNCHANGED <<varList, message, short>>

Over ==
    /\ pc \in {"exited", "aborted"}
    /\ UNCHANGED vars

Next ==
    \/ Type \/ ReadLine \/ ReadNothing \/ Tokenize \/ OverrunLine
    \/ SkipToken \/ ExpandFails \/ ExpandToken \/ OverrunArray \/ EndExpansion
    \/ UseFreed \/ Assign \/ AssignFails
    \/ SendMessage \/ OverrunMessage \/ RunCommand \/ Over

Spec == Init /\ [][Next]_vars

-----------------------------------------------------------------------------
(* Properties.                                                             *)

(* The shell implements Environment: whatever the list looks like, each    *)
(* line changes the mapping it stands for as the line's meaning says, or   *)
(* memory was short.                                                       *)
E == INSTANCE Environment WITH env <- EnvOf(varList), line <- input, short <- short

EnvSpec == E!EnvSpec

(* What commands are given is what the line means: its words, with their   *)
(* variables replaced, except in an assignment, which is still to be done. *)
(* And replacing variables makes no pipe: main and handle_pipeline, which  *)
(* look for pipes before and after it, agree.                              *)
TokensRight ==
    pc = "dispatch" /\ ~short =>
        /\ ~Overlooked(input) => tokens = Arguments(input, EnvOf(varList))
        /\ hasPipe = (\E i \in DOMAIN tokens : tokens[i] = <<"|">>)

(* The comment at io_helpers.c:126: an & followed by nothing but           *)
(* whitespace is a background marker, in an echo as elsewhere.             *)
Marked(l) == \E i \in DOMAIN l : l[i] = "&" /\ \A j \in i + 1 .. Len(l) : l[j] \in Blank

MarkerCounts == pc = "dispatch" /\ Marked(input) => Background

(* Whatever is assigned in whatever order, a variable has one value: the   *)
(* one a look-up finds is the one expansion gives back, unless the name    *)
(* has a $ in it, and the one a pipeline finds in its copy of the list,    *)
(* which is in reverse order (variables.c:36 and 190-250).                 *)
VariablesSound ==
    /\ EnvOf(DuplicateVariables(varList)) = EnvOf(varList)
    /\ \A i \in DOMAIN varList :
          LET v == varList[i]
          IN (\A j \in DOMAIN v.key : v.key[j] # "$") =>
                 ExpandVariables(<<"$">> \o v.key, varList) = v.value

(* No memory is misused, provided that memory is not short, that the line  *)
(* has room for two blanks around each | and &, and that the words of a    *)
(* background command, or of a message, still fit once their variables are *)
(* replaced.  What a failed allocation leaves behind does not outlast its  *)
(* line.                                                                   *)
MemorySound ==
    LET meant == ArgumentsOf(Tokenized(input), EnvOf(varList))
    IN pc = "aborted" =>
        \/ short
        \/ Len(input) + 2 * Cardinality({i \in DOMAIN input : Alone(input, i, Blank)}) > MaxLen
        \/ Background /\ CommandLength(meant) > MaxLen
        \/ Sending /\ Len(MessageText(meant)) >= BufferSize

(* What is sent to a chat is what the line means: the arguments, with      *)
(* their variables replaced, and replaced again only where that has left a *)
(* $, each blank once, and cut only if the buffer is full.                 *)
MessageRight ==
    [][message' \notin {message, <<>>} /\ ~short' =>
          message' = Message(Arguments(input, EnvOf(varList)), EnvOf(varList))]_vars

=============================================================================
