----------------------------- MODULE ShellProofs -----------------------------
(***************************************************************************)
(* Theorems about Shell.  The invariant says what the tokens are while     *)
(* they are replaced one by one, what the array that remembers them has    *)
(* room for, and that no variable is twice in the list; CommandLineProofs  *)
(* says that what the functions yield is what the line means.              *)
(***************************************************************************)
EXTENDS Shell, CommandLineProofs

-----------------------------------------------------------------------------
(* The invariant.                                                          *)

StateTypes ==
    /\ pc \in Points
    /\ from \in {"terminal", "pipe"}
    /\ typed \in 0 .. MaxBatches
    /\ stdin \in Seq(Lines)
    /\ input \in Text /\ Len(input) <= MaxLen
    /\ tokens \in Seq(Token)
    /\ at \in 1 .. Len(tokens) + 1
    /\ hasPipe \in BOOLEAN
    /\ Len(message) <= BufferSize - 2
    /\ stale \subseteq DOMAIN tokens
    /\ short \in BOOLEAN
    /\ count \in Nat /\ capacity \in Nat /\ room \in Nat

(* The array has room for what it holds, and the shell knows how much, as  *)
(* long as memory has not been short.                                      *)
ArrayFits ==
    /\ room = 0 => count = 0
    /\ ~short /\ room # 0 => room = capacity /\ count <= room

ListTyped == varList \in Seq(Variable) /\ Distinct(varList)

NoTokens == tokens = <<>> /\ at = 1

AtPrompt == pc = "prompt" => input = <<>> /\ NoTokens

LineRead == pc = "tokenize" => input # <<>> /\ NoTokens /\ ~short

(* What the tokens are while they are replaced: those passed are what the  *)
(* words stand for, unless memory was short, which leaves them unreplaced  *)
(* or freed.                                                               *)
Meant == ArgumentsOf(Taken(input), EnvOf(varList))
Given(i) == Meant[i]

Executing == pc \in {"expand", "dispatch"}

TokensKnown ==
    Executing =>
        LET ws == Taken(input)
        IN /\ ws # <<>> /\ ws[1] # <<"exit">>
           /\ Len(tokens) = Len(ws)
           /\ hasPipe <=> \E i \in 1 .. Len(ws) : ws[i] = <<"|">>
           /\ \A i \in 1 .. Len(ws) :
                 /\ i >= at => tokens[i] = ws[i]
                 /\ i < at => tokens[i] = Given(i) \/ (short /\ tokens[i] = ws[i])
           /\ pc = "dispatch" => at > Len(tokens)
           /\ stale # {} => short

ShellInv ==
    /\ StateTypes
    /\ ArrayFits
    /\ ListTyped
    /\ AtPrompt
    /\ LineRead
    /\ TokensKnown
    /\ MemorySound

-----------------------------------------------------------------------------
(* What is waiting to be read.                                             *)

(* The lines that are typed.                                               *)
LEMMA LinesAreTexts ==
    /\ \A l \in Lines : l \in Text /\ l # <<>>
    /\ \A b \in Batches : b \in Seq(Lines)
<1>1. ASSUME NEW l \in Lines PROVE l \in Text /\ l # <<>>
    <2>1. PICK b \in Batches : l \in ToSet(b)
        BY DEF Lines
    <2>2. b \in Seq(Seq(Symbol) \ {<<>>})
        BY InputAssumption
    <2>3. PICK i \in DOMAIN b : l = b[i]
        BY <2>1 DEF ToSet
    <2> QED
        BY <2>2, <2>3 DEF Text
<1>2. ASSUME NEW b \in Batches PROVE b \in Seq(Lines)
    <2>1. b \in Seq(Seq(Symbol) \ {<<>>})
        BY InputAssumption
    <2>2. \A i \in 1 .. Len(b) : b[i] \in ToSet(b)
        BY <2>1 DEF ToSet
    <2>3. \A i \in 1 .. Len(b) : b[i] \in Lines
        BY <2>2 DEF Lines
    <2>4. Len(b) \in Nat /\ b = [i \in 1 .. Len(b) |-> b[i]]
        BY <2>1
    <2> QED
        BY <2>3, <2>4
<1> QED
    BY <1>1, <1>2

(* What a read yields is a text, and not empty if anything waits.          *)
LEMMA WhatIsRead ==
    ASSUME stdin \in Seq(Lines)
    PROVE  Available \in Text /\ (stdin # <<>> => Available # <<>>)
<1> DEFINE f == FlattenSeq(stdin)
<1>1. stdin \in Seq(Seq(Symbol))
    BY LinesAreTexts DEF Text
<1>2. f \in Text
    BY <1>1, FlattenAppend DEF Text
<1>3. ASSUME stdin # <<>> PROVE f # <<>>
    <2> DEFINE n == Len(stdin)
               p == FlattenSeq(SubSeq(stdin, 1, n - 1))
               last == stdin[n]
    <2>1. n \in Nat /\ n # 0
        BY <1>1, <1>3, EmptySeq
    <2>2. n \in 1 .. n /\ n - 1 \in 0 .. n
        BY <2>1
    <2>3. last \in Text /\ last # <<>>
        <3>1. last \in Lines
            BY <2>2
        <3> QED
            BY <3>1, LinesAreTexts
    <2>4. f = p \o last /\ p \in Text
        BY <1>1, <2>2, FlattenPrefix DEF Text
    <2> HIDE DEF f, p, last, n
    <2>5. Len(last) # 0 /\ Len(<<>>) = 0
        BY <2>3, EmptySeq DEF Text
    <2>6. Len(f) = Len(p) + Len(last) /\ Len(p) \in Nat /\ Len(last) \in Nat
        BY <2>3, <2>4, ConcatTexts
    <2> QED
        BY <2>5, <2>6
<1> HIDE DEF f
<1>4. stdin # <<>> => Head(stdin) \in Text /\ Head(stdin) # <<>>
    <2>1. stdin # <<>> => Head(stdin) \in Lines
        OBVIOUS
    <2> QED
        BY <2>1, LinesAreTexts
<1> QED
    BY <1>2, <1>3, <1>4 DEF Available, f

-----------------------------------------------------------------------------
(* The invariant holds initially, and every step preserves it.             *)

(* The first prompt.                                                       *)
LEMMA InitialState == Init => ShellInv
<1> SUFFICES ASSUME Init PROVE ShellInv
    OBVIOUS
<1>1. /\ pc = "prompt" /\ from \in Inputs /\ typed = 0 /\ stdin = <<>> /\ input = <<>>
      /\ tokens = <<>> /\ hasPipe = FALSE /\ at = 1 /\ varList = <<>> /\ message = <<>>
      /\ count = 0 /\ capacity = 0 /\ room = 0 /\ stale = {} /\ short = FALSE
    BY DEF Init
<1>2. StateTypes
    <2>1. 0 \in 0 .. MaxBatches /\ Len(input) <= MaxLen /\ Len(message) <= BufferSize - 2
        BY <1>1, SizeAssumption, MaxLenAssumption, BufferSizeAssumption
    <2>2. from \in {"terminal", "pipe"}
        BY <1>1, InputAssumption
    <2>3. stdin \in Seq(Lines) /\ input \in Text /\ tokens \in Seq(Token)
        BY <1>1 DEF Text
    <2>4. at \in 1 .. Len(tokens) + 1 /\ stale \subseteq DOMAIN tokens
        BY <1>1
    <2>5. pc \in Points /\ hasPipe \in BOOLEAN /\ short \in BOOLEAN
        BY <1>1 DEF Points
    <2>6. count \in Nat /\ capacity \in Nat /\ room \in Nat /\ typed \in 0 .. MaxBatches
        BY <1>1, <2>1
    <2> QED
        BY <2>1, <2>2, <2>3, <2>4, <2>5, <2>6 DEF StateTypes
<1>3. ArrayFits /\ ListTyped /\ AtPrompt /\ LineRead /\ TokensKnown /\ MemorySound
    BY <1>1 DEF ArrayFits, ListTyped, Distinct, AtPrompt, NoTokens, LineRead, TokensKnown,
                Executing, MemorySound
<1> QED
    BY <1>2, <1>3 DEF ShellInv

(* Typing.                                                                 *)
LEMMA TypeStep == ShellInv /\ Type => ShellInv'
<1> SUFFICES ASSUME ShellInv, Type PROVE ShellInv'
    OBVIOUS
<1>1. /\ pc = "prompt" /\ pc' = pc /\ typed' = typed + 1 /\ typed < MaxBatches
      /\ stdin' \in Batches
      /\ from' = from /\ input' = input /\ tokens' = tokens /\ hasPipe' = hasPipe
      /\ at' = at /\ stale' = stale /\ count' = count /\ capacity' = capacity
      /\ room' = room /\ varList' = varList /\ message' = message /\ short' = short
    BY DEF Type, commandVars, arrayVars
<1>2. StateTypes'
    <2>1. typed' \in 0 .. MaxBatches
        BY <1>1, SizeAssumption DEF ShellInv, StateTypes
    <2>2. stdin' \in Seq(Lines)
        BY <1>1, LinesAreTexts
    <2> QED
        BY <1>1, <2>1, <2>2 DEF ShellInv, StateTypes
<1>3. ArrayFits' /\ ListTyped' /\ AtPrompt'
    BY <1>1 DEF ShellInv, ArrayFits, ListTyped, AtPrompt, NoTokens
<1>4. LineRead' /\ TokensKnown' /\ MemorySound'
    BY <1>1 DEF LineRead, TokensKnown, Executing, MemorySound
<1> QED
    BY <1>2, <1>3, <1>4 DEF ShellInv

(* The next line frees the memory of the last one. *)
LEMMA FreedArray ==
    ASSUME ShellInv, FreeExpanded
    PROVE  room' = 0 /\ count' = 0 /\ capacity' \in Nat
BY DEF ShellInv, StateTypes, ArrayFits, FreeExpanded, arrayVars

(* A line is read: the tokens of the last one are long forgotten.          *)
LEMMA ReadLineStep == ShellInv /\ ReadLine => ShellInv'
<1> SUFFICES ASSUME ShellInv, ReadLine PROVE ShellInv'
    OBVIOUS
<1>1. /\ pc = "prompt" /\ stdin # <<>> /\ Len(Available) <= MaxLen
      /\ stdin' = IF from = "terminal" THEN Tail(stdin) ELSE <<>>
      /\ input' = Available /\ pc' = "tokenize" /\ short' = FALSE
      /\ from' = from /\ typed' = typed /\ tokens' = tokens /\ hasPipe' = hasPipe
      /\ at' = at /\ stale' = stale /\ varList' = varList /\ message' = <<>>
    BY DEF ReadLine
<1>2. room' = 0 /\ count' = 0 /\ capacity' \in Nat
    BY FreedArray DEF ReadLine
<1>3. StateTypes'
    <2>1. input' \in Text
        BY <1>1, WhatIsRead DEF ShellInv, StateTypes
    <2>2. stdin' \in Seq(Lines)
        BY <1>1 DEF ShellInv, StateTypes
    <2>3. Len(message') <= BufferSize - 2
        BY <1>1, BufferSizeAssumption
    <2> QED
        BY <1>1, <1>2, <2>1, <2>2, <2>3 DEF ShellInv, StateTypes, Points
<1>4. ArrayFits' /\ ListTyped' /\ AtPrompt'
    BY <1>1, <1>2 DEF ShellInv, ArrayFits, ListTyped, AtPrompt, NoTokens
<1>5. LineRead'
    BY <1>1, WhatIsRead DEF ShellInv, StateTypes, AtPrompt, NoTokens, LineRead
<1>6. TokensKnown' /\ MemorySound'
    BY <1>1 DEF TokensKnown, Executing, MemorySound
<1> QED
    BY <1>3, <1>4, <1>5, <1>6 DEF ShellInv

(* The end of the shell.                                                   *)
LEMMA ReadNothingStep == ShellInv /\ ReadNothing => ShellInv'
<1> SUFFICES ASSUME ShellInv, ReadNothing PROVE ShellInv'
    OBVIOUS
<1>1. /\ pc' = "exited"
      /\ from' = from /\ typed' = typed /\ stdin' = stdin /\ input' = input
      /\ tokens' = tokens /\ hasPipe' = hasPipe
      /\ at' = at /\ stale' = stale /\ varList' = varList /\ message' = message /\ short' = short
    BY DEF ReadNothing, Stop, inputVars, commandVars
<1>2. room' = 0 /\ count' = 0 /\ capacity' \in Nat
    BY FreedArray DEF ReadNothing
<1>3. StateTypes' /\ ArrayFits' /\ ListTyped'
    BY <1>1, <1>2 DEF ShellInv, StateTypes, Points, ArrayFits, ListTyped
<1>4. AtPrompt' /\ LineRead' /\ TokensKnown' /\ MemorySound'
    BY <1>1 DEF AtPrompt, LineRead, TokensKnown, Executing, MemorySound
<1> QED
    BY <1>3, <1>4 DEF ShellInv

(* Back at the prompt, everything about the last line is forgotten. *)
LEMMA PromptAgain ==
    ASSUME ShellInv, NextPrompt, UNCHANGED inputVars, UNCHANGED arrayVars,
           ListTyped', Len(message') <= BufferSize - 2, short' = short \/ short' = TRUE
    PROVE  ShellInv'
<1>1. /\ pc' = "prompt" /\ input' = <<>> /\ tokens' = <<>> /\ hasPipe' = FALSE
      /\ at' = 1 /\ stale' = {}
      /\ from' = from /\ typed' = typed /\ stdin' = stdin
      /\ count' = count /\ capacity' = capacity /\ room' = room
    BY DEF NextPrompt, inputVars, arrayVars
<1>2. StateTypes'
    <2>1. Len(input') <= MaxLen /\ input' \in Text /\ tokens' \in Seq(Token)
        BY <1>1, MaxLenAssumption DEF Text
    <2>2. at' \in 1 .. Len(tokens') + 1 /\ stale' \subseteq DOMAIN tokens'
        BY <1>1
    <2> QED
        BY <1>1, <2>1, <2>2 DEF ShellInv, StateTypes, Points
<1>3. ArrayFits' /\ AtPrompt' /\ LineRead' /\ TokensKnown' /\ MemorySound'
    BY <1>1 DEF ShellInv, ArrayFits, AtPrompt, NoTokens, LineRead, TokensKnown, Executing,
                MemorySound
<1> QED
    BY <1>2, <1>3 DEF ShellInv

(* The tokens are the words of the line.                                   *)
LEMMA TokenizeStep == ShellInv /\ Tokenize => ShellInv'
<1> SUFFICES ASSUME ShellInv, Tokenize PROVE ShellInv'
    OBVIOUS
<1>1. /\ pc = "tokenize" /\ input # <<>> /\ tokens = <<>> /\ at = 1
      /\ input \in Text /\ Len(input) <= MaxLen /\ stale = {}
    BY DEF ShellInv, Tokenize, LineRead, NoTokens, StateTypes
<1>2. UNCHANGED <<inputVars, arrayVars, varList, message, short>>
    BY DEF Tokenize
<1>3. ListTyped' /\ Len(message') <= BufferSize - 2
    BY <1>2 DEF ShellInv, StateTypes, ListTyped
<1>4. CASE NextPrompt
    BY <1>2, <1>3, <1>4, PromptAgain
<1>5. CASE ~NextPrompt
    <2> DEFINE ws == Taken(input)
    <2>1. Tokenized(input) = ws
        BY <1>1, TokensAreTaken
    <2>2. /\ ws # <<>> /\ tokens' = ws /\ hasPipe' = (<<"|">> \in ToSet(ws))
          /\ pc' = (IF Head(ws) = <<"exit">> THEN "exited" ELSE "expand")
          /\ input' = input /\ at' = at /\ stale' = stale
        BY <1>5, <2>1 DEF Tokenize
    <2>h. hasPipe' \in BOOLEAN /\ (hasPipe' <=> <<"|">> \in ToSet(ws))
        <3>1. hasPipe' \in BOOLEAN
            BY <2>2
        <3>2. hasPipe' <=> <<"|">> \in ToSet(ws)
            BY <2>2, Zenon
        <3> QED
            BY <3>1, <3>2
    <2>3. ws \in Seq(Token) /\ Len(ws) \in Nat /\ DOMAIN ws = 1 .. Len(ws)
        BY <1>1, WordsAreTokens
    <2>4. Taken(input') = ws
        BY <2>2
    <2> HIDE DEF ws
    <2>5. 1 <= Len(ws) + 1 /\ Head(ws) = ws[1]
        BY <2>2, <2>3
    <2>6. StateTypes'
        BY <1>1, <1>2, <2>2, <2>h, <2>3, <2>5 DEF ShellInv, StateTypes, Points, inputVars, arrayVars
    <2>7. hasPipe' <=> \E i \in 1 .. Len(ws) : ws[i] = <<"|">>
        <3>1. <<"|">> \in ToSet(ws) <=> \E i \in 1 .. Len(ws) : ws[i] = <<"|">>
            BY <2>3 DEF ToSet
        <3> QED
            BY <2>h, <3>1
    <2>8. ArrayFits' /\ AtPrompt' /\ LineRead' /\ MemorySound'
        BY <1>2, <2>2 DEF ShellInv, ArrayFits, AtPrompt, LineRead, MemorySound, arrayVars
    <2>9. TokensKnown'
        <3>1. \A i \in 1 .. Len(ws) : i >= 1 /\ ~(i < 1)
            BY <2>3
        <3>2. Executing' => ws[1] # <<"exit">> /\ pc' # "dispatch"
            BY <2>2, <2>5 DEF Executing
        <3> QED
            BY <1>1, <2>2, <2>4, <2>7, <3>1, <3>2 DEF TokensKnown
    <2> QED
        BY <1>3, <2>6, <2>8, <2>9 DEF ShellInv
<1> QED
    BY <1>4, <1>5

(* Where the shell is ended by a bad access, everything stays as it is.    *)
LEMMA AbortStep ==
    ASSUME ShellInv, Stop("aborted"), UNCHANGED <<inputVars, arrayVars, varList, message, short>>,
           \/ short
           \/ Len(input) + 2 * Cardinality({i \in DOMAIN input : Alone(input, i, Blank)}) > MaxLen
           \/ Background /\ CommandLength(Meant) > MaxLen
           \/ Sending /\ Len(MessageText(Meant)) >= BufferSize
    PROVE  ShellInv'
<1>1. /\ pc' = "aborted" /\ input' = input /\ tokens' = tokens /\ hasPipe' = hasPipe
      /\ at' = at /\ stale' = stale
      /\ from' = from /\ typed' = typed /\ stdin' = stdin
      /\ count' = count /\ capacity' = capacity /\ room' = room
      /\ varList' = varList /\ message' = message /\ short' = short
    BY DEF Stop, commandVars, inputVars, arrayVars
<1>2. StateTypes' /\ ArrayFits' /\ ListTyped'
    BY <1>1 DEF ShellInv, StateTypes, Points, ArrayFits, ListTyped
<1>3. AtPrompt' /\ LineRead' /\ TokensKnown'
    BY <1>1 DEF AtPrompt, LineRead, TokensKnown, Executing
<1>4. MemorySound'
    <2>1. (Background' <=> Background) /\ (Sending' <=> Sending)
        BY <1>1 DEF Background, Sending
    <2>2. Meant = ArgumentsOf(Tokenized(input), EnvOf(varList))
        BY TokensAreTaken DEF Meant, ShellInv, StateTypes
    <2> QED
        BY <1>1, <2>1, <2>2 DEF MemorySound
<1> QED
    BY <1>2, <1>3, <1>4 DEF ShellInv

(* The line is overrun only if there was no room for its blanks.           *)
LEMMA OverrunLineStep == ShellInv /\ OverrunLine => ShellInv'
<1> SUFFICES ASSUME ShellInv, OverrunLine PROVE ShellInv'
    OBVIOUS
<1> DEFINE alone == Cardinality({i \in DOMAIN input : Alone(input, i, Blank)})
           padded == Len(Padded(input))
<1>1. input \in Text
    BY DEF ShellInv, StateTypes
<1>2. padded <= Len(input) + 2 * alone
    BY <1>1, PaddedLength
<1>3. padded > MaxLen /\ Stop("aborted") /\ UNCHANGED <<inputVars, arrayVars, varList, message, short>>
    BY DEF OverrunLine
<1>4. padded \in Nat /\ Len(input) \in Nat /\ alone \in Nat /\ MaxLen \in Nat
    <2>1. Padded(input) \in Text
        BY <1>1, PassedFrom DEF Padded, Text
    <2>2. IsFiniteSet(1 .. Len(input)) /\ DOMAIN input = 1 .. Len(input)
        BY <1>1, FS_Interval DEF Text
    <2>3. IsFiniteSet({i \in DOMAIN input : Alone(input, i, Blank)})
        BY <2>2, FS_Subset
    <2> QED
        BY <1>1, <2>1, <2>3, FS_CardinalityType, MaxLenAssumption DEF Text
<1>5. Len(input) + 2 * alone > MaxLen
    <2> HIDE DEF alone, padded
    <2> QED
        BY <1>2, <1>3, <1>4
<1> QED
    BY <1>3, <1>5, AbortStep

(* The token being looked at has not been touched. *)
LEMMA TokenAt ==
    ASSUME ShellInv, pc = "expand", at <= Len(tokens)
    PROVE  /\ at \in 1 .. Len(Taken(input)) /\ at \in 1 .. Len(tokens)
           /\ tokens[at] = Taken(input)[at]
           /\ Given(at) = IF NeedsExpansion(at) THEN ExpandVariables(tokens[at], varList)
                          ELSE tokens[at]
           /\ Given(at) \in Token
<1> DEFINE ws == Taken(input)
<1>1. /\ input \in Text /\ Len(input) <= MaxLen /\ varList \in Seq(Variable)
      /\ tokens \in Seq(Token) /\ at \in 1 .. Len(tokens) + 1
    BY DEF ShellInv, StateTypes, ListTyped
<1>2. Len(tokens) = Len(ws) /\ \A i \in 1 .. Len(ws) : i >= at => tokens[i] = ws[i]
    BY DEF ShellInv, TokensKnown, Executing
<1>3. Len(ws) \in Nat
    BY <1>1, WordsAreTokens
<1>4. at \in 1 .. Len(ws) /\ at \in 1 .. Len(tokens)
    BY <1>1, <1>2, <1>3
<1>5. tokens[at] = ws[at]
    BY <1>2, <1>4
<1>6. NeedsExpansion(at) <=> Replaced(ws[at], at)
    BY <1>5 DEF NeedsExpansion, Replaced
<1>7. /\ Given(at) = IF Replaced(ws[at], at) THEN ExpandVariables(ws[at], varList) ELSE ws[at]
      /\ Given(at) \in Token
    BY <1>1, <1>4, ArgumentsGiven DEF Given, Meant
<1> QED
    BY <1>4, <1>5, <1>6, <1>7

(* One more token has been looked at. *)
LEMMA TokenPassed ==
    ASSUME ShellInv, Expanding,
           tokens' \in Seq(Token), Len(tokens') = Len(tokens),
           \A i \in 1 .. Len(tokens) : i # at => tokens'[i] = tokens[i],
           tokens'[at] = Given(at) \/ (short' /\ tokens'[at] = tokens[at]),
           short' \in BOOLEAN, short => short',
           stale' \subseteq stale \cup {at}, stale' # {} => short',
           count' \in Nat, capacity' \in Nat, room' \in Nat, ArrayFits'
    PROVE  ShellInv'
<1> DEFINE ws == Taken(input)
<1>1. /\ pc = "expand" /\ pc' = pc /\ at <= Len(tokens) /\ at' = at + 1
      /\ from' = from /\ typed' = typed /\ stdin' = stdin
      /\ input' = input /\ hasPipe' = hasPipe /\ varList' = varList /\ message' = message
    BY DEF Expanding, inputVars
<1>2. /\ at \in 1 .. Len(ws) /\ at \in 1 .. Len(tokens) /\ tokens[at] = ws[at]
    BY <1>1, TokenAt
<1>3. /\ ws # <<>> /\ ws[1] # <<"exit">> /\ Len(tokens) = Len(ws)
      /\ hasPipe <=> \E i \in 1 .. Len(ws) : ws[i] = <<"|">>
      /\ \A i \in 1 .. Len(ws) :
            /\ i >= at => tokens[i] = ws[i]
            /\ i < at => tokens[i] = Given(i) \/ (short /\ tokens[i] = ws[i])
    BY <1>1 DEF ShellInv, TokensKnown, Executing
<1>4. /\ \A i : Given(i)' = Given(i)
      /\ Taken(input') = ws
    BY <1>1 DEF Given, Meant
<1>5. Len(ws) \in Nat
    BY <1>3 DEF ShellInv, StateTypes
<1> HIDE DEF ws
<1>6. StateTypes'
    <2>1. at' \in 1 .. Len(tokens') + 1
        BY <1>1, <1>2, <1>3, <1>5
    <2>2. stale' \subseteq DOMAIN tokens'
        BY <1>2 DEF ShellInv, StateTypes
    <2> QED
        BY <1>1, <2>1, <2>2 DEF ShellInv, StateTypes
<1>7. ASSUME NEW i \in 1 .. Len(ws)
      PROVE  /\ i >= at' => tokens'[i] = ws[i]
             /\ i < at' => tokens'[i] = Given(i) \/ (short' /\ tokens'[i] = ws[i])
    <2>1. CASE i = at
        BY <1>1, <1>2, <2>1
    <2>2. CASE i # at
        <3>1. tokens'[i] = tokens[i]
            BY <1>3, <2>2
        <3>2. (i >= at' => i >= at) /\ (i < at' => i < at)
            BY <1>1, <1>2, <1>5, <2>2
        <3> QED
            BY <1>3, <3>1, <3>2
    <2> QED
        BY <2>1, <2>2
<1>8. TokensKnown'
    BY <1>1, <1>3, <1>4, <1>7 DEF TokensKnown
<1>9. ListTyped' /\ AtPrompt' /\ LineRead' /\ MemorySound'
    BY <1>1 DEF ShellInv, ListTyped, AtPrompt, LineRead, MemorySound
<1> QED
    BY <1>6, <1>8, <1>9 DEF ShellInv

(* A token that needs no expansion stands for itself.                      *)
LEMMA SkipTokenStep == ShellInv /\ SkipToken => ShellInv'
<1> SUFFICES ASSUME ShellInv, SkipToken PROVE ShellInv'
    OBVIOUS
<1>1. /\ Expanding /\ ~NeedsExpansion(at) /\ pc = "expand" /\ at <= Len(tokens)
      /\ tokens' = tokens /\ stale' = stale /\ short' = short
      /\ count' = count /\ capacity' = capacity /\ room' = room
    BY DEF SkipToken, Expanding, arrayVars
<1>2. tokens'[at] = Given(at)
    BY <1>1, TokenAt
<1>3. stale # {} => short
    BY <1>1 DEF ShellInv, TokensKnown, Executing
<1>4. ArrayFits'
    BY <1>1 DEF ShellInv, ArrayFits
<1> QED
    BY <1>1, <1>2, <1>3, <1>4, TokenPassed DEF ShellInv, StateTypes

(* A token that could not be expanded: memory is short.                    *)
LEMMA ExpandFailsStep == ShellInv /\ ExpandFails => ShellInv'
<1> SUFFICES ASSUME ShellInv, ExpandFails PROVE ShellInv'
    OBVIOUS
<1>1. /\ Expanding /\ tokens' = tokens /\ stale' = stale /\ short' = TRUE
      /\ count' = count /\ capacity' = capacity /\ room' = room
    BY DEF ExpandFails, arrayVars
<1>2. ArrayFits'
    BY <1>1 DEF ShellInv, ArrayFits
<1> QED
    BY <1>1, <1>2, TokenPassed DEF ShellInv, StateTypes

(* The array's new size, if the pointer is put into it. *)
LEMMA ArraySizes ==
    ASSUME ShellInv
    PROVE  /\ NewCapacity \in Nat /\ NewRoom \in Nat
           /\ ~short => count < NewRoom /\ NewRoom = NewCapacity
<1>1. /\ count \in Nat /\ capacity \in Nat /\ room \in Nat
      /\ room = 0 => count = 0
      /\ ~short /\ room # 0 => room = capacity /\ count <= room
    BY DEF ShellInv, StateTypes, ArrayFits
<1>2. Capacity \in Nat \ {0}
    BY SizeAssumption
<1> QED
    BY <1>1, <1>2 DEF NewCapacity, NewRoom, MustAllocate, MustGrow

(* A token is replaced by what its word stands for.                        *)
LEMMA ExpandTokenStep == ShellInv /\ ExpandToken => ShellInv'
<1> SUFFICES ASSUME ShellInv, ExpandToken PROVE ShellInv'
    OBVIOUS
<1>1. /\ Expanding /\ pc = "expand" /\ at <= Len(tokens) /\ NeedsExpansion(at)
      /\ tokens' = [tokens EXCEPT ![at] = ExpandVariables(tokens[at], varList)]
      /\ capacity' = NewCapacity
    BY DEF ExpandToken, Expanding
<1>2. \/ /\ count < NewRoom /\ room' = NewRoom /\ count' = count + 1
         /\ stale' = stale /\ short' = short
      \/ stale' = stale \cup {at} /\ short' = TRUE /\ count' = count /\ room' = room
    BY DEF ExpandToken
<1>3. /\ at \in 1 .. Len(tokens) /\ Given(at) = ExpandVariables(tokens[at], varList)
      /\ Given(at) \in Token
    BY <1>1, TokenAt
<1>4. /\ count \in Nat /\ room \in Nat /\ short \in BOOLEAN /\ tokens \in Seq(Token)
      /\ NewCapacity \in Nat /\ NewRoom \in Nat
      /\ ~short => count < NewRoom /\ NewRoom = NewCapacity
    BY ArraySizes DEF ShellInv, StateTypes
<1>5. tokens' = [tokens EXCEPT ![at] = Given(at)]
    BY <1>1, <1>3
<1>6. /\ tokens' \in Seq(Token) /\ Len(tokens') = Len(tokens)
      /\ \A i \in 1 .. Len(tokens) : i # at => tokens'[i] = tokens[i]
      /\ tokens'[at] = Given(at)
    BY <1>3, <1>4, <1>5
<1>7. stale # {} => short
    BY <1>1 DEF ShellInv, TokensKnown, Executing
<1>8. ArrayFits' /\ count' \in Nat /\ room' \in Nat /\ capacity' \in Nat
    BY <1>1, <1>2, <1>4 DEF ShellInv, ArrayFits
<1>9. /\ short' \in BOOLEAN /\ (short => short') /\ (stale' # {} => short')
      /\ stale' \subseteq stale \cup {at}
    BY <1>2, <1>4, <1>7
<1> QED
    BY <1>1, <1>6, <1>8, <1>9, TokenPassed

(* The array is overrun only if memory has been short.                     *)
LEMMA OverrunArrayStep == ShellInv /\ OverrunArray => ShellInv'
<1> SUFFICES ASSUME ShellInv, OverrunArray PROVE ShellInv'
    OBVIOUS
<1>1. count >= NewRoom /\ Stop("aborted") /\ UNCHANGED <<inputVars, arrayVars, varList, message, short>>
    BY DEF OverrunArray
<1>2. short
    <2>1. count \in Nat /\ NewRoom \in Nat /\ (~short => count < NewRoom)
        BY ArraySizes DEF ShellInv, StateTypes
    <2> QED
        BY <1>1, <2>1
<1> QED
    BY <1>1, <1>2, AbortStep

(* All tokens have been looked at.                                         *)
LEMMA EndExpansionStep == ShellInv /\ EndExpansion => ShellInv'
<1> SUFFICES ASSUME ShellInv, EndExpansion PROVE ShellInv'
    OBVIOUS
<1>1. /\ pc = "expand" /\ at > Len(tokens) /\ pc' = "dispatch"
      /\ input' = input /\ tokens' = tokens /\ hasPipe' = hasPipe
      /\ at' = at /\ stale' = stale
      /\ from' = from /\ typed' = typed /\ stdin' = stdin
      /\ count' = count /\ capacity' = capacity /\ room' = room
      /\ varList' = varList /\ message' = message /\ short' = short
    BY DEF EndExpansion, inputVars, commandVars, arrayVars
<1>2. StateTypes' /\ ArrayFits' /\ ListTyped'
    BY <1>1 DEF ShellInv, StateTypes, Points, ArrayFits, ListTyped
<1>3. AtPrompt' /\ LineRead' /\ MemorySound'
    BY <1>1 DEF AtPrompt, LineRead, MemorySound
<1>4. TokensKnown'
    <2>1. \A i : Given(i)' = Given(i)
        BY <1>1 DEF Given, Meant
    <2> QED
        BY <1>1, <2>1 DEF ShellInv, TokensKnown, Executing
<1> QED
    BY <1>2, <1>3, <1>4 DEF ShellInv

(* What has been reached when the line is carried out. *)
LEMMA AtDispatch ==
    ASSUME ShellInv, pc = "dispatch"
    PROVE  LET ws == Taken(input)
           IN /\ input \in Text /\ Len(input) <= MaxLen /\ varList \in Seq(Variable)
              /\ tokens \in Seq(Token) /\ Len(tokens) = Len(ws) /\ Len(ws) \in Nat
              /\ ws # <<>> /\ tokens # <<>> /\ 1 \in 1 .. Len(ws) /\ Head(tokens) = tokens[1]
              /\ Head(ws) = ws[1] /\ DOMAIN ws = 1 .. Len(ws) /\ ws[1] # <<"exit">>
              /\ hasPipe <=> \E i \in 1 .. Len(ws) : ws[i] = <<"|">>
              /\ \A i \in 1 .. Len(ws) : tokens[i] = Given(i) \/ (short /\ tokens[i] = ws[i])
<1> DEFINE ws == Taken(input)
<1>1. /\ input \in Text /\ Len(input) <= MaxLen /\ varList \in Seq(Variable)
      /\ tokens \in Seq(Token) /\ at \in 1 .. Len(tokens) + 1
    BY DEF ShellInv, StateTypes, ListTyped
<1>2. /\ ws # <<>> /\ ws[1] # <<"exit">> /\ Len(tokens) = Len(ws)
      /\ hasPipe <=> \E i \in 1 .. Len(ws) : ws[i] = <<"|">>
      /\ at > Len(tokens)
      /\ \A i \in 1 .. Len(ws) : i < at => tokens[i] = Given(i) \/ (short /\ tokens[i] = ws[i])
    BY DEF ShellInv, TokensKnown, Executing
<1>3. Len(ws) \in Nat /\ DOMAIN ws = 1 .. Len(ws) /\ ws \in Seq(Token)
    BY <1>1, WordsAreTokens
<1> HIDE DEF ws
<1>4. Len(ws) # 0
    BY <1>2, <1>3, EmptySeq
<1>5. 1 \in 1 .. Len(ws) /\ Head(ws) = ws[1] /\ Head(tokens) = tokens[1]
    BY <1>1, <1>2, <1>3, <1>4
<1>6. tokens # <<>>
    <2>1. Len(<<>>) = 0
        OBVIOUS
    <2> QED
        BY <1>2, <1>4, <2>1
<1>7. \A i \in 1 .. Len(ws) : i < at
    BY <1>1, <1>2, <1>3
<1> QED
    BY <1>1, <1>2, <1>3, <1>5, <1>6, <1>7 DEF ws

(* Unless memory was short, what is carried out is what the words taken    *)
(* for those of the line stand for ...                                     *)
LEMMA TokensGiven ==
    ASSUME ShellInv, pc = "dispatch", ~short
    PROVE  /\ tokens = Meant
           /\ hasPipe <=> \E i \in DOMAIN tokens : tokens[i] = <<"|">>
<1> DEFINE ws == Taken(input)
           given == Meant
<1>1. /\ input \in Text /\ Len(input) <= MaxLen /\ varList \in Seq(Variable)
      /\ tokens \in Seq(Token) /\ Len(tokens) = Len(ws)
      /\ hasPipe <=> \E i \in 1 .. Len(ws) : ws[i] = <<"|">>
      /\ \A i \in 1 .. Len(ws) : tokens[i] = given[i]
    BY AtDispatch DEF Given
<1>2. given \in Seq(Token) /\ Len(given) = Len(ws)
    BY <1>1, ArgumentsTypes DEF Meant
<1>3. \A i \in 1 .. Len(ws) : given[i] = <<"|">> <=> ws[i] = <<"|">>
    BY <1>1, ArgumentsGiven DEF Meant
<1>4. DOMAIN tokens = 1 .. Len(ws)
    BY <1>1
<1> HIDE DEF ws, given
<1>5. tokens = given
    BY <1>1, <1>2, SeqEqual
<1>6. hasPipe <=> \E i \in DOMAIN tokens : tokens[i] = <<"|">>
    BY <1>1, <1>3, <1>4
<1> QED
    BY <1>5, <1>6 DEF given

(* ... and so what the line means, if no & is overlooked.                  *)
LEMMA MeantIsRight ==
    ASSUME ShellInv, ~Overlooked(input)
    PROVE  Meant = Arguments(input, EnvOf(varList))
BY TakenAreWords DEF Meant, Arguments, ShellInv, StateTypes

(* The word echo stands for itself.                                        *)
LEMMA EchoStays ==
    ASSUME NEW list \in Seq(Variable)
    PROVE  ~IsAssignment(<<"echo">>) /\ FirstWord(<<"echo">>, EnvOf(list)) = <<"echo">>
<1> DEFINE w == <<"echo">>
<1>0. "echo" \in Symbol
    BY SymbolAssumption, Zenon
<1>1. w \in Text /\ Len(w) = 1 /\ w[1] = "echo"
    BY <1>0 DEF Text
<1>2. Len(w) <= MaxLen /\ \A i \in 1 .. Len(w) : i = 1
    BY <1>1, MaxLenAssumption
<1>3. "echo" # "$"
    OBVIOUS
<1> HIDE DEF w
<1>4. Value(w, EnvOf(list)) = w
    <2>1. \A i \in 1 .. Len(w) : w[i] # "$"
        BY <1>1, <1>2, <1>3, Zenon
    <2> QED
        BY <1>1, <1>2, <2>1, VariablesAreCells, ValueWithoutNames
<1>5. ~IsAssignment(w)
    <2>1. \A i : i \notin 2 .. Len(w)
        BY <1>1
    <2> QED
        BY <2>1, Zenon DEF IsAssignment
<1> QED
    BY <1>4, <1>5 DEF FirstWord, w

(* A line is taken for an assignment if and only if it is one, and then    *)
(* its words are those it is taken for: an echo is none either way.        *)
LEMMA SameAssigning ==
    ASSUME NEW l \in Text, NEW list \in Seq(Variable)
    PROVE  /\ Assigning(Taken(l), EnvOf(list)) <=> Assigns(l, EnvOf(list))
           /\ Assigns(l, EnvOf(list)) => Words(l) = Taken(l)
<1>1. CASE ~Overlooked(l)
    BY <1>1, TakenAreWords DEF Assigns
<1>2. CASE Overlooked(l)
    <2>1. IsEcho(l)
        BY <1>2 DEF Overlooked
    <2>2. ASSUME NEW white, Assigning(WordsWith(l, white), EnvOf(list))
          PROVE  FALSE
        <3> DEFINE ws == WordsWith(l, white)
        <3>1. PICK i \in DOMAIN ws : ws[i] = <<"|">> \/ (i = 1 /\ ws[i] = <<"echo">>)
            BY <2>1, EchoWords
        <3>2. ws[i] # <<"|">>
            BY <2>2, <3>1 DEF Assigning
        <3>3. Head(ws) = <<"echo">>
            BY <3>1, <3>2
        <3> QED
            BY <2>2, <3>3, EchoStays DEF Assigning
    <2> QED
        BY <2>2 DEF Taken, Assigns, Words
<1> QED
    BY <1>1, <1>2

(* What the shell takes for an assignment is one, of the same value to the *)
(* same variable.                                                          *)
LEMMA AssignmentGiven ==
    ASSUME ShellInv, pc = "dispatch", Assignment
    PROVE  LET w == Head(tokens)
               env == EnvOf(varList)
           IN /\ Assigns(input, env) /\ w = FirstWord(Head(Words(input)), env)
              /\ KeyPart(w) = KeyOf(w) /\ KeyOf(w) \in KeyText
              /\ ValuePart(w) = RightSide(w) /\ RightSide(w) \in ValueText
              /\ ExpandVariables(ValuePart(w), varList) = Value(RightSide(w), env)
              /\ Value(RightSide(w), env) \in ValueText
<1> DEFINE ws == Taken(input)
           env == EnvOf(varList)
           w == Head(tokens)
           r == RightSide(w)
<1>1. /\ input \in Text /\ Len(input) <= MaxLen /\ varList \in Seq(Variable)
      /\ tokens \in Seq(Token) /\ Len(tokens) = Len(ws)
      /\ ws # <<>> /\ 1 \in 1 .. Len(ws) /\ w = tokens[1] /\ Head(ws) = ws[1]
      /\ DOMAIN ws = 1 .. Len(ws) /\ ws[1] # <<"exit">>
      /\ hasPipe <=> \E i \in 1 .. Len(ws) : ws[i] = <<"|">>
      /\ tokens[1] = Given(1) \/ tokens[1] = ws[1]
    BY AtDispatch
<1>2. ~hasPipe /\ IsVariableAssignment(w)
    BY DEF Assignment
<1>3. w \in Token
    <2>1. 1 \in 1 .. Len(tokens)
        BY <1>1
    <2> QED
        BY <1>1, <2>1
<1>4. w \in PlainText /\ Len(w) <= MaxLen /\ Len(w) \in Nat
    BY <1>2, <1>3, TokenKinds DEF Text
<1>5. /\ IsAssignment(w) /\ KeyPart(w) = KeyOf(w) /\ ValuePart(w) = r
      /\ KeyOf(w) \in KeyText /\ r \in PlainText /\ Len(r) <= Len(w)
    BY <1>2, <1>4, AssignmentIsAssignment
<1>6. r \in ValueText
    <2>1. Len(r) \in Nat /\ MaxLen \in Nat
        BY <1>5, MaxLenAssumption DEF PlainText
    <2> HIDE DEF w, r
    <2>2. Len(r) <= MaxLen
        BY <1>4, <1>5, <2>1
    <2> QED
        BY <1>5, <2>2 DEF ValueText
<1>7. varList \in Seq(Cell) /\ HoldsPlain(env) /\ r \in Text
    BY <1>1, <1>5, VariablesAreCells, PlainTexts
<1>8. /\ ExpandVariables(r, varList) = Value(r, env)
      /\ Value(r, env) \in ValueText
    <2>1. Len(r) <= MaxLen
        BY <1>6 DEF ValueText
    <2>2. Value(r, env) \in PlainText
        BY <1>5, <1>7, ValueTypes
    <2> HIDE DEF r, env
    <2>3. /\ Len(r) <= MaxLen => ExpandVariables(r, varList) = Value(r, EnvOf(varList))
          /\ Len(Value(r, EnvOf(varList))) <= MaxLen
        BY <1>7, ExpansionIsValue
    <2> QED
        BY <2>1, <2>2, <2>3 DEF ValueText, env
<1>9. Given(1) = FirstWord(ws[1], env)
    BY <1>1, ArgumentsGiven DEF Given, Meant
<1>10. w = FirstWord(ws[1], env)
    <2>1. CASE w = Given(1)
        BY <1>9, <2>1
    <2>2. CASE w = ws[1]
        BY <1>5, <2>2 DEF FirstWord
    <2> QED
        BY <1>1, <2>1, <2>2
<1>11. Assigning(ws, env)
    BY <1>1, <1>2, <1>5, <1>10 DEF Assigning
<1>12. Assigns(input, env) /\ Words(input) = ws
    BY <1>1, <1>11, SameAssigning
<1> QED
    BY <1>1, <1>5, <1>6, <1>8, <1>10, <1>12

(* And what the shell does not take for an assignment is none.             *)
LEMMA NoAssignmentGiven ==
    ASSUME ShellInv, pc = "dispatch", ~Assignment, ~short
    PROVE  ~Assigns(input, EnvOf(varList))
<1> DEFINE ws == Taken(input)
           env == EnvOf(varList)
           w == Head(tokens)
<1> SUFFICES ASSUME Assigns(input, env) PROVE FALSE
    OBVIOUS
<1>1. /\ input \in Text /\ Len(input) <= MaxLen /\ varList \in Seq(Variable)
      /\ tokens \in Seq(Token) /\ Len(tokens) = Len(ws)
      /\ 1 \in 1 .. Len(ws) /\ w = tokens[1] /\ Head(ws) = ws[1]
      /\ DOMAIN ws = 1 .. Len(ws)
      /\ hasPipe <=> \E i \in 1 .. Len(ws) : ws[i] = <<"|">>
      /\ tokens[1] = Given(1)
    BY AtDispatch
<1>2. Given(1) = FirstWord(ws[1], env)
    BY <1>1, ArgumentsGiven DEF Given, Meant
<1>3. IsAssignment(w) /\ ~hasPipe
    <2>1. Assigning(ws, env)
        BY <1>1, SameAssigning
    <2> QED
        BY <1>1, <1>2, <2>1 DEF Assigning
<1>4. w \in Token
    <2>1. 1 \in 1 .. Len(tokens)
        BY <1>1
    <2> QED
        BY <1>1, <2>1
<1>5. IsVariableAssignment(w)
    BY <1>3, <1>4, TokenKinds, AssignmentIsAssignment
<1> QED
    BY <1>3, <1>5 DEF Assignment

(* A freed token is read only if memory has been short.                    *)
LEMMA UseFreedStep == ShellInv /\ UseFreed => ShellInv'
<1> SUFFICES ASSUME ShellInv, UseFreed PROVE ShellInv'
    OBVIOUS
<1>1. /\ pc = "dispatch" /\ TouchesFreed
      /\ Stop("aborted") /\ UNCHANGED <<inputVars, arrayVars, varList, message, short>>
    BY DEF UseFreed, Dispatching
<1>2. stale # {}
    BY <1>1 DEF TouchesFreed
<1>3. short
    BY <1>1, <1>2 DEF ShellInv, TokensKnown, Executing
<1> QED
    BY <1>1, <1>3, AbortStep

(* An assignment keeps the list free of duplicates ...                     *)
LEMMA AssignStep == ShellInv /\ Assign => ShellInv'
<1> SUFFICES ASSUME ShellInv, Assign PROVE ShellInv'
    OBVIOUS
<1> DEFINE key == KeyPart(Head(tokens))
           value == ExpandVariables(ValuePart(Head(tokens)), varList)
<1>1. /\ pc = "dispatch" /\ Assignment /\ NextPrompt /\ UNCHANGED inputVars
      /\ UNCHANGED arrayVars /\ message' = message /\ short' = short
      /\ varList' = SetVariable(varList, key, value)
    BY DEF Assign, Dispatching
<1>2. key \in KeyText /\ value \in ValueText
    BY <1>1, AssignmentGiven
<1> HIDE DEF key, value
<1>3. ListTyped' /\ Len(message') <= BufferSize - 2
    BY <1>1, <1>2, SetVariableUpdates DEF ShellInv, StateTypes, ListTyped
<1> QED
    BY <1>1, <1>3, PromptAgain

(* ... and so does one that finds no memory.                               *)
LEMMA AssignFailsStep == ShellInv /\ AssignFails => ShellInv'
<1> SUFFICES ASSUME ShellInv, AssignFails PROVE ShellInv'
    OBVIOUS
<1> DEFINE key == KeyPart(Head(tokens))
           value == ValuePart(Head(tokens))
<1>1. /\ pc = "dispatch" /\ Assignment /\ NextPrompt /\ UNCHANGED inputVars
      /\ UNCHANGED arrayVars /\ message' = message /\ short' = TRUE
      /\ varList' = varList \/ varList' = SetVariable(varList, key, value)
    BY DEF AssignFails, Dispatching
<1>2. key \in KeyText /\ value \in ValueText
    BY <1>1, AssignmentGiven
<1> HIDE DEF key, value
<1>3. ListTyped' /\ Len(message') <= BufferSize - 2
    BY <1>1, <1>2, SetVariableUpdates DEF ShellInv, StateTypes, ListTyped
<1> QED
    BY <1>1, <1>3, PromptAgain

(* The words of a message, and what is sent of them.                       *)
LEMMA MessageGiven ==
    ASSUME ShellInv, pc = "dispatch", Len(tokens) > 3
    PROVE  /\ Joined(tokens) = MessageText(tokens)
           /\ Normalized(ExpandVariables(Joined(tokens), varList)) =
                  Message(tokens, EnvOf(varList))
           /\ Len(Normalized(ExpandVariables(Joined(tokens), varList))) <= BufferSize - 2
           /\ Len(Normalized(Joined(tokens))) <= BufferSize - 2
<1>1. tokens \in Seq(Token) /\ varList \in Seq(Variable)
    BY DEF ShellInv, StateTypes, ListTyped
<1>2. tokens \in Seq(Text)
    <2>1. \A w \in Token : w \in Text
        BY TokenKinds
    <2> QED
        BY <1>1, <2>1
<1>3. varList \in Seq(Cell)
    BY <1>1, VariablesAreCells
<1> QED
    BY <1>2, <1>3, MessageIsMeant

(* What is sent fits; the shell waits for the next line, or is ended.      *)
LEMMA SendMessageStep == ShellInv /\ SendMessage => ShellInv'
<1> SUFFICES ASSUME ShellInv, SendMessage PROVE ShellInv'
    OBVIOUS
<1>1. /\ pc = "dispatch" /\ UNCHANGED inputVars /\ UNCHANGED arrayVars
      /\ Len(tokens) > 3 /\ UNCHANGED varList
      /\ short' = short \/ short' = TRUE
      /\ \/ message' = Normalized(ExpandVariables(Joined(tokens), varList))
         \/ message' = Normalized(Joined(tokens))
    BY DEF SendMessage, Commanding, Dispatching
<1>2. Len(message') <= BufferSize - 2
    BY <1>1, MessageGiven
<1>3. ListTyped'
    BY <1>1 DEF ShellInv, ListTyped
<1>4. CASE NextPrompt
    BY <1>1, <1>2, <1>3, <1>4, PromptAgain
<1>5. CASE Stop("exited")
    <2>1. /\ pc' = "exited" /\ input' = input /\ tokens' = tokens /\ hasPipe' = hasPipe
          /\ at' = at /\ stale' = stale
          /\ from' = from /\ typed' = typed /\ stdin' = stdin
          /\ count' = count /\ capacity' = capacity /\ room' = room
        BY <1>1, <1>5 DEF Stop, commandVars, inputVars, arrayVars
    <2>2. StateTypes' /\ ArrayFits'
        <3>1. short' \in BOOLEAN
            BY <1>1 DEF ShellInv, StateTypes
        <3>2. ArrayFits'
            BY <1>1, <2>1 DEF ShellInv, ArrayFits
        <3>3. StateTypes'
            BY <1>2, <2>1, <3>1 DEF ShellInv, StateTypes, Points
        <3> QED
            BY <3>2, <3>3
    <2>3. AtPrompt' /\ LineRead' /\ TokensKnown' /\ MemorySound'
        BY <2>1 DEF AtPrompt, LineRead, TokensKnown, Executing, MemorySound
    <2> QED
        BY <1>3, <2>2, <2>3 DEF ShellInv
<1> QED
    BY <1>4, <1>5 DEF SendMessage

(* The message is overrun only if what the line means does not fit.        *)
LEMMA OverrunMessageStep == ShellInv /\ OverrunMessage => ShellInv'
<1> SUFFICES ASSUME ShellInv, OverrunMessage PROVE ShellInv'
    OBVIOUS
<1>1. /\ pc = "dispatch" /\ Sending /\ Len(tokens) > 3
      /\ Len(Joined(tokens)) >= BufferSize /\ Stop("aborted")
      /\ UNCHANGED <<inputVars, arrayVars, varList, message, short>>
    BY DEF OverrunMessage, Commanding, Dispatching
<1>2. Joined(tokens) = MessageText(tokens)
    BY <1>1, MessageGiven
<1>3. ~short => tokens = Meant
    BY <1>1, TokensGiven
<1>4. ~short => Len(MessageText(Meant)) >= BufferSize
    BY <1>1, <1>2, <1>3
<1> QED
    BY <1>1, <1>4, AbortStep

(* A job's text is overrun only if the words, replaced, are too long.      *)
LEMMA RunCommandStep == ShellInv /\ RunCommand => ShellInv'
<1> SUFFICES ASSUME ShellInv, RunCommand PROVE ShellInv'
    OBVIOUS
<1>1. pc = "dispatch" /\ UNCHANGED inputVars /\ UNCHANGED arrayVars
    BY DEF RunCommand, Commanding, Dispatching
<1>2. UNCHANGED varList /\ UNCHANGED message /\ UNCHANGED short
    BY DEF RunCommand
<1>3. CASE NextPrompt
    <2>1. ListTyped' /\ Len(message') <= BufferSize - 2
        BY <1>2 DEF ShellInv, StateTypes, ListTyped
    <2> QED
        BY <1>1, <1>2, <1>3, <2>1, PromptAgain
<1>4. CASE Background /\ CommandLength(JobText) > MaxLen /\ Stop("aborted")
    <2>1. \/ short
          \/ CommandLength(Meant) > MaxLen
        <3> SUFFICES ASSUME ~short
                     PROVE  CommandLength(Meant) > MaxLen
            OBVIOUS
        <3>1. tokens = Meant
            BY <1>1, TokensGiven
        <3>2. tokens \in Seq(Text) /\ tokens # <<>>
            <4>1. tokens \in Seq(Token) /\ tokens # <<>>
                BY <1>1, AtDispatch
            <4>2. \A w \in Token : w \in Text
                BY TokenKinds
            <4> QED
                BY <4>1, <4>2
        <3>3. /\ CommandLength(tokens) \in Nat /\ CommandLength(Front(tokens)) \in Nat
              /\ CommandLength(Front(tokens)) <= CommandLength(tokens)
            BY <3>2, FrontIsShorter
        <3>4. JobText = tokens \/ JobText = Front(tokens)
            BY DEF JobText
        <3> QED
            BY <1>4, <3>1, <3>3, <3>4, MaxLenAssumption
    <2> QED
        BY <1>1, <1>2, <1>4, <2>1, AbortStep
<1> QED
    BY <1>3, <1>4 DEF RunCommand

(* Nothing happens.                                                        *)
LEMMA StutterStep == ShellInv /\ UNCHANGED vars => ShellInv'
<1> SUFFICES ASSUME ShellInv, UNCHANGED vars PROVE ShellInv'
    OBVIOUS
<1>1. /\ pc' = pc /\ input' = input /\ tokens' = tokens /\ hasPipe' = hasPipe
      /\ at' = at /\ stale' = stale
      /\ from' = from /\ typed' = typed /\ stdin' = stdin
      /\ count' = count /\ capacity' = capacity /\ room' = room
      /\ varList' = varList /\ message' = message /\ short' = short
    BY DEF vars, inputVars, commandVars, arrayVars
<1>2. StateTypes' /\ ArrayFits' /\ ListTyped' /\ AtPrompt' /\ LineRead'
    BY <1>1 DEF ShellInv, StateTypes, ArrayFits, ListTyped, AtPrompt, NoTokens, LineRead
<1>3. TokensKnown'
    <2>1. \A i : Given(i)' = Given(i)
        BY <1>1 DEF Given, Meant
    <2> QED
        BY <1>1, <2>1 DEF ShellInv, TokensKnown, Executing
<1>4. MemorySound'
    <2>1. (Background' <=> Background) /\ (Sending' <=> Sending)
        BY <1>1 DEF Background, Sending
    <2> QED
        BY <1>1, <2>1 DEF ShellInv, MemorySound
<1> QED
    BY <1>2, <1>3, <1>4 DEF ShellInv

(* Every step preserves the invariant.                                     *)
LEMMA EveryStep == ShellInv /\ [Next]_vars => ShellInv'
<1> SUFFICES ASSUME ShellInv, [Next]_vars PROVE ShellInv'
    OBVIOUS
<1>1. CASE Type
    BY <1>1, TypeStep
<1>2. CASE ReadLine
    BY <1>2, ReadLineStep
<1>3. CASE ReadNothing
    BY <1>3, ReadNothingStep
<1>4. CASE Tokenize
    BY <1>4, TokenizeStep
<1>5. CASE OverrunLine
    BY <1>5, OverrunLineStep
<1>6. CASE SkipToken
    BY <1>6, SkipTokenStep
<1>7. CASE ExpandFails
    BY <1>7, ExpandFailsStep
<1>8. CASE ExpandToken
    BY <1>8, ExpandTokenStep
<1>9. CASE OverrunArray
    BY <1>9, OverrunArrayStep
<1>10. CASE EndExpansion
    BY <1>10, EndExpansionStep
<1>11. CASE UseFreed
    BY <1>11, UseFreedStep
<1>12. CASE Assign
    BY <1>12, AssignStep
<1>13. CASE AssignFails
    BY <1>13, AssignFailsStep
<1>14. CASE RunCommand
    BY <1>14, RunCommandStep
<1>15. CASE SendMessage
    BY <1>15, SendMessageStep
<1>16. CASE OverrunMessage
    BY <1>16, OverrunMessageStep
<1>17. CASE Over \/ UNCHANGED vars
    BY <1>17, StutterStep DEF Over
<1> QED
    BY <1>1, <1>2, <1>3, <1>4, <1>5, <1>6, <1>7, <1>8, <1>9, <1>10, <1>11, <1>12, <1>13,
       <1>14, <1>15, <1>16, <1>17 DEF Next

(* The invariant holds in every state the shell reaches.                   *)
THEOREM InvariantHolds == Spec => []ShellInv
<1> QED
    BY InitialState, EveryStep, PTL DEF Spec

-----------------------------------------------------------------------------
(* What follows from it.                                                   *)

(* The state has its type; no value is longer than MAX_STR_LEN.            *)
THEOREM TypeCorrect == Spec => []TypeOK
<1>1. ShellInv => TypeOK
    <2> SUFFICES ASSUME ShellInv PROVE TypeOK
        OBVIOUS
    <2>1. \A i \in DOMAIN varList : Len(varList[i].value) <= MaxLen
        BY VariablesAreCells DEF ShellInv, ListTyped, ValueText
    <2> QED
        BY <2>1 DEF ShellInv, StateTypes, TypeOK
<1> QED
    BY <1>1, InvariantHolds, PTL

(* Unless memory was short, what a command is given is what its line means *)
(* (mysh.c, main): every word with its variables replaced, and a pipe      *)
(* where the line has one.                                                 *)
THEOREM CommandsGetWhatIsMeant == Spec => []TokensRight
<1>1. ShellInv => TokensRight
    <2> SUFFICES ASSUME ShellInv, pc = "dispatch", ~short
                 PROVE  /\ ~Overlooked(input) => tokens = Arguments(input, EnvOf(varList))
                        /\ hasPipe = (\E i \in DOMAIN tokens : tokens[i] = <<"|">>)
        BY DEF TokensRight
    <2>1. /\ tokens = Meant
          /\ hasPipe <=> \E i \in DOMAIN tokens : tokens[i] = <<"|">>
        BY TokensGiven
    <2>2. hasPipe \in BOOLEAN
        BY DEF ShellInv, StateTypes
    <2>3. hasPipe = (\E i \in DOMAIN tokens : tokens[i] = <<"|">>)
        BY <2>1, <2>2
    <2> QED
        BY <2>1, <2>3, MeantIsRight
<1> QED
    BY <1>1, InvariantHolds, PTL

(* Whatever was assigned in whatever order, no variable is twice in the    *)
(* list, so that a look-up, an expansion and a copy of the list in reverse *)
(* order (variables.c) agree on every value.                               *)
THEOREM OneValueEach == Spec => []VariablesSound
<1>1. ShellInv => VariablesSound
    <2> SUFFICES ASSUME ShellInv PROVE VariablesSound
        OBVIOUS
    <2>1. varList \in Seq(Variable) /\ Distinct(varList)
        BY DEF ShellInv, ListTyped
    <2>2. varList \in Seq(Cell)
        BY <2>1, VariablesAreCells
    <2>3. EnvOf(DuplicateVariables(varList)) = EnvOf(varList)
        BY <2>1, <2>2, DuplicateIsSame
    <2>4. ASSUME NEW i \in DOMAIN varList,
                 \A j \in DOMAIN varList[i].key : varList[i].key[j] # "$"
          PROVE  ExpandVariables(<<"$">> \o varList[i].key, varList) = varList[i].value
        <3> DEFINE key == varList[i].key
        <3>1. key \in KeyText /\ varList[i].value \in ValueText
            BY <2>1, VariablesAreCells
        <3>2. key \in Keys(varList) /\ GetVariable(varList, key) = varList[i].value
            BY <2>1, <2>2, EnvOfDistinct, EnvProperties
        <3>3. key # <<>> /\ \A j \in DOMAIN key : key[j] \notin NameEnd
            <4>1. \A j \in DOMAIN key : key[j] \in Plain
                BY <3>1 DEF KeyText, PlainText
            <4> QED
                BY <2>4, <3>1, <4>1, PlainTexts DEF KeyText, NameEnd
        <3>4. Len(GetVariable(varList, key)) <= MaxLen
            BY <3>1, <3>2 DEF ValueText
        <3> QED
            BY <2>2, <3>2, <3>3, <3>4, ValueOfName
    <2> QED
        BY <2>3, <2>4 DEF VariablesSound
<1> QED
    BY <1>1, InvariantHolds, PTL

(* The shell is ended by a bad memory access only if an allocation failed  *)
(* while the same line was executed, if the line has no room for two       *)
(* blanks around each | and &, or if the text of a background command or   *)
(* of a message does not fit.                                              *)
THEOREM MemoryIsSafe == Spec => []MemorySound
<1>1. ShellInv => MemorySound
    BY DEF ShellInv
<1> QED
    BY <1>1, InvariantHolds, PTL

-----------------------------------------------------------------------------
(* What is sent to a chat.                                                 *)

(* A line that sends is no echo, and so none of whose & is overlooked.     *)
LEMMA SentIsMeant ==
    ASSUME ShellInv, pc = "dispatch", Sending, ~short
    PROVE  tokens = Arguments(input, EnvOf(varList))
<1> DEFINE ws == Taken(input)
<1>1. tokens = Meant
    BY TokensGiven
<1>2. /\ input \in Text /\ Len(input) <= MaxLen /\ varList \in Seq(Variable)
      /\ 1 \in 1 .. Len(ws) /\ Head(tokens) = tokens[1] /\ DOMAIN ws = 1 .. Len(ws)
      /\ hasPipe <=> \E i \in 1 .. Len(ws) : ws[i] = <<"|">>
      /\ tokens[1] = Given(1)
    BY AtDispatch
<1>3. ~hasPipe /\ tokens[1] = <<"send">>
    BY <1>2 DEF Sending
<1>4. Given(1) = FirstWord(ws[1], EnvOf(varList))
    BY <1>2, ArgumentsGiven DEF Given, Meant
<1>5. ~Overlooked(input)
    <2> SUFFICES ASSUME Overlooked(input) PROVE FALSE
        OBVIOUS
    <2>1. \E i \in DOMAIN ws : ws[i] = <<"|">> \/ (i = 1 /\ ws[i] = <<"echo">>)
        BY <1>2, EchoWords DEF Overlooked, Taken
    <2>2. ws[1] = <<"echo">>
        BY <1>2, <1>3, <2>1
    <2>3. Given(1) = <<"echo">>
        BY <1>2, <1>4, <2>2, EchoStays
    <2>4. <<"echo">> # <<"send">>
        OBVIOUS
    <2> QED
        BY <1>2, <1>3, <2>3, <2>4
<1> QED
    BY <1>1, <1>5, MeantIsRight

(* Unless memory was short, what send puts on the connection is what its   *)
(* line means (network.c, cmd_send and send_message): its arguments with   *)
(* their variables replaced, without quotes, and every blank once.         *)
THEOREM MessagesAreRight == Spec => MessageRight
<1> DEFINE Right == message' \notin {message, <<>>} /\ ~short' =>
                       message' = Message(Arguments(input, EnvOf(varList)), EnvOf(varList))
<1>1. ASSUME ShellInv, [Next]_vars PROVE [Right]_vars
    <2>1. CASE SendMessage
        <3> SUFFICES ASSUME ~short'
                     PROVE  message' = Message(Arguments(input, EnvOf(varList)), EnvOf(varList))
            OBVIOUS
        <3>1. /\ pc = "dispatch" /\ Sending /\ Len(tokens) > 3 /\ short' = short
              /\ message' = Normalized(ExpandVariables(Joined(tokens), varList))
            BY <2>1 DEF SendMessage, Commanding, Dispatching
        <3>2. tokens = Arguments(input, EnvOf(varList))
            BY <1>1, <3>1, SentIsMeant
        <3>3. message' = Message(tokens, EnvOf(varList))
            BY <1>1, <3>1, MessageGiven
        <3> QED
            BY <3>2, <3>3
    <2>2. CASE ReadLine
        <3>1. message' = <<>>
            BY <2>2 DEF ReadLine
        <3> QED
            BY <3>1
    <2>3. CASE Type \/ ReadNothing \/ Tokenize \/ OverrunLine \/ SkipToken \/ ExpandFails
                \/ ExpandToken \/ OverrunArray \/ EndExpansion
        <3>1. message' = message
            BY <2>3 DEF Type, ReadNothing, Tokenize, OverrunLine, SkipToken, ExpandFails,
                        ExpandToken, Expanding, OverrunArray, EndExpansion
        <3> QED
            BY <3>1
    <2>4. CASE UseFreed \/ Assign \/ AssignFails \/ OverrunMessage \/ RunCommand \/ Over
                \/ UNCHANGED vars
        <3>1. message' = message
            BY <2>4 DEF UseFreed, Assign, AssignFails, OverrunMessage, RunCommand, Over, vars
        <3> QED
            BY <3>1
    <2> QED
        BY <1>1, <2>1, <2>2, <2>3, <2>4 DEF Next
<1> QED
    BY <1>1, InvariantHolds, PTL DEF Spec, MessageRight

-----------------------------------------------------------------------------
(* The shell implements Environment.                                       *)

(* The instance speaks of the same meaning of lines. *)
LEMMA SameMeaning ==
    ASSUME NEW l, NEW w, NEW e, NEW k, NEW v
    PROVE  /\ E!Words(l) = Words(l)
           /\ E!Value(w, e) = Value(w, e)
           /\ E!KeyOf(w) = KeyOf(w) /\ E!RightSide(w) = RightSide(w)
           /\ E!FirstWord(w, e) = FirstWord(w, e)
           /\ E!Update(e, k, v) = Update(e, k, v)
           /\ E!Assigns(l, e) <=> Assigns(l, e)
           /\ E!After(l, e) = After(l, e)
<1>a. /\ \A s : E!Min(s) = Min(s)
      /\ \A s : E!FlattenSeq(s) = FlattenSeq(s)
    BY Zenon DEF E!Min, Min, E!FlattenSeq, FlattenSeq
<1>1. E!Words(l) = Words(l)
    <2>1. \A i : E!Alone(l, i, Blank) <=> Alone(l, i, Blank)
        BY <1>a, Zenon DEF E!Alone, Alone, E!IsEcho, IsEcho, E!EchoAt, EchoAt
    <2>2. \A i : E!InWord(l, i, Blank) <=> InWord(l, i, Blank)
        BY <2>1, Zenon DEF E!InWord, InWord, E!Blank, Blank
    <2>3. \A i : E!EndsWord(l, i, Blank) <=> EndsWord(l, i, Blank)
        BY <2>1, <2>2, Zenon DEF E!EndsWord, EndsWord
    <2>4. \A i : E!WordAt(l, i, Blank) = WordAt(l, i, Blank)
        BY <1>a, <2>1, <2>2, Zenon DEF E!WordAt, WordAt
    <2>5. E!WordsWith(l, Blank) = WordsWith(l, Blank)
        BY <1>a, <2>3, <2>4, Zenon DEF E!WordsWith, WordsWith
    <2> QED
        BY <2>5, Zenon DEF E!Words, Words, E!Blank, Blank
<1>2. \A x : E!Value(x, e) = Value(x, e)
    <2>1. \A x, i : E!NameAfter(x, i) = NameAfter(x, i)
        BY <1>a, Zenon DEF E!NameAfter, NameAfter, E!Blank, Blank
    <2>2. \A x, i : E!InName(x, i) <=> InName(x, i)
        BY <2>1, Zenon DEF E!InName, InName
    <2>3. \A x, i : E!PartOf(x, e, i) = PartOf(x, e, i)
        BY <2>1, <2>2, Zenon DEF E!PartOf, PartOf
    <2> QED
        BY <1>a, <2>3, Zenon DEF E!Value, Value, E!Cut, Cut, E!CutTo, CutTo
<1>3. \A x : E!KeyOf(x) = KeyOf(x) /\ E!RightSide(x) = RightSide(x)
    BY Zenon DEF E!KeyOf, KeyOf, E!RightSide, RightSide, E!FirstEquals, FirstEquals,
                 E!Min, Min
<1>4. \A x : E!IsAssignment(x) <=> IsAssignment(x)
    BY Zenon DEF E!IsAssignment, IsAssignment
<1>5. \A x : E!FirstWord(x, e) = FirstWord(x, e)
    BY <1>2, <1>4, Zenon DEF E!FirstWord, FirstWord
<1>6. \A x, y : E!Update(e, x, y) = Update(e, x, y)
    BY Zenon DEF E!Update, Update
<1>7. E!Assigns(l, e) <=> Assigns(l, e)
    BY <1>1, <1>4, <1>5 DEF E!Assigns, Assigns, E!Assigning, Assigning
<1>8. E!After(l, e) = After(l, e)
    BY <1>1, <1>2, <1>3, <1>5, <1>6, <1>7 DEF E!After, After
<1> QED
    BY <1>1, <1>2, <1>3, <1>5, <1>6, <1>7, <1>8

(* No variables at the start.                                              *)
LEMMA InitialEnvironment == Init => E!EnvInit
<1> SUFFICES ASSUME Init PROVE E!EnvInit
    OBVIOUS
<1>1. varList = <<>> /\ input = <<>> /\ short = FALSE
    BY DEF Init
<1>2. EnvOf(<<>>) = <<>>
    BY DEF EnvOf
<1> QED
    BY <1>1, <1>2 DEF E!EnvInit

(* A step that does not end a line leaves the variables alone.             *)
LEMMA NothingSeen ==
    ASSUME varList' = varList, input' = input, short' = short
    PROVE  UNCHANGED E!envVars
BY DEF E!envVars

(* A line is entered when it is read.                                      *)
LEMMA ReadLineEnters == ShellInv /\ ReadLine => E!Enter
<1> SUFFICES ASSUME ShellInv, ReadLine PROVE E!Enter
    OBVIOUS
<1>1. input = <<>> /\ input' = Available /\ stdin # <<>> /\ short' = FALSE /\ varList' = varList
    BY DEF ReadLine, ShellInv, AtPrompt
<1>2. Available # <<>>
    BY <1>1, WhatIsRead DEF ShellInv, StateTypes
<1> QED
    BY <1>1, <1>2 DEF E!Enter

(* A line that changes nothing.                                            *)
LEMMA NothingChanged ==
    ASSUME input # <<>>, input' = <<>>, varList' = varList, short' = short,
           short \/ After(input, EnvOf(varList)) = EnvOf(varList)
    PROVE  E!Execute \/ E!ExecuteShort
<1>1. CASE short
    BY <1>1 DEF E!ExecuteShort
<1>2. CASE After(input, EnvOf(varList)) = EnvOf(varList)
    <2>1. EnvOf(varList') = E!After(input, EnvOf(varList))
        BY <1>2, SameMeaning
    <2> QED
        BY <2>1 DEF E!Execute
<1> QED
    BY <1>1, <1>2

(* A line without words changes nothing.                                   *)
LEMMA TokenizeMaps == ShellInv /\ Tokenize => E!Execute \/ E!ExecuteShort \/ UNCHANGED E!envVars
<1> SUFFICES ASSUME ShellInv, Tokenize
             PROVE  E!Execute \/ E!ExecuteShort \/ UNCHANGED E!envVars
    OBVIOUS
<1>1. input # <<>> /\ input \in Text /\ varList' = varList /\ short' = short
    BY DEF ShellInv, Tokenize, LineRead, StateTypes
<1>2. CASE Tokenized(input) = <<>> /\ NextPrompt
    <2>1. Taken(input) = <<>>
        BY <1>1, <1>2, TokensAreTaken
    <2>2. After(input, EnvOf(varList)) = EnvOf(varList)
        <3>1. ~Assigning(Taken(input), EnvOf(varList)) /\ varList \in Seq(Variable)
            BY <2>1 DEF Assigning, ShellInv, ListTyped
        <3>2. ~Assigns(input, EnvOf(varList))
            BY <1>1, <3>1, SameAssigning
        <3> QED
            BY <3>2 DEF After
    <2> QED
        BY <1>1, <1>2, <2>2, NothingChanged DEF NextPrompt
<1>3. CASE input' = input
    BY <1>1, <1>3, NothingSeen
<1> QED
    BY <1>2, <1>3 DEF Tokenize

(* A line being executed is not empty.                                     *)
LEMMA LineUnderWay ==
    ASSUME ShellInv, Executing
    PROVE  input # <<>>
<1>1. input \in Text /\ Taken(input) # <<>>
    BY DEF ShellInv, StateTypes, TokensKnown
<1>2. Taken(<<>>) = <<>>
    <2>1. <<>> \in Text /\ Len(<<>>) = 0
        BY DEF Text
    <2> QED
        BY <2>1, GotStep
<1> QED
    BY <1>1, <1>2

(* Replacing variables changes none.                                       *)
LEMMA ExpansionMaps ==
    ShellInv /\ (SkipToken \/ ExpandFails \/ ExpandToken) => E!RunShort \/ UNCHANGED E!envVars
<1> SUFFICES ASSUME ShellInv, SkipToken \/ ExpandFails \/ ExpandToken
             PROVE  E!RunShort \/ UNCHANGED E!envVars
    OBVIOUS
<1>1. pc = "expand" /\ varList' = varList /\ input' = input
    BY DEF SkipToken, ExpandFails, ExpandToken, Expanding
<1>2. short' = TRUE \/ short' = short
    BY DEF SkipToken, ExpandFails, ExpandToken
<1>3. input # <<>>
    BY <1>1, LineUnderWay DEF Executing
<1>4. CASE short' = TRUE
    BY <1>1, <1>3, <1>4 DEF E!RunShort
<1>5. CASE short' = short
    BY <1>1, <1>5, NothingSeen
<1> QED
    BY <1>2, <1>4, <1>5

(* An assignment does what the line means.                                 *)
LEMMA AssignMaps == ShellInv /\ Assign => E!Execute
<1> SUFFICES ASSUME ShellInv, Assign PROVE E!Execute
    OBVIOUS
<1> DEFINE w == Head(tokens)
           env == EnvOf(varList)
           key == KeyPart(w)
           value == ExpandVariables(ValuePart(w), varList)
<1>1. /\ pc = "dispatch" /\ Assignment /\ input' = <<>> /\ short' = short
      /\ varList' = SetVariable(varList, key, value)
    BY DEF Assign, Dispatching, NextPrompt
<1>2. /\ Assigns(input, env) /\ w = FirstWord(Head(Words(input)), env)
      /\ key = KeyOf(w) /\ key \in KeyText
      /\ value = Value(RightSide(w), env) /\ value \in ValueText
    BY <1>1, AssignmentGiven
<1>3. EnvOf(varList') = Update(env, key, value)
    BY <1>1, <1>2, SetVariableUpdates DEF ShellInv, ListTyped
<1>4. After(input, env) = Update(env, key, value)
    BY <1>2 DEF After
<1>5. E!After(input, env) = After(input, env)
    BY SameMeaning
<1>6. input # <<>>
    BY <1>1, LineUnderWay DEF Executing
<1> QED
    BY <1>1, <1>3, <1>4, <1>5, <1>6 DEF E!Execute

(* One that finds no memory does nothing, or sets the text as typed.       *)
LEMMA AssignFailsMaps == ShellInv /\ AssignFails => E!ExecuteShort
<1> SUFFICES ASSUME ShellInv, AssignFails PROVE E!ExecuteShort
    OBVIOUS
<1> DEFINE w == Head(tokens)
           env == EnvOf(varList)
           key == KeyPart(w)
           value == ValuePart(w)
<1>1. /\ pc = "dispatch" /\ Assignment /\ input' = <<>> /\ short' = TRUE
      /\ varList' = varList \/ varList' = SetVariable(varList, key, value)
    BY DEF AssignFails, Dispatching, NextPrompt
<1>2. /\ Assigns(input, env) /\ w = FirstWord(Head(Words(input)), env)
      /\ key = KeyOf(w) /\ key \in KeyText
      /\ value = RightSide(w) /\ value \in ValueText
    BY <1>1, AssignmentGiven
<1>3. input # <<>>
    BY <1>1, LineUnderWay DEF Executing
<1>4. CASE varList' = varList
    BY <1>1, <1>3, <1>4 DEF E!ExecuteShort
<1>5. CASE varList' = SetVariable(varList, key, value)
    <2>1. EnvOf(varList') = Update(env, KeyOf(w), RightSide(w))
        BY <1>2, <1>5, SetVariableUpdates DEF ShellInv, ListTyped
    <2> DEFINE x == E!FirstWord(Head(E!Words(input)), env)
    <2>2. x = w /\ E!Assigns(input, env)
        BY <1>2, SameMeaning
    <2>3. E!Update(env, E!KeyOf(x), E!RightSide(x)) = Update(env, KeyOf(w), RightSide(w))
        BY <2>2, SameMeaning
    <2> HIDE DEF w, env
    <2> QED
        BY <1>1, <1>3, <2>1, <2>2, <2>3 DEF E!ExecuteShort, env, x
<1> QED
    BY <1>1, <1>4, <1>5

(* A command that is not an assignment, once it is over, means none.       *)
LEMMA CommandChangesNothing ==
    ASSUME ShellInv, Commanding, NextPrompt, varList' = varList,
           short' = short \/ short' = TRUE
    PROVE  E!Execute \/ E!ExecuteShort
<1>1. pc = "dispatch" /\ ~Assignment
    BY DEF Commanding, Dispatching
<1>2. input # <<>> /\ input' = <<>>
    BY <1>1, LineUnderWay DEF Executing, NextPrompt
<1>3. short \/ After(input, EnvOf(varList)) = EnvOf(varList)
    BY <1>1, NoAssignmentGiven DEF After
<1>4. CASE short' = short
    BY <1>2, <1>3, <1>4, NothingChanged
<1>5. CASE short' = TRUE
    BY <1>2, <1>5 DEF E!ExecuteShort
<1> QED
    BY <1>4, <1>5

(* Nor does a message that is sent.                                        *)
LEMMA SendMessageMaps ==
    ShellInv /\ SendMessage =>
        E!Execute \/ E!ExecuteShort \/ E!RunShort \/ UNCHANGED E!envVars
<1> SUFFICES ASSUME ShellInv, SendMessage
             PROVE  E!Execute \/ E!ExecuteShort \/ E!RunShort \/ UNCHANGED E!envVars
    OBVIOUS
<1>1. /\ Commanding /\ pc = "dispatch" /\ varList' = varList
      /\ short' = short \/ short' = TRUE
    BY DEF SendMessage, Commanding, Dispatching
<1>2. CASE NextPrompt
    BY <1>1, <1>2, CommandChangesNothing
<1>3. CASE Stop("exited")
    <2>1. input' = input
        BY <1>3 DEF Stop, commandVars
    <2>2. input # <<>>
        BY <1>1, LineUnderWay DEF Executing
    <2>3. CASE short' = TRUE
        BY <1>1, <2>1, <2>2, <2>3 DEF E!RunShort
    <2>4. CASE short' = short
        BY <1>1, <2>1, <2>4, NothingSeen
    <2> QED
        BY <1>1, <2>3, <2>4
<1> QED
    BY <1>2, <1>3 DEF SendMessage

(* Any other command changes no variable.                                  *)
LEMMA RunCommandMaps ==
    ShellInv /\ RunCommand => E!Execute \/ E!ExecuteShort \/ UNCHANGED E!envVars
<1> SUFFICES ASSUME ShellInv, RunCommand
             PROVE  E!Execute \/ E!ExecuteShort \/ UNCHANGED E!envVars
    OBVIOUS
<1>1. Commanding /\ varList' = varList /\ short' = short
    BY DEF RunCommand
<1>2. CASE NextPrompt
    BY <1>1, <1>2, CommandChangesNothing
<1>3. CASE Stop("aborted")
    BY <1>1, <1>3, NothingSeen DEF Stop, commandVars
<1> QED
    BY <1>2, <1>3 DEF RunCommand

(* Every line changes the variables as it means, or memory was short: the  *)
(* shell, with its tokens, its list and its expansion, implements the      *)
(* mapping of Environment.                                                 *)
THEOREM ShellImplementsEnvironment == Spec => EnvSpec
<1> DEFINE Line == E!Enter \/ E!Execute \/ E!RunShort \/ E!ExecuteShort
<1>1. ASSUME ShellInv, [Next]_vars PROVE [Line]_(E!envVars)
    <2>1. CASE ReadLine
        BY <1>1, <2>1, ReadLineEnters
    <2>2. CASE Tokenize
        BY <1>1, <2>2, TokenizeMaps
    <2>3. CASE SkipToken \/ ExpandFails \/ ExpandToken
        BY <1>1, <2>3, ExpansionMaps
    <2>4. CASE Assign
        BY <1>1, <2>4, AssignMaps
    <2>5. CASE AssignFails
        BY <1>1, <2>5, AssignFailsMaps
    <2>6. CASE RunCommand
        BY <1>1, <2>6, RunCommandMaps
    <2>7. CASE SendMessage
        BY <1>1, <2>7, SendMessageMaps
    <2>8. CASE \/ Type \/ ReadNothing \/ OverrunLine \/ OverrunArray \/ EndExpansion
               \/ UseFreed \/ OverrunMessage \/ Over \/ UNCHANGED vars
        <3>1. varList' = varList /\ input' = input /\ short' = short
            BY <2>8 DEF Type, ReadNothing, OverrunLine, OverrunArray, EndExpansion, UseFreed,
                        OverrunMessage, Over, Stop, vars, commandVars
        <3> QED
            BY <3>1, NothingSeen
    <2> QED
        BY <1>1, <2>1, <2>2, <2>3, <2>4, <2>5, <2>6, <2>7, <2>8 DEF Next
<1> QED
    BY <1>1, InitialEnvironment, InvariantHolds, PTL DEF Spec, EnvSpec, E!EnvSpec

=============================================================================
