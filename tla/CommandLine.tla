----------------------------- MODULE CommandLine -----------------------------
(***************************************************************************)
(* The functions mysh applies to a line, as they are coded: tokenize_input *)
(* (io_helpers.c) and the variable list with its look-up, assignment,      *)
(* copy and expansion (variables.c).                                       *)
(***************************************************************************)
EXTENDS LineMeaning

-----------------------------------------------------------------------------
(* tokenize_input first walks over the buffer and puts blanks around | and *)
(* &, shifting the rest of the line to the right each time ...             *)

(* The first "echo " of the line counts, if it is in the right place.      *)
IsEchoCommand(l) ==
    \E i \in DOMAIN l :
        /\ i < Len(l) /\ l[i] = "echo" /\ l[i + 1] = " "
        /\ \A j \in 1 .. i - 1 : ~(l[j] = "echo" /\ l[j + 1] = " ")
        /\ i = 1 \/ (i > 2 /\ l[i - 1] = " " /\ l[i - 2] = "|")

(* Nothing but blanks behind the symbol at i: the newline is none of them. *)
IsBackgroundMarker(l, i) == \A j \in i + 1 .. Len(l) : l[j] = " "

(* So the & that ends an echo is overlooked, at the end of a word, if      *)
(* there is a newline behind it.                                           *)
Overlooked(l) ==
    /\ IsEcho(l)
    /\ \E i \in DOMAIN l \ {1} :
          /\ l[i] = "&" /\ l[i - 1] \notin Blank \cup {"|"}
          /\ \A j \in i + 1 .. Len(l) : l[j] \in Blank
          /\ \E j \in i + 1 .. Len(l) : l[j] = "nl"

(* ... so that done is what has been passed, with its blanks ...           *)
Pass(done, l, i) ==
    LET special == \/ l[i] = "|"
                   \/ l[i] = "&" /\ (IsEchoCommand(l) => IsBackgroundMarker(l, i))
        before == IF done # <<>> /\ Last(done) # " " THEN <<" ">> ELSE <<>>
        after == IF i < Len(l) /\ l[i + 1] # " " THEN <<" ">> ELSE <<>>
    IN IF special THEN done \o before \o <<l[i]>> \o after ELSE Append(done, l[i])

Passed(l) ==
    LET done[i \in 0 .. Len(l)] == IF i = 0 THEN <<>> ELSE Pass(done[i - 1], l, i)
    IN done

Padded(l) == Passed(l)[Len(l)]

(* ... and then cuts it at blanks (strtok): found are the words that are   *)
(* complete and the symbols of the one that may go on.                     *)
Complete(found) ==
    IF found.word = <<>> THEN found.words ELSE Append(found.words, found.word)

Scan(found, c) ==
    IF c \in Blank THEN [words |-> Complete(found), word |-> <<>>]
    ELSE [words |-> found.words, word |-> Append(found.word, c)]

Scanned(l) ==
    LET found[i \in 0 .. Len(l)] ==
            IF i = 0 THEN [words |-> <<>>, word |-> <<>>] ELSE Scan(found[i - 1], l[i])
    IN found

Strtok(l) == Complete(Scanned(l)[Len(l)])

Tokenized_WithoutPadding(l) == Strtok(l)

Tokenized(l) == Strtok(Padded(l))

-----------------------------------------------------------------------------
(* The variable list: cells with a key and a value, head first.            *)

Find(vars, key) == SelectInSeq(vars, LAMBDA v : v.key = key)

GetVariable(vars, key) == vars[Find(vars, key)].value

(* The mapping that a list stands for: what look-ups find.                 *)
EnvOf(vars) == [k \in {vars[i].key : i \in DOMAIN vars} |-> GetVariable(vars, k)]

SetVariable_AlwaysPrepends(vars, key, value) ==
    <<[key |-> key, value |-> value]>> \o vars

SetVariable(vars, key, value) ==
    IF Find(vars, key) # 0
    THEN [vars EXCEPT ![Find(vars, key)].value = value]
    ELSE <<[key |-> key, value |-> value]>> \o vars

(* duplicate_variables puts each copied cell in front of the last one.     *)
DuplicateVariables(vars) == Reverse(vars)

(* expand_variables: result grows up to MAX_STR_LEN.  The name behind the  *)
(* $ at i ends before the next $ or blank; no word is longer than var_name *)
(* has room for.                                                           *)
NameLength(s, i) ==
    LET stop == SelectInSeq(SubSeq(s, i + 1, Len(s)), LAMBDA c : c \in {"$"} \cup Blank)
    IN IF stop = 0 THEN Len(s) - i ELSE stop - 1

(* What of text still fits behind result. *)
Fitting(result, text) ==
    IF Len(result) + Len(text) > MaxLen THEN SubSeq(text, 1, MaxLen - Len(result)) ELSE text

(* One pass of the loop: at is the next symbol of s to look at.            *)
Expand(s, vars, loop) ==
    LET at == loop.at
        n == NameLength(s, at)
        name == SubSeq(s, at + 1, at + n)
        text == IF n = 0 THEN <<"$">>
                ELSE IF Find(vars, name) = 0 THEN <<>>
                ELSE GetVariable(vars, name)
    IN IF at > Len(s) \/ Len(loop.result) >= MaxLen THEN loop
       ELSE IF s[at] # "$"
       THEN [at |-> at + 1, result |-> Append(loop.result, s[at])]
       ELSE [at |-> at + n + 1, result |-> loop.result \o Fitting(loop.result, text)]

(* No more passes than symbols: each goes on by one at least.              *)
Expanded(s, vars) ==
    LET loop[k \in 0 .. Len(s)] ==
            IF k = 0 THEN [at |-> 1, result |-> <<>>] ELSE Expand(s, vars, loop[k - 1])
    IN loop

ExpandVariables(s, vars) ==
    IF "$" \notin ToSet(s) THEN s ELSE Expanded(s, vars)[Len(s)].result

(* is_variable_assignment and the split of handle_variable_assignment.     *)
IsVariableAssignment(s) ==
    s # <<>> /\ s[1] # "=" /\ SelectInSeq(s, LAMBDA c : c = "=") # 0

KeyPart(s) == SubSeq(s, 1, SelectInSeq(s, LAMBDA c : c = "=") - 1)
ValuePart(s) == SubSeq(s, SelectInSeq(s, LAMBDA c : c = "=") + 1, Len(s))

(* cmd_send appends the words from the fourth on to its message ...        *)
Join(message, tokens, k) ==
    (IF k > 1 THEN Append(message, Space) ELSE message) \o Unquoted(tokens[k + 3])

Joining(tokens) ==
    LET message[k \in 0 .. Len(tokens) - 3] ==
            IF k = 0 THEN <<>> ELSE Join(message[k - 1], tokens, k)
    IN message

Joined(tokens) == Joining(tokens)[Len(tokens) - 3]

(* ... and send_message copies it but for blanks in a row, into a buffer   *)
(* where two characters stay free.                                         *)
Normalize_KeepsSpaces(done, c) ==
    IF Len(done.text) >= BufferSize - 2 THEN done
    ELSE [text |-> Append(done.text, c), inSpace |-> FALSE]

Normalize(done, c) ==
    IF Len(done.text) >= BufferSize - 2 THEN done
    ELSE IF c # Space THEN [text |-> Append(done.text, c), inSpace |-> FALSE]
    ELSE IF done.inSpace THEN done
    ELSE [text |-> Append(done.text, Space), inSpace |-> TRUE]

Normalizing(s) ==
    LET done[i \in 0 .. Len(s)] ==
            IF i = 0 THEN [text |-> <<>>, inSpace |-> FALSE] ELSE Normalize(done[i - 1], s[i])
    IN done

Normalized(s) == Normalizing(s)[Len(s)].text

(* How many symbols the text of a background command has (command_str).    *)
CommandLength(tokens) ==
    Len(FlattenSeq([i \in DOMAIN tokens |-> Append(tokens[i], " ")]))

=============================================================================
