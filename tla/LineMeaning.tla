----------------------------- MODULE LineMeaning -----------------------------
(***************************************************************************)
(* What a line typed to mysh means: which words it consists of, what its   *)
(* variable references stand for and which variable it sets.  Each notion  *)
(* is defined by what characterises the result, not by how the code gets   *)
(* there; CommandLine has the code's way, and Shell compares the two.      *)
(*                                                                         *)
(* A line is a sequence of symbols: a symbol is a character that matters   *)
(* or a word of which only the whole does.  A word is a sequence too.      *)
(***************************************************************************)
EXTENDS Naturals, Sequences, SequencesExt, FiniteSetsExt

CONSTANTS
    Symbol,     \* what lines consist of
    MaxLen,     \* MAX_STR_LEN, in symbols
    BufferSize  \* BUFFER_SIZE, in symbols

ASSUME SymbolAssumption ==
    {" ", "nl", "|", "&", "$", "=", "echo", "exit", "send", "quote"} \subseteq Symbol
ASSUME MaxLenAssumption == MaxLen \in Nat \ {0}
ASSUME BufferSizeAssumption == BufferSize \in Nat /\ BufferSize >= 2

Blank == {" ", "nl"}

CutTo(s, n) == SubSeq(s, 1, IF Len(s) < n THEN Len(s) ELSE n)
Cut(s) == CutTo(s, MaxLen)

(* "echo" counts as the command if it begins the line, or follows a pipe   *)
(* and one blank.  Then & is an ordinary symbol, unless nothing but        *)
(* whitespace follows (io_helpers.c:123-127).  What of whitespace counts   *)
(* there is a parameter.                                                   *)
EchoAt(l) == {i \in 1 .. Len(l) - 1 : l[i] = "echo" /\ l[i + 1] = " "}

IsEcho(l) ==
    /\ EchoAt(l) # {}
    /\ LET i == Min(EchoAt(l))
       IN i = 1 \/ (i > 2 /\ l[i - 1] = " " /\ l[i - 2] = "|")

Alone(l, i, white) ==
    \/ l[i] = "|"
    \/ l[i] = "&" /\ (IsEcho(l) => \A j \in i + 1 .. Len(l) : l[j] \in white)

(* The words of a line: each special symbol is one, and so is each longest *)
(* run of other symbols without a blank.                                   *)
InWord(l, i, white) == l[i] \notin Blank /\ ~Alone(l, i, white)

EndsWord(l, e, white) ==
    \/ Alone(l, e, white)
    \/ InWord(l, e, white) /\ (e < Len(l) => ~InWord(l, e + 1, white))

WordAt(l, e, white) ==
    LET starts == {b \in 1 .. e : \A i \in b .. e : InWord(l, i, white)}
    IN IF Alone(l, e, white) THEN <<l[e]>> ELSE SubSeq(l, Min(starts), e)

WordsWith(l, white) ==
    FlattenSeq([e \in DOMAIN l |->
        IF EndsWord(l, e, white) THEN <<WordAt(l, e, white)>> ELSE <<>>])

Words(l) == WordsWith(l, Blank)

(* The value of a word in an environment: $ and the name after it, up to   *)
(* the next $ or blank, stand for the variable; an unknown one is empty,   *)
(* and $ without a name is itself.  Longer values are cut.                 *)
NameAfter(w, i) ==
    LET stops == {j \in i + 1 .. Len(w) : w[j] \in {"$"} \cup Blank}
    IN SubSeq(w, i + 1, IF stops = {} THEN Len(w) ELSE Min(stops) - 1)

InName(w, i) == \E j \in 1 .. i - 1 : w[j] = "$" /\ j + Len(NameAfter(w, j)) >= i

PartOf(w, env, i) ==
    IF w[i] = "$" THEN LET name == NameAfter(w, i)
                       IN IF name = <<>> THEN <<"$">>
                          ELSE IF name \in DOMAIN env THEN env[name] ELSE <<>>
    ELSE IF InName(w, i) THEN <<>>
    ELSE <<w[i]>>

Value(w, env) == Cut(FlattenSeq([i \in DOMAIN w |-> PartOf(w, env, i)]))

IsAssignment(w) == \E i \in 2 .. Len(w) : w[i] = "=" /\ w[1] # "="

FirstEquals(w) == Min({i \in DOMAIN w : w[i] = "="})
KeyOf(w) == SubSeq(w, 1, FirstEquals(w) - 1)
RightSide(w) == SubSeq(w, FirstEquals(w) + 1, Len(w))

(* What the command of a line is given: the values of the words, except   *)
(* for an assignment, which is still to be carried out.                    *)
ArgumentsOf(words, env) ==
    [i \in DOMAIN words |->
        IF i = 1 /\ IsAssignment(words[1]) THEN words[1] ELSE Value(words[i], env)]

Arguments(l, env) == ArgumentsOf(Words(l), env)

(* The environment after a line.  Only a line whose first word is an       *)
(* assignment, as it stands or once its variables are replaced, and that   *)
(* is no pipeline, changes it.                                             *)
FirstWord(w, env) == IF IsAssignment(w) THEN w ELSE Value(w, env)

Assigning(words, env) ==
    /\ words # <<>>
    /\ Head(words) # <<"exit">>
    /\ \A i \in DOMAIN words : words[i] # <<"|">>
    /\ IsAssignment(FirstWord(Head(words), env))

Assigns(l, env) == Assigning(Words(l), env)

Update(env, k, v) == [x \in DOMAIN env \cup {k} |-> IF x = k THEN v ELSE env[x]]

After(l, env) ==
    IF Assigns(l, env)
    THEN LET w == FirstWord(Head(Words(l)), env)
         IN Update(env, KeyOf(w), Value(RightSide(w), env))
    ELSE env

(* What send says: the arguments from the fourth word on, without quotes   *)
(* around them and with a blank between two.  If a $ is left in that, it   *)
(* refers to a variable again.  A blank behind a blank is dropped, and so  *)
(* is what would not fit.                                                  *)
Space == " "

Unquoted(w) ==
    IF Len(w) >= 2 /\ w[1] = "quote" /\ w[Len(w)] = "quote"
    THEN SubSeq(w, 2, Len(w) - 1) ELSE w

MessageText(args) ==
    FlattenSeq([k \in 1 .. Len(args) - 3 |->
        IF k = 1 THEN Unquoted(args[4]) ELSE <<Space>> \o Unquoted(args[k + 3])])

Repeated(s, i) == s[i] = Space /\ i > 1 /\ s[i - 1] = Space

Squeezed(s) == FlattenSeq([i \in DOMAIN s |-> IF Repeated(s, i) THEN <<>> ELSE <<s[i]>>])

Message(args, env) ==
    LET text == MessageText(args)
        meant == IF "$" \in ToSet(text) THEN Value(text, env) ELSE text
    IN CutTo(Squeezed(meant), BufferSize - 2)

=============================================================================
