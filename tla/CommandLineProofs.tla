-------------------------- MODULE CommandLineProofs --------------------------
(***************************************************************************)
(* Theorems about the functions of CommandLine: for every line, every word *)
(* and every list of variables, tokenize_input, expand_variables and       *)
(* set_variable yield what LineMeaning says.                               *)
(*                                                                         *)
(* Each is a recursion over a line or a word.  The proof names what holds  *)
(* after each symbol or pass, and shows that the next one keeps it so      *)
(* (BoundedInduction, RecursionExists and RecursionStays in ListLemmas).   *)
(***************************************************************************)
EXTENDS CommandLine, ListLemmas, FiniteSetTheorems

(* The words that tokenize_input takes a line for: to it, only blanks are   *)
(* whitespace behind an & (io_helpers.c:132).                              *)
Spaces == {" "}
Taken(l) == WordsWith(l, Spaces)

(* Symbols that may stand in a value. *)
Plain == Symbol \ (Blank \cup {"|"})

-----------------------------------------------------------------------------
(* strtok. *)
Text == Seq(Symbol)
Found == [words : Seq(Text), word : Text]
NothingFound == [words |-> <<>>, word |-> <<>>]

(* One more symbol for strtok.                                             *)
LEMMA ScanTypes ==
    ASSUME NEW f \in Found, NEW c \in Symbol
    PROVE  Complete(f) \in Seq(Text) /\ Scan(f, c) \in Found
BY DEF Found, Text, Complete, Scan

(* What strtok has found in a line after each symbol.                      *)
LEMMA ScannedFrom ==
    ASSUME NEW l \in Text
    PROVE  /\ Scanned(l)[0] = NothingFound
           /\ \A i \in 1 .. Len(l) : Scanned(l)[i] = Scan(Scanned(l)[i - 1], l[i])
           /\ \A i \in 0 .. Len(l) : Scanned(l)[i] \in Found
<1> DEFINE n == Len(l)
           Whole(f) == f = [i \in 0 .. n |->
                              IF i = 0 THEN NothingFound ELSE Scan(f[i - 1], l[i])]
           step == [i \in 1 .. n |-> [x \in Found |-> Scan(x, l[i])]]
<1>0. n \in Nat /\ \A i \in 1 .. n : l[i] \in Symbol
    BY DEF Text
<1>a. NothingFound \in Found
    BY DEF NothingFound, Found, Text
<1>1. step \in [1 .. n -> [Found -> Found]]
    BY <1>0, ScanTypes
<1>2. PICK f \in [0 .. n -> Found] :
          f[0] = NothingFound /\ \A i \in 1 .. n : f[i] = step[i][f[i - 1]]
    <2>1. n \in Nat
        OBVIOUS
    <2> HIDE DEF step, n
    <2> QED
        BY <1>a, <1>1, <2>1, RecursionExists
<1>3. \A i \in 1 .. n : f[i] = Scan(f[i - 1], l[i])
    <2> SUFFICES ASSUME NEW i \in 1 .. n PROVE f[i] = Scan(f[i - 1], l[i])
        OBVIOUS
    <2>1. f[i - 1] \in Found
        BY <1>0
    <2>2. step[i][f[i - 1]] = Scan(f[i - 1], l[i])
        BY <2>1
    <2> QED
        BY <1>2, <2>2
<1>4. Whole(f)
    <2> HIDE DEF n
    <2> QED
        BY <1>0, <1>2, <1>3
<1>5. Scanned(l) = CHOOSE g : Whole(g)
    BY DEF Scanned, NothingFound
<1>6. Whole(Scanned(l))
    <2> HIDE DEF Whole
    <2> QED
        BY <1>4, <1>5
<1> DEFINE g == Scanned(l)
<1>7. g[0] = NothingFound /\ \A i \in 1 .. n : g[i] = Scan(g[i - 1], l[i])
    <2> HIDE DEF g, n
    <2> QED
        BY <1>0, <1>6 DEF g
<1>8. \A i \in 1 .. n : g[i - 1] \in Found => g[i] \in Found
    <2> HIDE DEF g, n
    <2> QED
        BY <1>0, <1>7, ScanTypes
<1>9. \A i \in 0 .. n : g[i] \in Found
    <2> HIDE DEF g, n
    <2> QED
        BY <1>0, <1>a, <1>7, <1>8, RecursionStays
<1> QED
    BY <1>7, <1>9

(* What strtok has found at the end of a text.                             *)
State(p) == Scanned(p)[Len(p)]

(* What strtok has found, symbol by symbol.                                *)
LEMMA StateOf ==
    /\ State(<<>>) = NothingFound
    /\ \A p \in Text : State(p) \in Found
    /\ \A p \in Text, c \in Symbol : State(Append(p, c)) = Scan(State(p), c)
<1>1. State(<<>>) = NothingFound
    <2>1. <<>> \in Text /\ Len(<<>>) = 0
        BY DEF Text
    <2> QED
        BY <2>1, ScannedFrom DEF State
<1>2. ASSUME NEW p \in Text PROVE State(p) \in Found
    <2>1. Len(p) \in 0 .. Len(p)
        BY DEF Text
    <2> QED
        BY <2>1, ScannedFrom DEF State
<1>3. ASSUME NEW p \in Text, NEW c \in Symbol
      PROVE  State(Append(p, c)) = Scan(State(p), c)
    <2> DEFINE q == Append(p, c)
               f == Scanned(p)
               g == Scanned(q)
               T == {i \in 0 .. Len(p) : g[i] = f[i]}
    <2>0. /\ q \in Text /\ Len(q) = Len(p) + 1 /\ Len(p) \in Nat
          /\ \A i \in 1 .. Len(p) : q[i] = p[i]
          /\ q[Len(p) + 1] = c
        BY DEF Text
    <2> HIDE DEF q
    <2>1. /\ f[0] = NothingFound /\ g[0] = NothingFound
          /\ \A i \in 1 .. Len(p) : f[i] = Scan(f[i - 1], p[i])
          /\ \A i \in 1 .. Len(p) + 1 : g[i] = Scan(g[i - 1], q[i])
        BY <2>0, ScannedFrom
    <2> HIDE DEF f, g
    <2>2. 0 \in T
        BY <2>0, <2>1
    <2>3. ASSUME NEW i \in 0 .. Len(p) - 1, i \in T PROVE i + 1 \in T
        <3>1. i + 1 \in 1 .. Len(p) /\ (i + 1) - 1 = i /\ i + 1 \in 1 .. Len(p) + 1
            BY <2>0
        <3>2. g[i + 1] = Scan(g[i], q[i + 1]) /\ f[i + 1] = Scan(f[i], p[i + 1])
            BY <2>1, <3>1
        <3>3. g[i] = f[i] /\ q[i + 1] = p[i + 1]
            BY <2>0, <2>3, <3>1
        <3>4. g[i + 1] = f[i + 1]
            BY <3>2, <3>3
        <3> QED
            BY <3>1, <3>4
    <2>4. \A i \in 0 .. Len(p) : i \in T
        <3> HIDE DEF T
        <3> QED
            BY <2>0, <2>2, <2>3, BoundedInduction
    <2>5. g[Len(p)] = f[Len(p)]
        BY <2>0, <2>4
    <2>6. Len(p) + 1 \in 1 .. Len(p) + 1 /\ (Len(p) + 1) - 1 = Len(p)
        BY <2>0
    <2>7. g[Len(p) + 1] = Scan(g[Len(p)], c)
        BY <2>0, <2>1, <2>6
    <2> QED
        BY <2>0, <2>5, <2>7 DEF State, q, f, g
<1> QED
    BY <1>1, <1>2, <1>3

(* A word is under way unless the text ends in a blank.                    *)
LEMMA WordUnderWay ==
    ASSUME NEW p \in Text, p # <<>>
    PROVE  State(p).word = <<>> <=> Last(p) \in Blank
<1>1. PICK q \in Text, c \in Symbol : p = Append(q, c)
    BY SequenceEmptyOrAppend DEF Text
<1>2. State(p) = Scan(State(q), c) /\ State(q) \in Found
    BY <1>1, StateOf
<1>3. Last(p) = c
    BY <1>1 DEF Last, Text
<1>4. Append(State(q).word, c) # <<>>
    <2>1. State(q).word \in Text
        BY <1>2 DEF Found
    <2> QED
        BY <2>1, AppendProperties DEF Text
<1> QED
    BY <1>2, <1>3, <1>4 DEF Scan

-----------------------------------------------------------------------------
(* The padded line.                                                        *)

(* The code and the meaning agree on what counts as echo and on which      *)
(* symbols stand alone.                                                    *)
LEMMA EchoIsEcho ==
    ASSUME NEW l \in Text
    PROVE  IsEchoCommand(l) <=> IsEcho(l)
<1> DEFINE A == EchoAt(l)
           Here(i) == i = 1 \/ (i > 2 /\ l[i - 1] = " " /\ l[i - 2] = "|")
<1>0. Len(l) \in Nat /\ DOMAIN l = 1 .. Len(l)
    BY DEF Text
<1>d. ASSUME NEW i
      PROVE  i \in A <=> i \in DOMAIN l /\ i < Len(l) /\ l[i] = "echo" /\ l[i + 1] = " "
    <2> DEFINE Put == l[i] = "echo" /\ l[i + 1] = " "
    <2>1. i \in A <=> i \in 1 .. Len(l) - 1 /\ Put
        BY DEF EchoAt
    <2> HIDE DEF Put, A
    <2>2. i \in 1 .. Len(l) - 1 <=> i \in 1 .. Len(l) /\ i < Len(l)
        BY <1>0
    <2> QED
        BY <1>0, <2>1, <2>2 DEF Put
<1> HIDE DEF A
<1>a. A \in SUBSET Nat /\ 0 \notin A
    <2>1. \A i \in A : i \in 1 .. Len(l)
        BY <1>0, <1>d
    <2> QED
        BY <1>0, <2>1
<1>b. \A i \in DOMAIN l :
          i \in A <=> i < Len(l) /\ l[i] = "echo" /\ l[i + 1] = " "
    BY <1>d
<1>c. \A i \in A : i \in DOMAIN l /\ \A j \in 1 .. i - 1 :
          j \in DOMAIN l /\ (j \in A <=> l[j] = "echo" /\ l[j + 1] = " ")
    <2> SUFFICES ASSUME NEW i \in A, NEW j \in 1 .. i - 1
                 PROVE  /\ i \in DOMAIN l /\ j \in DOMAIN l
                        /\ j \in A <=> l[j] = "echo" /\ l[j + 1] = " "
        BY <1>d
    <2>1. i \in 1 .. Len(l) /\ i < Len(l)
        BY <1>0, <1>d
    <2>2. j \in 1 .. Len(l) /\ j < Len(l)
        BY <1>0, <2>1
    <2> QED
        BY <1>0, <1>d, <2>1, <2>2
<1>1. IsEchoCommand(l) <=>
        \E i \in A : (\A j \in 1 .. i - 1 : j \notin A) /\ Here(i)
    <2> QED
        BY <1>b, <1>c DEF IsEchoCommand
<1>2. IsEcho(l) <=> A # {} /\ Here(Min(A))
    BY DEF IsEcho, A
<1>3. CASE A = {}
    BY <1>1, <1>2, <1>3
<1>4. CASE A # {}
    <2> HIDE DEF Here
    <2>1. PICK m \in A : \A n \in A : m <= n
        BY <1>a, <1>4, SmallestElement
    <2>2. Min(A) \in A /\ \A n \in A : Min(A) <= n
        BY <2>1 DEF Min
    <2>3. ASSUME NEW i \in A, \A j \in 1 .. i - 1 : j \notin A PROVE i = Min(A)
        <3>1. i \in Nat /\ Min(A) \in Nat /\ Min(A) <= i /\ Min(A) # 0
            BY <1>a, <2>2
        <3> QED
            BY <2>2, <2>3, <3>1
    <2>4. \A j \in 1 .. Min(A) - 1 : j \notin A
        <3>1. Min(A) \in Nat
            BY <1>a, <2>2
        <3> QED
            BY <2>2, <3>1
    <2> QED
        BY <1>1, <1>2, <1>4, <2>2, <2>3, <2>4
<1> QED
    BY <1>3, <1>4

(* A blank before and behind a symbol that stands alone. *)
Before(done) == IF done # <<>> /\ Last(done) # " " THEN Append(done, " ") ELSE done
Behind(done, l, i) ==
    IF i < Len(l) /\ l[i + 1] # " " THEN Append(done, " ") ELSE done

(* What tokenize_input makes of a symbol.                                  *)
LEMMA PassCases ==
    ASSUME NEW l \in Text, NEW i \in 1 .. Len(l), NEW done \in Text
    PROVE  /\ l[i] \in Symbol
           /\ Before(done) \in Text
           /\ Alone(l, i, Spaces) =>
                 Pass(done, l, i) = Behind(Append(Before(done), l[i]), l, i)
           /\ ~Alone(l, i, Spaces) => Pass(done, l, i) = Append(done, l[i])
           /\ Pass(done, l, i) \in Text
<1> DEFINE before == IF done # <<>> /\ Last(done) # " " THEN <<" ">> ELSE <<>>
           after == IF i < Len(l) /\ l[i + 1] # " " THEN <<" ">> ELSE <<>>
           c == l[i]
<1>0. l[i] \in Symbol
    BY DEF Text
<1>a. " " \in Symbol
    BY SymbolAssumption
<1> HIDE DEF c
<1>1. Pass(done, l, i) = IF Alone(l, i, Spaces) THEN done \o before \o <<c>> \o after
                         ELSE Append(done, c)
    BY EchoIsEcho DEF Pass, Alone, Spaces, IsBackgroundMarker, c
<1>b. \A d \in Text, x \in Symbol :
          Append(d, x) \in Text /\ d \o <<x>> = Append(d, x) /\ d \o <<>> = d
    BY DEF Text
<1>2. done \o before = Before(done) /\ Before(done) \in Text
    BY <1>a, <1>b DEF Before
<1>3. Before(done) \o <<c>> = Append(Before(done), c) /\ Append(Before(done), c) \in Text
    BY <1>0, <1>2, <1>b DEF c
<1>4. /\ Append(Before(done), c) \o after = Behind(Append(Before(done), c), l, i)
      /\ Behind(Append(Before(done), c), l, i) \in Text
    BY <1>a, <1>b, <1>3 DEF Behind
<1>5. Append(done, c) \in Text
    BY <1>0, <1>b DEF c
<1> QED
    BY <1>0, <1>1, <1>2, <1>3, <1>4, <1>5 DEF c

(* The padded line, symbol by symbol.                                      *)
LEMMA PassedFrom ==
    ASSUME NEW l \in Text
    PROVE  /\ Passed(l)[0] = <<>>
           /\ \A i \in 1 .. Len(l) : Passed(l)[i] = Pass(Passed(l)[i - 1], l, i)
           /\ \A i \in 0 .. Len(l) : Passed(l)[i] \in Text
<1> DEFINE n == Len(l)
           Whole(f) == f = [i \in 0 .. n |->
                              IF i = 0 THEN <<>> ELSE Pass(f[i - 1], l, i)]
           step == [i \in 1 .. n |-> [x \in Text |-> Pass(x, l, i)]]
<1>0. n \in Nat /\ <<>> \in Text
    BY DEF Text
<1>p. \A i \in 1 .. n, x \in Text : Pass(x, l, i) \in Text
    BY PassCases
<1>1. step \in [1 .. n -> [Text -> Text]]
    <2> HIDE DEF n
    <2> QED
        BY <1>p
<1>2. PICK f \in [0 .. n -> Text] :
          f[0] = <<>> /\ \A i \in 1 .. n : f[i] = step[i][f[i - 1]]
    <2>1. n \in Nat /\ <<>> \in Text
        BY <1>0
    <2> HIDE DEF step, n
    <2> QED
        BY <1>1, <2>1, RecursionExists
<1>3. \A i \in 1 .. n : f[i] = Pass(f[i - 1], l, i)
    <2> SUFFICES ASSUME NEW i \in 1 .. n PROVE f[i] = Pass(f[i - 1], l, i)
        OBVIOUS
    <2>1. f[i - 1] \in Text
        BY <1>0
    <2>2. step[i][f[i - 1]] = Pass(f[i - 1], l, i)
        BY <2>1
    <2> QED
        BY <1>2, <2>2
<1>4. Whole(f)
    <2> HIDE DEF n
    <2> QED
        BY <1>0, <1>2, <1>3
<1>5. Passed(l) = CHOOSE g : Whole(g)
    BY DEF Passed
<1>6. Whole(Passed(l))
    <2> HIDE DEF Whole
    <2> QED
        BY <1>4, <1>5
<1> DEFINE g == Passed(l)
<1>7. g[0] = <<>> /\ \A i \in 1 .. n : g[i] = Pass(g[i - 1], l, i)
    <2> HIDE DEF g, n
    <2> QED
        BY <1>0, <1>6 DEF g
<1>8. \A i \in 1 .. n : g[i - 1] \in Text => g[i] \in Text
    <2> HIDE DEF g, n
    <2> QED
        BY <1>p, <1>7
<1>9. \A i \in 0 .. n : g[i] \in Text
    <2>1. n \in Nat /\ <<>> \in Text
        BY <1>0
    <2> HIDE DEF g, n
    <2> QED
        BY <1>7, <1>8, <2>1, RecursionStays
<1> QED
    BY <1>7, <1>9

(* The types of what a line consists of: a word has no blanks, and | is    *)
(* only in the word |.                                                     *)
Word == (Seq(Plain) \ {<<>>}) \cup {<<"|">>}

(* A symbol is a blank, stands alone, or is in a word.                     *)
LEMMA SymbolKinds ==
    ASSUME NEW l \in Text, NEW i \in 1 .. Len(l)
    PROVE  /\ l[i] \in Symbol
           /\ l[i] \in Blank => ~Alone(l, i, Spaces) /\ ~InWord(l, i, Spaces)
           /\ Alone(l, i, Spaces) => l[i] \notin Blank /\ ~InWord(l, i, Spaces)
           /\ InWord(l, i, Spaces) => l[i] \in Plain /\ ~Alone(l, i, Spaces)
           /\ Alone(l, i, Spaces) => <<l[i]>> \in Word
           /\ l[i] \in Blank \/ Alone(l, i, Spaces) \/ InWord(l, i, Spaces)
<1>1. l[i] \in Symbol
    BY DEF Text
<1>2. "&" \in Plain
    BY SymbolAssumption DEF Plain, Blank
<1>3. Alone(l, i, Spaces) => l[i] \in {"|", "&"}
    BY DEF Alone
<1>4. l[i] = "|" => Alone(l, i, Spaces)
    BY DEF Alone
<1>5. Alone(l, i, Spaces) => l[i] \notin Blank
    BY <1>3 DEF Blank
<1>6. InWord(l, i, Spaces) => l[i] \in Plain
    BY <1>1, <1>4 DEF InWord, Plain
<1>7. <<"&">> \in Word
    BY <1>2 DEF Word
<1>8. Alone(l, i, Spaces) => <<l[i]>> \in Word
    BY <1>3, <1>7 DEF Word
<1> QED
    BY <1>1, <1>5, <1>6, <1>8 DEF InWord

(* Where the run of symbols begins that i is in.                           *)
Starts(l, i) == {b \in 1 .. i : \A j \in b .. i : InWord(l, j, Spaces)}

(* A run begins where the symbol before it is not in a word.               *)
LEMMA RunOfSymbols ==
    ASSUME NEW l \in Text, NEW i \in 1 .. Len(l), InWord(l, i, Spaces)
    PROVE  /\ Min(Starts(l, i)) \in 1 .. i
           /\ \A j \in Min(Starts(l, i)) .. i : InWord(l, j, Spaces)
           /\ (i = 1 \/ ~InWord(l, i - 1, Spaces)) => Min(Starts(l, i)) = i
           /\ i # 1 /\ InWord(l, i - 1, Spaces) => Min(Starts(l, i)) = Min(Starts(l, i - 1))
<1> DEFINE S == Starts(l, i)
           m == Min(S)
<1>0. i \in Nat /\ i # 0
    BY DEF Text
<1>1. S \in SUBSET Nat /\ \A b \in S : b \in 1 .. i /\ \A j \in b .. i : InWord(l, j, Spaces)
    BY <1>0 DEF Starts
<1>2. i \in S
    BY <1>0 DEF Starts
<1>3. m \in S /\ \A b \in S : m <= b
    <2>1. PICK k \in S : \A b \in S : k <= b
        <3> HIDE DEF S
        <3> QED
            BY <1>1, <1>2, SmallestElement
    <2> HIDE DEF S
    <2> QED
        BY <2>1 DEF Min
<1>4. ASSUME i = 1 \/ ~InWord(l, i - 1, Spaces) PROVE m = i
    <2>1. m \in 1 .. i /\ \A j \in m .. i : InWord(l, j, Spaces)
        BY <1>1, <1>3
    <2> HIDE DEF m
    <2>2. m # i => i - 1 \in m .. i
        BY <1>0, <2>1
    <2> QED
        BY <1>0, <1>4, <2>1, <2>2
<1>5. ASSUME i # 1, InWord(l, i - 1, Spaces) PROVE m = Min(Starts(l, i - 1))
    <2> DEFINE R == Starts(l, i - 1)
    <2>1. \A b : b \in R <=> b \in S /\ b # i
        <3> SUFFICES ASSUME NEW b \in 1 .. i
                     PROVE  b \in R <=> b \in S /\ b # i
            BY <1>0 DEF Starts
        <3>1. CASE b = i
            BY <1>0, <3>1 DEF Starts
        <3>2. CASE b # i
            <4>1. b \in 1 .. i - 1 /\ \A j : j \in b .. i <=> j = i \/ j \in b .. i - 1
                BY <1>0, <3>2
            <4> QED
                BY <1>0, <3>2, <4>1 DEF Starts
        <3> QED
            BY <3>1, <3>2
    <2>2. i - 1 \in R /\ i - 1 \in Nat
        BY <1>0, <1>5 DEF Starts
    <2> HIDE DEF R, S
    <2>3. i - 1 \in S
        BY <2>1, <2>2
    <2>4. m # i /\ m \in R
        BY <1>0, <1>3, <2>1, <2>3, <1>1
    <2>5. \A b \in R : m <= b
        BY <1>3, <2>1
    <2>6. PICK k \in R : k = Min(R) /\ \A b \in R : k <= b
        BY <2>4, <2>5 DEF Min
    <2>7. k \in S
        BY <2>1, <2>6
    <2>8. k <= m /\ m <= k /\ k \in Nat /\ m \in Nat
        BY <1>1, <1>3, <2>4, <2>5, <2>6, <2>7
    <2> QED
        BY <2>6, <2>8 DEF R
<1> QED
    BY <1>1, <1>3, <1>4, <1>5

PartAt(l, e) == IF EndsWord(l, e, Spaces) THEN <<WordAt(l, e, Spaces)>> ELSE <<>>
Parts(l) == [e \in DOMAIN l |-> PartAt(l, e)]
Got(l, i) == FlattenSeq(SubSeq(Parts(l), 1, i))

WordOf(n) == {w \in Word : Len(w) <= n}

(* Words are texts.                                                        *)
LEMMA WordTexts == Word \in SUBSET Text /\ Plain \in SUBSET Symbol
<1>1. "|" \in Symbol
    BY SymbolAssumption
<1>2. \A x \in Plain : x \in Symbol
    BY DEF Plain
<1>3. <<"|">> \in Text
    BY <1>1 DEF Text
<1>4. Seq(Plain) \subseteq Text
    BY <1>2 DEF Text
<1> QED
    BY <1>2, <1>3, <1>4 DEF Word

(* What ends at a place is a word, not longer than the line.               *)
LEMMA WordAtTypes ==
    ASSUME NEW l \in Text, NEW e \in 1 .. Len(l), EndsWord(l, e, Spaces)
    PROVE  WordAt(l, e, Spaces) \in WordOf(Len(l))
<1>0. e \in Nat /\ e # 0 /\ Len(l) \in Nat /\ e <= Len(l)
    BY DEF Text
<1>1. CASE Alone(l, e, Spaces)
    <2>1. WordAt(l, e, Spaces) = <<l[e]>> /\ <<l[e]>> \in Word
        BY <1>1, SymbolKinds DEF WordAt
    <2> QED
        BY <1>0, <2>1 DEF WordOf
<1>2. CASE ~Alone(l, e, Spaces)
    <2> DEFINE b == Min(Starts(l, e))
    <2>1. InWord(l, e, Spaces)
        BY <1>2 DEF EndsWord
    <2>2. b \in 1 .. e /\ \A j \in b .. e : InWord(l, j, Spaces)
        BY <2>1, RunOfSymbols
    <2>3. WordAt(l, e, Spaces) = SubSeq(l, b, e)
        BY <1>2 DEF WordAt, Starts
    <2> HIDE DEF b
    <2>4. ASSUME NEW j \in b .. e PROVE l[j] \in Plain
        <3>1. j \in 1 .. Len(l) /\ InWord(l, j, Spaces)
            BY <1>0, <2>2
        <3> QED
            BY <3>1, SymbolKinds
    <2>5. \A j \in 1 .. (e - b) + 1 : l[b + j - 1] \in Plain
        BY <1>0, <2>2, <2>4
    <2>6. SubSeq(l, b, e) = [j \in 1 .. (e - b) + 1 |-> l[b + j - 1]]
        BY <1>0, <2>2 DEF Text
    <2>7. /\ SubSeq(l, b, e) \in Seq(Plain) /\ Len(SubSeq(l, b, e)) = (e - b) + 1
          /\ SubSeq(l, b, e) # <<>>
        BY <1>0, <2>2, <2>5, <2>6
    <2>8. (e - b) + 1 <= Len(l)
        BY <1>0, <2>2
    <2> QED
        BY <2>3, <2>7, <2>8 DEF WordOf, Word
<1> QED
    BY <1>1, <1>2

(* The words of a line are words, none longer than the line.               *)
LEMMA WordsTypes ==
    ASSUME NEW l \in Text
    PROVE  Taken(l) \in Seq(WordOf(Len(l)))
<1> DEFINE W == WordOf(Len(l))
<1>1. Parts(l) \in Seq(Seq(W))
    <2>1. \A e \in 1 .. Len(l) : PartAt(l, e) \in Seq(W)
        BY WordAtTypes DEF PartAt
    <2>2. DOMAIN l = 1 .. Len(l) /\ Len(l) \in Nat
        BY DEF Text
    <2> HIDE DEF W
    <2> QED
        BY <2>1, <2>2 DEF Parts
<1>2. Taken(l) = FlattenSeq(Parts(l))
    BY DEF Taken, WordsWith, Parts, PartAt
<1> QED
    BY <1>1, <1>2, FlattenAppend

(* The words of the line, found one after the other.                       *)
LEMMA GotStep ==
    ASSUME NEW l \in Text
    PROVE  /\ Got(l, 0) = <<>>
           /\ Got(l, Len(l)) = Taken(l)
           /\ \A i \in 0 .. Len(l) : Got(l, i) \in Seq(Text)
           /\ \A i \in 1 .. Len(l) :
                 Got(l, i) = IF EndsWord(l, i, Spaces) THEN Append(Got(l, i - 1), WordAt(l, i, Spaces))
                             ELSE Got(l, i - 1)
<1>1. Parts(l) \in Seq(Seq(Text)) /\ Len(Parts(l)) = Len(l) /\ Len(l) \in Nat
    <2>1. \A e \in 1 .. Len(l) : EndsWord(l, e, Spaces) => WordAt(l, e, Spaces) \in Text
        BY WordAtTypes, WordTexts DEF WordOf
    <2>2. \A e \in 1 .. Len(l) : PartAt(l, e) \in Seq(Text)
        BY <2>1 DEF PartAt
    <2>3. DOMAIN l = 1 .. Len(l) /\ Len(l) \in Nat
        BY DEF Text
    <2> QED
        BY <2>2, <2>3 DEF Parts
<1>2. Taken(l) = FlattenSeq(Parts(l))
    BY DEF Taken, WordsWith, Parts, PartAt
<1>3. \A i \in 1 .. Len(l) : Parts(l)[i] = PartAt(l, i)
    BY DEF Parts, Text
<1>4. /\ Got(l, 0) = <<>> /\ Got(l, Len(l)) = Taken(l)
      /\ \A i \in 0 .. Len(l) : Got(l, i) \in Seq(Text)
      /\ \A i \in 1 .. Len(l) : Got(l, i) = Got(l, i - 1) \o PartAt(l, i)
    BY <1>1, <1>2, <1>3, FlattenPrefix DEF Got
<1>5. ASSUME NEW i \in 1 .. Len(l)
      PROVE  Got(l, i) = IF EndsWord(l, i, Spaces) THEN Append(Got(l, i - 1), WordAt(l, i, Spaces))
                         ELSE Got(l, i - 1)
    <2>1. i - 1 \in 0 .. Len(l)
        BY <1>1
    <2>2. Got(l, i - 1) \in Seq(Text)
        BY <1>4, <2>1
    <2>3. CASE EndsWord(l, i, Spaces)
        <3>1. WordAt(l, i, Spaces) \in Text
            BY <2>3, WordAtTypes, WordTexts DEF WordOf
        <3>2. Got(l, i - 1) \o <<WordAt(l, i, Spaces)>> = Append(Got(l, i - 1), WordAt(l, i, Spaces))
            BY <2>2, <3>1
        <3> QED
            BY <1>4, <2>3, <3>2 DEF PartAt
    <2>4. CASE ~EndsWord(l, i, Spaces)
        <3>1. Got(l, i - 1) \o <<>> = Got(l, i - 1)
            BY <2>2
        <3> QED
            BY <1>4, <2>4, <3>1 DEF PartAt
    <2> QED
        BY <2>3, <2>4
<1> QED
    BY <1>4, <1>5

GoesOn(l, i) == i # 0 /\ i < Len(l) /\ InWord(l, i, Spaces) /\ InWord(l, i + 1, Spaces)

(* What the words found in the padded line have to do with those of the    *)
(* line, after the symbol at i has been passed.                            *)
InStep(l, i) ==
    LET found == State(Passed(l)[i])
    IN /\ Got(l, i) = IF GoesOn(l, i) THEN found.words ELSE Complete(found)
       /\ i # 0 /\ InWord(l, i, Spaces) => found.word = SubSeq(l, Min(Starts(l, i)), i)
       /\ found.word # <<>> /\ i < Len(l) /\ (i = 0 \/ ~InWord(l, i, Spaces)) => l[i + 1] = " "

(* A blank ends a word, any other symbol goes on with it.                  *)
LEMMA ScanCases ==
    ASSUME NEW f \in Found, NEW c \in Symbol
    PROVE  /\ c \in Blank => Scan(f, c).words = Complete(f) /\ Scan(f, c).word = <<>>
           /\ c \notin Blank => /\ Scan(f, c).words = f.words
                               /\ Scan(f, c).word = Append(f.word, c)
                               /\ Append(f.word, c) # <<>>
<1>1. CASE c \in Blank
    BY <1>1 DEF Scan
<1>2. CASE c \notin Blank
    <2>1. f.word \in Text
        BY DEF Found
    <2>2. Append(f.word, c) # <<>>
        BY <2>1 DEF Text
    <2>3. Scan(f, c) = [words |-> f.words, word |-> Append(f.word, c)]
        BY <1>2 DEF Scan
    <2> QED
        BY <1>2, <2>2, <2>3
<1> QED
    BY <1>1, <1>2

(* The words strtok has found in done, once blanks have been put before    *)
(* and behind c.                                                           *)
LEMMA AloneFound ==
    ASSUME NEW l \in Text, NEW i \in 1 .. Len(l), NEW done \in Text, Alone(l, i, Spaces)
    PROVE  LET found == State(Behind(Append(Before(done), l[i]), l, i))
           IN /\ Complete(found) = Append(Complete(State(done)), <<l[i]>>)
              /\ found.word # <<>> /\ i < Len(l) => l[i + 1] = " "
<1> DEFINE c == l[i]
           s == State(done)
           one == State(Before(done))
           two == State(Append(Before(done), c))
           three == State(Behind(Append(Before(done), c), l, i))
<1>0. c \in Symbol /\ c \notin Blank /\ " " \in Symbol /\ " " \in Blank
    BY SymbolKinds, SymbolAssumption DEF Blank
<1> HIDE DEF c
<1>a. /\ \A p \in Text : State(p) \in Found
      /\ \A p \in Text, x \in Symbol : Append(p, x) \in Text
    BY StateOf DEF Text
<1>1. one.words = Complete(s) /\ one.word = <<>> /\ Before(done) \in Text
    <2>1. CASE done # <<>> /\ Last(done) # " "
        <3>1. Before(done) = Append(done, " ")
            BY <2>1 DEF Before
        <3>2. one = Scan(s, " ")
            BY <1>0, <3>1, StateOf
        <3>3. s \in Found /\ Before(done) \in Text
            BY <1>0, <1>a, <3>1
        <3> HIDE DEF one, s
        <3>4. one.words = Complete(s) /\ one.word = <<>>
            BY <1>0, <3>2, <3>3, ScanCases
        <3> QED
            BY <3>3, <3>4
    <2>2. CASE done # <<>> /\ Last(done) = " "
        <3>1. s.word = <<>> /\ one = s
            BY <1>0, <2>2, WordUnderWay DEF Before
        <3> QED
            BY <2>2, <3>1 DEF Complete, Before
    <2>3. CASE done = <<>>
        <3>1. s = NothingFound /\ one = s
            BY <2>3, StateOf DEF Before
        <3> QED
            BY <2>3, <3>1 DEF Complete, NothingFound, Before
    <2> QED
        BY <2>1, <2>2, <2>3
<1>2. two.words = Complete(s) /\ two.word = <<c>>
    <2>1. two = Scan(one, c)
        BY <1>0, <1>1, StateOf
    <2>2. Append(<<>>, c) = <<c>>
        OBVIOUS
    <2>3. one \in Found
        BY <1>1, <1>a
    <2> HIDE DEF one, two, s
    <2>4. two.words = one.words /\ two.word = Append(one.word, c)
        BY <1>0, <2>1, <2>3, ScanCases
    <2> QED
        BY <1>1, <2>2, <2>4
<1>3. Complete(two) = Append(Complete(s), <<c>>)
    BY <1>2 DEF Complete
<1>4. Append(Before(done), c) \in Text
    BY <1>0, <1>1, <1>a
<1>5. CASE i < Len(l) /\ l[i + 1] # " "
    <2>1. three = Scan(two, " ")
        BY <1>0, <1>4, <1>5, StateOf DEF Behind
    <2>2. three.words = Complete(two) /\ three.word = <<>>
        <3>1. two \in Found
            BY <1>4, <1>a
        <3> HIDE DEF two, three
        <3> QED
            BY <1>0, <2>1, <3>1, ScanCases
    <2>3. Complete(three) = Complete(two)
        BY <2>2 DEF Complete
    <2> QED
        BY <1>3, <2>2, <2>3 DEF c
<1>6. CASE ~(i < Len(l) /\ l[i + 1] # " ")
    <2>1. three = two
        BY <1>6 DEF Behind
    <2> QED
        BY <1>3, <1>6, <2>1 DEF c
<1> QED
    BY <1>5, <1>6

(* Padding and cutting keep in step with the meaning, symbol by symbol.    *)
LEMMA InStepAlways ==
    ASSUME NEW l \in Text
    PROVE  \A i \in 0 .. Len(l) : InStep(l, i)
<1> DEFINE n == Len(l)
           T == {i \in 0 .. n : InStep(l, i)}
<1>0. n \in Nat /\ DOMAIN l = 1 .. n
    BY DEF Text
<1>1. 0 \in T
    <2>1. State(Passed(l)[0]) = NothingFound /\ Got(l, 0) = <<>>
        BY StateOf, PassedFrom, GotStep
    <2>2. NothingFound.word = <<>> /\ Complete(NothingFound) = <<>>
        BY DEF NothingFound, Complete
    <2>3. InStep(l, 0)
        BY <2>1, <2>2 DEF InStep, GoesOn
    <2> QED
        BY <1>0, <2>3
<1>2. ASSUME NEW i \in 0 .. n - 1, i \in T PROVE i + 1 \in T
    <2> DEFINE k == i + 1
               c == l[k]
               done == Passed(l)[i]
               s == State(done)
               t == State(Passed(l)[k])
    <2>0. /\ i \in 0 .. n /\ i < n /\ k \in 1 .. n /\ k - 1 = i /\ k # 0
          /\ i # 0 => i \in 1 .. n
        BY <1>0
    <2>1. InStep(l, i)
        BY <1>2
    <2>2. done \in Text /\ s \in Found /\ Passed(l)[k] = Pass(done, l, k)
        BY <2>0, PassedFrom, StateOf
    <2>3. /\ Alone(l, k, Spaces) => t = State(Behind(Append(Before(done), c), l, k))
          /\ ~Alone(l, k, Spaces) => t = Scan(s, c)
        BY <2>0, <2>2, PassCases, StateOf
    <2>4. Got(l, k) = IF EndsWord(l, k, Spaces) THEN Append(Got(l, i), WordAt(l, k, Spaces)) ELSE Got(l, i)
        BY <2>0, GotStep
    <2>5. InStep(l, k)
        <3>1. CASE c \in Blank
            <4>1. ~Alone(l, k, Spaces) /\ ~InWord(l, k, Spaces)
                BY <2>0, <3>1, SymbolKinds
            <4>2. t.words = Complete(s) /\ t.word = <<>> /\ Complete(t) = Complete(s)
                <5>1. t = Scan(s, c) /\ s \in Found /\ c \in Symbol
                    BY <2>0, <2>2, <2>3, <4>1, SymbolKinds
                <5> HIDE DEF t, s, c
                <5>2. t.words = Complete(s) /\ t.word = <<>>
                    BY <3>1, <5>1, ScanCases
                <5> QED
                    BY <5>2 DEF Complete
            <4>3. ~EndsWord(l, k, Spaces) /\ ~GoesOn(l, i) /\ ~GoesOn(l, k)
                BY <4>1 DEF EndsWord, GoesOn
            <4>4. Got(l, k) = Complete(t)
                BY <2>1, <2>4, <4>2, <4>3 DEF InStep
            <4> QED
                BY <4>1, <4>2, <4>3, <4>4 DEF InStep
        <3>2. CASE Alone(l, k, Spaces)
            <4>1. ~InWord(l, k, Spaces)
                BY <2>0, <3>2, SymbolKinds
            <4>2. /\ Complete(t) = Append(Complete(s), <<c>>)
                  /\ t.word # <<>> /\ k < n => l[k + 1] = " "
                BY <2>0, <2>2, <2>3, <3>2, AloneFound
            <4>3. /\ EndsWord(l, k, Spaces) /\ ~GoesOn(l, i) /\ ~GoesOn(l, k)
                  /\ WordAt(l, k, Spaces) = <<c>>
                BY <3>2, <4>1 DEF EndsWord, GoesOn, WordAt
            <4>4. Got(l, k) = Complete(t)
                BY <2>1, <2>4, <4>2, <4>3 DEF InStep
            <4> QED
                BY <4>1, <4>2, <4>3, <4>4 DEF InStep
        <3>3. CASE InWord(l, k, Spaces)
            <4>0. c \notin Blank /\ c # " " /\ ~Alone(l, k, Spaces) /\ c \in Symbol
                BY <2>0, <3>3, SymbolKinds DEF Blank, InWord
            <4>1. t.words = s.words /\ t.word = Append(s.word, c)
                <5>1. t = Scan(s, c)
                    BY <2>3, <4>0
                <5> HIDE DEF c, s, t
                <5> QED
                    BY <2>2, <4>0, <5>1, ScanCases
            <4>2. t.word # <<>>
                <5>1. t = Scan(s, c)
                    BY <2>3, <4>0
                <5> HIDE DEF c, s, t
                <5> QED
                    BY <2>2, <4>0, <5>1, ScanCases
            <4>3. EndsWord(l, k, Spaces) <=> ~GoesOn(l, k)
                BY <2>0, <3>3, <4>0 DEF EndsWord, GoesOn
            <4>4. WordAt(l, k, Spaces) = SubSeq(l, Min(Starts(l, k)), k)
                BY <4>0 DEF WordAt, Starts
            <4>5. Got(l, i) = s.words /\ t.word = SubSeq(l, Min(Starts(l, k)), k)
                <5>1. CASE i # 0 /\ InWord(l, i, Spaces)
                    <6> DEFINE b == Min(Starts(l, i))
                    <6>1. GoesOn(l, i)
                        BY <2>0, <3>3, <5>1 DEF GoesOn
                    <6>2. Got(l, i) = s.words /\ s.word = SubSeq(l, b, i)
                        BY <2>1, <5>1, <6>1 DEF InStep
                    <6>3. Min(Starts(l, k)) = b
                        BY <2>0, <3>3, <5>1, RunOfSymbols
                    <6>4. b \in 1 .. i
                        BY <2>0, <5>1, RunOfSymbols
                    <6> HIDE DEF b
                    <6>5. Append(SubSeq(l, b, i), c) = SubSeq(l, b, k)
                        BY <2>0, <6>4, <1>0 DEF Text
                    <6> QED
                        BY <4>1, <6>2, <6>3, <6>5
                <5>2. CASE i = 0 \/ ~InWord(l, i, Spaces)
                    <6>1. ~GoesOn(l, i)
                        BY <5>2 DEF GoesOn
                    <6>2. s.word = <<>>
                        BY <2>0, <2>1, <4>0, <5>2 DEF InStep
                    <6>3. Got(l, i) = s.words
                        BY <2>1, <6>1, <6>2 DEF InStep, Complete
                    <6>4. Min(Starts(l, k)) = k
                        BY <2>0, <3>3, <5>2, RunOfSymbols
                    <6>5. SubSeq(l, k, k) = <<c>>
                        BY <2>0, OneElement DEF Text
                    <6>6. Append(<<>>, c) = <<c>>
                        OBVIOUS
                    <6> QED
                        BY <4>1, <6>2, <6>3, <6>4, <6>5, <6>6
                <5> QED
                    BY <5>1, <5>2
            <4>6. Complete(t) = Append(s.words, t.word)
                BY <4>1, <4>2 DEF Complete
            <4>7. Got(l, k) = IF GoesOn(l, k) THEN t.words ELSE Complete(t)
                BY <2>4, <4>1, <4>3, <4>4, <4>5, <4>6
            <4> QED
                BY <2>0, <3>3, <4>5, <4>7 DEF InStep
        <3> QED
            BY <2>0, <3>1, <3>2, <3>3, SymbolKinds
    <2> QED
        BY <2>0, <2>5
<1>3. \A i \in 0 .. n : i \in T
    <2>1. n \in Nat
        BY <1>0
    <2> HIDE DEF T, n
    <2> QED
        BY <1>1, <1>2, <2>1, BoundedInduction
<1> QED
    BY <1>3

(* tokenize_input finds these words: blanks around | and & and a cut at    *)
(* blanks.                                                                 *)
LEMMA TokensAreTaken ==
    ASSUME NEW l \in Text
    PROVE  Tokenized(l) = Taken(l)
<1>1. Len(l) \in 0 .. Len(l) /\ ~GoesOn(l, Len(l))
    BY DEF Text, GoesOn
<1>2. Taken(l) = Complete(State(Padded(l)))
    BY <1>1, InStepAlways, GotStep DEF InStep, Padded
<1> QED
    BY <1>2 DEF Tokenized, Strtok, State

(* An & that stands alone for the meaning, but not for tokenize_input, is  *)
(* the only one and, unless it is overlooked, a word of its own.           *)
LEMMA LastMarker ==
    ASSUME NEW l \in Text, ~Overlooked(l),
           NEW k \in 1 .. Len(l), Alone(l, k, Blank), ~Alone(l, k, Spaces)
    PROVE  /\ InWord(l, k, Spaces)
           /\ k < Len(l) /\ \A j \in k + 1 .. Len(l) : l[j] \in Blank
           /\ k = 1 \/ l[k - 1] \in Blank \cup {"|"}
           /\ \A i \in 1 .. Len(l) : i # k => (Alone(l, i, Blank) <=> Alone(l, i, Spaces))
<1>0. Len(l) \in Nat /\ DOMAIN l = 1 .. Len(l)
    BY DEF Text
<1>a. \A c \in Spaces : c \in Blank
    BY Zenon DEF Spaces, Blank
<1>1. /\ l[k] = "&" /\ IsEcho(l)
      /\ \A j \in k + 1 .. Len(l) : l[j] \in Blank
      /\ \E j \in k + 1 .. Len(l) : l[j] \notin Spaces
    BY DEF Alone
<1>2. "&" \notin Blank /\ \A c \in Blank : c \notin Spaces => c = "nl"
    BY DEF Blank, Spaces
<1>3. PICK j \in k + 1 .. Len(l) : l[j] = "nl"
    BY <1>1, <1>2
<1>4. k < Len(l)
    BY <1>0, <1>3
<1>5. k = 1 \/ l[k - 1] \in Blank \cup {"|"}
    BY <1>0, <1>1, <1>3 DEF Overlooked
<1>6. InWord(l, k, Spaces)
    BY <1>1, <1>2 DEF InWord
<1>7. ASSUME NEW i \in 1 .. Len(l), i # k
      PROVE  Alone(l, i, Blank) <=> Alone(l, i, Spaces)
    <2>1. Alone(l, i, Spaces) => Alone(l, i, Blank)
        BY <1>a DEF Alone
    <2>2. ASSUME Alone(l, i, Blank), l[i] # "|"
          PROVE  FALSE
        <3>1. l[i] = "&" /\ \A m \in i + 1 .. Len(l) : l[m] \in Blank
            BY <1>1, <2>2 DEF Alone
        <3>2. i \in k + 1 .. Len(l) \/ k \in i + 1 .. Len(l)
            BY <1>0, <1>7
        <3> QED
            BY <1>1, <1>2, <3>1, <3>2
    <2>3. l[i] = "|" => Alone(l, i, Spaces)
        BY DEF Alone
    <2> QED
        BY <2>1, <2>2, <2>3
<1> QED
    BY <1>1, <1>4, <1>5, <1>6, <1>7

(* Where the two readings agree on what stands alone and what ends a word, *)
(* and on the words that end there, they agree on the words.               *)
LEMMA SameWords ==
    ASSUME NEW l \in Text,
           \A e \in 1 .. Len(l) :
               /\ EndsWord(l, e, Spaces) <=> EndsWord(l, e, Blank)
               /\ EndsWord(l, e, Blank) => WordAt(l, e, Spaces) = WordAt(l, e, Blank)
    PROVE  Taken(l) = Words(l)
<1>1. DOMAIN l = 1 .. Len(l)
    BY DEF Text
<1>2. [e \in DOMAIN l |-> IF EndsWord(l, e, Spaces) THEN <<WordAt(l, e, Spaces)>> ELSE <<>>]
          = [e \in DOMAIN l |-> IF EndsWord(l, e, Blank) THEN <<WordAt(l, e, Blank)>> ELSE <<>>]
    <2> SUFFICES ASSUME NEW e \in DOMAIN l
                 PROVE  (IF EndsWord(l, e, Spaces) THEN <<WordAt(l, e, Spaces)>> ELSE <<>>)
                            = IF EndsWord(l, e, Blank) THEN <<WordAt(l, e, Blank)>> ELSE <<>>
        OBVIOUS
    <2>1. /\ EndsWord(l, e, Spaces) <=> EndsWord(l, e, Blank)
          /\ EndsWord(l, e, Blank) => WordAt(l, e, Spaces) = WordAt(l, e, Blank)
        BY <1>1
    <2> QED
        BY ONLY <2>1
<1> QED
    BY <1>2 DEF Taken, Words, WordsWith

(* Unless the & that ends an echo is overlooked, tokenize_input takes the  *)
(* line for the words it consists of.                                      *)
LEMMA TakenAreWords ==
    ASSUME NEW l \in Text, ~Overlooked(l)
    PROVE  Taken(l) = Words(l)
<1> DEFINE n == Len(l)
<1>0. n \in Nat
    BY DEF Text
<1>1. ASSUME NEW e \in 1 .. n, \A i \in 1 .. e : Alone(l, i, Blank) <=> Alone(l, i, Spaces)
      PROVE  WordAt(l, e, Spaces) = WordAt(l, e, Blank)
    <2>1. \A i \in 1 .. e : InWord(l, i, Spaces) <=> InWord(l, i, Blank)
        BY <1>1 DEF InWord
    <2>2. {b \in 1 .. e : \A i \in b .. e : InWord(l, i, Spaces)}
              = {b \in 1 .. e : \A i \in b .. e : InWord(l, i, Blank)}
        <3>1. \A b \in 1 .. e : \A i \in b .. e : i \in 1 .. e
            BY <1>0
        <3> QED
            BY <2>1, <3>1
    <2>3. e \in 1 .. e
        BY <1>0
    <2> QED
        BY <1>1, <2>2, <2>3 DEF WordAt
<1>2. CASE \A i \in 1 .. n : Alone(l, i, Blank) <=> Alone(l, i, Spaces)
    <2>1. ASSUME NEW e \in 1 .. n
          PROVE  /\ EndsWord(l, e, Spaces) <=> EndsWord(l, e, Blank)
                 /\ WordAt(l, e, Spaces) = WordAt(l, e, Blank)
        <3>1. e < n => e + 1 \in 1 .. n
            BY <1>0
        <3>2. \A i \in 1 .. e : i \in 1 .. n
            BY <1>0
        <3>3. EndsWord(l, e, Spaces) <=> EndsWord(l, e, Blank)
            BY <1>2, <3>1 DEF EndsWord, InWord
        <3> QED
            BY <1>1, <1>2, <3>2, <3>3
    <2> QED
        BY <2>1, SameWords
<1>3. ASSUME NEW k \in 1 .. n, Alone(l, k, Blank), ~Alone(l, k, Spaces)
      PROVE  Taken(l) = Words(l)
    <2>1. /\ InWord(l, k, Spaces)
          /\ k < n /\ \A j \in k + 1 .. n : l[j] \in Blank
          /\ k = 1 \/ l[k - 1] \in Blank \cup {"|"}
          /\ \A i \in 1 .. n : i # k => (Alone(l, i, Blank) <=> Alone(l, i, Spaces))
        BY <1>3, LastMarker
    <2>2. k = 1 \/ (~InWord(l, k - 1, Spaces) /\ ~InWord(l, k - 1, Blank))
        BY <2>1 DEF InWord, Alone
    <2>3. k + 1 \in 1 .. n /\ \A j \in k + 1 .. n : ~InWord(l, j, Spaces) /\ ~InWord(l, j, Blank)
        BY <1>0, <2>1 DEF InWord
    <2>4. \A i \in 1 .. n : i # k => (InWord(l, i, Spaces) <=> InWord(l, i, Blank))
        BY <2>1 DEF InWord
    <2>5. ASSUME NEW e \in 1 .. n
          PROVE  /\ EndsWord(l, e, Spaces) <=> EndsWord(l, e, Blank)
                 /\ EndsWord(l, e, Blank) => WordAt(l, e, Spaces) = WordAt(l, e, Blank)
        <3>1. CASE e = k
            <4>1. EndsWord(l, k, Spaces) /\ EndsWord(l, k, Blank)
                BY <1>0, <1>3, <2>1, <2>3 DEF EndsWord
            <4>2. Min(Starts(l, k)) = k
                BY <2>1, <2>2, RunOfSymbols
            <4>3. SubSeq(l, k, k) = <<l[k]>>
                BY OneElement DEF Text
            <4>4. WordAt(l, k, Spaces) = <<l[k]>> /\ WordAt(l, k, Blank) = <<l[k]>>
                BY <1>3, <4>2, <4>3 DEF WordAt, Starts
            <4> QED
                BY <3>1, <4>1, <4>4
        <3>2. CASE e # k /\ e + 1 = k
            <4>1. ~InWord(l, e, Spaces) /\ ~InWord(l, e, Blank)
                BY <1>0, <2>2, <3>2
            <4>2. EndsWord(l, e, Spaces) <=> EndsWord(l, e, Blank)
                BY <2>1, <3>2, <4>1 DEF EndsWord
            <4>3. \A i \in 1 .. e : i \in 1 .. n /\ i # k
                BY <1>0, <3>2
            <4> QED
                BY <1>1, <2>1, <4>2, <4>3
        <3>3. CASE e # k /\ e + 1 # k
            <4>1. e < n => e + 1 \in 1 .. n
                BY <1>0
            <4>2. EndsWord(l, e, Spaces) <=> EndsWord(l, e, Blank)
                BY <2>1, <2>4, <3>3, <4>1 DEF EndsWord
            <4>3. CASE e \in k + 1 .. n
                <5>1. EndsWord(l, e, Blank) => Alone(l, e, Blank) /\ Alone(l, e, Spaces)
                    BY <2>1, <2>3, <3>3, <4>3 DEF EndsWord
                <5> QED
                    BY <4>2, <5>1 DEF WordAt
            <4>4. CASE e \notin k + 1 .. n
                <5>1. \A i \in 1 .. e : i \in 1 .. n /\ i # k
                    BY <1>0, <3>3, <4>4
                <5> QED
                    BY <1>1, <2>1, <4>2, <5>1
            <4> QED
                BY <4>3, <4>4
        <3> QED
            BY <3>1, <3>2, <3>3
    <2> QED
        BY <2>5, SameWords
<1>4. \A i \in 1 .. n : Alone(l, i, Spaces) => Alone(l, i, Blank)
    BY DEF Alone, Spaces, Blank
<1> QED
    BY <1>2, <1>3, <1>4

(* tokenize_input finds the words of the line: blanks around | and & and a *)
(* cut at blanks (io_helpers.c) yield exactly what LineMeaning calls its   *)
(* words, unless the line is an echo whose & at the end is overlooked.     *)
THEOREM TokensAreWords ==
    ASSUME NEW l \in Text, ~Overlooked(l)
    PROVE  Tokenized(l) = Words(l)
BY TokensAreTaken, TakenAreWords

(* What is put together from sequences is one.                             *)
LEMMA FlattenTypes ==
    ASSUME NEW S, NEW p \in Seq(Seq(S))
    PROVE  FlattenSeq(p) \in Seq(S)
<1>1. <<>> \in Seq(S)
    OBVIOUS
<1> QED
    BY <1>1, FlattenAppend

(* A part with one element, among the parts.                               *)
Keeps(u, x, k) == \E i \in DOMAIN u : u[i] = x /\ (k = 1 => i = 1)

LEMMA FlattenHas ==
    ASSUME NEW S, NEW p \in Seq(Seq(S)), NEW k \in 1 .. Len(p), NEW x \in S, p[k] = <<x>>
    PROVE  Keeps(FlattenSeq(p), x, k)
<1> DEFINE u == FlattenSeq(SubSeq(p, 1, k - 1))
           v == FlattenSeq(SubSeq(p, k + 1, Len(p)))
<1>0. Len(p) \in Nat
    BY LenProperties
<1>1. /\ SubSeq(p, 1, k) \in Seq(Seq(S)) /\ SubSeq(p, k + 1, Len(p)) \in Seq(Seq(S))
      /\ SubSeq(p, 1, k) \o SubSeq(p, k + 1, Len(p)) = p
    BY <1>0
<1>2. u \in Seq(S) /\ FlattenSeq(SubSeq(p, 1, k)) = u \o <<x>>
    <2>1. k - 1 \in 0 .. Len(p)
        BY <1>0
    <2>2. u \in Seq(S)
        BY <2>1, FlattenPrefix
    <2>3. FlattenSeq(SubSeq(p, 1, k)) = u \o p[k]
        BY FlattenPrefix
    <2> QED
        BY <2>2, <2>3
<1>3. v \in Seq(S) /\ FlattenSeq(p) \in Seq(S)
    BY <1>1, FlattenTypes
<1>4. FlattenSeq(p) = (u \o <<x>>) \o v
    <2> HIDE DEF u, v
    <2>1. FlattenSeq(SubSeq(p, 1, k) \o SubSeq(p, k + 1, Len(p)))
              = FlattenSeq(SubSeq(p, 1, k)) \o v
        BY <1>1, FlattenConcat DEF v
    <2> QED
        BY ONLY <1>1, <1>2, <2>1
<1>5. k = 1 => u = <<>>
    <2>1. FlattenSeq(SubSeq(p, 1, 0)) = <<>>
        BY FlattenPrefix
    <2>2. k = 1 => k - 1 = 0
        OBVIOUS
    <2> QED
        BY <2>1, <2>2
<1> HIDE DEF u, v
<1>6. /\ Len((u \o <<x>>) \o v) = Len(u) + 1 + Len(v) /\ Len(u) \in Nat /\ Len(v) \in Nat
      /\ ((u \o <<x>>) \o v)[Len(u) + 1] = x
    BY <1>2, <1>3
<1>7. Len(u) + 1 \in 1 .. Len(u) + 1 + Len(v) /\ (k = 1 => Len(u) + 1 = 1)
    BY <1>5, <1>6
<1>8. DOMAIN FlattenSeq(p) = 1 .. Len(u) + 1 + Len(v)
    BY <1>3, <1>4, <1>6
<1> QED
    BY <1>4, <1>6, <1>7, <1>8 DEF Keeps

(* An echo is taken for an echo, or for a pipeline.                        *)
LEMMA EchoWords ==
    ASSUME NEW l \in Text, IsEcho(l), NEW white
    PROVE  LET ws == WordsWith(l, white)
           IN \E i \in DOMAIN ws : ws[i] = <<"|">> \/ (i = 1 /\ ws[i] = <<"echo">>)
<1> DEFINE n == Len(l)
           S == {WordAt(l, e, white) : e \in 1 .. n}
           p == [e \in DOMAIN l |->
                    IF EndsWord(l, e, white) THEN <<WordAt(l, e, white)>> ELSE <<>>]
           ws == FlattenSeq(p)
<1>0. n \in Nat /\ DOMAIN l = 1 .. n
    BY DEF Text
<1>1. p \in Seq(Seq(S)) /\ Len(p) = n
    <2>1. \A e \in 1 .. n : WordAt(l, e, white) \in S
        OBVIOUS
    <2> HIDE DEF S
    <2>2. <<>> \in Seq(S) /\ \A x \in S : <<x>> \in Seq(S)
        OBVIOUS
    <2>3. \A e \in 1 .. n : p[e] \in Seq(S)
        BY <1>0, <2>1, <2>2
    <2> QED
        BY <1>0, <2>3
<1>2. WordsWith(l, white) = ws
    BY DEF WordsWith
<1>3. PICK m \in 1 .. n - 1 : /\ l[m] = "echo" /\ l[m + 1] = " "
                              /\ m = 1 \/ (m > 2 /\ l[m - 1] = " " /\ l[m - 2] = "|")
    <2> DEFINE A == EchoAt(l)
    <2>1. A # {} /\ A \in SUBSET Nat
        <3>1. A # {}
            BY Zenon DEF IsEcho
        <3>2. \A i \in A : i \in 1 .. n - 1
            BY Zenon DEF EchoAt
        <3>3. \A i \in 1 .. n - 1 : i \in Nat
            BY <1>0
        <3> QED
            BY <3>1, <3>2, <3>3
    <2>2. Min(A) \in A
        BY <2>1, MinProperties
    <2> QED
        BY <2>2 DEF IsEcho, EchoAt
<1>4. ASSUME NEW k \in 1 .. n, NEW x, p[k] = <<x>>, x = WordAt(l, k, white)
      PROVE  \E i \in DOMAIN ws : ws[i] = x /\ (k = 1 => i = 1)
    <2>1. x \in S
        BY <1>4
    <2> HIDE DEF p, S
    <2>2. p \in Seq(Seq(S)) /\ k \in 1 .. Len(p) /\ p[k] = <<x>>
        BY <1>1, <1>4
    <2>3. Keeps(ws, x, k)
        BY ONLY <2>1, <2>2, FlattenHas
    <2> QED
        BY <2>3 DEF Keeps
<1>5. CASE m = 1
    <2>1. /\ 1 \in 1 .. n /\ InWord(l, 1, white) /\ ~InWord(l, 2, white)
          /\ ~Alone(l, 1, white)
        <3>1. 1 \in 1 .. n /\ l[1] = "echo" /\ l[2] = " "
            <4>1. 1 \in 1 .. n /\ 1 + 1 = 2
                BY <1>0
            <4> QED
                BY <1>3, <1>5, <4>1
        <3>2. /\ "echo" \notin Blank /\ "echo" # "|" /\ "echo" # "&"
              /\ " " \in Blank
            BY Zenon DEF Blank
        <3>3. ~Alone(l, 1, white)
            BY <3>1, <3>2 DEF Alone
        <3> QED
            BY <3>1, <3>2, <3>3 DEF InWord
    <2>2. EndsWord(l, 1, white)
        BY <2>1 DEF EndsWord
    <2>3. WordAt(l, 1, white) = <<"echo">>
        <3>1. {b \in 1 .. 1 : \A i \in b .. 1 : InWord(l, i, white)} = {1}
            BY <2>1
        <3>2. Min({1}) = 1
            BY DEF Min
        <3>3. SubSeq(l, 1, 1) = <<l[1]>>
            BY <2>1, OneElement DEF Text
        <3> QED
            BY <1>3, <1>5, <2>1, <3>1, <3>2, <3>3 DEF WordAt
    <2>4. p[1] = <<<<"echo">>>>
        BY <1>0, <2>1, <2>2, <2>3
    <2>5. PICK i \in DOMAIN ws : ws[i] = <<"echo">> /\ i = 1
        <3> HIDE DEF p
        <3> QED
            BY <1>4, <2>1, <2>3, <2>4
    <2> QED
        BY <1>2, <2>5
<1>6. CASE m > 2
    <2>1. m - 2 \in 1 .. n /\ Alone(l, m - 2, white) /\ l[m - 2] = "|"
        <3>1. m - 2 \in 1 .. n /\ m # 1
            BY <1>0, <1>6
        <3>2. l[m - 2] = "|"
            BY <1>3, <3>1
        <3> QED
            BY <3>1, <3>2 DEF Alone
    <2>2. EndsWord(l, m - 2, white) /\ WordAt(l, m - 2, white) = <<"|">>
        BY <2>1 DEF EndsWord, WordAt
    <2>3. p[m - 2] = <<<<"|">>>>
        BY <1>0, <2>1, <2>2
    <2>4. PICK i \in DOMAIN ws : ws[i] = <<"|">>
        <3> HIDE DEF p
        <3> QED
            BY <1>4, <2>1, <2>2, <2>3
    <2> QED
        BY <1>2, <2>4
<1> QED
    BY <1>0, <1>3, <1>5, <1>6

(* A text with one more symbol.                                            *)
LEMMA TextGrows ==
    ASSUME NEW p \in Text, NEW x \in Symbol
    PROVE  Append(p, x) \in Text /\ Len(Append(p, x)) = Len(p) + 1 /\ Len(p) \in Nat
BY DEF Text

(* Two blanks for each symbol that tokenize_input puts them around.        *)
LEMMA BlanksPut ==
    ASSUME NEW l \in Text
    PROVE  Len(Padded(l)) <= Len(l) + 2 * Cardinality({i \in DOMAIN l : Alone(l, i, Spaces)})
<1> DEFINE n == Len(l)
           A(i) == {j \in 1 .. i : Alone(l, j, Spaces)}
           Fits(i) == Len(Passed(l)[i]) <= i + 2 * Cardinality(A(i))
           T == {i \in 0 .. n : Fits(i)}
<1>0. n \in Nat /\ DOMAIN l = 1 .. n
    BY DEF Text
<1>1. 0 \in T
    <2>1. A(0) = {} /\ Cardinality({}) = 0
        BY FS_EmptySet
    <2>2. Len(Passed(l)[0]) = 0
        BY PassedFrom
    <2> QED
        BY <1>0, <2>1, <2>2
<1>2. ASSUME NEW i \in 0 .. n - 1, i \in T PROVE i + 1 \in T
    <2> DEFINE k == i + 1
               c == l[k]
               done == Passed(l)[i]
    <2>0. k \in 1 .. n /\ k - 1 = i /\ i \in Nat /\ i \in 0 .. n
        BY <1>0
    <2>1. done \in Text /\ Len(done) \in Nat /\ Passed(l)[k] = Pass(done, l, k)
        BY <2>0, PassedFrom DEF Text
    <2>2. c \in Symbol /\ " " \in Symbol
        BY <2>0, SymbolKinds, SymbolAssumption
    <2>3. IsFiniteSet(A(i)) /\ Cardinality(A(i)) \in Nat
        <3>1. IsFiniteSet(1 .. i) /\ A(i) \in SUBSET (1 .. i)
            BY <2>0, FS_Interval
        <3> QED
            BY <3>1, FS_Subset, FS_CardinalityType
    <2> HIDE DEF done, c
    <2>5. CASE Alone(l, k, Spaces)
        <3>1. A(k) = A(i) \cup {k} /\ k \notin A(i)
            BY <2>0, <2>5
        <3>2. Cardinality(A(k)) = Cardinality(A(i)) + 1
            <4> HIDE DEF A
            <4> QED
                BY <2>3, <3>1, FS_AddElement
        <3>3. Before(done) \in Text /\ Len(Before(done)) <= Len(done) + 1
            <4> DEFINE more == Append(done, " ")
            <4> HIDE DEF more
            <4>1. more \in Text /\ Len(more) = Len(done) + 1
                BY <2>1, <2>2, TextGrows DEF more
            <4>2. Before(done) = more \/ Before(done) = done
                BY DEF Before, more
            <4> QED
                BY <2>1, <4>1, <4>2
        <3> DEFINE one == Before(done)
                   two == Append(one, c)
                   three == Append(two, " ")
        <3> HIDE DEF one, two, three
        <3>4. two \in Text /\ Len(two) <= Len(done) + 2
            <4>1. one \in Text /\ Len(one) \in Nat /\ Len(one) <= Len(done) + 1
                BY <3>3, TextGrows, <2>2 DEF one
            <4>2. two \in Text /\ Len(two) = Len(one) + 1
                BY <2>2, <4>1, TextGrows DEF two
            <4> QED
                BY <2>1, <4>1, <4>2
        <3>5. Len(Behind(two, l, k)) <= Len(done) + 3
            <4>1. Len(two) \in Nat /\ Len(three) = Len(two) + 1
                BY <2>2, <3>4, TextGrows DEF three
            <4>2. Behind(two, l, k) = three \/ Behind(two, l, k) = two
                BY DEF Behind, three
            <4> QED
                BY <2>1, <3>4, <4>1, <4>2
        <3>6. Passed(l)[k] = Behind(two, l, k)
            BY <2>0, <2>1, <2>5, PassCases DEF one, two, c
        <3>7. Behind(two, l, k) \in Text /\ Len(Behind(two, l, k)) \in Nat
            BY <2>1, <2>2, <3>4, TextGrows DEF Behind
        <3>8. Len(done) <= i + 2 * Cardinality(A(i))
            BY <1>2 DEF done
        <3>9. Len(Passed(l)[k]) <= k + 2 * Cardinality(A(k))
            <4> HIDE DEF A
            <4> QED
                BY <2>0, <2>1, <2>3, <3>2, <3>5, <3>6, <3>7, <3>8
        <3> QED
            BY <1>0, <2>0, <3>9
    <2>6. CASE ~Alone(l, k, Spaces)
        <3>1. A(k) = A(i)
            BY <2>0, <2>6
        <3>2. Passed(l)[k] = Append(done, c)
            BY <2>0, <2>1, <2>6, PassCases DEF c
        <3>3. Len(done) <= i + 2 * Cardinality(A(i))
            BY <1>2 DEF done
        <3>4. Len(Passed(l)[k]) <= k + 2 * Cardinality(A(k))
            <4>1. Len(Append(done, c)) = Len(done) + 1
                BY <2>1, <2>2, TextGrows
            <4> HIDE DEF A
            <4> QED
                BY <2>0, <2>1, <2>3, <3>1, <3>2, <3>3, <4>1
        <3> QED
            BY <1>0, <2>0, <3>4
    <2> QED
        BY <2>5, <2>6
<1>3. \A i \in 0 .. n : i \in T
    <2>1. n \in Nat
        BY <1>0
    <2> HIDE DEF T, n
    <2> QED
        BY <1>1, <1>2, <2>1, BoundedInduction
<1> QED
    BY <1>0, <1>3 DEF Padded

(* Two blanks for each symbol that stands alone are enough room for what   *)
(* tokenize_input makes of a line.                                         *)
THEOREM PaddedLength ==
    ASSUME NEW l \in Text
    PROVE  Len(Padded(l)) <= Len(l) + 2 * Cardinality({i \in DOMAIN l : Alone(l, i, Blank)})
<1> DEFINE A == {i \in DOMAIN l : Alone(l, i, Spaces)}
           B == {i \in DOMAIN l : Alone(l, i, Blank)}
<1>1. IsFiniteSet(1 .. Len(l)) /\ DOMAIN l = 1 .. Len(l) /\ Len(l) \in Nat
    BY FS_Interval DEF Text
<1>2. A \in SUBSET B /\ B \in SUBSET (1 .. Len(l))
    BY <1>1 DEF Alone, Spaces, Blank
<1>3. Len(Padded(l)) <= Len(l) + 2 * Cardinality(A)
    BY BlanksPut
<1>4. Len(Padded(l)) \in Nat
    <2>1. Padded(l) \in Text
        BY <1>1, PassedFrom DEF Padded
    <2> QED
        BY <2>1 DEF Text
<1> HIDE DEF A, B
<1>5. IsFiniteSet(B) /\ Cardinality(A) <= Cardinality(B)
    BY <1>1, <1>2, FS_Subset
<1>6. Cardinality(A) \in Nat /\ Cardinality(B) \in Nat
    BY <1>2, <1>5, FS_Subset, FS_CardinalityType
<1>7. Len(Padded(l)) <= Len(l) + 2 * Cardinality(B)
    BY <1>1, <1>3, <1>4, <1>5, <1>6
<1> QED
    BY <1>7 DEF B

-----------------------------------------------------------------------------
(* Values.                                                                 *)

(* What is left of a text that is too long.                                *)
LEMMA CutToProperties ==
    ASSUME NEW a \in Text, NEW m \in Nat
    PROVE  /\ CutTo(a, m) \in Text
           /\ Len(CutTo(a, m)) = IF Len(a) < m THEN Len(a) ELSE m
           /\ \A i \in 1 .. Len(CutTo(a, m)) : CutTo(a, m)[i] = a[i]
           /\ Len(a) <= m => CutTo(a, m) = a
<1> DEFINE n == IF Len(a) < m THEN Len(a) ELSE m
<1>0. Len(a) \in Nat /\ a \in Seq(Symbol)
    BY DEF Text
<1>1. n \in 0 .. Len(a)
    BY <1>0
<1> HIDE DEF n
<1>2. /\ SubSeq(a, 1, n) \in Seq(Symbol) /\ Len(SubSeq(a, 1, n)) = n
      /\ \A i \in 1 .. n : SubSeq(a, 1, n)[i] = a[i]
    BY <1>0, <1>1, SubSeqProperties
<1>3. CutTo(a, m) = SubSeq(a, 1, n)
    BY DEF CutTo, n
<1>4. ASSUME n = Len(a) PROVE CutTo(a, m) = a
    BY <1>0, <1>2, <1>3, <1>4, SeqEqual
<1>5. Len(a) <= m => n = Len(a)
    BY <1>0 DEF n
<1> QED
    BY <1>0, <1>2, <1>3, <1>4, <1>5 DEF n, Text

(* For MAX_STR_LEN.                                                        *)
LEMMA CutProperties ==
    ASSUME NEW a \in Text
    PROVE  /\ Cut(a) \in Text
           /\ Len(Cut(a)) = IF Len(a) < MaxLen THEN Len(a) ELSE MaxLen
           /\ \A i \in 1 .. Len(Cut(a)) : Cut(a)[i] = a[i]
           /\ Len(a) <= MaxLen => Cut(a) = a
BY CutToProperties, MaxLenAssumption DEF Cut

(* Two texts in a row.                                                     *)
LEMMA ConcatTexts ==
    ASSUME NEW a \in Text, NEW b \in Text
    PROVE  /\ a \o b \in Text /\ Len(a \o b) = Len(a) + Len(b)
           /\ Len(a) \in Nat /\ Len(b) \in Nat
           /\ \A i \in 1 .. Len(a) : (a \o b)[i] = a[i]
           /\ \A i \in Len(a) + 1 .. Len(a) + Len(b) : (a \o b)[i] = b[i - Len(a)]
BY ConcatProperties DEF Text

(* Cutting what was cut before; nothing is added to what is long enough.   *)
LEMMA CutToConcat ==
    ASSUME NEW a \in Text, NEW b \in Text, NEW m \in Nat
    PROVE  /\ CutTo(CutTo(a, m) \o b, m) = CutTo(a \o b, m)
           /\ Len(a) >= m => CutTo(a \o b, m) = CutTo(a, m)
<1> DEFINE ca == CutTo(a, m)
           x == ca \o b
           y == a \o b
           cx == CutTo(x, m)
           cy == CutTo(y, m)
<1>0. Len(a) \in Nat /\ Len(b) \in Nat
    BY ConcatTexts
<1>1. /\ ca \in Text
      /\ Len(ca) = IF Len(a) < m THEN Len(a) ELSE m
      /\ \A i \in 1 .. Len(ca) : ca[i] = a[i]
      /\ Len(a) <= m => ca = a
    BY CutToProperties
<1>2. /\ x \in Text /\ Len(x) = Len(ca) + Len(b)
      /\ \A i \in 1 .. Len(ca) : x[i] = ca[i]
    BY <1>1, ConcatTexts
<1>3. /\ y \in Text /\ Len(y) = Len(a) + Len(b)
      /\ \A i \in 1 .. Len(a) : y[i] = a[i]
    BY ConcatTexts
<1>4. /\ cx \in Text
      /\ Len(cx) = IF Len(x) < m THEN Len(x) ELSE m
      /\ \A i \in 1 .. Len(cx) : cx[i] = x[i]
    BY <1>2, CutToProperties
<1>5. /\ cy \in Text
      /\ Len(cy) = IF Len(y) < m THEN Len(y) ELSE m
      /\ \A i \in 1 .. Len(cy) : cy[i] = y[i]
    BY <1>3, CutToProperties
<1>s. \A u, v \in Text :
          Len(u) = Len(v) /\ (\A i \in 1 .. Len(u) : u[i] = v[i]) => u = v
    BY SeqEqual DEF Text
<1>6. CASE Len(a) < m
    <2>1. ca = a
        BY <1>0, <1>1, <1>6
    <2> QED
        BY <1>0, <1>6, <2>1
<1>7. CASE Len(a) >= m
    <2> HIDE DEF ca, x, y, cx, cy
    <2>1. Len(ca) = m /\ Len(cx) = m /\ Len(cy) = m
        BY <1>0, <1>1, <1>2, <1>3, <1>4, <1>5, <1>7
    <2>2. \A i \in 1 .. m : i \in 1 .. Len(a)
        BY <1>0, <1>7
    <2>3. \A i \in 1 .. m : cx[i] = a[i] /\ cy[i] = a[i] /\ ca[i] = a[i]
        BY <1>1, <1>2, <1>3, <1>4, <1>5, <2>1, <2>2
    <2>4. cx = cy
        BY <1>s, <1>4, <1>5, <2>1, <2>3
    <2>5. cy = ca
        BY <1>s, <1>1, <1>5, <2>1, <2>3
    <2> QED
        BY <2>4, <2>5 DEF ca, x, y, cx, cy
<1> QED
    BY <1>0, <1>6, <1>7

(* For MAX_STR_LEN.                                                        *)
LEMMA CutConcat ==
    ASSUME NEW a \in Text, NEW b \in Text
    PROVE  /\ Cut(Cut(a) \o b) = Cut(a \o b)
           /\ Len(a) >= MaxLen => Cut(a \o b) = Cut(a)
BY CutToConcat, MaxLenAssumption DEF Cut

(* What the code adds to a result is what fits.                            *)
LEMMA FittingCuts ==
    ASSUME NEW r \in Text, NEW t \in Text, Len(r) <= MaxLen
    PROVE  r \o Fitting(r, t) = Cut(r \o t) /\ Fitting(r, t) \in Text
<1>0. Len(r) \in Nat /\ Len(t) \in Nat /\ MaxLen \in Nat
    BY ConcatTexts, MaxLenAssumption
<1>1. r \o t \in Text /\ Len(r \o t) = Len(r) + Len(t)
    BY ConcatTexts
<1>2. CASE Len(r) + Len(t) <= MaxLen
    <2>1. Fitting(r, t) = t
        BY <1>0, <1>2 DEF Fitting
    <2> QED
        BY <1>0, <1>1, <1>2, <2>1, CutProperties
<1>3. CASE Len(r) + Len(t) > MaxLen
    <2> DEFINE m == MaxLen - Len(r)
               f == SubSeq(t, 1, m)
               x == r \o f
               y == r \o t
               cy == Cut(y)
    <2>1. Fitting(r, t) = f
        BY <1>0, <1>3 DEF Fitting
    <2>2. m \in 0 .. Len(t)
        BY <1>0, <1>3
    <2>3. f \in Text /\ Len(f) = m /\ \A i \in 1 .. m : f[i] = t[i]
        <3> HIDE DEF m
        <3> QED
            BY <1>0, <2>2, SubSeqProperties DEF Text
    <2> HIDE DEF f, m
    <2>4. /\ x \in Text /\ Len(x) = Len(r) + m
          /\ \A i \in 1 .. Len(r) : x[i] = r[i]
          /\ \A i \in Len(r) + 1 .. Len(r) + m : x[i] = f[i - Len(r)]
        BY <2>3, ConcatTexts
    <2>5. /\ y \in Text /\ Len(y) = Len(r) + Len(t)
          /\ \A i \in 1 .. Len(r) : y[i] = r[i]
          /\ \A i \in Len(r) + 1 .. Len(r) + Len(t) : y[i] = t[i - Len(r)]
        BY ConcatTexts
    <2>6. cy \in Text /\ Len(cy) = MaxLen /\ \A i \in 1 .. MaxLen : cy[i] = y[i]
        <3> HIDE DEF y
        <3>1. ~(Len(y) < MaxLen)
            BY <1>0, <1>3, <2>5
        <3>2. y \in Text
            BY <2>5
        <3> QED
            BY <3>1, <3>2, CutProperties
    <2> HIDE DEF x, y, cy
    <2>7. Len(x) = MaxLen
        BY <1>0, <2>4 DEF m
    <2>8. ASSUME NEW i \in 1 .. MaxLen PROVE x[i] = cy[i]
        <3>1. CASE i <= Len(r)
            BY <1>0, <2>4, <2>5, <2>6, <3>1
        <3>2. CASE i > Len(r)
            <4>1. /\ i \in Len(r) + 1 .. Len(r) + m /\ i \in Len(r) + 1 .. Len(r) + Len(t)
                  /\ i - Len(r) \in 1 .. m
                BY <1>0, <1>3, <3>2 DEF m
            <4> QED
                BY <2>3, <2>4, <2>5, <2>6, <4>1
        <3> QED
            BY <1>0, <3>1, <3>2
    <2>9. x = cy
        BY <2>4, <2>6, <2>7, <2>8, SeqEqual DEF Text
    <2> QED
        BY <2>1, <2>3, <2>9 DEF x, y, cy
<1> QED
    BY <1>0, <1>2, <1>3

NameEnd == {"$"} \cup Blank
Cell == [key : Text, value : Text]

(* A look-up finds the first cell with the key.                            *)
LEMMA FindProperties ==
    ASSUME NEW list \in Seq(Cell), NEW key
    PROVE  /\ Find(list, key) = 0 <=> \A i \in DOMAIN list : list[i].key # key
           /\ Find(list, key) # 0 => /\ Find(list, key) \in DOMAIN list
                                     /\ list[Find(list, key)].key = key
<1> DEFINE I == {i \in 1 .. Len(list) : list[i].key = key}
<1>0. Find(list, key) = IF I # {} THEN Min(I) ELSE 0
    BY DEF Find, SelectInSeq
<1>1. DOMAIN list = 1 .. Len(list) /\ Len(list) \in Nat /\ I \in SUBSET Nat /\ 0 \notin I
    OBVIOUS
<1>2. \A i \in I : i \in DOMAIN list /\ list[i].key = key
    BY <1>1
<1>3. \A i \in DOMAIN list : list[i].key = key => i \in I
    BY <1>1
<1> HIDE DEF I
<1>4. I # {} => Min(I) \in I
    BY <1>1, MinProperties
<1> QED
    BY <1>0, <1>1, <1>2, <1>3, <1>4

Keys(list) == {list[i].key : i \in DOMAIN list}

(* The mapping that a list stands for is what look-ups find.               *)
LEMMA EnvProperties ==
    ASSUME NEW list \in Seq(Cell), NEW key
    PROVE  /\ DOMAIN EnvOf(list) = Keys(list)
           /\ key \in Keys(list) <=> Find(list, key) # 0
           /\ key \in Keys(list) => /\ EnvOf(list)[key] = GetVariable(list, key)
                                    /\ EnvOf(list)[key] \in Text
<1>1. DOMAIN EnvOf(list) = Keys(list)
    BY DEF EnvOf, Keys
<1>2. key \in Keys(list) <=> Find(list, key) # 0
    BY FindProperties DEF Keys
<1>3. ASSUME key \in Keys(list)
      PROVE  EnvOf(list)[key] = GetVariable(list, key) /\ EnvOf(list)[key] \in Text
    <2>1. EnvOf(list)[key] = list[Find(list, key)].value
        BY <1>3 DEF EnvOf, Keys, GetVariable
    <2>2. list[Find(list, key)] \in Cell
        BY <1>2, <1>3, FindProperties
    <2> QED
        BY <2>1, <2>2 DEF Cell, GetVariable
<1> QED
    BY <1>1, <1>2, <1>3

(* The name behind a $ in the code and in the meaning of a word.           *)
LEMMA NameLengthIs ==
    ASSUME NEW s \in Text, NEW i \in 1 .. Len(s)
    PROVE  LET n == NameLength(s, i)
           IN /\ n \in 0 .. Len(s) - i
              /\ \A j \in i + 1 .. i + n : s[j] \notin NameEnd
              /\ i + n < Len(s) => s[i + n + 1] \in NameEnd
              /\ NameAfter(s, i) = SubSeq(s, i + 1, i + n)
              /\ NameAfter(s, i) \in Text
              /\ Len(NameAfter(s, i)) = n
<1> DEFINE n == NameLength(s, i)
           rest == SubSeq(s, i + 1, Len(s))
           I == {j \in 1 .. Len(rest) : rest[j] \in NameEnd}
           J == {j \in i + 1 .. Len(s) : s[j] \in NameEnd}
<1>0. Len(s) \in Nat /\ i \in Nat /\ i <= Len(s) /\ i # 0 /\ s \in Seq(Symbol)
    BY DEF Text
<1>1. /\ Len(rest) = Len(s) - i
      /\ \A j \in 1 .. Len(s) - i : rest[j] = s[i + j]
      /\ rest \in Seq(Symbol)
    <2>1. \A j \in i + 1 .. Len(s) : s[j] \in Symbol
        BY <1>0
    <2>2. /\ Len(rest) = IF i + 1 <= Len(s) THEN Len(s) - (i + 1) + 1 ELSE 0
          /\ \A j \in 1 .. Len(s) - (i + 1) + 1 : rest[j] = s[(i + 1) + j - 1]
          /\ rest \in Seq(Symbol)
        BY <1>0, <2>1, SubSeqProperties
    <2> HIDE DEF rest
    <2>3. Len(s) - (i + 1) + 1 = Len(s) - i
        BY <1>0
    <2>4. \A j \in 1 .. Len(s) - i : (i + 1) + j - 1 = i + j
        BY <1>0
    <2>5. Len(rest) = Len(s) - i
        BY <1>0, <2>2
    <2>6. ASSUME NEW j \in 1 .. Len(s) - i PROVE rest[j] = s[i + j]
        <3>1. rest[j] = s[(i + 1) + j - 1]
            BY <2>2, <2>3
        <3> QED
            BY <2>4, <3>1
    <2> QED
        BY <2>2, <2>5, <2>6
<1>2. n = IF (IF I # {} THEN Min(I) ELSE 0) = 0 THEN Len(s) - i
          ELSE (IF I # {} THEN Min(I) ELSE 0) - 1
    BY DEF NameLength, SelectInSeq, NameEnd
<1>3. NameAfter(s, i) = SubSeq(s, i + 1, IF J = {} THEN Len(s) ELSE Min(J) - 1)
    BY DEF NameAfter, NameEnd
<1>4. I \in SUBSET Nat /\ 0 \notin I /\ J \in SUBSET Nat
    BY <1>0, <1>1
<1>5. \A j \in 1 .. Len(s) - i : j \in I <=> s[i + j] \in NameEnd
    BY <1>1
<1>6. \A j \in I : j \in 1 .. Len(s) - i
    BY <1>1
<1>7. \A j \in i + 1 .. Len(s) : j \in J <=> s[j] \in NameEnd
    OBVIOUS
<1>8. \A j \in J : j \in i + 1 .. Len(s)
    OBVIOUS
<1> HIDE DEF I, J, n, rest
<1>9. CASE I = {}
    <2>1. \A j \in i + 1 .. Len(s) : s[j] \notin NameEnd
        <3> SUFFICES ASSUME NEW j \in i + 1 .. Len(s) PROVE s[j] \notin NameEnd
            OBVIOUS
        <3>1. j - i \in 1 .. Len(s) - i /\ i + (j - i) = j
            BY <1>0
        <3> QED
            BY <1>5, <1>9, <3>1
    <2>2. J = {}
        BY <1>7, <1>8, <2>1
    <2>3. n = Len(s) - i /\ NameAfter(s, i) = SubSeq(s, i + 1, Len(s))
        BY <1>2, <1>3, <1>9, <2>2
    <2>4. i + n = Len(s) /\ n \in 0 .. Len(s) - i
        BY <1>0, <2>3
    <2>5. NameAfter(s, i) \in Text /\ Len(NameAfter(s, i)) = n
        BY <1>0, <1>1, <2>3 DEF Text, rest
    <2>6. \A j \in i + 1 .. i + n : s[j] \notin NameEnd
        BY <2>1, <2>4
    <2>7. ~(i + n < Len(s))
        BY <1>0, <2>4
    <2>8. NameAfter(s, i) = SubSeq(s, i + 1, i + n)
        BY <2>3, <2>4
    <2> QED
        BY <2>4, <2>5, <2>6, <2>7, <2>8 DEF n
<1>10. CASE I # {}
    <2> DEFINE m == Min(I)
    <2>1. m \in I /\ \A j \in I : m <= j
        BY <1>4, <1>10, MinProperties
    <2>2. m \in 1 .. Len(s) - i /\ m # 0 /\ m \in Nat
        BY <1>4, <1>6, <2>1
    <2> HIDE DEF m
    <2>3. n = m - 1
        BY <1>2, <1>10, <2>2 DEF m
    <2>4. i + m \in J
        BY <1>0, <1>5, <1>7, <2>1, <2>2
    <2>5. ASSUME NEW j \in J PROVE i + m <= j
        <3>1. j - i \in 1 .. Len(s) - i /\ i + (j - i) = j /\ j \in Nat
            BY <1>0, <1>8
        <3>2. j - i \in I
            BY <1>0, <1>5, <1>7, <1>8, <3>1
        <3> QED
            BY <1>0, <2>1, <2>2, <3>1, <3>2
    <2>6. Min(J) = i + m
        <3>1. Min(J) \in J /\ \A j \in J : Min(J) <= j
            BY <1>4, <2>4, MinProperties
        <3>2. Min(J) <= i + m /\ i + m <= Min(J) /\ Min(J) \in Nat
            BY <1>4, <2>4, <2>5, <3>1
        <3> QED
            BY <1>0, <2>2, <3>2
    <2>7. NameAfter(s, i) = SubSeq(s, i + 1, i + n) /\ n \in 0 .. Len(s) - i
        BY <1>0, <1>3, <2>2, <2>3, <2>4, <2>6
    <2>8. SubSeq(s, i + 1, i + n) \in Text /\ Len(SubSeq(s, i + 1, i + n)) = n
        <3>1. i + 1 \in 1 .. Len(s) + 1 /\ i + n \in (i + 1) - 1 .. Len(s)
            BY <1>0, <2>7
        <3>2. (i + n) - (i + 1) + 1 = n
            BY <1>0, <2>7
        <3> QED
            BY <1>0, <3>1, <3>2, SubSeqProperties DEF Text
    <2>9. \A j \in i + 1 .. i + n : s[j] \notin NameEnd
        <3> SUFFICES ASSUME NEW j \in i + 1 .. i + n PROVE s[j] \notin NameEnd
            OBVIOUS
        <3>1. j \in i + 1 .. Len(s) /\ j < i + m /\ j \in Nat
            BY <1>0, <2>2, <2>3
        <3>2. j \notin J
            BY <1>0, <2>2, <2>5, <3>1
        <3> QED
            BY <1>7, <3>1, <3>2
    <2>10. s[i + n + 1] \in NameEnd
        <3>1. i + n + 1 = i + m
            BY <1>0, <2>2, <2>3
        <3> QED
            BY <1>7, <1>8, <2>4, <3>1
    <2> QED
        BY <2>7, <2>8, <2>9, <2>10 DEF n
<1> QED
    BY <1>9, <1>10

-----------------------------------------------------------------------------
(* expand_variables.                                                       *)

LoopOf(s) == [at : 1 .. Len(s) + 1, result : Text]

Begun == [at |-> 1, result |-> <<>>]

(* The text a $ at i stands for, as the code and the meaning have it.      *)
Replacement(s, list, i) ==
    LET n == NameLength(s, i)
        name == SubSeq(s, i + 1, i + n)
    IN IF n = 0 THEN <<"$">>
       ELSE IF Find(list, name) = 0 THEN <<>> ELSE GetVariable(list, name)

(* ... are the same.                                                       *)
LEMMA ReplacementIsPart ==
    ASSUME NEW s \in Text, NEW list \in Seq(Cell), NEW i \in 1 .. Len(s), s[i] = "$"
    PROVE  /\ Replacement(s, list, i) = PartOf(s, EnvOf(list), i)
           /\ Replacement(s, list, i) \in Text
<1> DEFINE n == NameLength(s, i)
           name == SubSeq(s, i + 1, i + n)
<1>1. name = NameAfter(s, i) /\ name \in Text /\ Len(name) = n /\ n \in Nat
    <2>1. n \in 0 .. Len(s) - i
        BY NameLengthIs
    <2>2. NameAfter(s, i) = name /\ NameAfter(s, i) \in Text /\ Len(NameAfter(s, i)) = n
        BY NameLengthIs
    <2> HIDE DEF n, name
    <2> QED
        BY <2>1, <2>2
<1> HIDE DEF n, name
<1>2. name = <<>> <=> n = 0
    BY <1>1, EmptySeq DEF Text
<1>3. <<>> \in Text /\ <<"$">> \in Text
    <2>1. "$" \in Symbol
        BY SymbolAssumption
    <2> QED
        BY <2>1 DEF Text
<1>4. CASE n = 0
    <2>1. Replacement(s, list, i) = <<"$">>
        BY <1>4 DEF Replacement, n
    <2>2. PartOf(s, EnvOf(list), i) = <<"$">>
        BY <1>1, <1>2, <1>4 DEF PartOf
    <2> QED
        BY <1>3, <2>1, <2>2
<1>5. CASE n # 0 /\ Find(list, name) = 0
    <2>1. Replacement(s, list, i) = <<>>
        BY <1>5 DEF Replacement, n, name
    <2>2. name \notin DOMAIN EnvOf(list)
        BY <1>5, EnvProperties
    <2>3. PartOf(s, EnvOf(list), i) = <<>>
        BY <1>1, <1>2, <1>5, <2>2 DEF PartOf
    <2> QED
        BY <1>3, <2>1, <2>3
<1>6. CASE n # 0 /\ Find(list, name) # 0
    <2>1. Replacement(s, list, i) = GetVariable(list, name)
        BY <1>6 DEF Replacement, n, name
    <2>2. /\ name \in DOMAIN EnvOf(list) /\ EnvOf(list)[name] = GetVariable(list, name)
          /\ EnvOf(list)[name] \in Text
        BY <1>6, EnvProperties
    <2>3. PartOf(s, EnvOf(list), i) = EnvOf(list)[name]
        BY <1>1, <1>2, <1>6, <2>2 DEF PartOf
    <2> QED
        BY <2>1, <2>2, <2>3
<1> QED
    BY <1>4, <1>5, <1>6

(* One pass of the loop.                                                   *)
LEMMA ExpandCases ==
    ASSUME NEW s \in Text, NEW list \in Seq(Cell), NEW loop \in LoopOf(s)
    PROVE  LET next == Expand(s, list, loop)
               here == loop.at
               n == NameLength(s, here)
           IN /\ here > Len(s) \/ Len(loop.result) >= MaxLen => next = loop
              /\ ~(here > Len(s) \/ Len(loop.result) >= MaxLen) =>
                    /\ here \in 1 .. Len(s)
                    /\ s[here] # "$" => /\ next.at = here + 1
                                      /\ next.result = Append(loop.result, s[here])
                    /\ s[here] = "$" =>
                          LET text == Replacement(s, list, here)
                          IN /\ next.at = here + n + 1
                             /\ next.result = loop.result \o Fitting(loop.result, text)
              /\ next \in LoopOf(s)
<1> DEFINE next == Expand(s, list, loop)
           here == loop.at
           n == NameLength(s, here)
           text == Replacement(s, list, here)
<1>0. Len(s) \in Nat /\ here \in 1 .. Len(s) + 1 /\ loop.result \in Text
    BY DEF LoopOf, Text
<1>1. CASE here > Len(s) \/ Len(loop.result) >= MaxLen
    BY <1>1 DEF Expand
<1>2. CASE ~(here > Len(s) \/ Len(loop.result) >= MaxLen) /\ s[here] # "$"
    <2>1. here \in 1 .. Len(s) /\ s[here] \in Symbol
        BY <1>0, <1>2 DEF Text
    <2>2. next = [at |-> here + 1, result |-> Append(loop.result, s[here])]
        BY <1>2 DEF Expand
    <2>3. Append(loop.result, s[here]) \in Text
        BY <1>0, <2>1, TextGrows
    <2>4. here + 1 \in 1 .. Len(s) + 1
        BY <1>0, <2>1
    <2> HIDE DEF here, next
    <2> QED
        BY <1>2, <2>1, <2>2, <2>3, <2>4 DEF LoopOf, here, next
<1>3. CASE ~(here > Len(s) \/ Len(loop.result) >= MaxLen) /\ s[here] = "$"
    <2>1. here \in 1 .. Len(s)
        BY <1>0, <1>3
    <2>2. n \in 0 .. Len(s) - here
        BY <2>1, NameLengthIs
    <2>3. next = [at |-> here + n + 1, result |-> loop.result \o Fitting(loop.result, text)]
        BY <1>3 DEF Expand, Replacement
    <2>4. text \in Text
        BY <1>3, <2>1, ReplacementIsPart
    <2>5. Len(loop.result) <= MaxLen
        BY <1>0, <1>3, MaxLenAssumption DEF Text
    <2> HIDE DEF here, next, n, text
    <2>6. loop.result \o Fitting(loop.result, text) \in Text
        BY <1>0, <2>4, <2>5, FittingCuts, ConcatTexts
    <2>7. here + n + 1 \in 1 .. Len(s) + 1
        BY <1>0, <2>1, <2>2
    <2>8. next \in LoopOf(s)
        BY <2>3, <2>6, <2>7 DEF LoopOf
    <2>9. next.at = here + n + 1 /\ next.result = loop.result \o Fitting(loop.result, text)
        BY <2>3
    <2> QED
        BY <1>3, <2>1, <2>8, <2>9 DEF here, next, n, text
<1> QED
    BY <1>1, <1>2, <1>3

(* RecursionExists for the states of the loop.                             *)
LEMMA LoopRuns ==
    ASSUME NEW s
    PROVE  \A e \in LoopOf(s), m \in Nat : \A st \in [1 .. m -> [LoopOf(s) -> LoopOf(s)]] :
               \E f \in [0 .. m -> LoopOf(s)] :
                   f[0] = e /\ \A i \in 1 .. m : f[i] = st[i][f[i - 1]]
BY RecursionExists

(* The loop, pass by pass.                                                 *)
LEMMA ExpandedFrom ==
    ASSUME NEW s \in Text, NEW list \in Seq(Cell)
    PROVE  /\ Expanded(s, list)[0] = Begun
           /\ \A k \in 1 .. Len(s) :
                 Expanded(s, list)[k] = Expand(s, list, Expanded(s, list)[k - 1])
           /\ \A k \in 0 .. Len(s) : Expanded(s, list)[k] \in LoopOf(s)
<1> DEFINE n == Len(s)
           Whole(f) == f = [k \in 0 .. n |->
                              IF k = 0 THEN Begun ELSE Expand(s, list, f[k - 1])]
           step == [k \in 1 .. n |-> [x \in LoopOf(s) |-> Expand(s, list, x)]]
<1>0. n \in Nat /\ Begun \in LoopOf(s)
    <2>1. Len(s) \in Nat /\ <<>> \in Text
        BY DEF Text
    <2> QED
        BY <2>1 DEF LoopOf, Begun
<1>p. \A x \in LoopOf(s) : Expand(s, list, x) \in LoopOf(s)
    BY ExpandCases
<1>1. step \in [1 .. n -> [LoopOf(s) -> LoopOf(s)]]
    <2> HIDE DEF n
    <2> QED
        BY <1>p
<1>2. PICK f \in [0 .. n -> LoopOf(s)] :
          f[0] = Begun /\ \A k \in 1 .. n : f[k] = step[k][f[k - 1]]
    <2>1. n \in Nat
        BY <1>0
    <2>2. Begun \in LoopOf(s)
        BY <1>0
    <2>3. step \in [1 .. n -> [LoopOf(s) -> LoopOf(s)]]
        BY <1>1
    <2> HIDE DEF step, n
    <2> QED
        BY <2>1, <2>2, <2>3, LoopRuns
<1>3. \A k \in 1 .. n : f[k] = Expand(s, list, f[k - 1])
    <2> SUFFICES ASSUME NEW k \in 1 .. n PROVE f[k] = Expand(s, list, f[k - 1])
        OBVIOUS
    <2> HIDE DEF n
    <2>1. f[k - 1] \in LoopOf(s)
        BY <1>0
    <2>2. step[k][f[k - 1]] = Expand(s, list, f[k - 1])
        BY <2>1
    <2> QED
        BY <1>2, <2>2
<1>4. Whole(f)
    <2> HIDE DEF n
    <2> QED
        BY <1>0, <1>2, <1>3
<1>5. Expanded(s, list) = CHOOSE g : Whole(g)
    BY DEF Expanded, Begun
<1>6. Whole(Expanded(s, list))
    <2> HIDE DEF Whole
    <2> QED
        BY <1>4, <1>5
<1> DEFINE g == Expanded(s, list)
<1>7. g[0] = Begun /\ \A k \in 1 .. n : g[k] = Expand(s, list, g[k - 1])
    <2> HIDE DEF g, n
    <2> QED
        BY <1>0, <1>6 DEF g
<1>8. \A k \in 1 .. n : g[k - 1] \in LoopOf(s) => g[k] \in LoopOf(s)
    <2> HIDE DEF g, n
    <2> QED
        BY <1>p, <1>7
<1>9. \A k \in 0 .. n : g[k] \in LoopOf(s)
    <2>1. n \in Nat
        BY <1>0
    <2>2. g[0] \in LoopOf(s)
        BY <1>0, <1>7
    <2> HIDE DEF g, n
    <2> QED
        BY <1>8, <2>1, <2>2, RecursionStays
<1> QED
    BY <1>7, <1>9

Gained(s, env, i) == FlattenSeq(SubSeq([j \in DOMAIN s |-> PartOf(s, env, j)], 1, i))

HoldsTexts(env) == \A k \in DOMAIN env : env[k] \in Text

(* What a symbol stands for is a text.                                     *)
LEMMA PartTypes ==
    ASSUME NEW s \in Text, NEW env, HoldsTexts(env), NEW i \in 1 .. Len(s)
    PROVE  PartOf(s, env, i) \in Text
<1>1. s[i] \in Symbol /\ "$" \in Symbol
    <2>1. "$" \in Symbol
        BY SymbolAssumption
    <2> QED
        BY <2>1 DEF Text
<1>2. <<>> \in Text /\ <<"$">> \in Text /\ <<s[i]>> \in Text
    BY <1>1 DEF Text
<1> QED
    BY <1>2 DEF PartOf, HoldsTexts

(* The value of a word, gained symbol by symbol.                           *)
LEMMA GainedStep ==
    ASSUME NEW s \in Text, NEW env, HoldsTexts(env)
    PROVE  /\ Gained(s, env, 0) = <<>>
           /\ Value(s, env) = Cut(Gained(s, env, Len(s)))
           /\ \A i \in 0 .. Len(s) : Gained(s, env, i) \in Text
           /\ \A i \in 1 .. Len(s) :
                 Gained(s, env, i) = Gained(s, env, i - 1) \o PartOf(s, env, i)
<1> DEFINE f == [j \in DOMAIN s |-> PartOf(s, env, j)]
<1>1. DOMAIN s = 1 .. Len(s) /\ Len(s) \in Nat
    BY DEF Text
<1>2. \A i \in 1 .. Len(s) : PartOf(s, env, i) \in Seq(Symbol)
    BY PartTypes DEF Text
<1>3. /\ f \in Seq(Seq(Symbol)) /\ Len(f) = Len(s)
      /\ \A i \in 1 .. Len(s) : f[i] = PartOf(s, env, i)
    BY <1>1, <1>2
<1>4. Value(s, env) = Cut(FlattenSeq(f))
    BY DEF Value
<1>5. \A i : Gained(s, env, i) = FlattenSeq(SubSeq(f, 1, i))
    BY DEF Gained
<1> HIDE DEF f
<1>6. /\ FlattenSeq(SubSeq(f, 1, 0)) = <<>>
      /\ FlattenSeq(SubSeq(f, 1, Len(f))) = FlattenSeq(f)
      /\ \A i \in 0 .. Len(f) : FlattenSeq(SubSeq(f, 1, i)) \in Seq(Symbol)
      /\ \A i \in 1 .. Len(f) :
            FlattenSeq(SubSeq(f, 1, i)) = FlattenSeq(SubSeq(f, 1, i - 1)) \o f[i]
    BY <1>3, FlattenPrefix
<1> QED
    BY <1>3, <1>4, <1>5, <1>6 DEF Text

(* Once there is enough, more makes no difference.                         *)
LEMMA GainedEnough ==
    ASSUME NEW s \in Text, NEW env, HoldsTexts(env), NEW i \in 0 .. Len(s),
           Len(Gained(s, env, i)) >= MaxLen
    PROVE  Value(s, env) = Cut(Gained(s, env, i))
<1> DEFINE G(j) == Gained(s, env, j)
           T == {j \in i .. Len(s) : Cut(G(j)) = Cut(G(i)) /\ Len(G(j)) >= MaxLen}
<1>0. Len(s) \in Nat /\ i \in Nat /\ i <= Len(s) /\ MaxLen \in Nat
    BY MaxLenAssumption DEF Text
<1>1. i \in T
    BY <1>0
<1>2. ASSUME NEW j \in i .. Len(s) - 1, j \in T PROVE j + 1 \in T
    <2> DEFINE k == j + 1
               a == G(j)
               b == PartOf(s, env, k)
    <2>1. k \in 1 .. Len(s) /\ k - 1 = j /\ j \in 0 .. Len(s) /\ k \in i .. Len(s)
        BY <1>0
    <2>2. G(k) = a \o b
        BY <2>1, GainedStep
    <2>3. a \in Text
        BY <2>1, GainedStep
    <2>4. b \in Text
        BY <2>1, PartTypes
    <2>5. Len(a) >= MaxLen /\ Cut(a) = Cut(G(i))
        BY <1>2
    <2> HIDE DEF a, b, G
    <2>6. Cut(a \o b) = Cut(a)
        BY <2>3, <2>4, <2>5, CutConcat
    <2>7. Len(a \o b) = Len(a) + Len(b) /\ Len(a) \in Nat /\ Len(b) \in Nat
        BY <2>3, <2>4, ConcatTexts
    <2>8. Len(a \o b) >= MaxLen
        BY <1>0, <2>5, <2>7
    <2> QED
        BY <2>1, <2>2, <2>5, <2>6, <2>8
<1>3. \A j \in i .. Len(s) : j \in T
    <2> HIDE DEF T
    <2> QED
        BY <1>0, <1>1, <1>2, BoundedInduction
<1>4. Cut(G(Len(s))) = Cut(G(i))
    BY <1>0, <1>3
<1> QED
    BY <1>4, GainedStep

(* Names, as the loop meets them.                                          *)
LEMMA NamesMet ==
    ASSUME NEW s \in Text, NEW i \in 1 .. Len(s), ~InName(s, i)
    PROVE  /\ s[i] # "$" => ~InName(s, i + 1)
           /\ s[i] = "$" =>
                 LET n == NameLength(s, i)
                 IN /\ \A j \in i + 1 .. i + n : InName(s, j) /\ s[j] # "$"
                    /\ ~InName(s, i + n + 1)
<1> DEFINE N(j) == Len(NameAfter(s, j))
           n == NameLength(s, i)
<1>0. Len(s) \in Nat /\ i \in Nat /\ i # 0 /\ i <= Len(s)
    BY DEF Text
<1>1. ASSUME NEW j \in 1 .. Len(s)
      PROVE  N(j) \in Nat /\ N(j) = NameLength(s, j)
    <2>1. NameLength(s, j) \in 0 .. Len(s) - j /\ N(j) = NameLength(s, j)
        BY NameLengthIs
    <2> HIDE DEF N
    <2> QED
        BY <1>0, <2>1
<1>2. \A k : InName(s, k) <=> \E j \in 1 .. k - 1 : s[j] = "$" /\ j + N(j) >= k
    BY DEF InName
<1>n. n \in Nat /\ n \in 0 .. Len(s) - i /\ \A j \in i + 1 .. i + n : s[j] \notin NameEnd
    <2>1. n \in 0 .. Len(s) - i /\ \A j \in i + 1 .. i + n : s[j] \notin NameEnd
        BY NameLengthIs
    <2> HIDE DEF n
    <2> QED
        BY <1>0, <2>1
<1>m. N(i) = n
    BY <1>1
<1> HIDE DEF N, n
<1>3. ASSUME s[i] # "$", InName(s, i + 1) PROVE FALSE
    <2>1. PICK j \in 1 .. i : s[j] = "$" /\ j + N(j) >= i + 1
        BY <1>0, <1>2, <1>3
    <2>2. j \in 1 .. i - 1 /\ j \in 1 .. Len(s) /\ N(j) \in Nat
        BY <1>0, <1>1, <1>3, <2>1
    <2>3. InName(s, i)
        BY <1>0, <1>2, <2>1, <2>2
    <2> QED
        BY <2>3
<1>4. ASSUME s[i] = "$", NEW j \in i + 1 .. i + n PROVE InName(s, j) /\ s[j] # "$"
    <2>1. s[j] # "$"
        BY <1>n DEF NameEnd
    <2>2. i \in 1 .. j - 1 /\ i + N(i) >= j
        BY <1>0, <1>m, <1>n
    <2> QED
        BY <1>2, <1>4, <2>1, <2>2
<1>5. ASSUME s[i] = "$", InName(s, i + n + 1) PROVE FALSE
    <2>1. PICK j \in 1 .. i + n : s[j] = "$" /\ j + N(j) >= i + n + 1
        BY <1>0, <1>n, <1>2, <1>5
    <2>2. j \in 1 .. Len(s) /\ N(j) \in Nat
        BY <1>0, <1>n, <1>1
    <2>3. j \notin i + 1 .. i + n
        BY <1>n, <2>1 DEF NameEnd
    <2>4. j # i
        BY <1>0, <1>m, <1>n, <2>1
    <2>5. j \in 1 .. i - 1 /\ j + N(j) >= i
        BY <1>0, <1>n, <2>1, <2>2, <2>3, <2>4
    <2> QED
        BY <1>2, <2>1, <2>5
<1> QED
    BY <1>3, <1>4, <1>5 DEF n

(* Between two passes, the result is what the symbols passed stand for.    *)
LoopGood(s, env, loop, k) ==
    /\ loop.result = Cut(Gained(s, env, loop.at - 1))
    /\ ~InName(s, loop.at)
    /\ loop.at > k \/ Len(loop.result) >= MaxLen \/ loop.at > Len(s)

(* A pass of the loop keeps it so.                                         *)
LEMMA LoopStep ==
    ASSUME NEW s \in Text, NEW list \in Seq(Cell), NEW loop \in LoopOf(s), NEW k \in Nat,
           LoopGood(s, EnvOf(list), loop, k)
    PROVE  LoopGood(s, EnvOf(list), Expand(s, list, loop), k + 1)
<1> DEFINE env == EnvOf(list)
           next == Expand(s, list, loop)
           i == loop.at
           r == loop.result
           n == NameLength(s, i)
           text == Replacement(s, list, i)
<1>0. HoldsTexts(env)
    BY EnvProperties DEF HoldsTexts
<1>1. /\ i \in 1 .. Len(s) + 1 /\ r \in Text /\ Len(s) \in Nat /\ Len(r) \in Nat
      /\ MaxLen \in Nat
    BY MaxLenAssumption DEF LoopOf, Text
<1>2. r = Cut(Gained(s, env, i - 1)) /\ ~InName(s, i)
    BY DEF LoopGood
<1>3. CASE i > Len(s) \/ Len(r) >= MaxLen
    <2>1. next = loop
        BY <1>3, ExpandCases
    <2> QED
        BY <1>2, <1>3, <2>1 DEF LoopGood
<1>4. CASE ~(i > Len(s) \/ Len(r) >= MaxLen)
    <2>1. i \in 1 .. Len(s) /\ i - 1 \in 0 .. Len(s) /\ i > k /\ Len(r) < MaxLen
        BY <1>1, <1>4 DEF LoopGood
    <2> DEFINE g == Gained(s, env, i - 1)
               part == PartOf(s, env, i)
               h == Gained(s, env, i)
    <2>2. g \in Text
        BY <1>0, <2>1, GainedStep
    <2>p. part \in Text
        BY <1>0, <2>1, PartTypes
    <2>3. h = g \o part /\ h \in Text
        <3>1. i \in 0 .. Len(s)
            BY <2>1
        <3> QED
            BY <1>0, <2>1, <3>1, GainedStep
    <2>4. CASE s[i] # "$"
        <3>1. next.at = i + 1 /\ next.result = Append(r, s[i])
            BY <1>4, <2>4, ExpandCases
        <3>2. part = <<s[i]>>
            BY <1>2, <2>4 DEF PartOf
        <3>3. s[i] \in Symbol
            BY <2>1 DEF Text
        <3>4. Append(r, s[i]) = r \o part /\ Len(r \o part) <= MaxLen
            <4>1. Append(r, s[i]) = r \o <<s[i]>> /\ Len(Append(r, s[i])) = Len(r) + 1
                <5> HIDE DEF r
                <5>1. r \in Seq(Symbol)
                    BY <1>1 DEF Text
                <5> QED
                    BY <1>1, <3>3, <5>1, TextGrows, AppendIsConcat
            <4> HIDE DEF r, part
            <4> QED
                BY <1>1, <2>1, <3>2, <4>1
        <3>5. r \o part = Cut(g \o part)
            <4> HIDE DEF r, part, g, env
            <4>1. r \o part \in Text
                BY <1>1, <2>p, ConcatTexts
            <4>2. r \o part = Cut(r \o part)
                BY <3>4, <4>1, CutProperties
            <4> QED
                BY <1>2, <2>2, <2>p, <4>2, CutConcat DEF g
        <3>6. next.result = Cut(h)
            BY <2>3, <3>1, <3>4, <3>5
        <3>7. ~InName(s, i + 1)
            BY <1>2, <2>1, <2>4, NamesMet
        <3>8. (i + 1) - 1 = i /\ i + 1 > k + 1
            BY <2>1
        <3> HIDE DEF next, i
        <3> QED
            BY <3>1, <3>6, <3>7, <3>8 DEF LoopGood, next
    <2>5. CASE s[i] = "$"
        <3>1. next.at = i + n + 1 /\ next.result = r \o Fitting(r, text)
            BY <1>4, <2>5, ExpandCases
        <3>2. part = text /\ n \in 0 .. Len(s) - i
            BY <2>1, <2>5, ReplacementIsPart, NameLengthIs
        <3>3. r \o Fitting(r, text) = Cut(g \o part)
            <4>0. r \in Text /\ part \in Text /\ part = text /\ Len(r) <= MaxLen
                BY <1>1, <2>1, <2>p, <3>2
            <4> HIDE DEF r, part, g, env, text
            <4>1. r \o Fitting(r, text) = Cut(r \o part)
                BY <4>0, FittingCuts
            <4> QED
                BY <1>2, <2>2, <2>p, <4>1, CutConcat DEF g
        <3>4. ASSUME NEW j \in i + 1 .. i + n PROVE PartOf(s, env, j) = <<>>
            <4>1. InName(s, j) /\ s[j] # "$"
                BY <1>2, <2>1, <2>5, NamesMet
            <4> QED
                BY <4>1 DEF PartOf
        <3>5. Gained(s, env, i + n) = h
            <4> DEFINE m == i + n
                       T == {j \in i .. m : Gained(s, env, j) = h}
            <4> HIDE DEF n, i, env
            <4>0. i \in Nat /\ m \in Nat /\ i <= m /\ m <= Len(s)
                BY <1>1, <2>1, <3>2
            <4>p. \A j \in i + 1 .. m : PartOf(s, env, j) = <<>>
                BY <3>4
            <4> HIDE DEF m
            <4>1. i \in T
                BY <4>0
            <4>2. ASSUME NEW j \in i .. m - 1, j \in T PROVE j + 1 \in T
                <5>1. j + 1 \in i + 1 .. m /\ j + 1 \in 1 .. Len(s) /\ (j + 1) - 1 = j
                      /\ j + 1 \in i .. m
                    BY <2>1, <4>0
                <5>2. Gained(s, env, j + 1) = Gained(s, env, j) \o PartOf(s, env, j + 1)
                    BY <1>0, <5>1, GainedStep
                <5>3. PartOf(s, env, j + 1) = <<>> /\ Gained(s, env, j) = h
                    BY <4>p, <4>2, <5>1
                <5>4. h \o <<>> = h
                    BY <2>3 DEF Text
                <5> QED
                    BY <5>1, <5>2, <5>3, <5>4
            <4>3. \A j \in i .. m : j \in T
                <5> HIDE DEF T
                <5> QED
                    BY <4>0, <4>1, <4>2, BoundedInduction
            <4> QED
                BY <4>0, <4>3 DEF m
        <3>6. next.result = Cut(Gained(s, env, i + n))
            BY <2>3, <3>1, <3>3, <3>5
        <3>7. ~InName(s, i + n + 1)
            BY <1>2, <2>1, <2>5, NamesMet
        <3> HIDE DEF n, i, next
        <3>8. (i + n + 1) - 1 = i + n /\ i + n + 1 > k + 1
            BY <2>1, <3>2
        <3> QED
            BY <3>1, <3>6, <3>7, <3>8 DEF LoopGood, next
    <2> QED
        BY <2>4, <2>5
<1> QED
    BY <1>3, <1>4

(* The loop yields the value, which has MAX_STR_LEN symbols at most.       *)
LEMMA LoopIsValue ==
    ASSUME NEW s \in Text, NEW list \in Seq(Cell)
    PROVE  /\ Expanded(s, list)[Len(s)].result = Value(s, EnvOf(list))
           /\ Value(s, EnvOf(list)) \in Text
           /\ Len(Value(s, EnvOf(list))) <= MaxLen
<1> DEFINE env == EnvOf(list)
           g == Expanded(s, list)
           n == Len(s)
           T == {k \in 0 .. n : LoopGood(s, env, g[k], k)}
<1>0. n \in Nat /\ MaxLen \in Nat
    BY MaxLenAssumption DEF Text
<1>e. HoldsTexts(env)
    BY EnvProperties DEF HoldsTexts
<1>1. 0 \in T
    <2>1. g[0] = Begun /\ Gained(s, env, 0) = <<>>
        BY <1>e, ExpandedFrom, GainedStep
    <2>2. Cut(<<>>) = <<>>
        <3>1. <<>> \in Text /\ Len(<<>>) = 0
            BY DEF Text
        <3> QED
            BY <1>0, <3>1, CutProperties
    <2>3. ~InName(s, 1)
        BY DEF InName
    <2>4. Begun.at = 1 /\ Begun.result = <<>>
        BY DEF Begun
    <2>5. LoopGood(s, env, Begun, 0)
        BY <2>1, <2>2, <2>3, <2>4 DEF LoopGood
    <2> QED
        BY <1>0, <2>1, <2>5
<1>2. ASSUME NEW k \in 0 .. n - 1, k \in T PROVE k + 1 \in T
    <2>1. k + 1 \in 1 .. n /\ (k + 1) - 1 = k /\ k \in 0 .. n /\ k \in Nat /\ k + 1 \in 0 .. n
        BY <1>0
    <2>2. g[k + 1] = Expand(s, list, g[k]) /\ g[k] \in LoopOf(s)
        BY <2>1, ExpandedFrom
    <2>3. LoopGood(s, env, g[k], k)
        BY <1>2
    <2>4. LoopGood(s, env, g[k + 1], k + 1)
        BY <2>1, <2>2, <2>3, LoopStep
    <2> QED
        BY <2>1, <2>4
<1>3. \A k \in 0 .. n : k \in T
    <2> HIDE DEF T, n
    <2> QED
        BY <1>0, <1>1, <1>2, BoundedInduction
<1> DEFINE last == g[n]
           i == last.at
           r == last.result
<1>4. LoopGood(s, env, last, n) /\ last \in LoopOf(s)
    <2>1. n \in 0 .. n
        BY <1>0
    <2> QED
        BY <1>3, <2>1, ExpandedFrom
<1> HIDE DEF g
<1>5. i \in 1 .. n + 1
    BY <1>4 DEF LoopOf
<1>6. r = Value(s, env)
    <2>0. i - 1 \in 0 .. n /\ i \in Nat
        BY <1>0, <1>5
    <2>1. r = Cut(Gained(s, env, i - 1)) /\ Gained(s, env, i - 1) \in Text
        BY <1>4, <1>e, <2>0, GainedStep DEF LoopGood
    <2>2. CASE i > n
        <3>1. i - 1 = n
            BY <1>0, <1>5, <2>2
        <3> QED
            BY <1>e, <2>1, <3>1, GainedStep
    <2>3. CASE ~(i > n)
        <3>1. Len(r) >= MaxLen
            BY <1>4, <2>3 DEF LoopGood
        <3> DEFINE a == Gained(s, env, i - 1)
        <3>2. Len(a) >= MaxLen
            <4>1. a \in Text /\ r = Cut(a)
                BY <2>1
            <4> HIDE DEF a, i, r
            <4>2. Len(Cut(a)) = IF Len(a) < MaxLen THEN Len(a) ELSE MaxLen
                BY <4>1, CutProperties
            <4>3. Len(a) \in Nat
                BY <4>1 DEF Text
            <4> QED
                BY <1>0, <3>1, <4>1, <4>2, <4>3
        <3> QED
            BY <1>e, <2>0, <2>1, <3>2, GainedEnough
    <2> QED
        BY <2>2, <2>3
<1>7. Value(s, env) \in Text /\ Len(Value(s, env)) <= MaxLen
    <2> DEFINE a == Gained(s, env, n)
    <2>1. a \in Text /\ Value(s, env) = Cut(a)
        <3>1. n \in 0 .. n
            BY <1>0
        <3> QED
            BY <1>e, <3>1, GainedStep
    <2> HIDE DEF a
    <2>2. Cut(a) \in Text /\ Len(Cut(a)) = (IF Len(a) < MaxLen THEN Len(a) ELSE MaxLen)
        BY <2>1, CutProperties
    <2>3. Len(a) \in Nat
        BY <2>1 DEF Text
    <2> QED
        BY <1>0, <2>1, <2>2, <2>3
<1> QED
    BY <1>6, <1>7 DEF g

-----------------------------------------------------------------------------
(* What values consist of.                                                 *)

PlainText == Seq(Plain)
HoldsPlain(env) == \A k \in DOMAIN env : env[k] \in PlainText

(* Plain texts are texts.                                                  *)
LEMMA PlainTexts ==
    /\ \A x \in Plain : x \in Symbol /\ x # "|" /\ x \notin Blank
    /\ \A w \in PlainText : w \in Text
    /\ "$" \in Plain /\ "=" \in Plain /\ "&" \in Plain
<1>1. \A x \in Plain : x \in Symbol /\ x # "|" /\ x \notin Blank
    BY DEF Plain
<1>2. \A w \in PlainText : w \in Text
    BY <1>1 DEF PlainText, Text
<1>3. "$" \in Plain /\ "=" \in Plain /\ "&" \in Plain
    BY SymbolAssumption DEF Plain, Blank
<1> QED
    BY <1>1, <1>2, <1>3

(* The value of a plain text is one: there is no | in it, and no blank.    *)
LEMMA ValueTypes ==
    ASSUME NEW w \in PlainText, NEW env, HoldsPlain(env)
    PROVE  Value(w, env) \in PlainText
<1> DEFINE f == [i \in DOMAIN w |-> PartOf(w, env, i)]
<1>1. DOMAIN w = 1 .. Len(w) /\ Len(w) \in Nat
    BY DEF PlainText
<1>2. ASSUME NEW i \in 1 .. Len(w) PROVE PartOf(w, env, i) \in Seq(Plain)
    <2>1. w[i] \in Plain /\ "$" \in Plain
        BY PlainTexts DEF PlainText
    <2>2. <<>> \in Seq(Plain) /\ <<"$">> \in Seq(Plain) /\ <<w[i]>> \in Seq(Plain)
        BY <2>1
    <2> QED
        BY <2>2 DEF PartOf, HoldsPlain, PlainText
<1>3. f \in Seq(Seq(Plain))
    BY <1>1, <1>2
<1>4. Value(w, env) = Cut(FlattenSeq(f))
    BY DEF Value
<1> HIDE DEF f
<1> DEFINE g == FlattenSeq(f)
<1>5. g \in Seq(Plain)
    BY <1>3, FlattenAppend
<1> HIDE DEF g
<1>6. Len(g) \in Nat /\ MaxLen \in Nat
    BY <1>5, MaxLenAssumption
<1>7. Cut(g) \in Seq(Plain)
    <2> DEFINE n == IF Len(g) < MaxLen THEN Len(g) ELSE MaxLen
    <2>1. n \in 0 .. Len(g)
        BY <1>6
    <2>2. Cut(g) = SubSeq(g, 1, n)
        BY DEF Cut, CutTo
    <2> HIDE DEF n
    <2>3. \A i \in 1 .. n : g[i] \in Plain
        BY <1>5, <1>6, <2>1
    <2> QED
        BY <2>1, <2>2, <2>3, <1>6, SubSeqProperties
<1> QED
    BY <1>4, <1>7 DEF g, PlainText

(* A word without $ stands for itself.                                     *)
LEMMA ValueWithoutNames ==
    ASSUME NEW w \in Text, NEW env, HoldsTexts(env), Len(w) <= MaxLen,
           \A i \in 1 .. Len(w) : w[i] # "$"
    PROVE  Value(w, env) = w
<1> DEFINE n == Len(w)
           T == {i \in 0 .. n : Gained(w, env, i) = SubSeq(w, 1, i)}
<1>0. n \in Nat
    BY DEF Text
<1>1. 0 \in T
    <2>1. SubSeq(w, 1, 0) = <<>>
        BY DEF Text
    <2>2. Gained(w, env, 0) = <<>>
        BY GainedStep
    <2>3. 0 \in 0 .. n
        BY <1>0
    <2> QED
        BY <2>1, <2>2, <2>3
<1>2. ASSUME NEW i \in 0 .. n - 1, i \in T PROVE i + 1 \in T
    <2> DEFINE k == i + 1
    <2>1. k \in 1 .. n /\ k - 1 = i /\ k \in 0 .. n
        BY <1>0
    <2>2. Gained(w, env, k) = SubSeq(w, 1, i) \o PartOf(w, env, k)
        BY <1>2, <2>1, GainedStep
    <2>3. PartOf(w, env, k) = <<w[k]>>
        <3>1. ~InName(w, k)
            <4>1. \A j \in 1 .. k - 1 : j \in 1 .. Len(w)
                BY <1>0, <2>1
            <4> QED
                BY <4>1 DEF InName
        <3> QED
            BY <2>1, <3>1 DEF PartOf
    <2>4. SubSeq(w, 1, i) \o <<w[k]>> = SubSeq(w, 1, k)
        <3>1. w \in Seq(Symbol) /\ w[k] \in Symbol
            BY <2>1 DEF Text
        <3>2. SubSeq(w, 1, i) \in Seq(Symbol)
            BY <1>0, <2>1 DEF Text
        <3>3. Append(SubSeq(w, 1, i), w[k]) = SubSeq(w, 1, k)
            BY <1>0, <2>1, <3>1 DEF Text
        <3> QED
            BY <3>1, <3>2, <3>3, AppendIsConcat
    <2> QED
        BY <2>1, <2>2, <2>3, <2>4
<1>3. \A i \in 0 .. n : i \in T
    <2> HIDE DEF T, n
    <2> QED
        BY <1>0, <1>1, <1>2, BoundedInduction
<1>4. Gained(w, env, n) = SubSeq(w, 1, n) /\ SubSeq(w, 1, n) = w
    BY <1>0, <1>3 DEF Text
<1> QED
    BY <1>4, GainedStep, CutProperties

(* expand_variables (variables.c) yields the value of the word, whatever   *)
(* the word and the list, and never more than MAX_STR_LEN symbols, unless  *)
(* there is no $ in it: then it is not looked at any further.              *)
THEOREM ExpansionIsValue ==
    ASSUME NEW s \in Text, NEW list \in Seq(Cell)
    PROVE  /\ ExpandVariables(s, list) =
                  IF "$" \in ToSet(s) THEN Value(s, EnvOf(list)) ELSE s
           /\ Len(s) <= MaxLen => ExpandVariables(s, list) = Value(s, EnvOf(list))
           /\ Value(s, EnvOf(list)) \in Text
           /\ Len(Value(s, EnvOf(list))) <= MaxLen
<1> DEFINE v == Value(s, EnvOf(list))
<1>1. Expanded(s, list)[Len(s)].result = v /\ v \in Text /\ Len(v) <= MaxLen
    BY LoopIsValue
<1>2. ASSUME "$" \notin ToSet(s), Len(s) <= MaxLen PROVE v = s
    <2>1. HoldsTexts(EnvOf(list))
        BY EnvProperties DEF HoldsTexts
    <2>2. \A i \in 1 .. Len(s) : s[i] # "$"
        BY <1>2 DEF ToSet, Text
    <2> QED
        BY <1>2, <2>1, <2>2, ValueWithoutNames
<1> HIDE DEF v
<1>3. ExpandVariables(s, list) = IF "$" \in ToSet(s) THEN v ELSE s
    BY <1>1 DEF ExpandVariables
<1> QED
    BY <1>1, <1>2, <1>3 DEF v

(* $ and a name stand for the variable.                                    *)
LEMMA ValueOfName ==
    ASSUME NEW list \in Seq(Cell), NEW key \in Keys(list), key # <<>>,
           \A i \in DOMAIN key : key[i] \notin NameEnd,
           Len(GetVariable(list, key)) <= MaxLen
    PROVE  ExpandVariables(<<"$">> \o key, list) = GetVariable(list, key)
<1> DEFINE s == <<"$">> \o key
           n == NameLength(s, 1)
           loop == Expand(s, list, Begun)
           v == GetVariable(list, key)
<1>0. key \in Text /\ <<"$">> \in Text /\ MaxLen \in Nat \ {0}
    <2>1. "$" \in Symbol
        BY SymbolAssumption
    <2>2. PICK i \in DOMAIN list : key = list[i].key
        BY DEF Keys
    <2>3. list[i] \in Cell
        OBVIOUS
    <2> QED
        BY <2>1, <2>2, <2>3, MaxLenAssumption DEF Text, Cell
<1>1. /\ s \in Text /\ Len(s) = Len(key) + 1 /\ Len(key) \in Nat /\ Len(key) # 0
      /\ s[1] = "$" /\ \A i \in 1 .. Len(key) : s[i + 1] = key[i]
    <2>1. Len(<<"$">>) = 1 /\ <<"$">>[1] = "$"
        OBVIOUS
    <2>2. /\ s \in Text /\ Len(s) = 1 + Len(key) /\ Len(key) \in Nat
          /\ \A i \in 1 .. 1 : s[i] = <<"$">>[i]
          /\ \A i \in 2 .. 1 + Len(key) : s[i] = key[i - 1]
        BY <1>0, <2>1, ConcatTexts
    <2>3. Len(key) # 0
        BY <1>0, EmptySeq DEF Text
    <2> HIDE DEF s
    <2>4. ASSUME NEW i \in 1 .. Len(key) PROVE s[i + 1] = key[i]
        <3>1. i + 1 \in 2 .. 1 + Len(key) /\ (i + 1) - 1 = i
            BY <2>2
        <3> QED
            BY <2>2, <3>1
    <2> QED
        BY <2>1, <2>2, <2>3, <2>4
<1> HIDE DEF s
<1>2. n = Len(key) /\ SubSeq(s, 2, n + 1) = key
    <2>1. 1 \in 1 .. Len(s)
        BY <1>1
    <2>2. n \in 0 .. Len(s) - 1 /\ (1 + n < Len(s) => s[1 + n + 1] \in NameEnd)
        <3>1. /\ NameLength(s, 1) \in 0 .. Len(s) - 1
              /\ 1 + NameLength(s, 1) < Len(s) => s[1 + NameLength(s, 1) + 1] \in NameEnd
            BY <1>1, <2>1, NameLengthIs
        <3> QED
            BY <3>1
    <2> HIDE DEF n
    <2>3. ASSUME n # Len(key) PROVE FALSE
        <3>1. 1 + n < Len(s) /\ n + 1 \in 1 .. Len(key) /\ 1 + n + 1 = (n + 1) + 1
            BY <1>1, <2>2, <2>3
        <3>2. s[(n + 1) + 1] = key[n + 1]
            BY <1>1, <3>1
        <3>3. n + 1 \in DOMAIN key
            BY <1>0, <3>1 DEF Text
        <3> QED
            BY <2>2, <3>1, <3>2, <3>3
    <2>4. n = Len(key)
        BY <2>3
    <2> DEFINE t == SubSeq(s, 2, n + 1)
    <2>5. n \in Nat /\ n + 1 \in Int /\ \A i \in 2 .. n + 1 : s[i] \in Symbol
        BY <1>1, <2>4 DEF Text
    <2>6. /\ t \in Seq(Symbol)
          /\ Len(t) = (IF 2 <= n + 1 THEN (n + 1) - 2 + 1 ELSE 0)
          /\ \A i \in 1 .. (n + 1) - 2 + 1 : t[i] = s[2 + i - 1]
        BY <2>5, SubSeqProperties
    <2> HIDE DEF t
    <2>7. Len(t) = n /\ (n + 1) - 2 + 1 = n
        BY <1>1, <2>4, <2>6
    <2>8. ASSUME NEW i \in 1 .. n PROVE t[i] = key[i]
        <3>1. 2 + i - 1 = i + 1
            OBVIOUS
        <3> QED
            BY <1>1, <2>4, <2>6, <2>7, <3>1
    <2>9. t = key
        BY <1>0, <2>4, <2>6, <2>7, <2>8, SeqEqual DEF Text
    <2> QED
        BY <2>4, <2>9 DEF t
<1>3. Find(list, key) # 0 /\ v \in Text
    BY EnvProperties
<1>4. Replacement(s, list, 1) = v
    <2>1. n # 0 /\ SubSeq(s, 1 + 1, 1 + n) = key
        BY <1>1, <1>2
    <2> QED
        BY <1>3, <2>1 DEF Replacement
<1>5. Begun \in LoopOf(s) /\ Begun.at = 1 /\ Begun.result = <<>> /\ <<>> \in Text
    BY <1>1 DEF Begun, LoopOf, Text
<1>6. loop.at = 1 + n + 1 /\ loop.result = <<>> \o Fitting(<<>>, v)
    <2>1. ~(1 > Len(s) \/ Len(<<>>) >= MaxLen)
        BY <1>0, <1>1
    <2>2. s[1] = "$"
        BY <1>1
    <2> DEFINE b == Begun
    <2>3. b \in LoopOf(s) /\ b.at = 1 /\ b.result = <<>>
        BY <1>5
    <2> HIDE DEF b
    <2>4. LET next == Expand(s, list, b)
              text == Replacement(s, list, b.at)
          IN ~(b.at > Len(s) \/ Len(b.result) >= MaxLen) /\ s[b.at] = "$" =>
                /\ next.at = b.at + NameLength(s, b.at) + 1
                /\ next.result = b.result \o Fitting(b.result, text)
        BY <1>1, <2>3, ExpandCases
    <2> HIDE DEF n
    <2> QED
        BY <1>4, <2>1, <2>2, <2>3, <2>4 DEF n, b
<1>7. loop.result = v
    <2>1. <<>> \o Fitting(<<>>, v) = Cut(<<>> \o v)
        <3>1. Len(<<>>) <= MaxLen
            BY <1>0
        <3> QED
            BY <1>3, <1>5, <3>1, FittingCuts
    <2>2. <<>> \o v = v
        BY <1>3 DEF Text
    <2> QED
        BY <1>3, <1>6, <2>1, <2>2, CutProperties
<1>8. LoopGood(s, EnvOf(list), loop, 1)
    <2>1. HoldsTexts(EnvOf(list))
        BY EnvProperties DEF HoldsTexts
    <2>2. Gained(s, EnvOf(list), 0) = <<>>
        BY <1>1, <2>1, GainedStep
    <2>3. Cut(<<>>) = <<>>
        BY <1>0, <1>5, CutProperties
    <2>4. ~InName(s, 1)
        BY DEF InName
    <2>5. LoopGood(s, EnvOf(list), Begun, 0)
        BY <1>5, <2>2, <2>3, <2>4 DEF LoopGood
    <2> QED
        BY <1>1, <1>5, <2>5, LoopStep
<1>9. v = Cut(Gained(s, EnvOf(list), Len(s)))
    <2>1. loop.at - 1 = Len(s)
        BY <1>1, <1>2, <1>6
    <2> QED
        BY <1>7, <1>8, <2>1 DEF LoopGood
<1>10. Value(s, EnvOf(list)) = v
    <2>1. HoldsTexts(EnvOf(list))
        BY EnvProperties DEF HoldsTexts
    <2> QED
        BY <1>1, <1>9, <2>1, GainedStep
<1>11. "$" \in ToSet(s)
    <2>1. 1 \in DOMAIN s
        BY <1>1 DEF Text
    <2> QED
        BY <1>1, <2>1 DEF ToSet
<1> QED
    BY <1>1, <1>10, <1>11, ExpansionIsValue DEF s

-----------------------------------------------------------------------------
(* The variable list.                                                      *)

KeyText == PlainText \ {<<>>}
ValueText == {v \in PlainText : Len(v) <= MaxLen}
Variable == [key : KeyText, value : ValueText]

Distinct(list) ==
    \A i, j \in DOMAIN list : list[i].key = list[j].key => i = j

(* What is known of the cells of a list.                                   *)
LEMMA VariablesAreCells ==
    ASSUME NEW list \in Seq(Variable)
    PROVE  /\ list \in Seq(Cell)
           /\ \A i \in DOMAIN list : /\ list[i] \in Variable
                                     /\ list[i].key \in KeyText
                                     /\ list[i].value \in ValueText
           /\ HoldsTexts(EnvOf(list)) /\ HoldsPlain(EnvOf(list))
<1>1. \A v \in Variable : v \in Cell
    BY PlainTexts DEF Variable, Cell, KeyText, ValueText
<1>2. list \in Seq(Cell)
    BY <1>1
<1>3. \A i \in DOMAIN list : /\ list[i] \in Variable
                             /\ list[i].key \in KeyText
                             /\ list[i].value \in ValueText
    <2>1. \A i \in DOMAIN list : list[i] \in Variable
        OBVIOUS
    <2>2. \A v \in Variable : v.key \in KeyText /\ v.value \in ValueText
        BY DEF Variable
    <2> QED
        BY <2>1, <2>2
<1>4. ASSUME NEW key \in DOMAIN EnvOf(list) PROVE EnvOf(list)[key] \in PlainText
    <2>1. /\ Find(list, key) \in DOMAIN list
          /\ EnvOf(list)[key] = list[Find(list, key)].value
        BY <1>2, EnvProperties, FindProperties DEF GetVariable
    <2> QED
        BY <1>3, <2>1 DEF ValueText
<1> QED
    BY <1>2, <1>3, <1>4, PlainTexts DEF HoldsTexts, HoldsPlain

(* Without duplicates, every cell is found.                                *)
LEMMA EnvOfDistinct ==
    ASSUME NEW list \in Seq(Cell), Distinct(list), NEW i \in DOMAIN list
    PROVE  /\ list[i].key \in Keys(list)
           /\ EnvOf(list)[list[i].key] = list[i].value
           /\ Find(list, list[i].key) = i
<1>1. list[i].key \in Keys(list)
    BY DEF Keys
<1>2. Find(list, list[i].key) = i
    BY <1>1, EnvProperties, FindProperties DEF Distinct
<1> QED
    BY <1>1, <1>2, EnvProperties DEF GetVariable

(* Two lists without duplicates and with the same cells stand for the same *)
(* mapping.                                                                *)
LEMMA SameCells ==
    ASSUME NEW l \in Seq(Cell), NEW m \in Seq(Cell), Distinct(l), Distinct(m),
           \A i \in DOMAIN l : \E j \in DOMAIN m : l[i] = m[j],
           \A j \in DOMAIN m : \E i \in DOMAIN l : l[i] = m[j]
    PROVE  EnvOf(l) = EnvOf(m)
<1>1. Keys(l) = Keys(m)
    BY DEF Keys
<1>2. ASSUME NEW k \in Keys(l) PROVE EnvOf(l)[k] = EnvOf(m)[k]
    <2>1. PICK i \in DOMAIN l : l[i].key = k
        BY DEF Keys
    <2>2. PICK j \in DOMAIN m : l[i] = m[j]
        OBVIOUS
    <2>3. EnvOf(l)[k] = l[i].value
        BY <2>1, EnvOfDistinct
    <2>4. EnvOf(m)[k] = m[j].value
        <3>1. EnvOf(m)[m[j].key] = m[j].value
            BY EnvOfDistinct
        <3> QED
            BY <2>1, <2>2, <3>1
    <2> QED
        BY <2>2, <2>3, <2>4
<1>3. EnvOf(l) = [k \in Keys(l) |-> GetVariable(l, k)]
    BY DEF EnvOf, Keys
<1>4. EnvOf(m) = [k \in Keys(m) |-> GetVariable(m, k)]
    BY DEF EnvOf, Keys
<1>5. \A k \in Keys(l) : GetVariable(l, k) = GetVariable(m, k)
    BY <1>1, <1>2, EnvProperties
<1> QED
    BY <1>1, <1>3, <1>4, <1>5

(* duplicate_variables reverses the list.                                  *)
LEMMA DuplicateIsSame ==
    ASSUME NEW list \in Seq(Cell), Distinct(list)
    PROVE  EnvOf(DuplicateVariables(list)) = EnvOf(list)
<1> DEFINE n == Len(list)
           r == DuplicateVariables(list)
<1>0. n \in Nat /\ DOMAIN list = 1 .. n
    OBVIOUS
<1>1. r = [i \in 1 .. n |-> list[(n - i) + 1]]
    BY DEF DuplicateVariables, Reverse
<1> HIDE DEF r, n
<1>2. \A i \in 1 .. n : (n - i) + 1 \in 1 .. n /\ (n - ((n - i) + 1)) + 1 = i
    BY <1>0
<1>3. DOMAIN r = 1 .. n /\ \A i \in 1 .. n : r[i] = list[(n - i) + 1]
    BY <1>1
<1>4. r \in Seq(Cell)
    <2>1. \A i \in 1 .. n : list[(n - i) + 1] \in Cell
        BY <1>0, <1>2
    <2> QED
        BY <1>0, <1>1, <2>1
<1>5. Distinct(r)
    <2> SUFFICES ASSUME NEW i \in 1 .. n, NEW j \in 1 .. n, r[i].key = r[j].key
                 PROVE  i = j
        BY <1>3 DEF Distinct
    <2>1. (n - i) + 1 = (n - j) + 1
        BY <1>0, <1>2, <1>3 DEF Distinct
    <2> QED
        BY <1>0, <2>1
<1>6. \A i \in DOMAIN r : \E j \in DOMAIN list : r[i] = list[j]
    BY <1>0, <1>2, <1>3
<1>7. \A j \in DOMAIN list : \E i \in DOMAIN r : r[i] = list[j]
    <2> SUFFICES ASSUME NEW j \in 1 .. n PROVE \E i \in 1 .. n : r[i] = list[j]
        BY <1>0, <1>3
    <2> DEFINE i == (n - j) + 1
    <2>1. i \in 1 .. n /\ (n - i) + 1 = j
        BY <1>2
    <2>2. r[i] = list[(n - i) + 1]
        BY <1>3, <2>1
    <2> HIDE DEF i
    <2> QED
        BY <2>1, <2>2
<1>8. EnvOf(r) = EnvOf(list)
    BY <1>4, <1>5, <1>6, <1>7, SameCells
<1> QED
    BY <1>8 DEF r

(* set_variable updates the mapping that the list stands for at one place, *)
(* and leaves no duplicates.                                               *)
THEOREM SetVariableUpdates ==
    ASSUME NEW list \in Seq(Variable), Distinct(list),
           NEW key \in KeyText, NEW value \in ValueText
    PROVE  LET new == SetVariable(list, key, value)
           IN /\ new \in Seq(Variable)
              /\ Distinct(new)
              /\ EnvOf(new) = Update(EnvOf(list), key, value)
<1> DEFINE new == SetVariable(list, key, value)
           cell == [key |-> key, value |-> value]
           at0 == Find(list, key)
           n == Len(list)
<1>0. /\ list \in Seq(Cell) /\ n \in Nat /\ DOMAIN list = 1 .. n
      /\ \A i \in DOMAIN list : list[i] \in Variable
    BY VariablesAreCells
<1>1. cell \in Variable /\ cell.key = key /\ cell.value = value
    BY DEF Variable
<1>u. ASSUME NEW l \in Seq(Variable), Distinct(l),
             Keys(l) = Keys(list) \cup {key},
             \A i \in DOMAIN l : l[i].key = key => l[i].value = value,
             \A i \in DOMAIN l : l[i].key # key => \E j \in DOMAIN list : l[i] = list[j]
      PROVE  EnvOf(l) = Update(EnvOf(list), key, value)
    <2>1. l \in Seq(Cell)
        BY VariablesAreCells
    <2>2. DOMAIN EnvOf(list) = Keys(list)
        BY <1>0, EnvProperties
    <2>3. ASSUME NEW k \in Keys(l)
          PROVE  GetVariable(l, k) = IF k = key THEN value ELSE EnvOf(list)[k]
        <3>1. PICK i \in DOMAIN l : l[i].key = k
            BY DEF Keys
        <3>2. GetVariable(l, k) = l[i].value
            BY <2>1, <1>u, <3>1, EnvOfDistinct, EnvProperties
        <3>3. CASE k = key
            BY <1>u, <3>1, <3>2, <3>3
        <3>4. CASE k # key
            <4>1. PICK j \in DOMAIN list : l[i] = list[j]
                BY <1>u, <3>1, <3>4
            <4>2. EnvOf(list)[k] = list[j].value
                BY <1>0, <3>1, <4>1, EnvOfDistinct
            <4> QED
                BY <3>2, <3>4, <4>1, <4>2
        <3> QED
            BY <3>3, <3>4
    <2>4. EnvOf(l) = [k \in Keys(l) |-> GetVariable(l, k)]
        BY DEF EnvOf, Keys
    <2> QED
        BY <1>u, <2>2, <2>3, <2>4 DEF Update
<1>2. CASE at0 # 0
    <2>1. at0 \in 1 .. n /\ list[at0].key = key
        BY <1>0, <1>2, FindProperties
    <2>2. new = [list EXCEPT ![at0].value = value]
        BY <1>2 DEF SetVariable
    <2> HIDE DEF at0
    <2>3. /\ DOMAIN new = 1 .. n
          /\ \A i \in 1 .. n : i # at0 => new[i] = list[i]
          /\ new[at0] = [list[at0] EXCEPT !.value = value]
        BY <1>0, <2>1, <2>2
    <2>4. new[at0] = cell
        <3>1. list[at0] \in [key : KeyText, value : ValueText]
            BY <1>0, <2>1 DEF Variable
        <3> QED
            BY <2>1, <2>3, <3>1
    <2>5. new \in Seq(Variable)
        BY <1>0, <1>1, <2>1, <2>2, <2>3, <2>4
    <2> HIDE DEF new, cell
    <2>6. \A i \in 1 .. n : new[i].key = list[i].key
        BY <1>1, <2>1, <2>3, <2>4
    <2>7. Distinct(new)
        BY <1>0, <2>3, <2>6 DEF Distinct
    <2>8. Keys(new) = Keys(list) \cup {key}
        BY <1>0, <2>1, <2>3, <2>6 DEF Keys
    <2>9. \A i \in DOMAIN new : new[i].key = key => i = at0
        BY <1>0, <2>1, <2>3, <2>6 DEF Distinct
    <2>10. /\ \A i \in DOMAIN new : new[i].key = key => new[i].value = value
           /\ \A i \in DOMAIN new : new[i].key # key => \E j \in DOMAIN list : new[i] = list[j]
        BY <1>0, <1>1, <2>1, <2>3, <2>4, <2>9
    <2>11. EnvOf(new) = Update(EnvOf(list), key, value)
        BY <1>u, <2>5, <2>7, <2>8, <2>10
    <2> QED
        BY <2>5, <2>7, <2>11 DEF new
<1>3. CASE at0 = 0
    <2>1. \A i \in 1 .. n : list[i].key # key
        BY <1>0, <1>3, FindProperties
    <2>2. new = <<cell>> \o list
        BY <1>3 DEF SetVariable
    <2> HIDE DEF cell
    <2>3. /\ new \in Seq(Variable) /\ Len(new) = n + 1
          /\ new[1] = cell
          /\ \A i \in 2 .. n + 1 : new[i] = list[i - 1]
        <3>1. <<cell>> \in Seq(Variable) /\ Len(<<cell>>) = 1 /\ <<cell>>[1] = cell
            BY <1>1
        <3> HIDE DEF new
        <3>2. /\ new \in Seq(Variable) /\ Len(new) = 1 + n
              /\ \A i \in 1 .. 1 : new[i] = <<cell>>[i]
              /\ \A i \in 2 .. 1 + n : new[i] = list[i - 1]
            BY <2>2, <3>1, ConcatProperties
        <3> QED
            BY <1>0, <3>1, <3>2
    <2> HIDE DEF new
    <2>4. DOMAIN new = 1 .. n + 1
        BY <2>3
    <2>5. \A i \in 2 .. n + 1 : i - 1 \in 1 .. n
        BY <1>0
    <2>6. \A i \in 1 .. n + 1 : i = 1 \/ i \in 2 .. n + 1
        BY <1>0
    <2>7. \A j \in 1 .. n : j + 1 \in 2 .. n + 1 /\ (j + 1) - 1 = j /\ j + 1 \in 1 .. n + 1
        BY <1>0
    <2>8. Distinct(new)
        <3> SUFFICES ASSUME NEW i \in 1 .. n + 1, NEW j \in 1 .. n + 1,
                            new[i].key = new[j].key
                     PROVE  i = j
            BY <2>4 DEF Distinct
        <3>1. CASE i = 1 /\ j = 1
            BY <3>1
        <3>2. CASE i = 1 /\ j \in 2 .. n + 1
            BY <1>1, <2>1, <2>3, <2>5, <3>2
        <3>3. CASE j = 1 /\ i \in 2 .. n + 1
            BY <1>1, <2>1, <2>3, <2>5, <3>3
        <3>4. CASE i \in 2 .. n + 1 /\ j \in 2 .. n + 1
            <4>1. i - 1 = j - 1
                <5>1. i - 1 \in 1 .. n /\ j - 1 \in 1 .. n
                    BY <1>0, <3>4
                <5>2. list[i - 1].key = list[j - 1].key
                    BY <2>3, <3>4
                <5> QED
                    BY <1>0, <5>1, <5>2 DEF Distinct
            <4> QED
                BY <1>0, <3>4, <4>1
        <3> QED
            BY <2>6, <3>1, <3>2, <3>3, <3>4
    <2>9. Keys(new) = Keys(list) \cup {key}
        <3>1. ASSUME NEW k \in Keys(new) PROVE k \in Keys(list) \cup {key}
            <4>1. PICK i \in 1 .. n + 1 : new[i].key = k
                BY <2>4 DEF Keys
            <4> QED
                BY <1>0, <1>1, <2>3, <2>5, <2>6, <4>1 DEF Keys
        <3>2. ASSUME NEW k \in Keys(list) PROVE k \in Keys(new)
            <4>1. PICK j \in 1 .. n : list[j].key = k
                BY <1>0 DEF Keys
            <4>2. new[j + 1] = list[j] /\ j + 1 \in DOMAIN new
                BY <2>3, <2>4, <2>7
            <4> QED
                BY <4>1, <4>2 DEF Keys
        <3>3. key \in Keys(new)
            <4>1. 1 \in DOMAIN new /\ new[1].key = key
                BY <1>0, <1>1, <2>3, <2>4
            <4> QED
                BY <4>1 DEF Keys
        <3> QED
            BY <3>1, <3>2, <3>3
    <2>10. \A i \in DOMAIN new : new[i].key = key => new[i].value = value
        BY <1>1, <2>1, <2>3, <2>4, <2>5, <2>6
    <2>11. \A i \in DOMAIN new : new[i].key # key => \E j \in DOMAIN list : new[i] = list[j]
        BY <1>0, <1>1, <2>3, <2>4, <2>5, <2>6
    <2>12. EnvOf(new) = Update(EnvOf(list), key, value)
        BY <1>u, <2>3, <2>8, <2>9, <2>10, <2>11
    <2> QED
        BY <2>3, <2>8, <2>12 DEF new
<1> QED
    BY <1>2, <1>3

(* The code and the meaning agree on assignments.                          *)
LEMMA AssignmentIsAssignment ==
    ASSUME NEW w \in PlainText
    PROVE  /\ IsVariableAssignment(w) <=> IsAssignment(w)
           /\ IsAssignment(w) => /\ KeyPart(w) = KeyOf(w)
                                 /\ ValuePart(w) = RightSide(w)
                                 /\ KeyOf(w) \in KeyText
                                 /\ RightSide(w) \in PlainText
                                 /\ Len(RightSide(w)) <= Len(w)
<1> DEFINE I == {i \in 1 .. Len(w) : w[i] = "="}
           m == Min(I)
<1>0. Len(w) \in Nat /\ DOMAIN w = 1 .. Len(w) /\ I \in SUBSET Nat /\ w \in Seq(Plain)
    BY DEF PlainText
<1>1. SelectInSeq(w, LAMBDA c : c = "=") = IF I # {} THEN Min(I) ELSE 0
    BY DEF SelectInSeq
<1>2. FirstEquals(w) = Min(I)
    BY <1>0 DEF FirstEquals
<1>3. \A i : i \in I <=> i \in 1 .. Len(w) /\ w[i] = "="
    OBVIOUS
<1> HIDE DEF I
<1>4. I # {} => m \in I /\ m \in 1 .. Len(w) /\ w[m] = "="
    BY <1>0, <1>3, MinProperties
<1> HIDE DEF m
<1>5. IsAssignment(w) <=> w # <<>> /\ w[1] # "=" /\ I # {}
    <2>1. ASSUME IsAssignment(w) PROVE w # <<>> /\ w[1] # "=" /\ I # {}
        <3>1. PICK i \in 2 .. Len(w) : w[i] = "=" /\ w[1] # "="
            BY <2>1 DEF IsAssignment
        <3>2. i \in I /\ Len(w) # 0
            BY <1>0, <1>3, <3>1
        <3> QED
            BY <3>1, <3>2
    <2>2. ASSUME w # <<>>, w[1] # "=", I # {} PROVE IsAssignment(w)
        <3>1. m \in 2 .. Len(w)
            BY <1>0, <1>4, <2>2
        <3> QED
            BY <1>4, <2>2, <3>1 DEF IsAssignment
    <2> QED
        BY <2>1, <2>2
<1>6. IsVariableAssignment(w) <=> w # <<>> /\ w[1] # "=" /\ I # {}
    <2>1. I # {} => Min(I) # 0
        BY <1>0, <1>4 DEF m
    <2> QED
        BY <1>1, <2>1 DEF IsVariableAssignment
<1>7. ASSUME IsAssignment(w)
      PROVE  /\ KeyPart(w) = KeyOf(w) /\ ValuePart(w) = RightSide(w)
             /\ KeyOf(w) \in KeyText /\ RightSide(w) \in PlainText
             /\ Len(RightSide(w)) <= Len(w)
    <2>1. I # {} /\ w[1] # "="
        BY <1>5, <1>7
    <2>2. m \in 2 .. Len(w)
        BY <1>0, <1>4, <2>1
    <2>3. KeyPart(w) = SubSeq(w, 1, m - 1) /\ KeyOf(w) = SubSeq(w, 1, m - 1)
        BY <1>1, <1>2, <2>1 DEF KeyPart, KeyOf, m
    <2>4. /\ ValuePart(w) = SubSeq(w, m + 1, Len(w))
          /\ RightSide(w) = SubSeq(w, m + 1, Len(w))
        BY <1>1, <1>2, <2>1 DEF ValuePart, RightSide, m
    <2>5. SubSeq(w, 1, m - 1) \in Seq(Plain) /\ Len(SubSeq(w, 1, m - 1)) = m - 1
        BY <1>0, <2>2
    <2>6. SubSeq(w, 1, m - 1) # <<>>
        <3> DEFINE r == SubSeq(w, 1, m - 1)
        <3>1. r \in Seq(Plain) /\ Len(r) # 0
            BY <1>0, <2>2, <2>5
        <3> HIDE DEF r
        <3>2. r # <<>>
            BY <3>1, EmptySeq
        <3> QED
            BY <3>2 DEF r
    <2>7. SubSeq(w, m + 1, Len(w)) \in Seq(Plain) /\ Len(SubSeq(w, m + 1, Len(w))) <= Len(w)
        <3>1. m + 1 \in Int /\ Len(w) \in Int /\ \A i \in m + 1 .. Len(w) : w[i] \in Plain
            BY <1>0, <2>2
        <3> DEFINE r == SubSeq(w, m + 1, Len(w))
        <3>2. /\ r \in Seq(Plain)
              /\ Len(r) = (IF m + 1 <= Len(w) THEN Len(w) - (m + 1) + 1 ELSE 0)
            BY <3>1, SubSeqProperties
        <3> HIDE DEF r
        <3>3. Len(r) <= Len(w)
            <4>1. Len(w) - (m + 1) + 1 <= Len(w) /\ 0 <= Len(w)
                BY <1>0, <2>2
            <4>2. CASE m + 1 <= Len(w)
                BY <3>2, <4>1, <4>2
            <4>3. CASE ~(m + 1 <= Len(w))
                BY <3>2, <4>1, <4>3
            <4> QED
                BY <4>2, <4>3
        <3> QED
            BY <3>2, <3>3 DEF r
    <2> QED
        BY <2>3, <2>4, <2>5, <2>6, <2>7 DEF KeyText, PlainText
<1> QED
    BY <1>5, <1>6, <1>7

(* A command's text is no shorter for the words behind it.                 *)
CommandParts(l) == [i \in DOMAIN l |-> Append(l[i], " ")]

(* The parts of a command's text.                                          *)
LEMMA CommandPartTypes ==
    ASSUME NEW l \in Seq(Text)
    PROVE  /\ CommandParts(l) \in Seq(Text) /\ Len(CommandParts(l)) = Len(l)
           /\ \A i \in 1 .. Len(l) : /\ CommandParts(l)[i] = Append(l[i], " ")
                                     /\ CommandParts(l)[i] \in Text
<1>1. " " \in Symbol
    BY SymbolAssumption
<1>2. DOMAIN l = 1 .. Len(l) /\ Len(l) \in Nat /\ \A i \in 1 .. Len(l) : l[i] \in Text
    OBVIOUS
<1>3. \A i \in 1 .. Len(l) : Append(l[i], " ") \in Text
    BY <1>1, <1>2, TextGrows
<1> DEFINE r == CommandParts(l)
<1>4. r = [i \in 1 .. Len(l) |-> Append(l[i], " ")]
    BY <1>2 DEF CommandParts
<1> HIDE DEF r
<1>5. DOMAIN r = 1 .. Len(l) /\ \A i \in 1 .. Len(l) : r[i] = Append(l[i], " ")
    BY <1>4
<1>6. \A i \in 1 .. Len(l) : r[i] \in Text
    BY <1>3, <1>5
<1>7. r = [i \in 1 .. Len(l) |-> r[i]]
    BY <1>4, <1>5
<1>8. r \in Seq(Text) /\ Len(r) = Len(l)
    BY <1>2, <1>6, <1>7
<1> QED
    BY <1>5, <1>6, <1>8 DEF r

(* The text of a job without its & is no longer than with it.              *)
LEMMA FrontIsShorter ==
    ASSUME NEW ts \in Seq(Text), ts # <<>>
    PROVE  /\ CommandLength(ts) \in Nat /\ CommandLength(Front(ts)) \in Nat
           /\ CommandLength(Front(ts)) <= CommandLength(ts)
<1> DEFINE fr == Front(ts)
           a == CommandParts(fr)
           b == CommandParts(ts)
           n == Len(ts)
           last == b[n]
           c == Append(a, last)
<1>1. n \in Nat /\ n # 0
    BY EmptySeq
<1> HIDE DEF n
<1>2. fr \in Seq(Text) /\ Len(fr) = n - 1 /\ \A i \in 1 .. n - 1 : fr[i] = ts[i]
    <2>1. \A i \in 1 .. n - 1 : ts[i] \in Text
        BY <1>1 DEF n
    <2>2. fr = SubSeq(ts, 1, n - 1) /\ n - 1 \in Int /\ 1 \in Int
        BY <1>1 DEF Front, n
    <2>3. /\ fr \in Seq(Text)
          /\ Len(fr) = (IF 1 <= n - 1 THEN (n - 1) - 1 + 1 ELSE 0)
          /\ \A i \in 1 .. (n - 1) - 1 + 1 : fr[i] = ts[1 + i - 1]
        BY <2>1, <2>2, SubSeqProperties
    <2> HIDE DEF fr
    <2>4. (n - 1) - 1 + 1 = n - 1 /\ \A i \in 1 .. n - 1 : 1 + i - 1 = i
        BY <1>1
    <2> QED
        BY <1>1, <2>3, <2>4
<1> HIDE DEF fr
<1>3. /\ a \in Seq(Text) /\ Len(a) = n - 1
      /\ \A i \in 1 .. n - 1 : a[i] = Append(fr[i], " ")
    BY <1>2, CommandPartTypes
<1>4. /\ b \in Seq(Text) /\ Len(b) = n
      /\ \A i \in 1 .. n : b[i] = Append(ts[i], " ") /\ b[i] \in Text
    BY CommandPartTypes DEF n
<1> HIDE DEF a, b
<1>5. last \in Text
    <2>1. n \in 1 .. n
        BY <1>1
    <2> QED
        BY <1>4, <2>1
<1> HIDE DEF last
<1>6. /\ c \in Seq(Text) /\ Len(c) = n
      /\ \A i \in 1 .. n - 1 : c[i] = a[i]
      /\ c[n] = last
    <2>0. a \in Seq(Text) /\ last \in Text /\ Len(a) = n - 1
        BY <1>3, <1>5
    <2>1. /\ c \in Seq(Text) /\ Len(c) = Len(a) + 1
          /\ \A i \in 1 .. Len(a) : c[i] = a[i]
          /\ c[Len(a) + 1] = last
        BY <2>0, AppendProperties
    <2> HIDE DEF c
    <2>2. Len(a) + 1 = n
        BY <1>1, <2>0
    <2> QED
        BY <1>3, <2>1, <2>2
<1> HIDE DEF c
<1>7. b = c
    <2>1. ASSUME NEW i \in 1 .. n PROVE b[i] = c[i]
        <3>1. CASE i = n
            BY <1>6, <3>1 DEF last
        <3>2. CASE i # n
            <4>1. i \in 1 .. n - 1
                BY <1>1, <3>2
            <4> QED
                BY <1>2, <1>3, <1>4, <1>6, <4>1
        <3> QED
            BY <3>1, <3>2
    <2> QED
        BY <1>4, <1>6, <2>1, SeqEqual
<1>8. FlattenSeq(b) = FlattenSeq(a) \o last /\ FlattenSeq(a) \in Text
    BY <1>3, <1>5, <1>7, FlattenAppend DEF Text, c
<1>9. CommandLength(ts) = Len(FlattenSeq(b)) /\ CommandLength(fr) = Len(FlattenSeq(a))
    BY DEF CommandLength, CommandParts, a, b
<1> DEFINE x == FlattenSeq(a)
<1> HIDE DEF x
<1>10. Len(x \o last) = Len(x) + Len(last) /\ Len(x) \in Nat /\ Len(last) \in Nat
    BY <1>5, <1>8, ConcatTexts DEF x
<1> QED
    BY <1>8, <1>9, <1>10 DEF x, fr

-----------------------------------------------------------------------------
(* Tokens and what they stand for.                                         *)

Token == {w \in PlainText \cup {<<"|">>} : Len(w) <= MaxLen}

(* A token is a plain text or the pipe.                                    *)
LEMMA TokenKinds ==
    /\ \A w \in Token : w \in Text /\ Len(w) <= MaxLen /\ (w \in PlainText \/ w = <<"|">>)
    /\ \A w \in PlainText : w # <<"|">> /\ (Len(w) <= MaxLen => w \in Token)
    /\ <<"|">> \in Token
    /\ "$" \notin ToSet(<<"|">>)
    /\ ~IsAssignment(<<"|">>) /\ ~IsVariableAssignment(<<"|">>)
<1>1. "|" \in Symbol /\ MaxLen \in Nat \ {0} /\ Len(<<"|">>) = 1 /\ <<"|">>[1] = "|"
    BY SymbolAssumption, MaxLenAssumption
<1>2. <<"|">> \in Text
    BY <1>1 DEF Text
<1>3. <<"|">> \in Token
    BY <1>1 DEF Token
<1>4. ASSUME NEW w \in PlainText PROVE w # <<"|">>
    <2> SUFFICES ASSUME w = <<"|">> PROVE FALSE
        OBVIOUS
    <2>1. w \in Seq(Plain) /\ 1 \in 1 .. Len(w)
        BY <1>1 DEF PlainText
    <2>2. w[1] \in Plain
        BY <2>1
    <2> QED
        BY <1>1, <2>2 DEF Plain
<1>5. "$" \notin ToSet(<<"|">>)
    <2>1. \A x \in ToSet(<<"|">>) : x = "|"
        BY DEF ToSet
    <2> QED
        BY <2>1
<1>6. ~IsAssignment(<<"|">>)
    BY <1>1 DEF IsAssignment
<1>7. ~IsVariableAssignment(<<"|">>)
    <2> DEFINE I == {i \in 1 .. Len(<<"|">>) : <<"|">>[i] = "="}
    <2>1. I = {}
        OBVIOUS
    <2>2. SelectInSeq(<<"|">>, LAMBDA c : c = "=") = IF I # {} THEN Min(I) ELSE 0
        BY DEF SelectInSeq
    <2> QED
        BY <2>1, <2>2 DEF IsVariableAssignment
<1> QED
    BY <1>2, <1>3, <1>4, <1>5, <1>6, <1>7, PlainTexts DEF Token

(* The words of a line and what they stand for.                            *)
LEMMA WordsAreTokens ==
    ASSUME NEW l \in Text, Len(l) <= MaxLen
    PROVE  /\ Taken(l) \in Seq(Token) /\ Len(Taken(l)) \in Nat
           /\ DOMAIN Taken(l) = 1 .. Len(Taken(l))
           /\ \A i \in 1 .. Len(Taken(l)) : Taken(l)[i] \in Token
<1> DEFINE ws == Taken(l)
<1>1. ws \in Seq(WordOf(Len(l)))
    BY WordsTypes
<1>2. ASSUME NEW w \in WordOf(Len(l)) PROVE w \in Token
    <2>1. w \in Word /\ Len(w) <= Len(l)
        BY DEF WordOf
    <2>2. w \in PlainText \cup {<<"|">>}
        BY <2>1 DEF Word, PlainText
    <2>3. Len(w) \in Nat /\ Len(l) \in Nat /\ MaxLen \in Nat
        BY <2>1, WordTexts, MaxLenAssumption DEF Text
    <2>4. Len(w) <= MaxLen
        BY <2>1, <2>3
    <2> QED
        BY <2>2, <2>4 DEF Token
<1> HIDE DEF ws
<1>3. ws \in Seq(Token)
    BY <1>1, <1>2
<1> QED
    BY <1>3 DEF ws

(* What a token is replaced by, if it is, is what its word stands for, and *)
(* a token that is not replaced stands for itself; | stays |, and nothing  *)
(* else becomes it.                                                        *)
Replaced(w, i) == "$" \in ToSet(w) /\ ~(i = 1 /\ IsVariableAssignment(w))

(* Replaced says when a token is replaced.                                 *)
LEMMA ArgumentsGiven ==
    ASSUME NEW l \in Text, Len(l) <= MaxLen, NEW list \in Seq(Variable),
           NEW i \in 1 .. Len(Taken(l))
    PROVE  LET w == Taken(l)[i]
               given == ArgumentsOf(Taken(l), EnvOf(list))[i]
           IN /\ given = IF Replaced(w, i) THEN ExpandVariables(w, list) ELSE w
              /\ given \in Token
              /\ given = <<"|">> <=> w = <<"|">>
              /\ i = 1 => given = FirstWord(w, EnvOf(list))
<1> DEFINE w == Taken(l)[i]
           env == EnvOf(list)
           given == ArgumentsOf(Taken(l), env)[i]
<1>1. w \in Token /\ DOMAIN Taken(l) = 1 .. Len(Taken(l))
    BY WordsAreTokens
<1>2. given = IF i = 1 /\ IsAssignment(w) THEN w ELSE Value(w, env)
    BY <1>1 DEF ArgumentsOf
<1>3. list \in Seq(Cell) /\ HoldsTexts(env) /\ HoldsPlain(env)
    BY VariablesAreCells
<1> HIDE DEF w, env, given
<1>4. w \in Text /\ Len(w) <= MaxLen /\ (w \in PlainText \/ w = <<"|">>)
    BY <1>1, TokenKinds
<1>5. IsVariableAssignment(w) <=> IsAssignment(w)
    BY <1>4, TokenKinds, AssignmentIsAssignment
<1>6. ExpandVariables(w, list) = Value(w, env) /\ Len(Value(w, env)) <= MaxLen
    BY <1>3, <1>4, ExpansionIsValue DEF env
<1>7. "$" \notin ToSet(w) => Value(w, env) = w
    <2> SUFFICES ASSUME "$" \notin ToSet(w) PROVE Value(w, env) = w
        OBVIOUS
    <2>1. \A k \in 1 .. Len(w) : w[k] # "$"
        BY <1>4 DEF ToSet, Text
    <2> QED
        BY <1>3, <1>4, <2>1, ValueWithoutNames
<1>8. given = IF Replaced(w, i) THEN ExpandVariables(w, list) ELSE w
    BY <1>2, <1>5, <1>6, <1>7 DEF Replaced
<1>9. w \in PlainText => Value(w, env) \in PlainText
    BY <1>3, ValueTypes
<1>10. given \in Token /\ (given = <<"|">> <=> w = <<"|">>)
    <2>1. CASE w \in PlainText
        <3>1. given \in PlainText /\ Len(given) <= MaxLen
            BY <1>2, <1>4, <1>6, <1>9, <2>1
        <3> QED
            BY <2>1, <3>1, TokenKinds
    <2>2. CASE w = <<"|">>
        BY <1>1, <1>2, <1>7, <2>2, TokenKinds
    <2> QED
        BY <1>4, <2>1, <2>2
<1>11. i = 1 => given = FirstWord(w, env)
    BY <1>2 DEF FirstWord
<1> QED
    BY <1>8, <1>10, <1>11 DEF w, env, given

(* Arguments as a sequence.                                                *)
LEMMA ArgumentsTypes ==
    ASSUME NEW l \in Text, Len(l) <= MaxLen, NEW list \in Seq(Variable)
    PROVE  /\ ArgumentsOf(Taken(l), EnvOf(list)) \in Seq(Token)
           /\ Len(ArgumentsOf(Taken(l), EnvOf(list))) = Len(Taken(l))
<1> DEFINE a == ArgumentsOf(Taken(l), EnvOf(list))
           n == Len(Taken(l))
<1>1. n \in Nat /\ DOMAIN Taken(l) = 1 .. n
    BY WordsAreTokens
<1>2. \A i \in 1 .. n : a[i] \in Token
    BY ArgumentsGiven
<1>3. a = [i \in 1 .. n |-> a[i]]
    BY <1>1 DEF ArgumentsOf
<1> HIDE DEF a, n
<1>4. a \in Seq(Token) /\ Len(a) = n
    BY <1>1, <1>2, <1>3
<1> QED
    BY <1>4 DEF a, n

-----------------------------------------------------------------------------
(* Messages.                                                               *)

(* The blank, unquoted words and what is put in front of them.             *)
SpacedWord(ts, k) ==
    IF k = 1 THEN Unquoted(ts[4]) ELSE <<Space>> \o Unquoted(ts[k + 3])

(* They are texts.                                                         *)
LEMMA MessageWords ==
    /\ Space \in Symbol /\ <<Space>> \in Text
    /\ \A w \in Text : Unquoted(w) \in Text
    /\ \A ts \in Seq(Text) : \A k \in 1 .. Len(ts) - 3 :
          /\ ts[k + 3] \in Text /\ Unquoted(ts[k + 3]) \in Text
          /\ SpacedWord(ts, k) \in Text
<1>1. " " \in Symbol
    BY SymbolAssumption
<1>2. Space \in Symbol
    BY <1>1, Zenon DEF Space
<1>3. <<Space>> \in Text
    BY <1>2 DEF Text
<1>4. ASSUME NEW w \in Text PROVE Unquoted(w) \in Text
    <2>1. \A i \in 2 .. Len(w) - 1 : w[i] \in Symbol
        BY DEF Text
    <2>2. 2 \in Int /\ Len(w) - 1 \in Int
        BY DEF Text
    <2>3. SubSeq(w, 2, Len(w) - 1) \in Seq(Symbol)
        BY <2>1, <2>2, SubSeqProperties
    <2> QED
        BY <2>3 DEF Unquoted, Text
<1>5. ASSUME NEW ts \in Seq(Text), NEW k \in 1 .. Len(ts) - 3
      PROVE  /\ ts[k + 3] \in Text /\ Unquoted(ts[k + 3]) \in Text
             /\ SpacedWord(ts, k) \in Text
    <2>1. k + 3 \in 1 .. Len(ts)
        OBVIOUS
    <2>2. ts[k + 3] \in Text
        BY <2>1
    <2>3. Unquoted(ts[k + 3]) \in Text
        BY <1>4, <2>2
    <2>4. <<Space>> \o Unquoted(ts[k + 3]) \in Text
        BY <1>3, <2>3, ConcatTexts
    <2>5. k = 1 => k + 3 = 4
        OBVIOUS
    <2> QED
        BY <2>2, <2>3, <2>4, <2>5 DEF SpacedWord
<1> QED
    BY <1>2, <1>3, <1>4, <1>5

(* One more word.                                                          *)
LEMMA JoinIsConcat ==
    ASSUME NEW ts \in Seq(Text), NEW k \in 1 .. Len(ts) - 3, NEW m \in Text
    PROVE  Join(m, ts, k) = m \o SpacedWord(ts, k) /\ Join(m, ts, k) \in Text
<1> DEFINE u == Unquoted(ts[k + 3])
<1>1. u \in Text /\ Space \in Symbol /\ SpacedWord(ts, k) \in Text
    BY MessageWords
<1>2. CASE k = 1
    <2>1. Join(m, ts, k) = m \o u
        BY <1>2 DEF Join
    <2>2. SpacedWord(ts, k) = u
        BY <1>2 DEF SpacedWord
    <2> QED
        BY <1>1, <2>1, <2>2, ConcatTexts
<1>3. CASE k # 1
    <2>1. k > 1
        BY <1>3
    <2>2. Join(m, ts, k) = Append(m, Space) \o u
        BY <2>1 DEF Join
    <2>3. SpacedWord(ts, k) = <<Space>> \o u
        BY <1>3 DEF SpacedWord
    <2> HIDE DEF u
    <2>4. Append(m, Space) \o u = m \o (<<Space>> \o u)
        <3>1. m \in Seq(Symbol) /\ u \in Seq(Symbol) /\ <<Space>> \in Seq(Symbol)
            BY <1>1, MessageWords DEF Text
        <3>2. Append(m, Space) = m \o <<Space>>
            BY <1>1, <3>1, AppendIsConcat
        <3>3. (m \o <<Space>>) \o u = m \o (<<Space>> \o u)
            BY <3>1, ConcatAssociative
        <3> QED
            BY <3>2, <3>3
    <2> QED
        BY <1>1, <2>2, <2>3, <2>4, ConcatTexts
<1> QED
    BY <1>2, <1>3

(* RecursionExists for texts. *)
LEMMA TextRuns ==
    \A e \in Text, m \in Nat : \A st \in [1 .. m -> [Text -> Text]] :
        \E f \in [0 .. m -> Text] :
            f[0] = e /\ \A i \in 1 .. m : f[i] = st[i][f[i - 1]]
BY RecursionExists

(* The words joined, one after the other.                                  *)
LEMMA JoiningFrom ==
    ASSUME NEW ts \in Seq(Text), Len(ts) > 3
    PROVE  /\ Joining(ts)[0] = <<>>
           /\ \A k \in 1 .. Len(ts) - 3 : Joining(ts)[k] = Join(Joining(ts)[k - 1], ts, k)
           /\ \A k \in 0 .. Len(ts) - 3 : Joining(ts)[k] \in Text
<1> DEFINE n == Len(ts) - 3
           Whole(f) == f = [k \in 0 .. n |-> IF k = 0 THEN <<>> ELSE Join(f[k - 1], ts, k)]
           step == [k \in 1 .. n |-> [x \in Text |-> Join(x, ts, k)]]
<1>0. n \in Nat /\ <<>> \in Text
    BY DEF Text
<1>p. \A k \in 1 .. n : \A x \in Text : Join(x, ts, k) \in Text
    BY JoinIsConcat
<1>1. step \in [1 .. n -> [Text -> Text]]
    <2> HIDE DEF n
    <2> QED
        BY <1>p
<1>2. PICK f \in [0 .. n -> Text] :
          f[0] = <<>> /\ \A k \in 1 .. n : f[k] = step[k][f[k - 1]]
    <2>1. n \in Nat /\ <<>> \in Text /\ step \in [1 .. n -> [Text -> Text]]
        BY <1>0, <1>1
    <2> HIDE DEF step, n
    <2> QED
        BY <2>1, TextRuns
<1>3. \A k \in 1 .. n : f[k] = Join(f[k - 1], ts, k)
    <2> SUFFICES ASSUME NEW k \in 1 .. n PROVE f[k] = Join(f[k - 1], ts, k)
        OBVIOUS
    <2> HIDE DEF n
    <2>1. f[k - 1] \in Text
        BY <1>0
    <2>2. step[k][f[k - 1]] = Join(f[k - 1], ts, k)
        BY <2>1
    <2> QED
        BY <1>2, <2>2
<1>4. Whole(f)
    <2> HIDE DEF n
    <2> QED
        BY <1>0, <1>2, <1>3
<1>5. Joining(ts) = CHOOSE g : Whole(g)
    BY DEF Joining
<1>6. Whole(Joining(ts))
    <2> HIDE DEF Whole
    <2> QED
        BY <1>4, <1>5
<1> DEFINE g == Joining(ts)
<1>7. g[0] = <<>> /\ \A k \in 1 .. n : g[k] = Join(g[k - 1], ts, k)
    <2> HIDE DEF g, n
    <2> QED
        BY <1>0, <1>6 DEF g
<1>8. \A k \in 1 .. n : g[k - 1] \in Text => g[k] \in Text
    <2> HIDE DEF g, n
    <2> QED
        BY <1>p, <1>7
<1>9. \A k \in 0 .. n : g[k] \in Text
    <2>1. n \in Nat /\ g[0] \in Text
        BY <1>0, <1>7
    <2> HIDE DEF g, n
    <2> QED
        BY <1>8, <2>1, RecursionStays
<1> QED
    BY <1>7, <1>9

(* The text of a message is what its words are, one after the other.       *)
MessageParts(ts) == [k \in 1 .. Len(ts) - 3 |-> SpacedWord(ts, k)]

(* cmd_send (network.c) joins the words to the text that they stand for.   *)
LEMMA JoinedIsText ==
    ASSUME NEW ts \in Seq(Text), Len(ts) > 3
    PROVE  Joined(ts) = MessageText(ts) /\ MessageText(ts) \in Text
<1> DEFINE n == Len(ts) - 3
           p == MessageParts(ts)
           g == Joining(ts)
           F(k) == FlattenSeq(SubSeq(p, 1, k))
           T == {k \in 0 .. n : g[k] = F(k)}
<1>0. n \in Nat
    OBVIOUS
<1>1. /\ p \in Seq(Seq(Symbol)) /\ Len(p) = n
      /\ \A k \in 1 .. n : p[k] = SpacedWord(ts, k)
    <2>1. \A k \in 1 .. n : SpacedWord(ts, k) \in Seq(Symbol)
        BY MessageWords DEF Text
    <2>2. p = [k \in 1 .. n |-> SpacedWord(ts, k)]
        BY DEF MessageParts
    <2> HIDE DEF p, n
    <2> QED
        BY <1>0, <2>1, <2>2
<1>2. MessageText(ts) = FlattenSeq(p)
    BY DEF MessageText, MessageParts, SpacedWord
<1> HIDE DEF p
<1>3. /\ F(0) = <<>> /\ F(n) = FlattenSeq(p)
      /\ \A k \in 0 .. n : F(k) \in Text
      /\ \A k \in 1 .. n : F(k) = F(k - 1) \o SpacedWord(ts, k)
    <2>1. Len(p) = n /\ p \in Seq(Seq(Symbol))
        BY <1>1
    <2> HIDE DEF n
    <2>2. /\ FlattenSeq(SubSeq(p, 1, 0)) = <<>>
          /\ FlattenSeq(SubSeq(p, 1, Len(p))) = FlattenSeq(p)
          /\ \A k \in 0 .. Len(p) : FlattenSeq(SubSeq(p, 1, k)) \in Seq(Symbol)
          /\ \A k \in 1 .. Len(p) :
                FlattenSeq(SubSeq(p, 1, k)) = FlattenSeq(SubSeq(p, 1, k - 1)) \o p[k]
        BY <2>1, FlattenPrefix
    <2> QED
        BY <1>1, <2>1, <2>2 DEF Text
<1>4. g[0] = <<>> /\ \A k \in 1 .. n : g[k] = Join(g[k - 1], ts, k)
    BY JoiningFrom
<1> HIDE DEF F, g
<1>5. 0 \in T
    BY <1>0, <1>3, <1>4
<1>6. ASSUME NEW k \in 0 .. n - 1, k \in T PROVE k + 1 \in T
    <2>1. k + 1 \in 1 .. n /\ (k + 1) - 1 = k /\ k \in 0 .. n /\ k + 1 \in 0 .. n
        BY <1>0
    <2>2. F(k) \in Text /\ g[k] = F(k)
        BY <1>3, <1>6, <2>1
    <2>3. g[k + 1] = Join(F(k), ts, k + 1)
        BY <1>4, <2>1, <2>2
    <2>4. Join(F(k), ts, k + 1) = F(k) \o SpacedWord(ts, k + 1)
        BY <2>1, <2>2, JoinIsConcat
    <2>5. F(k + 1) = F(k) \o SpacedWord(ts, k + 1)
        BY <1>3, <2>1
    <2> QED
        BY <2>1, <2>3, <2>4, <2>5
<1>7. \A k \in 0 .. n : k \in T
    <2> HIDE DEF T, n
    <2> QED
        BY <1>0, <1>5, <1>6, BoundedInduction
<1>8. g[n] = F(n) /\ F(n) \in Text
    BY <1>0, <1>3, <1>7
<1> QED
    BY <1>2, <1>3, <1>8 DEF Joined, g

(* send_message's copy of a message.                                       *)
Copy == [text : Text, inSpace : BOOLEAN]
NoCopy == [text |-> <<>>, inSpace |-> FALSE]
Room == BufferSize - 2

(* One more symbol for the copy.                                           *)
LEMMA CopyTypes ==
    /\ NoCopy \in Copy
    /\ \A d \in Copy : \A c \in Symbol : Normalize(d, c) \in Copy
<1>1. NoCopy \in Copy
    BY DEF NoCopy, Copy, Text
<1>2. ASSUME NEW d \in Copy, NEW c \in Symbol PROVE Normalize(d, c) \in Copy
    <2>1. d.text \in Text
        BY DEF Copy
    <2>2. Append(d.text, c) \in Text /\ Append(d.text, Space) \in Text
        BY <2>1, TextGrows, MessageWords
    <2>3. /\ [text |-> Append(d.text, c), inSpace |-> FALSE] \in Copy
          /\ [text |-> Append(d.text, Space), inSpace |-> TRUE] \in Copy
        BY <2>2 DEF Copy
    <2> QED
        BY <2>3 DEF Normalize
<1> QED
    BY <1>1, <1>2

(* RecursionExists for copies. *)
LEMMA CopyRuns ==
    \A e \in Copy, m \in Nat : \A st \in [1 .. m -> [Copy -> Copy]] :
        \E f \in [0 .. m -> Copy] :
            f[0] = e /\ \A i \in 1 .. m : f[i] = st[i][f[i - 1]]
BY RecursionExists

(* The copy, symbol by symbol.                                             *)
LEMMA NormalizingFrom ==
    ASSUME NEW s \in Text
    PROVE  /\ Normalizing(s)[0] = NoCopy
           /\ \A i \in 1 .. Len(s) : Normalizing(s)[i] = Normalize(Normalizing(s)[i - 1], s[i])
           /\ \A i \in 0 .. Len(s) : Normalizing(s)[i] \in Copy
<1> DEFINE n == Len(s)
           Whole(f) == f = [i \in 0 .. n |->
                              IF i = 0 THEN NoCopy ELSE Normalize(f[i - 1], s[i])]
           step == [i \in 1 .. n |-> [x \in Copy |-> Normalize(x, s[i])]]
<1>0. n \in Nat /\ NoCopy \in Copy /\ \A i \in 1 .. n : s[i] \in Symbol
    BY CopyTypes DEF Text
<1>p. \A i \in 1 .. n : \A x \in Copy : Normalize(x, s[i]) \in Copy
    BY <1>0, CopyTypes
<1>1. step \in [1 .. n -> [Copy -> Copy]]
    <2> HIDE DEF n
    <2> QED
        BY <1>p
<1>2. PICK f \in [0 .. n -> Copy] :
          f[0] = NoCopy /\ \A i \in 1 .. n : f[i] = step[i][f[i - 1]]
    <2>1. n \in Nat /\ NoCopy \in Copy /\ step \in [1 .. n -> [Copy -> Copy]]
        BY <1>0, <1>1
    <2> HIDE DEF step, n
    <2> QED
        BY <2>1, CopyRuns
<1>3. \A i \in 1 .. n : f[i] = Normalize(f[i - 1], s[i])
    <2> SUFFICES ASSUME NEW i \in 1 .. n PROVE f[i] = Normalize(f[i - 1], s[i])
        OBVIOUS
    <2> HIDE DEF n
    <2>1. f[i - 1] \in Copy
        BY <1>0
    <2>2. step[i][f[i - 1]] = Normalize(f[i - 1], s[i])
        BY <2>1
    <2> QED
        BY <1>2, <2>2
<1>4. Whole(f)
    <2> HIDE DEF n
    <2> QED
        BY <1>0, <1>2, <1>3
<1>5. Normalizing(s) = CHOOSE g : Whole(g)
    BY DEF Normalizing, NoCopy
<1>6. Whole(Normalizing(s))
    <2> HIDE DEF Whole
    <2> QED
        BY <1>4, <1>5
<1> DEFINE g == Normalizing(s)
<1>7. g[0] = NoCopy /\ \A i \in 1 .. n : g[i] = Normalize(g[i - 1], s[i])
    <2> HIDE DEF g, n
    <2> QED
        BY <1>0, <1>6 DEF g
<1>8. \A i \in 1 .. n : g[i - 1] \in Copy => g[i] \in Copy
    <2> HIDE DEF g, n
    <2> QED
        BY <1>p, <1>7
<1>9. \A i \in 0 .. n : g[i] \in Copy
    <2>1. n \in Nat /\ g[0] \in Copy
        BY <1>0, <1>7
    <2> HIDE DEF g, n
    <2> QED
        BY <1>8, <2>1, RecursionStays
<1> QED
    BY <1>7, <1>9

(* A text without repeated blanks, up to a symbol.                         *)
Kept(s, i) == IF Repeated(s, i) THEN <<>> ELSE <<s[i]>>
SqueezedTo(s, i) == FlattenSeq(SubSeq([j \in DOMAIN s |-> Kept(s, j)], 1, i))

(* Symbol by symbol.                                                       *)
LEMMA SqueezedStep ==
    ASSUME NEW s \in Text
    PROVE  /\ SqueezedTo(s, 0) = <<>> /\ SqueezedTo(s, Len(s)) = Squeezed(s)
           /\ \A i \in 0 .. Len(s) : SqueezedTo(s, i) \in Text
           /\ \A i \in 1 .. Len(s) :
                 /\ s[i] \in Symbol
                 /\ SqueezedTo(s, i) = IF Repeated(s, i) THEN SqueezedTo(s, i - 1)
                                       ELSE Append(SqueezedTo(s, i - 1), s[i])
<1> DEFINE f == [j \in DOMAIN s |-> Kept(s, j)]
<1>1. DOMAIN s = 1 .. Len(s) /\ Len(s) \in Nat /\ \A i \in 1 .. Len(s) : s[i] \in Symbol
    BY DEF Text
<1>2. \A i \in 1 .. Len(s) : Kept(s, i) \in Seq(Symbol)
    BY <1>1 DEF Kept
<1>3. /\ f \in Seq(Seq(Symbol)) /\ Len(f) = Len(s)
      /\ \A i \in 1 .. Len(s) : f[i] = Kept(s, i)
    BY <1>1, <1>2
<1>4. Squeezed(s) = FlattenSeq(f)
    BY DEF Squeezed, Kept
<1>5. \A i : SqueezedTo(s, i) = FlattenSeq(SubSeq(f, 1, i))
    BY DEF SqueezedTo
<1> HIDE DEF f
<1>6. /\ FlattenSeq(SubSeq(f, 1, 0)) = <<>>
      /\ FlattenSeq(SubSeq(f, 1, Len(f))) = FlattenSeq(f)
      /\ \A i \in 0 .. Len(f) : FlattenSeq(SubSeq(f, 1, i)) \in Seq(Symbol)
      /\ \A i \in 1 .. Len(f) :
            FlattenSeq(SubSeq(f, 1, i)) = FlattenSeq(SubSeq(f, 1, i - 1)) \o f[i]
    BY <1>3, FlattenPrefix
<1>7. ASSUME NEW i \in 1 .. Len(s)
      PROVE  SqueezedTo(s, i) = IF Repeated(s, i) THEN SqueezedTo(s, i - 1)
                                ELSE Append(SqueezedTo(s, i - 1), s[i])
    <2> DEFINE a == SqueezedTo(s, i - 1)
    <2>1. i - 1 \in 0 .. Len(s) /\ s[i] \in Symbol
        BY <1>1
    <2>2. a \in Seq(Symbol) /\ SqueezedTo(s, i) = a \o Kept(s, i)
        BY <1>3, <1>5, <1>6, <2>1
    <2> HIDE DEF a
    <2>3. CASE Repeated(s, i)
        <3>1. a \o <<>> = a
            BY <2>2
        <3> QED
            BY <2>2, <2>3, <3>1 DEF Kept, a
    <2>4. CASE ~Repeated(s, i)
        <3>1. Append(a, s[i]) = a \o <<s[i]>>
            BY <2>1, <2>2, AppendIsConcat
        <3> QED
            BY <2>2, <2>4, <3>1 DEF Kept, a
    <2> QED
        BY <2>3, <2>4
<1> QED
    BY <1>1, <1>3, <1>4, <1>5, <1>6, <1>7 DEF Text

(* What the copy has to do with the text, after i symbols.                 *)
CopyGood(s, d, i) ==
    /\ d.text = CutTo(SqueezedTo(s, i), Room)
    /\ Len(d.text) < Room => (d.inSpace <=> i # 0 /\ s[i] = Space)

(* One more symbol keeps it so.                                            *)
LEMMA CopyStep ==
    ASSUME NEW s \in Text, NEW i \in 0 .. Len(s) - 1, NEW d \in Copy, CopyGood(s, d, i)
    PROVE  CopyGood(s, Normalize(d, s[i + 1]), i + 1)
<1> DEFINE k == i + 1
           c == s[k]
           a == SqueezedTo(s, i)
           b == SqueezedTo(s, k)
           next == Normalize(d, c)
<1>0. /\ i \in Nat /\ k \in 1 .. Len(s) /\ k - 1 = i /\ i \in 0 .. Len(s) /\ k # 0
      /\ Room \in Nat
    BY BufferSizeAssumption DEF Text, Room
<1>1. /\ a \in Text /\ c \in Symbol /\ Len(a) \in Nat
      /\ b = IF Repeated(s, k) THEN a ELSE Append(a, c)
    <2>1. /\ a \in Text /\ s[k] \in Symbol
          /\ b = IF Repeated(s, k) THEN SqueezedTo(s, k - 1)
                ELSE Append(SqueezedTo(s, k - 1), s[k])
        BY <1>0, SqueezedStep, Zenon
    <2>2. SqueezedTo(s, k - 1) = a
        BY <1>0
    <2>3. Len(a) \in Nat
        BY <2>1 DEF Text
    <2> HIDE DEF a, b
    <2> QED
        BY <2>1, <2>2, <2>3, Zenon
<1>2. Repeated(s, k) <=> c = Space /\ i # 0 /\ s[i] = Space
    <2>1. k > 1 <=> i # 0
        BY <1>0
    <2>2. s[k - 1] = s[i]
        BY <1>0
    <2> HIDE DEF k
    <2> QED
        BY <2>1, <2>2, Zenon DEF Repeated
<1>3. /\ d.text = CutTo(a, Room)
      /\ Len(d.text) < Room => (d.inSpace <=> i # 0 /\ s[i] = Space)
    BY DEF CopyGood
<1>4. /\ Len(CutTo(a, Room)) = IF Len(a) < Room THEN Len(a) ELSE Room
      /\ Len(a) <= Room => CutTo(a, Room) = a
    BY <1>0, <1>1, CutToProperties
<1> SUFFICES CopyGood(s, next, k)
    OBVIOUS
<1> HIDE DEF k, c, a, b
<1>5. CASE Len(d.text) >= Room
    <2>1. next = d
        BY <1>5 DEF Normalize, Room
    <2>2. Len(a) >= Room
        BY <1>0, <1>1, <1>3, <1>4, <1>5
    <2>3. CutTo(Append(a, c), Room) = CutTo(a, Room)
        <3>1. <<c>> \in Text /\ Append(a, c) = a \o <<c>>
            BY <1>1, AppendIsConcat DEF Text
        <3> QED
            BY <1>0, <1>1, <2>2, <3>1, CutToConcat
    <2>4. next.text = CutTo(b, Room)
        BY <1>1, <1>3, <2>1, <2>3
    <2>5. ~(Len(next.text) < Room)
        BY <1>0, <1>3, <1>4, <2>1, <2>2
    <2> QED
        BY <2>4, <2>5 DEF CopyGood, b
<1>6. CASE ~(Len(d.text) >= Room)
    <2>1. Len(a) < Room /\ Len(d.text) < Room /\ d.text = a
        BY <1>0, <1>1, <1>3, <1>4, <1>6
    <2>2. CutTo(a, Room) = a /\ CutTo(Append(a, c), Room) = Append(a, c)
        <3>1. Append(a, c) \in Text /\ Len(Append(a, c)) <= Room
            BY <1>0, <1>1, <2>1, TextGrows
        <3> QED
            BY <1>0, <1>3, <2>1, <3>1, CutToProperties
    <2>6. ASSUME next.text = CutTo(b, Room), next.inSpace <=> c = Space
          PROVE  CopyGood(s, next, k)
        <3> HIDE DEF next
        <3>1. k # 0
            BY <1>0
        <3> QED
            BY <2>6, <3>1, Zenon DEF CopyGood, c, b
    <2>3. CASE c # Space
        <3>1. next = [text |-> Append(a, c), inSpace |-> FALSE]
            BY <1>6, <2>1, <2>3 DEF Normalize, Room
        <3>2. b = Append(a, c)
            BY <1>1, <1>2, <2>3
        <3>3. next.text = CutTo(b, Room)
            BY <2>2, <3>1, <3>2
        <3>4. next.inSpace <=> c = Space
            BY <2>3, <3>1
        <3> QED
            BY <2>6, <3>3, <3>4
    <2>4. CASE c = Space /\ d.inSpace
        <3>1. next = d
            BY <1>6, <2>4 DEF Normalize, Room
        <3>2. b = a
            BY <1>1, <1>2, <1>3, <2>1, <2>4
        <3>3. next.text = CutTo(b, Room)
            BY <2>1, <2>2, <3>1, <3>2
        <3>4. next.inSpace <=> c = Space
            BY <2>4, <3>1
        <3> QED
            BY <2>6, <3>3, <3>4
    <2>5. CASE c = Space /\ ~d.inSpace
        <3>1. next = [text |-> Append(a, c), inSpace |-> TRUE]
            BY <1>6, <2>1, <2>5 DEF Normalize, Room
        <3>2. b = Append(a, c)
            BY <1>1, <1>2, <1>3, <2>1, <2>5
        <3>3. next.text = CutTo(b, Room)
            BY <2>2, <3>1, <3>2
        <3>4. next.inSpace <=> c = Space
            BY <2>5, <3>1
        <3> QED
            BY <2>6, <3>3, <3>4
    <2> QED
        BY <2>3, <2>4, <2>5
<1> QED
    BY <1>5, <1>6

(* send_message (network.c) sends every blank once, and what fits.         *)
LEMMA NormalizedIsSqueezed ==
    ASSUME NEW s \in Text
    PROVE  /\ Normalized(s) = CutTo(Squeezed(s), BufferSize - 2)
           /\ Len(Normalized(s)) <= BufferSize - 2
<1> DEFINE n == Len(s)
           g == Normalizing(s)
           T == {i \in 0 .. n : CopyGood(s, g[i], i)}
<1>0. n \in Nat /\ Room \in Nat
    BY BufferSizeAssumption DEF Text, Room
<1>1. 0 \in T
    <2>1. g[0] = NoCopy /\ SqueezedTo(s, 0) = <<>>
        BY NormalizingFrom, SqueezedStep
    <2>2. CutTo(<<>>, Room) = <<>>
        <3>1. <<>> \in Text /\ Len(<<>>) <= Room
            BY <1>0 DEF Text
        <3> QED
            BY <1>0, <3>1, CutToProperties
    <2>3. NoCopy.text = <<>> /\ NoCopy.inSpace = FALSE
        BY DEF NoCopy
    <2>4. CopyGood(s, NoCopy, 0)
        BY <2>1, <2>2, <2>3 DEF CopyGood
    <2> QED
        BY <1>0, <2>1, <2>4
<1>2. ASSUME NEW i \in 0 .. n - 1, i \in T PROVE i + 1 \in T
    <2>1. i + 1 \in 1 .. n /\ (i + 1) - 1 = i /\ i \in 0 .. n /\ i + 1 \in 0 .. n
        BY <1>0
    <2>2. g[i + 1] = Normalize(g[i], s[i + 1]) /\ g[i] \in Copy
        BY <2>1, NormalizingFrom
    <2>3. CopyGood(s, g[i], i)
        BY <1>2
    <2>4. CopyGood(s, g[i + 1], i + 1)
        BY <2>2, <2>3, CopyStep
    <2> QED
        BY <2>1, <2>4
<1>3. \A i \in 0 .. n : i \in T
    <2> HIDE DEF T, n
    <2> QED
        BY <1>0, <1>1, <1>2, BoundedInduction
<1>4. CopyGood(s, g[n], n)
    <2>1. n \in 0 .. n
        BY <1>0
    <2> QED
        BY <1>3, <2>1
<1> HIDE DEF g
<1>5. g[n].text = CutTo(Squeezed(s), Room) /\ Squeezed(s) \in Text
    <2>1. n \in 0 .. n
        BY <1>0
    <2>2. SqueezedTo(s, n) = Squeezed(s) /\ SqueezedTo(s, n) \in Text
        BY <2>1, SqueezedStep
    <2> QED
        BY <1>4, <2>2 DEF CopyGood
<1>6. Len(CutTo(Squeezed(s), Room)) <= Room
    <2>1. Len(CutTo(Squeezed(s), Room)) = IF Len(Squeezed(s)) < Room THEN Len(Squeezed(s)) ELSE Room
        BY <1>0, <1>5, CutToProperties
    <2>2. Len(Squeezed(s)) \in Nat
        BY <1>5 DEF Text
    <2> QED
        BY <1>0, <2>1, <2>2
<1> QED
    BY <1>5, <1>6 DEF Normalized, g, Room

(* What cmd_send and send_message (network.c) put on the connection is the *)
(* message that the words stand for: unquoted, joined by blanks, replaced  *)
(* again if a $ is left, every blank once, and cut where the buffer ends.  *)
THEOREM MessageIsMeant ==
    ASSUME NEW ts \in Seq(Text), Len(ts) > 3, NEW list \in Seq(Cell)
    PROVE  /\ Joined(ts) = MessageText(ts)
           /\ Normalized(ExpandVariables(Joined(ts), list)) = Message(ts, EnvOf(list))
           /\ Len(Normalized(ExpandVariables(Joined(ts), list))) <= BufferSize - 2
           /\ Len(Normalized(Joined(ts))) <= BufferSize - 2
<1> DEFINE t == MessageText(ts)
           env == EnvOf(list)
           meant == IF "$" \in ToSet(t) THEN Value(t, env) ELSE t
<1>1. Joined(ts) = t /\ t \in Text
    BY JoinedIsText
<1>2. Message(ts, env) = CutTo(Squeezed(meant), BufferSize - 2)
    BY DEF Message
<1> HIDE DEF t
<1>3. ExpandVariables(t, list) = meant /\ meant \in Text
    BY <1>1, ExpansionIsValue
<1> HIDE DEF meant
<1> QED
    BY <1>1, <1>2, <1>3, NormalizedIsSqueezed DEF t

=============================================================================
