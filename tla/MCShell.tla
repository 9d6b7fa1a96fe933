------------------------------- MODULE MCShell -------------------------------
(***************************************************************************)
(* An instance of Shell for TLC: the lines the user may type.              *)
(***************************************************************************)
EXTENDS Shell

Symbols == {" ", "nl", "|", "&", "$", "=", "echo", "exit", "send", "quote",
            "a", "x", "y"}

OneLine ==
    { <<"x", "=", "a", "a", "a", "nl">>,
      <<"x", "=", "$", "x", "$", "x", "nl">>,          \* doubles x
      <<"y", "x", "=", "a", "=", "$", " ", "a", "nl">>,\* a lone $, a second word
      <<"$", "x", "=", "a", "nl">>,                    \* a $ in the name
      <<"$", "y", "nl">>,                              \* no such variable
      <<"$", "y", "x", "$", "x", "nl">>,               \* an assignment from variables
      <<"$", "x", " ", "$", "x", " ", "$", "y", "nl">>,
      <<"$", "x", " ", "$", "x", "&", "nl">>,          \* in the background
      <<"echo", " ", "a", "&", "$", "x", "&", "nl">>,  \* & inside echo
      <<"echo", " ", "a", "&", "nl">>,
      <<"echo", " ", "a", " ", "&", " ", "nl">>,
      <<"echo", " ", "a", "&">>,                       \* no newline: end of input
      <<"y", "=", "a", "|", "x", "nl">>,               \* an assignment in a pipeline
      <<"a", "|", "a", "|", "a", "|", "a", "nl">>,     \* no room for the blanks
      <<"|", " ", "echo", " ", "a", "&", "x", "nl">>,
      \* too long
      <<"x", "=", "a", "a", "a", "a", "a", "a", "a", "a", "a", "a", "nl">>,
      \* messages, as long as values are, of values with a $, with empty words
      <<"send", " ", "a", " ", "a", " ", "$", "x", " ", "a", "$", "x">>,
      <<"send", " ", "a", " ", "a", " ", "$", "y", "x", "$", "x">>,
      <<"send", " ", "a", " ", "a", " ", "a", " ", "quote", "quote", " ", "a">>,
      <<" ", "nl">>,
      <<"exit", "nl">> }

(* Two lines at once: two commands at a terminal, one from a pipe. *)
Together ==
    { << <<"x", "=", "a", "nl">>, <<"y", "=", "$", "x", "nl">> >>,
      << <<"$", "x", "nl">>, <<"a", "|", "a", "nl">> >>,
      << <<"echo", " ", "a", "&">>, <<"&", "a", "nl">> >> }

TypedBatches == {<<l>> : l \in OneLine} \cup Together

=============================================================================
