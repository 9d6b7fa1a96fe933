----------------------------- MODULE Environment -----------------------------
(***************************************************************************)
(* What mysh promises about its variables: a mapping from names to values  *)
(* that each line changes as LineMeaning says, and nothing else does.      *)
(***************************************************************************)
EXTENDS LineMeaning

VARIABLES
    env,    \* the variables
    line,   \* the line being executed, or the empty sequence
    short   \* has memory been short while it was executed?

envVars == <<env, line, short>>

EnvInit == env = <<>> /\ line = <<>> /\ ~short

Enter ==
    /\ line = <<>>
    /\ line' # <<>>
    /\ ~short'
    /\ UNCHANGED env

Execute ==
    /\ line # <<>>
    /\ line' = <<>>
    /\ env' = After(line, env)
    /\ UNCHANGED short

(* When memory is short, and only then, a line may have no effect, or set  *)
(* its variable to the text as it was typed.                               *)
RunShort ==
    /\ line # <<>>
    /\ short'
    /\ UNCHANGED <<env, line>>

ExecuteShort ==
    /\ line # <<>>
    /\ line' = <<>>
    /\ short'
    /\ \/ UNCHANGED env
       \/ /\ Assigns(line, env)
          /\ LET w == FirstWord(Head(Words(line)), env)
             IN env' = Update(env, KeyOf(w), RightSide(w))

EnvSpec == EnvInit /\ [][Enter \/ Execute \/ RunShort \/ ExecuteShort]_envVars

=============================================================================
