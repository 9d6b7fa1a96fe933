# mysh in TLA+

mysh is a small Unix shell in C: builtins, shell variables, pipelines,
background jobs, a chat server with its clients. This directory holds TLA+
models of its parts, the TLC configurations that check them, and theorems about
them that TLAPS proves. Line numbers are those of
`src/src/*.c` in the repository.

## 1. The system

| Component | Source | State it keeps | Operations | Talks to |
|---|---|---|---|---|
| Background jobs | `commands.c` 40-263, 381-481; `mysh.c` 41-51, 335-342, 486-546 | `bg_process_list`, `bg_message_queue`, `next_job_id` | start a job, list (`ps`), SIGCHLD handler, display Done messages, clean up at exit | the kernel (fork, SIGCHLD, waitpid); handler and main thread share all of it, unmasked |
| Chat server | `network.c` 37-439 | `client_sockets`, `client_ids`, `client_count`, `connected_clients` | accept, receive, broadcast, `\connected`, periodic check | TCP connections, one `select` loop |
| Server start and close | `network.c` 25, 61-87, 442-615 | `server_info` | `start-server`, `close-server`, exit | kernel (bind, fork, kill, waitpid); disturbs background jobs through `signal(SIGCHLD, SIG_IGN)` |
| send command | `network.c` 639-889 | - | join tokens to a message, expand, normalise; connect, two writes, wait, close | chat server; takes tokens that main has expanded |
| Interactive client | `network.c` 892-1168 | socket, receiver process, stdin flags | send lines, receive, leave | chat server; its child is reaped by the job handler |
| Pipelines | `commands.c` 594-893 | pipes, children | fork stages, 500 ms wait, SIGTERM | kernel, job list, shell variables (copies) |
| Shell variables | `variables.c`, `mysh.c` 61-224 | `var_list`, list of expanded strings | assign, look up, expand, copy, free | everything that takes tokens |
| Input and tokens | `io_helpers.c` 58-182 | line buffer | read a line, cut it into tokens | main |
| Command dispatch | `mysh.c` 301-577 | - | tell pipelines, assignments, network commands, builtins and programs apart | all of the above |
| kill, file builtins, program lookup | `commands.c` 265-378, `builtins.c`, `mysh.c` 227-299 | - | one kernel call, or file-system reads | - |

What is hard in it, and what makes it correct:

* *Jobs.* The SIGCHLD handler walks, frees and allocates the same lists the
  main thread works on; a signal can strike between any two accesses; signals
  are not counted; the handler can take the foreground child, or a child not
  yet listed. Correct means: every job is announced exactly once, numbers are
  distinct and start again at 1, no zombie stays, the prompt comes back, and
  where the code falls short of that it is for a mishap that can be named.
* *Chat server.* Streams have no message boundaries, sends fail in several
  ways in the middle of a broadcast, clients leave while data is under way,
  slots are reused. Correct means: everybody sees the same conversation under
  the right names, the count is right, nobody's words are lost, everybody is
  served, slots are given back.
* *Pipelines.* Every process inherits every pipe end that is open when it is
  forked, so that one end left open keeps a reader waiting for good and one
  closed too early kills a writer; pipe, dup2 and fork may fail half way; the
  shell waits 500 ms for each stage and then signals it. Correct means: what
  goes in comes out, every end is closed, every stage is reaped or told to
  end, the prompt comes back.
* *Interactive client.* Two processes share a socket, whose mode one of them
  changes for both, and the shell changes the mode of its standard input; reads
  cut the input anywhere; sends fail or are short; the handler interrupts `select`, may change
  `errno` under the loop and may reap the receiver before the shell does.
  Correct means: after a chat the shell is as it was before, no line typed is
  lost, and nobody is thrown out without a reason.
* *Lines and variables.* Padding, tokenising, expansion and assignment follow
  one another, each with a limit on lengths and memory that may run out.
  `send` joins tokens that are expanded already into one buffer, expands the
  result once more and copies it into another. Correct means: words, values,
  variables and messages are what the line says, and memory outside the buffers
  is not touched.
* *Server start and close.* The port is tried by one process and bound by
  another later; the shell's idea of its server is never refreshed; process
  numbers are reused at once. Correct means: one server to a port, no server
  forgotten, nobody else signalled, close ends.

The `hazards` list in `PROJECT.json` names every such place with its line and
the properties that would catch it.

## 2. Modules

| Module | What it is |
|---|---|
| `JobTable` | what the job list promises its user: abstract specification |
| `JobControl` | the job list as coded: main thread, handler, kernel |
| `MCJobControl` | its instances for TLC: the symmetry of the children |
| `ListLemmas` | facts about `Head`, `Tail`, `Append`, `RemoveAt`, `ToSet`, `FlattenSeq`, `Min`; induction over numbers and recursive functions |
| `JobControlProofs` | theorems about the jobs, among them that `JobControl` implements `JobTable` |
| `Pipeline`, `PipelineProofs` | a pipeline from its first pipe to the prompt, and theorems |
| `ChatRoom` | what the chat server promises its users: abstract specification |
| `ChatServer`, `MCChatServer` | the server, its clients and their connections |
| `ChatServerProofs` | theorems, among them that `ChatServer` implements `ChatRoom` |
| `ChatClient`, `MCChatClient` | `start-client` from prompt to prompt, and its instance for TLC |
| `ChatClientProofs` | theorems about it |
| `ServerLifecycle`, `ServerLifecycleProofs` | `start-server`, `close-server`, exit, and theorems |
| `LineMeaning` | what a line means: its words, values, assignment and message, as reference definitions |
| `Environment` | what the shell promises about variables: abstract specification |
| `CommandLine`, `CommandLineProofs` | tokenising, variable list, expansion and the messages of `send` as coded, and theorems: they yield what `LineMeaning` says |
| `Shell`, `MCShell` | the main loop line by line, and its instance for TLC |
| `ShellProofs` | theorems, among them that `Shell` implements `Environment` |

The modules meet where the components do: `Pipeline` and `ChatClient` contain
the SIGCHLD handler as far as it concerns their children (`JobControl` has it in
full), `ChatServer` contains clients as its connections show them, `Shell`
hands a line over where the other modules begin.

### JobControl

One step of the main thread is one access to shared data; `pc` is the point a
signal would interrupt:

| `pc` | where |
|---|---|
| `drain`, `unlink` | `get_next_bg_message`, before it reads the head and before it writes `bg_message_queue` (commands.c:214-221) |
| `read` | `get_input` (mysh.c:347) |
| `forked`, `numbered`, `bumped`, `linked`, `published` | `add_bg_process`: before the read of `next_job_id`, its write, the read of the head, the write of the head, the report (commands.c:70-84) |
| `waiting` | `waitpid` for a foreground child (commands.c:477) |
| `listing` | `ps` (commands.c:146-157) |
| `freeing` | `free_bg_processes` (commands.c:160-174) |
| `exited`, `aborted` | the process is gone; `aborted`: it touched freed memory, which AddressSanitizer (Makefile) turns into an abort |

`handling` says the handler is on the stack; the main thread then stands
still, and children go on exiting. `jobs` is the linked list, `jobId` the
numbers in the cells, `dangling` whether the list ends in a pointer to freed
memory, `queue` the waiting messages, each standing for its job. `shown` and
`background` are history. SIGCHLD may strike at every point, as in the program,
which masks nothing.

So the code does go wrong, and the properties say when. Five history variables
name the jobs that a mishap has befallen, each recorded in the step in which it
happens:

| variable | the mishap |
|---|---|
| `unseen` | the child was reaped before it was on the list, or it ended, unreaped, before or while `start-server` had SIGCHLD ignored |
| `unlisted` | there was no memory for its cell |
| `unheard` | there was no memory for its Done message, or the message was appended to the one that `get_next_bg_message` was unlinking |
| `outdated` | the job took its number before the counter was reset and was listed after |
| `held` | its cell was freed while the main thread had a pointer to it |

A lost message, a stale entry of `ps`, a repeated number, a torn list must go
back to one of these, so that a further way for the code to go wrong violates a
property; and no action looks at them, so that they restrict nothing.
`JobTable` has four of them as variables of its own, which only grow, and says
what each may spoil; after `held` nothing is promised.

A job is one child; each child is forked at most once (process numbers are not
reused within a run). The text of a message is left out: which job it is about
is what matters. `strdup` and `malloc` may fail when `AllocFails` is TRUE.
A pipeline run in the background lists only its last process: see `Pipeline`.

### ChatServer

One step of the server is one `select` (with the periodic check, done every
hundredth turn in the code and at any turn here), one `accept`, one
`handle_client_data` up to its broadcast, or one `send` of a broadcast. `wire`
is what the server's kernel knows of a connection: `up`; `fin` when the client
closed having read everything; `finsent` when something was sent to it since;
`finrst` when its kernel has refused that (the next send raises SIGPIPE);
`reset` when the client closed with bytes unread (the next send fails with
ECONNRESET, and so does the SO_ERROR check). The answers of a kernel to `send`,
`select` and `close` are external definitions, taken from what Linux does on
the calls the code makes.

`inbox` is a sequence of tokens; `recv` returns any nonempty prefix of it. A
message of the `send` command is written text first, newline second, as in the
code; a line of an interactive client is one write. A client in `Slow` may
stop reading until the buffer is full: a send to it then fails with EAGAIN
(`SendError`), or takes only part of the message (`CastCut`), which the code
does not notice, for it compares the result with 0 only (network.c:115). `log`,
`sent`, `seen`, `cut`, `id`, `joined` and `dropped` are history; `cut` has the
messages of which a client was sent only the beginning.

The server's own termination by `close-server` is in `ServerLifecycle`.

`ChatRoom` says the same without slots, sockets and loops: there are people,
members, one conversation, and how far each member has heard it. The mapping in
`ChatServer` makes the occupied slots the members, `log` the conversation, and
`joined` plus the length of `seen` how much was heard; `cut` becomes `partly`,
the lines that somebody slow heard only the beginning of.

### Pipeline

`pc` is the stage of `handle_pipeline`: `verify` (the commands exist), `pipe`,
`fork`, `close`, then `try`, `kill`, `block` for each stage of a foreground
pipeline or `list` for a background one, `free`, `returned`; `at` is the loop
index. `readers` and `writers` say for every pipe who has its ends open; a
`fork` adds the child wherever the shell is, as the kernel does. A child is in
`setup` until it has redirected its input and output and closed the other ends.
What its program does is a `habit`: it copies its input (`filter`), ends without
reading (`brief`: also an assignment in a pipeline, or a failed exec), ignores
SIGTERM (`stubborn`) or does not exist (`unknown`). Data are counted: each pipe
holds up to `Capacity` items. `cut` is history: the stages that ended before
their work was done, by themselves or because the shell signalled them. The
handler may reap any stage between two steps; with SIGCHLD ignored (after
`start-server`) nothing is left to reap.

### ChatClient

`pc` is where the shell is: at the `prompt`, in the set-up of a client
(`connect`, `fork`, `flags`), in its loop (`select`, `errno`, `read`, `send`),
leaving it (`kill`, `wait`, `close`, `restore`), `exited`, or `dead` by SIGPIPE.
`conn` is what the client's kernel knows: `up`, `fin` after the server closed,
`reset`, and `broken` when the next `send` raises SIGPIPE. `holders` says who
has the socket open, `nonblock` whether standard input is non-blocking and
`saved` what it was before. `receiver` and `job` are children, the second one
any other child of the shell: its end, too, interrupts `select`. `errno` is
looked at in a step of its own because the handler, which does not save it, may
run once more before.

Input and connection are streams of tokens: a `text`, the command `connected`
in its place, or the `newline` that ends a line. A read takes any nonempty
prefix of what waits, up to `MaxChunk` tokens: several lines at once, or part of
one. `Message` is what the code makes of the bytes: the newline at their end is
taken off (`Stripped`, network.c:1096-1100) and one is put back unless what is
left ends in one (`Ended`, 1140-1144), so that `foo` and an empty line become
`foo`, and a part of a line becomes a line. The receiver makes the socket
non-blocking (`unblocked`), which holds for the shell's sends too, for the two
share the open file description. When the server does not read (`stalled`), a
send may then fail with EAGAIN (`SendFails`) or be short (`SendCut`); after
`\connected` the code does not look at the result at all (`Unchecked`,
network.c:1112). `hitches` is history: what went less than smoothly since the
client was started.

### Shell, CommandLine, LineMeaning, Environment

A line is a sequence of symbols: characters that matter (`$`, `=`, `|`, `&`,
blank, newline, quote) and words of which only the whole does. `Symbol` is any
set that contains the ten the code looks for; TLC uses thirteen. `CommandLine` has
the code's functions one by one, its loops as recursive functions: `Passed`
over the positions of the buffer that is padded, `Scanned` over those that
`strtok` passes, `Expanded` over the turns of the loop of `expand_variables`,
`Joining` over the tokens of a message (network.c:836-853), `Normalizing` over
its symbols (network.c:733-748).
`LineMeaning` says what they should compute, without saying how: words are
maximal runs, a value is a replacement at every position, `Arguments` is what
the command of a line is given, and `Message` what `send` says: those arguments
one after the other, every blank once. `Shell` is the main loop around them, one token to a step where
`expand_variables_in_tokens` may meet short memory. `room`, `capacity` and
`count` are the array that remembers expanded strings, `stale` the tokens whose
string has been freed. The order is the code's: `exit` is told by the tokens
as typed, a pipe is looked for before expansion, an assignment after it.
`message` is what the line, if it is a `send`, has put on the connection;
whether there is a connection is left open, so that any `send` may also do
nothing (`RunCommand`), and SIGPIPE may end the shell after it.
`Environment` is the abstract specification: variables are a mapping that each
line changes as its meaning says.

In one place the code and its comment disagree, and `LineMeaning` takes the side
of the comment: in an echo, an `&` is a background marker if it is "followed by
only whitespace" (io_helpers.c:126-127). The code skips blanks and tabs but not
the newline (line 132), and `get_input` leaves the newline in the line. So the
`&` of `echo hi&` stays part of the word. `Overlooked` describes these lines,
`TokensRight` excepts them, and the run `shell_marker` shows one.

Things the model shows that a reader of the code may not expect, and that no
document we found contradicts: `a=1 b=2` sets only `a`; `$x=5` makes a variable
whose name has a `$` in it and cannot be read again; when the array of expanded strings cannot grow, the token
is left pointing to freed memory (mysh.c:103-108); a `$` in the value of a
variable refers to nothing in a command but to a variable in a message, which is
expanded twice (mysh.c:390, network.c:856); a message of several tokens
overruns its buffer when they are long enough together (network.c:836-853).

### ServerLifecycle

Shells that are told one port; `proc` is what stands behind a process number,
`owner` who forked it. The shell's steps are the system calls of
`cmd_start_server` and `cmd_close_server`. A server may die at any time (a
broadcast's SIGPIPE); its number is free at once, because `start-server` makes
the shell ignore SIGCHLD, and may be given to another process. `overlapped`
records that a `start-server` began while another was between its test of the
port and its server's `bind`.

## 3. Runs

| Run | Instance | Checks |
|---|---|---|
| `jobs_code` | 4 children, every command, signals everywhere, memory short | `NoZombieForgotten`, `DoneTruthful`, `DoneNotLost`, `JobsAlive`, `ListWhole`, `IdsDistinct`, `CounterReset`, `TableSpec` |
| `jobs_live` | 3 children, signals everywhere | `ZombiesReaped`, `EveryJobAnnounced`, `PromptReturns` |
| `jobs_done_lost` | 2 children, signals everywhere | `EveryEndReported` fails |
| `pipeline` | 3 stages of any habits, 2 items, pipes of 1, 2 polls, every fault | `EverythingArrives`, `EndsHandedOut`, `NothingHeld`, `NobodyLeftBehind`, `DoneMeansDone`, `PromptComesBack`, `PipelineDrains` |
| `chat_slots` | 3 clients (one slow, one `send`), 2 slots | `CountHonest`, `NamesFit`, `SameConversation`, `OrderlyLeave`, `RoomSpec` |
| `chat_live` | 2 clients that may write for ever, up to 2 lines and 1 line ahead | `StreamKept`, `EveryoneServed`, `SlotsGivenBack` |
| `chat_sigpipe` | 2 clients, one line each | `ServerSurvives` fails |
| `client` | 3 tokens typed in a first chat and 1 in a second, up to 3 to a read, every fault | `ShellOutlivesChat`, `NothingLeftOver`, `LeftForAReason`, `NoLineLost`, `ClientEnds`, `NoOrphan` |
| `server_safe` | 2 shells, 2 process numbers, 3 polls | `NoServerForgotten`, `OneServerPerPort`, `CloseEnds` |
| `server_exit` | 2 shells | `ServerEndsWithShell` fails |
| `shell` | 4 inputs out of 24, lines of up to 12 symbols, messages in a buffer of 15, array of 1, memory short | `TokensRight`, `VariablesSound`, `MemorySound`, `EnvSpec`, `MessageRight` |
| `shell_marker` | 1 input out of 24, memory suffices | `MarkerCounts` fails |

Every module has a type invariant, and TLAPS proves it for all values of the
constants; the runs leave it out. That of `Shell` bounds values by MAX_STR_LEN
and messages by BUFFER_SIZE - 2, which the code has to see to
(variables.c:128-178, network.c:733-748).

Why these bounds suffice. Jobs: the list code tells apart the head, a cell in
the middle and the last cell, so three listed jobs show every case of
`remove_bg_process`, and two messages every case of the queue; the fourth child
lets one start while three are listed. Chat: two slots and three
clients fill the table, turn one away and reuse a slot; two lines under way are
what it takes for `recv` to merge or to split. So that clients may write without
end in `chat_live`, its specification `Endless` (`MCChatServer`) strikes from the
history variables, between two turns of the server, what everybody has been
shown: no action depends on them but for the bound on a client's lines, which
thereby bounds the lines that wait and not those ever written. Server: two shells make the overlap,
two process numbers let one number change hands while the other is in use, and
three polls include a first, a middle and a last one. Pipeline: of three stages
one is first, one in the middle and one last, two items do not fit into a pipe
of one so that writers wait, and two polls let a stage end before, between and
after them (the code has 50). Client: three tokens are a text with
an empty line after it, a line cut in two, or two lines pasted together; two
chats show what the first leaves for the second. Shell: the lines
are chosen so that each rule of tokenising and expansion is met, at the limit of
12 symbols too (MAX_STR_LEN in the code), a variable doubles in length until it
is cut, messages hold long values, values with a `$` in them, empty words and
blanks in a row, and are cut at or overrun a buffer of 15 (BUFFER_SIZE), an array that begins with room for one pointer (10 in the code) has to
grow, and four inputs set, use, replace and use again.

What the failing runs show (each is in `findings`):

* A background command that ends before `add_bg_process` has put it on the
  list is reaped by the handler, which does not find it: it is never announced
  and stays listed for good.
* The server calls `send` without MSG_NOSIGNAL. If a client leaves and two
  messages are broadcast before the server has noticed, SIGPIPE ends it.
* The server survives its shell.
* An echo that ends in a word with an `&` at its end runs in the foreground.

Other facts about the program that the models contain and no run singles out:
`start-server` sets SIGCHLD to SIG_IGN in the shell and nothing sets it back, so
that no background job is announced any more and all of them stay listed
(`unseen`); a foreground child that the handler reaps leaves `status`
uninitialised (commands.c:475-481, `"unset"` in the model); a client that does
not read is sent the beginning of a message and the next message right behind
it; two lines that arrive before one `recv` become one
message under one name; `close-server` may signal a process that got a dead
server's number; a background pipeline's copy of the variables is not freed
when `fork` fails; SIGPIPE ends the shell that sends to a chat whose server has
gone; an empty line that arrives in one read with the line before it is not
sent.

Deadlock is checked in every run. Where a program ends, its module has an
explicit stuttering step.

### Fairness

* `JobControl!FairSpec`: `FairHandler`: a signal that stays pending is delivered
  and the handler runs to its end, which is what the kernel does; weak fairness
  is enough, for no point of the main thread masks it. `FairMain`: the shell
  goes on and its user goes on entering lines, since messages are shown only
  before a prompt. `FairChildren`: children end.
* `ChatServer!Fairness`: the server process is scheduled. Clients owe nothing,
  and in `chat_live` may write on and on.
* `Pipeline!Spec`: the shell and its handler run, and a SIGTERM that was sent
  arrives. The programs of the stages owe nothing: `PromptComesBack` must hold
  even if they hang. `PipelineDrains` has `StagesRun` as its antecedent, for
  it is about programs that do run.
* `ChatClient!Spec`: the shell, its receiver and the handler run; the user, the
  server and the other child owe nothing, but for this: until the receiver has
  made the socket non-blocking, a send waits for room, and the server is assumed
  to make some or to close.
* `ServerLifecycle!FairSpec`: a shell in the middle of `close-server` goes on;
  the server need not react to SIGTERM. `FairEverything`, for the failing run
  `server_exit`, adds that servers start and obey SIGTERM.

## 4. Proofs

All theorems hold for any sets of children, connections, shells and process
numbers, any number of slots, stages, items, lines and chats, any lines over any
symbols, any MAX_STR_LEN, and any choice the assumptions allow. Every safety
property that a passing run checks is one of them or follows from one, and so
does each implementation of an abstract specification. The
assumptions on constants are the named ones in the modules: values that stand
for nothing (`NoProc`, `NoConn`, `Listener`) are no child and no connection,
`Commands` is a subset of the known ones, `AllocFails` is a
Boolean, bounds are natural numbers.

* `JobControlProofs!TypeCorrect`: `Spec => []TypeOK`.
* `ZombiesRemembered`, `DoneMessagesTruthful`: true wherever signals strike.
  The second needs that a job is on the list only if it was forked in the
  background, that the cell under construction is not on it yet, and that a
  job with a message is reaped and never comes back to the list.
* `ListSound`, `NumbersDistinct`: `[]ListWhole` and `[]IdsDistinct`, with signals
  at every point. `ListInv` says that the head read at `linked`, the cell to
  report at `published` and the cursor at `listing` are on the list or in
  `held`, so that every way to freed memory goes through a cell that was freed
  under the main thread. `NumberInv` says that all listed numbers but outdated
  ones are below `next_job_id`, and below the number in hand between its read
  and its publication.
* `OnlyLiveJobsListed`, `NoMessageLost`, `CounterIsReset`: `[]JobsAlive`,
  `[]DoneNotLost`, `[]CounterReset`. `AccountInv` accounts for every background job:
  one that was not reaped is listed, just being added, or off the list for a
  known reason; one that was reaped is reported or has met with a mishap.
  `CounterInv` says at each point of `add_bg_process` how far the counter is ahead
  of the list.
* `JobControlProofs!TableSound`: the abstract table keeps its promises, that is,
  `Table!Spec` implies always `NumbersDistinct` and `CounterAhead`, whatever
  implements it, up to the first job in `held`.
* `JobControlProofs!ShellRefines`: `Spec => TableSpec`: each
  step of the code, signals at every point, is a step of `JobTable` under the
  mapping in `JobControl`, or changes nothing in it. The mapping's counter is
  ahead of the list between the bump and the publication of a cell.
* `ChatServerProofs!CountIsHonest`, `NamesAreRight`, `ServerTypes`:
  `Spec => [](CountHonest /\ NamesFit /\ TypeOK)`. The two properties are not
  inductive: a welcomed connection must not be in a slot or in a message yet,
  and its number must be new. The invariant `Inv` adds that what waits for
  `accept` has no number and waits once, that a slot holds an admitted
  connection beside its own number, that numbers do not exceed
  `client_count`, that messages come from admitted connections only, and that
  `accept` is called only when something waits.
* `ChatServerProofs!OneConversation`: `Spec => []SameConversation`, by the
  invariant `Talk`: what a client was sent has no gaps (`NoGaps`) and was cut
  only if the client is in `Slow`, an admitted
  client has a slot until it is dropped (`Seated`), and only the slots a
  broadcast has not come to yet miss its message (`CaughtUp`).
* `ChatServerProofs!NothingLeftOut`: `Spec => []StreamKept`: the texts of the
  tokens a client sent are those broadcast for it and those still under way.
  What `FlattenSeq` makes of the tokens is proved by induction over their number
  (`ListLemmas!FlattenAppend`, `FlattenConcat`).
* `ChatServerProofs!LeaveIsOrderly`: `Spec => []OrderlyLeave`. The invariant
  `Leaving` says that an admitted client that has been dropped, and is not in
  `Slow`, has closed its connection, and has nothing unread left if no error
  came from it (`LeftFirst`); that a client that has not closed its connection
  has one (`Open`); and that neither who is away nor what waits for `accept` has
  been dropped (`NotDroppedYet`).
* `ChatServerProofs!ServerIsARoom`: `Spec => RoomSpec`. From `Inv` and `Talk`
  each step of the server, of a client and of the kernel is a step of `ChatRoom`
  or leaves its variables alone; that a line is taken up only when everybody
  has heard the one before is `CaughtUp` outside of a broadcast.
* `PipelineProofs!EndsAreHandedOut`, `NothingIsHeld`, `NobodyIsLeftBehind`,
  `PipelineTypes`, for any number of stages. The invariant `Inv` says which ends
  the shell holds at each point (`ShellHolds`), that live stages have theirs
  (`HaveEnds`) and no others once they run (`OnlyOwnEnds`), which stages there
  are (`Started`) and which have been reaped (`Waited`).
* `PipelineProofs!EverythingDoesArrive`, `DoneDoesMeanDone`. `Conserved` says of
  each pipe alone that what went in came out or is still there, and `InOrder`
  that while nobody was cut short a stage that has ended wrote all `Items` and
  every stage before it has ended. Together they are inductive step by step,
  without an induction over the stages: a stage ends when its pipe is empty and
  nobody can write to it, so the stage before has ended.
* `ChatClientProofs!NothingIsLeftOver`, `ShellDoesOutliveChat`, `ClientTypes`:
  `Held` says point by point who has the socket and what has become of the
  receiver; `InputBlocks` that what was saved is a blocking input.
* `ChatClientProofs!ChatLeftForAReason`: `Why` follows each reason back to the
  step that gave it: `errno` is wrong only after the handler has run twice,
  which takes two children.
* `ChatClientProofs!NoLineIsLost`: `Kept` extends the property to the points of
  the set-up and of `errno`, where nothing is under way, and takes the stream apart: without a read that ended
  inside a line, what was sent and what is about to be sent end in a newline or
  are empty (`AtStart`), and the lines of the three parts together are those
  typed. That `Message` keeps the texts of a chunk, and its lines but for empty
  ones, and that `TextsOf` and `LinesOf` distribute over such parts, is proved
  for streams of any length.
* `ServerLifecycleProofs!ServersRemembered`, `LifecycleTypes`:
  `Spec => [](NoServerForgotten /\ TypeOK)`. The invariant adds what each step
  of `start-server` and `close-server` knows of the process number it works on
  (`StepsFit`) and that every server was forked by a shell (`Owned`).
* `ServerLifecycleProofs!PortNotShared`: `Spec => []OneServerPerPort`. The
  invariant `OneAtATime` says that unless two `start-server`s overlapped, there
  is at most one server process, or one shell between its test of the port and
  its `fork`, and not both.

* `CommandLineProofs!TokensAreWords`: for every line, what `tokenize_input`
  yields is `Words(l)`, unless the line is `Overlooked`: then it is the words of
  the same line with the newline not counted as whitespace behind an `&`. `InStep`
  says, for every position of the line, that the
  words found so far in the padded line, and the one under way, are those of the
  line up to there. `PaddedLength` bounds the padded line by two blanks for each
  symbol that stands alone.
* `CommandLineProofs!ExpansionIsValue`: for every word and every variable list,
  `expand_variables` yields `Value(s, env)`, in at most `MaxLen` symbols; a text
  without a `$`, which may be a longer message, it copies whole.
  `LoopGood` says that between two turns of its loop the result is what the
  symbols passed stand for, cut; that names are passed whole; and that each turn
  goes on until the result is full or the word ends. The lemma behind it is that
  cutting each part as it comes is the same as cutting the whole
  (`FittingCuts`).
* `CommandLineProofs!SetVariableUpdates`: `set_variable` changes the mapping that
  a list without duplicates (`Distinct`) stands for in one place, and keeps it
  without duplicates.
* `CommandLineProofs!MessageIsMeant`: for all words and every variable list, what
  `cmd_send` joins is `MessageText`, and what `send_message` sends of it, once it
  is expanded, is `Message`, in at most `BufferSize - 2` symbols. `CopyGood` says
  after each symbol of the text that the copy is the text so far without its
  repeated blanks, cut to the buffer, and that `in_space` is right as long as the
  copy is not full.
* `ShellProofs!TypeCorrect`, `CommandsGetWhatIsMeant`, `OneValueEach`,
  `MemoryIsSafe`: `TypeOK`, `TokensRight`, `VariablesSound` and `MemorySound`
  always hold. The invariant `ShellInv` says how much room the array of expanded
  strings has (`ArrayFits`); that a variable is once in the list (`ListTyped`);
  that at the prompt there is no line and before `Tokenize` there are no tokens
  (`AtPrompt`, `LineRead`); and of each token that is passed that it is what its
  word stands for, and of each that is not that it is the word, unless memory was
  short (`TokensKnown`).
* `ShellProofs!MessagesAreRight`: `Spec => MessageRight`, an action property:
  `ShellInv` says that at dispatch the tokens are the arguments that the line
  means, and `MessageIsMeant` what becomes of them. For the same reason a message
  overruns its buffer only if the line means one that does not fit
  (`MemoryIsSafe`).
* `ShellProofs!ShellImplementsEnvironment`: `Spec => EnvSpec`. Reading a line is
  `Enter`; the last step of a line is `Execute` or, when memory was short,
  `ExecuteShort`; all others leave the abstract variables alone.

The statements about all lines are proved by induction over the positions of a
line or the turns of a loop. The induction theorems of the library cannot be
used, because they take an operator as a parameter;
`ListLemmas!BoundedInduction` takes the set of the numbers for which a statement
holds instead. That a recursive function has the values its definition
describes is `RecursionExists`, proved the same way, and `RecursionStays`.

One property did not survive its proof: `MemorySound` used to measure the
command of a background line with every word expanded. That is too short when
the line begins with an assignment, which is put into the command as typed, and
fails for a `MaxLen` larger than that of the run. It now measures `Arguments`.

Only model-checked: liveness (`ZombiesReaped`, `EveryJobAnnounced`, `PromptReturns`,
`EveryoneServed`, `SlotsGivenBack`, `CloseEnds`, `PromptComesBack`,
`PipelineDrains`, `ClientEnds`, `NoOrphan`), since TLAPS does not handle
fairness here.

## 5. Not modelled

* Allocator re-entry: `malloc`, `free` and `snprintf` called in the handler.
* `kill`, the file builtins and the search of PATH: a kernel call or file
  reads, no state of the shell.
* The port, the host and the connect retries of `send`: whether its message
  reaches a server is left open in `Shell`, and its traffic is in `ChatServer`.
* Which other network command, builtin or program a line is: one action of
  `Shell`, since none of them touches tokens or variables.
* `is_port_available`, `has_bg_messages`: never called.
* SIGINT: its handler only prints.
* The length of lines in `ChatClient`: a read that
  fills the buffer without a newline at its end has the zero byte written one
  behind its copy (network.c:1140-1144).
* The wording of Done messages, of `ps` and of error reports.

## 6. Plan

Done: jobs, pipelines, the chat server, the interactive client, the server's
life cycle, lines and variables; three abstract specifications with their
implementations (`JobTable`, `ChatRoom`, `Environment`); the safety proofs of
all modules. What is left, most useful first:

1. `JobControl` and `Pipeline` composed: a pipeline's stages among other
   background jobs, with signals at every point of both.
2. `Shell` and `ChatServer` composed at `message`: what a line means on its way
   into the conversation.
