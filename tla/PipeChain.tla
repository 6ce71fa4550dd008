------------------------------ MODULE PipeChain ------------------------------
(***************************************************************************)
(* run_pipe of src/A3/A3.c: cmd0 | cmd1 | ... and its reverse form ~.      *)
(* The shell makes N - 1 pipes, forks N stages, closes its copies of the   *)
(* pipes and waits for the stages in order.  Each child wires its stdin    *)
(* and stdout, closes every inherited pipe descriptor, opens its < and >   *)
(* files and calls execvp.  Pipes and the programs behind execvp are the   *)
(* kernel's and external.  One iteration of a loop is one step: a child or *)
(* the shell closes both ends of one pipe at a time.                       *)
(***************************************************************************)
EXTENDS Integers, FiniteSets

CONSTANTS
    N,      \* cmd_count, at least 2
    Cap,    \* how many writes a pipe holds before a writer blocks
    Lines,  \* how many writes a program that reads no pipe makes
    Redirs  \* bound: how many < and > the chain has

ASSUME PipeAssumption ==
    N \in Nat /\ N >= 2 /\ Cap \in Nat \ {0} /\ Lines \in Nat /\ Redirs \in Nat

Stage == 0 .. N - 1
Pipe  == 0 .. N - 2     \* pipes[p] runs from stage p to stage p + 1
Term  == -1             \* a stdin or stdout that is no pipe
Codes == {0, 1}         \* statuses a program exits with by itself

VARIABLES
    reverse,        \* the operator is ~: stage 0 runs the last command
    rin, rout,      \* the commands with < and with >
    pc, i,          \* the shell's position in run_pipe and its loop index
    mine,           \* the pipes the shell has open
    result,         \* what run_pipe returns
    st,             \* each stage's position in the child's code
    at,             \* a child's index in the loop that closes the pipes
    fds,            \* the pipes a child still has open besides stdin, stdout
    in, out,        \* the pipe behind a stage's stdin and stdout, or Term
    status,         \* what waitpid reports of an ended stage, -1 if killed
    buf,            \* how many writes are in each pipe
    todo, eof       \* writes a program still owes; it has read end-of-file

line  == <<reverse, rin, rout>>
shell == <<pc, i, mine, result>>
child == <<at, fds>>
wires == <<in, out>>
prog  == <<buf, todo, eof>>
vars  == <<line, shell, st, child, wires, status, prog>>

Early   == {"dup", "close"}                       \* before the redirections
Setup   == Early \union {"redir_in", "redir_out", "exec"}
Alive   == Setup \union {"run"}
Ended   == {"zombie", "reaped"}
ShellPc == {"pipe", "unpipe", "fork", "failclose", "failwait",
            "close", "wait", "done"}

\* Which command stage s runs.
CmdIdx(s) == IF reverse THEN N - 1 - s ELSE s

Init ==
    /\ reverse \in BOOLEAN
    /\ rin \in SUBSET Stage /\ rout \in SUBSET Stage
    /\ Cardinality(rin) + Cardinality(rout) =< Redirs
    /\ pc = "pipe" /\ i = 0 /\ mine = {} /\ result = 0
    /\ st = [s \in Stage |-> "none"] /\ at = [s \in Stage |-> 0]
    /\ fds = [s \in Stage |-> {}]
    /\ in = [s \in Stage |-> Term] /\ out = [s \in Stage |-> Term]
    /\ status = [s \in Stage |-> 0]
    /\ buf = [p \in Pipe |-> 0]
    /\ todo = [s \in Stage |-> 0] /\ eof = [s \in Stage |-> FALSE]
-----------------------------------------------------------------------------
(* The shell. *)

Goto(where, index) == pc' = where /\ i' = index

\* pipe() for pipes[i]; a failure closes the ones made so far.
MakePipe ==
    /\ pc = "pipe" /\ i < N - 1
    /\ \/ Goto("pipe", i + 1) /\ mine' = mine \union {i} /\ UNCHANGED result
       \/ Goto("unpipe", 0) /\ result' = -1 /\ UNCHANGED mine
    /\ UNCHANGED <<line, st, child, wires, status, prog>>

AllPiped ==
    /\ pc = "pipe" /\ i = N - 1
    /\ Goto("fork", 0)
    /\ UNCHANGED <<line, mine, result, st, child, wires, status, prog>>

\* for (j = 0; j < i; j++) close(...): back to the caller with -1.
Unpipe ==
    /\ pc = "unpipe"
    /\ IF i \in mine THEN Goto("unpipe", i + 1) /\ mine' = mine \ {i}
                     ELSE Goto("done", 0) /\ UNCHANGED mine
    /\ UNCHANGED <<line, result, st, child, wires, status, prog>>

\* fork() of stage i: the child inherits every pipe.
ForkWith(keep) ==
    /\ pc = "fork" /\ i < N
    /\ Goto("fork", i + 1)
    /\ st' = [st EXCEPT ![i] = "dup"] /\ fds' = [fds EXCEPT ![i] = mine]
    /\ mine' = keep
    /\ UNCHANGED <<line, result, at, wires, status, prog>>

\* Variant: the shell closes a stage's pipe as soon as that stage has it.
ForkStage_closes_early == ForkWith(mine \ {i})

ForkStage == ForkWith(mine)

\* Variant: fork() < 0 returns at once.
ForkFails_only_returns ==
    /\ pc = "fork" /\ i < N
    /\ Goto("done", 0) /\ result' = -1
    /\ UNCHANGED <<line, mine, st, child, wires, status, prog>>

\* fork() < 0: close every pipe, then wait for the stages already running.
ForkFails ==
    /\ pc = "fork" /\ i < N
    /\ Goto("failclose", 0) /\ result' = -1
    /\ UNCHANGED <<line, mine, st, child, wires, status, prog>>

\* Variant: the shell waits with its pipes still open.
AllForked_no_close ==
    /\ pc = "fork" /\ i = N
    /\ Goto("wait", 0)
    /\ UNCHANGED <<line, mine, result, st, child, wires, status, prog>>

AllForked ==
    /\ pc = "fork" /\ i = N
    /\ Goto("close", 0)
    /\ UNCHANGED <<line, mine, result, st, child, wires, status, prog>>

\* The loop that closes the shell's pipes, on the normal and the fork path.
CloseNext ==
    /\ pc \in {"close", "failclose"}
    /\ IF i < N - 1
       THEN Goto(pc, i + 1) /\ mine' = mine \ {i}
       ELSE /\ Goto(IF pc = "close" THEN "wait" ELSE "failwait", 0)
            /\ UNCHANGED mine
    /\ UNCHANGED <<line, result, st, child, wires, status, prog>>

\* waitpid(pids[i]) in stage order; the last stage's status is the result.
WaitFor(last) ==
    /\ pc = "wait" /\ i < N /\ st[i] = "zombie"
    /\ st' = [st EXCEPT ![i] = "reaped"]
    /\ result' = IF i = last THEN status[i] ELSE result
    /\ Goto("wait", i + 1)
    /\ UNCHANGED <<line, mine, child, wires, status, prog>>

\* Variant: the status kept is the first stage's.
WaitStage_first == WaitFor(0)

WaitStage == WaitFor(N - 1)

\* After a failed fork only the stages forked so far are waited for, each
\* into a status that is dropped.
WaitForked ==
    /\ pc = "failwait" /\ i < N /\ st[i] = "zombie"
    /\ st' = [st EXCEPT ![i] = "reaped"] /\ Goto("failwait", i + 1)
    /\ UNCHANGED <<line, mine, result, child, wires, status, prog>>

Return ==
    /\ \/ pc = "wait" /\ i = N
       \/ pc = "failwait" /\ IF i < N THEN st[i] = "none" ELSE TRUE
    /\ Goto("done", 0)
    /\ UNCHANGED <<line, mine, result, st, child, wires, status, prog>>

Shell == \/ MakePipe \/ AllPiped \/ Unpipe
         \/ ForkStage \/ ForkFails \/ AllForked \/ CloseNext
         \/ WaitStage \/ WaitForked \/ Return
-----------------------------------------------------------------------------
(* A child, up to execvp. *)

\* A process that ends closes all it has open.
Ends(s, code) ==
    /\ st' = [st EXCEPT ![s] = "zombie"]
    /\ status' = [status EXCEPT ![s] = code]
    /\ fds' = [fds EXCEPT ![s] = {}]
    /\ in' = [in EXCEPT ![s] = Term] /\ out' = [out EXCEPT ![s] = Term]
    /\ UNCHANGED <<line, shell, at, prog>>

\* The outcome of the two dup2 calls; one of a closed descriptor fails and is
\* not noticed.
Plug(s, hasIn, hasOut) ==
    /\ in' = [in EXCEPT ![s] = IF hasIn THEN s - 1 ELSE Term]
    /\ out' = [out EXCEPT ![s] = IF hasOut THEN s ELSE Term]
    /\ st' = [st EXCEPT ![s] = "close"]
    /\ UNCHANGED <<line, shell, child, status, prog>>

\* Variant: the last stage but one is left without its pipe.
Wire_one_short(s) ==
    st[s] = "dup" /\ Plug(s, s > 0 /\ s - 1 \in fds[s], s < N - 2 /\ s \in fds[s])

\* dup2 of the previous pipe's read end and of the next pipe's write end.
Wire(s) ==
    /\ st[s] = "dup"
    /\ Plug(s, s > 0 /\ s - 1 \in fds[s], s < N - 1 /\ s \in fds[s])

CloseUpTo(s, bound) ==
    /\ st[s] = "close"
    /\ IF at[s] < bound
       THEN /\ fds' = [fds EXCEPT ![s] = @ \ {at[s]}]
            /\ at' = [at EXCEPT ![s] = @ + 1] /\ UNCHANGED st
       ELSE st' = [st EXCEPT ![s] = "redir_in"] /\ UNCHANGED child
    /\ UNCHANGED <<line, shell, wires, status, prog>>

\* Variant: the child's loop stops one pipe early.
ClosePipe_one_short(s) == CloseUpTo(s, N - 2)

ClosePipe(s) == CloseUpTo(s, N - 1)

\* < file: the file takes stdin's place and the pipe's end is closed by dup2.
RedirectIn(s) ==
    /\ st[s] = "redir_in"
    /\ \/ CmdIdx(s) \in rin /\ Ends(s, 1)
       \/ /\ st' = [st EXCEPT ![s] = "redir_out"]
          /\ in' = IF CmdIdx(s) \in rin THEN [in EXCEPT ![s] = Term] ELSE in
          /\ UNCHANGED <<line, shell, child, out, status, prog>>

RedirectOut(s) ==
    /\ st[s] = "redir_out"
    /\ \/ CmdIdx(s) \in rout /\ Ends(s, 1)
       \/ /\ st' = [st EXCEPT ![s] = "exec"]
          /\ out' = IF CmdIdx(s) \in rout THEN [out EXCEPT ![s] = Term] ELSE out
          /\ UNCHANGED <<line, shell, child, in, status, prog>>

\* execvp keeps the descriptors; it fails when there is no such program.
Exec(s) ==
    /\ st[s] = "exec"
    /\ \/ Ends(s, 123)
       \/ /\ st' = [st EXCEPT ![s] = "run"]
          /\ todo' = [todo EXCEPT ![s] = IF in[s] = Term THEN Lines ELSE 0]
          /\ UNCHANGED <<line, shell, child, wires, status, buf, eof>>

Child(s) == Wire(s) \/ ClosePipe(s) \/ RedirectIn(s) \/ RedirectOut(s) \/ Exec(s)
-----------------------------------------------------------------------------
(* Pipes and programs (external).  A program writes what it owes, then     *)
(* reads on, and exits when its input has ended; it may quit at any time.  *)

StageWrites(s, p) == out[s] = p \/ p \in fds[s]
StageReads(s, p)  == in[s] = p \/ p \in fds[s]
HasWriter(p) == p \in mine \/ \E s \in Stage : StageWrites(s, p)
HasReader(p) == p \in mine \/ \E s \in Stage : StageReads(s, p)

Write(s) ==
    /\ st[s] = "run" /\ todo[s] > 0
    /\ IF out[s] = Term
       THEN todo' = [todo EXCEPT ![s] = @ - 1] /\ UNCHANGED buf
       ELSE /\ HasReader(out[s]) /\ buf[out[s]] < Cap
            /\ todo' = [todo EXCEPT ![s] = @ - 1]
            /\ buf' = [buf EXCEPT ![out[s]] = @ + 1]
    /\ UNCHANGED <<line, shell, st, child, wires, status, eof>>

\* SIGPIPE: nobody can read the pipe any more.
BrokenPipe(s) ==
    /\ st[s] = "run" /\ todo[s] > 0 /\ out[s] # Term /\ ~ HasReader(out[s])
    /\ Ends(s, -1)

Read(s) ==
    /\ st[s] = "run" /\ todo[s] = 0 /\ in[s] # Term /\ ~ eof[s]
    /\ buf[in[s]] > 0
    /\ buf' = [buf EXCEPT ![in[s]] = @ - 1]
    /\ \E n \in {0, 1} : todo' = [todo EXCEPT ![s] = n]
    /\ UNCHANGED <<line, shell, st, child, wires, status, eof>>

ReadEof(s) ==
    /\ st[s] = "run" /\ todo[s] = 0 /\ in[s] # Term /\ ~ eof[s]
    /\ buf[in[s]] = 0 /\ ~ HasWriter(in[s])
    /\ eof' = [eof EXCEPT ![s] = TRUE]
    /\ UNCHANGED <<line, shell, st, child, wires, status, buf, todo>>

Exit(s) ==
    /\ st[s] = "run" /\ todo[s] = 0 /\ (in[s] = Term \/ eof[s])
    /\ \E code \in Codes : Ends(s, code)

Quit(s) == st[s] = "run" /\ \E code \in Codes : Ends(s, code)

Program(s) == Write(s) \/ BrokenPipe(s) \/ Read(s) \/ ReadEof(s) \/ Exit(s)

Next == Shell \/ \E s \in Stage : Child(s) \/ Program(s) \/ Quit(s)

Fairness == WF_vars(Shell)
            /\ \A s \in Stage : WF_vars(Child(s)) /\ WF_vars(Program(s))
Spec == Init /\ [][Next]_vars /\ Fairness
-----------------------------------------------------------------------------
(* Properties *)

TypeOK ==
    /\ reverse \in BOOLEAN /\ rin \subseteq Stage /\ rout \subseteq Stage
    /\ pc \in ShellPc /\ i \in 0 .. N /\ mine \subseteq Pipe
    /\ result \in {-1, 0, 1, 123}
    /\ st \in [Stage -> {"none"} \union Alive \union Ended]
    /\ at \in [Stage -> 0 .. N - 1] /\ fds \in [Stage -> SUBSET Pipe]
    /\ in \in [Stage -> Pipe \union {Term}]
    /\ out \in [Stage -> Pipe \union {Term}]
    /\ status \in [Stage -> {-1, 0, 1, 123}]
    /\ buf \in [Pipe -> 0 .. Cap]
    /\ todo \in [Stage -> Nat] /\ eof \in [Stage -> BOOLEAN]

\* A stage cannot write into pipe s - 1 now or later.
Silent(s) == \/ st[s] \in Ended
             \/ st[s] \in {"exec", "run"} /\ CmdIdx(s) \in rout /\ out[s] = Term

\* A stage cannot read from its input pipe now or later.
Deaf(s) == \/ st[s] \in Ended
           \/ st[s] \in {"redir_out", "exec", "run"} /\ CmdIdx(s) \in rin
              /\ in[s] = Term

\* A stage reads end-of-file only when the stage before it has ended or has
\* redirected its output: never because that stage was not forked yet, or had
\* not wired its pipe yet, when the shell closed its copies.
EofIsFinal == \A s \in Stage \ {0} : eof[s] => Silent(s - 1)

\* A stage is killed by SIGPIPE only when the stage after it has ended, reads
\* a file, or was never started because fork failed: never because the next
\* stage was still to be forked or wired.
SigpipeIsFinal ==
    \A s \in Stage \ {N - 1} : 
        status[s] = -1 => \/ Deaf(s + 1)
                          \/ st[s + 1] = "none" /\ pc \notin {"fork", "close", "wait"}

\* A program runs with no pipe open but the one behind it and the one before
\* it, whatever it inherited: a stray copy would hide an end-of-file or keep a
\* writer from its SIGPIPE.
OwnPipesOnly ==
    \A s \in Stage : st[s] = "run" =>
        \A p \in Pipe : /\ StageWrites(s, p) => p = s
                        /\ StageReads(s, p) => p = s - 1

\* run_pipe returns, by whichever of its paths, with no pipe of the shell open
\* and no stage unwaited for.
NothingLeft ==
    pc = "done" => mine = {} /\ \A s \in Stage : st[s] \in {"none", "reaped"}

\* The status of a chain that was started is that of the command that runs
\* last: the rightmost one for |, the leftmost one for ~.  A chain that could
\* not be started returns -1.
ResultOfLastCommand ==
    pc = "done" =>
        IF \A s \in Stage : st[s] = "reaped"
        THEN LET last == IF reverse THEN 0 ELSE N - 1
             IN  \A s \in Stage : CmdIdx(s) = last => result = status[s]
        ELSE result = -1

\* run_pipe returns: every stage gets its end-of-file or its SIGPIPE however
\* the chain's steps interleave and wherever pipe() or fork() fails, as long
\* as programs that wait for input end when it does.
ChainReturns == <>(pc = "done")
=============================================================================
