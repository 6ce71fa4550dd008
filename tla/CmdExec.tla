------------------------------ MODULE CmdExec -------------------------------
(***************************************************************************)
(* do_execute of minibash (A3/A3.c) and the executors it dispatches to,    *)
(* exc_sequence_cmd, exc_conditional_cmd and run_pipe, on the lines that   *)
(* CmdParser returns.  What a command does is outside the module: running  *)
(* it yields a return code, 0, positive, or negative.  Negative codes are  *)
(* ordinary: a child ended by a signal, a text operator on a file that     *)
(* cannot be read, a FIFO without a reader, a fork that fails.             *)
(***************************************************************************)
EXTENDS CmdParser

VARIABLES
  mode,     \* "idle" until the line is parsed, then the chosen executor,
            \* and "end" when do_execute returns
  idx,      \* the executor's loop index: the next command, from 1
  rc,       \* last_rc
  ran       \* the commands run so far, in order, with their return codes

execVars == <<mode, idx, rc, ran>>

vars == <<lexVars, parseVars, execVars>>

Rc == {-1, 0, 1}

Mode == {"idle", "single", "sequence", "conditional", "pipe", "reverse", "end"}

NCmds == Len(cmds)

-----------------------------------------------------------------------------
(* do_execute: the operators choose the executor.                          *)

ClassOf == [SEQ |-> "sequence", AND |-> "conditional", OR |-> "conditional",
            PIPE |-> "pipe", REVERSE_PIPE |-> "reverse"]

\* The loop stops at the first ; and returns -1 at the first operator of a
\* class other than that of the operators before it.
dispatch ==
  LET seqs  == {k \in 1..Len(ops) : ops[k] = "SEQ"}
      mixes == {k \in 2..Len(ops) : ClassOf[ops[k]] # ClassOf[ops[1]]}
  IN  IF NCmds = 1 THEN "single"
      ELSE IF \E k \in seqs : \A m \in mixes : k <= m THEN "sequence"
      ELSE IF mixes # {} THEN "mixed"
      ELSE ClassOf[ops[1]]

Return(code) ==
  /\ mode' = "end"
  /\ rc' = code

Refuse ==
  /\ Return(-1)
  /\ UNCHANGED <<idx, ran>>

DoExecute ==
  /\ at = "ok" /\ mode = "idle"
  /\ IF dispatch = "mixed"
     THEN Refuse                         \* return -1, without a message
     ELSE /\ mode' = dispatch
          /\ UNCHANGED <<idx, rc, ran>>

\* The first test of exc_sequence_cmd and exc_conditional_cmd.
RefuseTrailing ==
  /\ mode \in {"sequence", "conditional"} /\ ran = <<>> /\ idx = 1
  /\ Len(ops) # NCmds - 1
  /\ Refuse

\* Their second test, and run_pipe's; the latter is never true after
\* do_execute, nor is the one of exc_conditional_cmd.
RefuseMixed ==
  /\ mode \in {"sequence", "conditional", "pipe", "reverse"}
  /\ ran = <<>> /\ idx = 1
  /\ mode \in {"sequence", "conditional"} => Len(ops) = NCmds - 1
  /\ \E k \in 1..Len(ops) : ClassOf[ops[k]] # mode
  /\ Refuse

\* A variant without the executors' test of the operators.
Accepted_any ==
  mode \in {"sequence", "conditional"} => Len(ops) = NCmds - 1

Accepted ==
  /\ mode \in {"sequence", "conditional"} => Len(ops) = NCmds - 1
  /\ mode # "single" => \A k \in 1..Len(ops) : ClassOf[ops[k]] = mode

-----------------------------------------------------------------------------
(* Running commands.                                                       *)

\* do_dispatch_cmd for command k, with return code c.
Runs(k, c) == ran' = Append(ran, [cmd |-> k, rc |-> c])

\* The executor after a command: a negative return code ends the line.
NextCmd(c) ==
  /\ rc' = c
  /\ idx' = idx + 1
  /\ mode' = IF c < 0 \/ idx = NCmds THEN "end" ELSE mode

\* A line of one command.
RunSingle ==
  /\ mode = "single"
  /\ \E c \in Rc : Runs(1, c) /\ Return(c)
  /\ UNCHANGED idx

\* One turn of exc_sequence_cmd's loop.
RunSequence ==
  /\ mode = "sequence" /\ Accepted
  /\ \E c \in Rc : Runs(idx, c) /\ NextCmd(c)

\* should_run; the first command runs unconditionally.
ShouldRun ==
  idx > 1 => IF ops[idx - 1] = "AND" THEN rc = 0 ELSE rc # 0

RunConditional ==
  /\ mode = "conditional" /\ Accepted
  /\ ShouldRun
  /\ \E c \in Rc : Runs(idx, c) /\ NextCmd(c)

\* A variant in which a skipped command counts as one that succeeded.
SkipConditional_resets ==
  /\ mode = "conditional" /\ Accepted
  /\ ~ShouldRun
  /\ idx' = idx + 1
  /\ mode' = IF idx = NCmds THEN "end" ELSE mode
  /\ rc' = 0
  /\ UNCHANGED ran

\* A command that is not run leaves last_rc alone.
SkipConditional ==
  /\ mode = "conditional" /\ Accepted
  /\ ~ShouldRun
  /\ idx' = idx + 1
  /\ mode' = IF idx = NCmds THEN "end" ELSE mode
  /\ UNCHANGED <<rc, ran>>

\* run_pipe as a whole (module PipeChain has its inside): stage i runs
\* command i, or the commands from the last to the first.
RunPipe ==
  /\ mode \in {"pipe", "reverse"} /\ Accepted
  /\ \E c \in Rc :
       /\ ran' = [k \in 1..NCmds |->
            [cmd |-> IF mode = "reverse" THEN NCmds + 1 - k ELSE k, rc |-> c]]
       /\ Return(c)
  /\ UNCHANGED idx

-----------------------------------------------------------------------------
Init ==
  /\ LexInit /\ ParseInit
  /\ mode = "idle"
  /\ idx = 1
  /\ rc = 0
  /\ ran = <<>>

Lex == LexStep /\ UNCHANGED <<parseVars, execVars>>

Parse == ParseStep /\ UNCHANGED <<lexVars, execVars>>

Execute ==
  /\ \/ DoExecute \/ RefuseTrailing \/ RefuseMixed \/ RunSingle
     \/ RunSequence \/ RunConditional \/ SkipConditional \/ RunPipe
  /\ UNCHANGED <<lexVars, parseVars>>

Next == Lex \/ Parse \/ Execute

Spec == Init /\ [][Next]_vars

-----------------------------------------------------------------------------
(* Properties.                                                             *)

Aborted == ran # <<>> /\ Last(ran).rc < 0

\* What the operators of a conditional line say about command k, given what
\* ran before it: the code of the last command before k that ran decides.
LastBefore(k) ==
  LET before == {m \in 1..Len(ran) : ran[m].cmd < k}
  IN  ran[CHOOSE m \in before : \A n \in before : n <= m].rc

Wanted(k) ==
  \/ k = 1
  \/ ops[k - 1] = "AND" /\ LastBefore(k) = 0
  \/ ops[k - 1] = "OR" /\ LastBefore(k) # 0

HasRun(k) == \E m \in 1..Len(ran) : ran[m].cmd = k

Uniform(class) ==
  /\ NCmds > 1 /\ Len(ops) = NCmds - 1
  /\ \A k \in 1..Len(ops) : ClassOf[ops[k]] = class

\* The commands of the line that run are the ones its operators ask for, each
\* once and in the order of the line:
\*   - of a conditional line those whose operator fits the code of the last
\*     command that ran, a skipped command leaving that code as it is;
\*   - of a sequence, all of them;
\*   - of a line whose operators are of different classes, none at all;
\* and in the first two cases nothing runs after the first negative code.  The code of
\* the line is that of the last command that ran, however many were skipped behind it,
\* and -1 if none ran (exc_sequence_cmd, exc_conditional_cmd, do_execute).
LineRunsAsWritten ==
  mode = "end" =>
    /\ Uniform("conditional") =>
         \A k \in 1..NCmds :
           HasRun(k) <=> Wanted(k) /\ ~(Aborted /\ k > Last(ran).cmd)
    /\ Uniform("sequence") =>
         /\ Len(ran) = NCmds \/ Aborted
         /\ \A k \in 1..Len(ran) : ran[k].cmd = k
    /\ \A j, k \in 1..Len(ops) :
         NCmds > 1 /\ ClassOf[ops[j]] # ClassOf[ops[k]] => ran = <<>>
    /\ NCmds = 1 \/ dispatch # "reverse" =>
         \A j, k \in 1..Len(ran) : j < k => ran[j].cmd < ran[k].cmd
    /\ rc = IF ran = <<>> THEN -1 ELSE Last(ran).rc

-----------------------------------------------------------------------------
(* Statements of the repository that the code does not keep.               *)

\* exc_sequence_cmd's comment: every command runs "whatever the result of
\* the command before it".
SequenceIgnoresResults ==
  mode = "end" /\ Uniform("sequence") => Len(ran) = NCmds
=============================================================================
