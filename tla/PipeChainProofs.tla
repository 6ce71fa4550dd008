--------------------------- MODULE PipeChainProofs ---------------------------
(* Proofs about PipeChain, for chains of any length and pipes of any size. *)
EXTENDS PipeChain, TLAPS

\* The shell's pipes: made in order, all open while it forks, closed in order.
ShellInv ==
    /\ pc = "pipe" => i =< N - 1 /\ \A p \in Pipe : p \in mine <=> p < i
    /\ pc = "unpipe" => \A p \in mine : p >= i /\ \A q \in i .. p : q \in mine
    /\ pc = "fork" => mine = Pipe
    /\ pc \in {"close", "failclose"} =>
         i =< N - 1 /\ \A p \in Pipe : p \in mine <=> p >= i
    /\ pc \in {"wait", "failwait", "done"} => mine = {}

\* Which stages exist and which have been waited for.
ForkInv ==
    /\ pc \in {"pipe", "unpipe"} => \A s \in Stage : st[s] = "none"
    /\ pc = "fork" => \A s \in Stage : st[s] = "none" <=> s >= i
    /\ pc \in {"close", "wait"} => \A s \in Stage : st[s] # "none"
    /\ \A s, t \in Stage : s =< t /\ st[s] = "none" => st[t] = "none"
    /\ pc \in {"wait", "failwait"} => \A s \in Stage : s < i => st[s] = "reaped"
    /\ pc = "done" => \A s \in Stage : st[s] \in {"none", "reaped"}

\* What run_pipe is about to return.
ResultInv ==
    /\ pc \in {"unpipe", "failclose", "failwait"} =>
         result = -1 /\ st[N - 1] = "none"
    /\ pc = "wait" /\ i = N => result = status[N - 1]
    /\ pc = "done" => \/ st[N - 1] = "none" /\ result = -1
                      \/ st[N - 1] = "reaped" /\ result = status[N - 1]

\* The descriptors of a child: everything when it starts, its own two ends once
\* the loop is over.
FdInv ==
    \A s \in Stage :
        /\ st[s] = "dup" => fds[s] = Pipe
        /\ st[s] \in {"none", "dup"} => at[s] = 0
        /\ st[s] = "close" => \A p \in fds[s] : p >= at[s]
        /\ st[s] \notin Early => fds[s] = {}

\* Stdin and stdout: the neighbouring pipes until a redirection replaces them.
WireInv ==
    \A s \in Stage :
        /\ in[s] \in {s - 1, Term} /\ out[s] \in {s, Term}
        /\ st[s] \in {"close", "redir_in"} => in[s] = s - 1
        /\ st[s] \in {"redir_out", "exec", "run"} /\ in[s] # s - 1 =>
             CmdIdx(s) \in rin
        /\ st[s] \in {"close", "redir_in", "redir_out"} /\ s # N - 1 => out[s] = s
        /\ st[s] \in {"exec", "run"} /\ out[s] # s /\ s # N - 1 =>
             CmdIdx(s) \in rout

\* Only programs that ran have read end-of-file or were killed.
RanInv ==
    \A s \in Stage : /\ eof[s] => st[s] = "run" \/ st[s] \in Ended
                     /\ status[s] = -1 => st[s] \in Ended

ChainInv == /\ TypeOK /\ ShellInv /\ ForkInv /\ ResultInv /\ FdInv /\ WireInv
            /\ RanInv /\ EofIsFinal /\ SigpipeIsFinal
-----------------------------------------------------------------------------
LEMMA InitInv == Init => ChainInv
  BY PipeAssumption
  DEF Init, ChainInv, TypeOK, ShellInv, ForkInv, ResultInv, FdInv, WireInv,
      RanInv, EofIsFinal, SigpipeIsFinal, Silent, Deaf, Stage, Pipe, Term,
      ShellPc, Alive, Setup, Early, Ended
-----------------------------------------------------------------------------
(* The steps of the shell.                                                 *)

\* A step of the shell alone disturbs nothing that is said of the stages.
LEMMA ShellMoves ==
  ASSUME ChainInv, UNCHANGED <<line, st, child, wires, status, prog>>,
         pc' \in ShellPc, i' \in 0 .. N, mine' \subseteq Pipe,
         result' \in {-1, 0, 1, 123}
  PROVE  TypeOK' /\ FdInv' /\ WireInv' /\ RanInv' /\ EofIsFinal'
  <1>1. UNCHANGED <<reverse, rin, rout, st, at, fds, in, out, status, buf, todo, eof>>
    BY DEF line, child, wires, prog
  <1>2. TypeOK'
    BY <1>1 DEF ChainInv, TypeOK
  <1>3. FdInv' /\ WireInv' /\ RanInv' /\ EofIsFinal'
    BY <1>1 DEF ChainInv, FdInv, WireInv, RanInv, EofIsFinal, Silent, CmdIdx
  <1> QED
    BY <1>2, <1>3

\* A stage can be given up as never started only while the shell still has to
\* start it, so a SIGPIPE stays final unless the shell goes back to forking.
LEMMA ShellKeepsSigpipe ==
  ASSUME ChainInv, UNCHANGED <<line, st, child, wires, status, prog>>,
         pc' \in {"fork", "close", "wait"} => pc \in {"pipe", "fork", "close", "wait"}
  PROVE  SigpipeIsFinal'
  <1>1. UNCHANGED <<reverse, rin, rout, st, in, status>>
    BY DEF line, wires
  <1>2. ASSUME NEW s \in Stage \ {N - 1}, status[s] = -1, pc = "pipe"
        PROVE  FALSE
    BY <1>2 DEF ChainInv, ForkInv, RanInv, Ended
  <1> QED
    BY <1>1, <1>2 DEF ChainInv, SigpipeIsFinal, Deaf, CmdIdx

LEMMA MakePipeInv ==
  ASSUME ChainInv, MakePipe PROVE ChainInv'
  <1> USE PipeAssumption
  <1>1. i \in Pipe
    BY DEF ChainInv, TypeOK, MakePipe, Pipe
  <1>2. pc' \in ShellPc /\ i' \in 0 .. N
    BY DEF ChainInv, TypeOK, MakePipe, Goto, ShellPc
  <1>3. mine' \subseteq Pipe /\ result' \in {-1, 0, 1, 123}
    BY <1>1 DEF ChainInv, TypeOK, MakePipe
  <1>4. TypeOK' /\ FdInv' /\ WireInv' /\ RanInv' /\ EofIsFinal'
    BY <1>2, <1>3, ShellMoves DEF MakePipe
  <1>5. SigpipeIsFinal'
    BY ShellKeepsSigpipe DEF MakePipe, Goto
  <1>6. CASE pc' = "pipe"
    <2>1. ShellInv'
      BY <1>6 DEF ChainInv, TypeOK, ShellInv, MakePipe, Goto, Pipe
    <2>2. ForkInv'
      BY <1>6 DEF ChainInv, ForkInv, MakePipe, Goto
    <2>3. ResultInv'
      BY <1>6 DEF ResultInv
    <2> QED
      BY <1>4, <1>5, <2>1, <2>2, <2>3 DEF ChainInv
  <1>7. CASE pc' = "unpipe"
    <2>1. \A p \in mine : p >= 0 /\ \A q \in 0 .. p : q \in mine
      BY DEF ChainInv, TypeOK, ShellInv, MakePipe, Pipe
    <2>2. i' = 0 /\ mine' = mine /\ pc = "pipe"
      BY <1>7 DEF MakePipe, Goto
    <2>3. ShellInv'
      BY <1>7, <2>1, <2>2 DEF ShellInv
    <2>4. ForkInv'
      BY <1>7, <2>2 DEF ChainInv, ForkInv, MakePipe
    <2>5. ResultInv'
      BY <1>7 DEF ChainInv, ForkInv, ResultInv, MakePipe, Goto, Stage
    <2> QED
      BY <1>4, <1>5, <2>3, <2>4, <2>5 DEF ChainInv
  <1> QED
    BY <1>6, <1>7 DEF MakePipe, Goto

LEMMA AllPipedInv ==
  ASSUME ChainInv, AllPiped PROVE ChainInv'
  <1> USE PipeAssumption
  <1>1. pc' \in ShellPc /\ i' \in 0 .. N
    BY DEF AllPiped, Goto, ShellPc
  <1>2. TypeOK' /\ FdInv' /\ WireInv' /\ RanInv' /\ EofIsFinal'
    BY <1>1, ShellMoves DEF AllPiped, ChainInv, TypeOK
  <1>3. SigpipeIsFinal'
    BY ShellKeepsSigpipe DEF AllPiped, Goto
  <1>4. \A p \in Pipe : p \in mine
    BY DEF ChainInv, TypeOK, ShellInv, AllPiped, Pipe
  <1>5. mine = Pipe
    BY <1>4 DEF ChainInv, TypeOK
  <1>6. ShellInv'
    BY <1>5 DEF ShellInv, AllPiped, Goto
  <1>7. ForkInv' /\ ResultInv'
    BY DEF ChainInv, TypeOK, ForkInv, ResultInv, AllPiped, Goto, Stage
  <1> QED
    BY <1>2, <1>3, <1>6, <1>7 DEF ChainInv

LEMMA UnpipeInv ==
  ASSUME ChainInv, Unpipe PROVE ChainInv'
  <1> USE PipeAssumption
  <1>1. i \in mine => i + 1 \in 0 .. N
    BY DEF ChainInv, TypeOK, Pipe
  <1>2. TypeOK' /\ FdInv' /\ WireInv' /\ RanInv' /\ EofIsFinal'
    BY <1>1, ShellMoves DEF Unpipe, Goto, ShellPc, ChainInv, TypeOK
  <1>3. SigpipeIsFinal'
    BY ShellKeepsSigpipe DEF Unpipe, Goto
  <1>4. ForkInv' /\ ResultInv'
    BY DEF ChainInv, TypeOK, ForkInv, ResultInv, Unpipe, Goto, Stage
  <1>5. CASE i \in mine
    <2>1. \A p \in mine \ {i} : /\ p >= i + 1
                                /\ \A q \in i + 1 .. p : q \in mine \ {i}
      BY DEF ChainInv, TypeOK, ShellInv, Unpipe, Pipe
    <2>2. i' = i + 1 /\ mine' = mine \ {i} /\ pc' = "unpipe"
      BY <1>5 DEF Unpipe, Goto
    <2>3. ShellInv'
      BY <2>1, <2>2 DEF ShellInv
    <2> QED
      BY <1>2, <1>3, <1>4, <2>3 DEF ChainInv
  <1>6. CASE i \notin mine
    <2>1. mine = {}
      BY <1>6 DEF ChainInv, TypeOK, ShellInv, Unpipe, Pipe
    <2>2. ShellInv'
      BY <1>6, <2>1 DEF ShellInv, Unpipe, Goto
    <2> QED
      BY <1>2, <1>3, <1>4, <2>2 DEF ChainInv
  <1> QED
    BY <1>5, <1>6

LEMMA ForkFailsInv ==
  ASSUME ChainInv, ForkFails PROVE ChainInv'
  <1> USE PipeAssumption
  <1>1. TypeOK' /\ FdInv' /\ WireInv' /\ RanInv' /\ EofIsFinal'
    BY ShellMoves DEF ForkFails, Goto, ShellPc, ChainInv, TypeOK
  <1>2. SigpipeIsFinal'
    BY ShellKeepsSigpipe DEF ForkFails, Goto
  <1>3. ShellInv'
    BY DEF ChainInv, ShellInv, ForkFails, Goto, Pipe
  <1>4. ForkInv' /\ ResultInv'
    BY DEF ChainInv, TypeOK, ForkInv, ResultInv, ForkFails, Goto, Stage
  <1> QED
    BY <1>1, <1>2, <1>3, <1>4 DEF ChainInv

LEMMA AllForkedInv ==
  ASSUME ChainInv, AllForked PROVE ChainInv'
  <1> USE PipeAssumption
  <1>1. TypeOK' /\ FdInv' /\ WireInv' /\ RanInv' /\ EofIsFinal'
    BY ShellMoves DEF AllForked, Goto, ShellPc, ChainInv, TypeOK
  <1>2. SigpipeIsFinal'
    BY ShellKeepsSigpipe DEF AllForked, Goto
  <1>3. ShellInv'
    BY DEF ChainInv, ShellInv, AllForked, Goto, Pipe
  <1>4. ForkInv' /\ ResultInv'
    BY DEF ChainInv, TypeOK, ForkInv, ResultInv, AllForked, Goto, Stage
  <1> QED
    BY <1>1, <1>2, <1>3, <1>4 DEF ChainInv

LEMMA CloseNextInv ==
  ASSUME ChainInv, CloseNext PROVE ChainInv'
  <1> USE PipeAssumption
  <1>1. pc' \in ShellPc /\ i' \in 0 .. N
    BY DEF ChainInv, TypeOK, CloseNext, Goto, ShellPc
  <1>2. TypeOK' /\ FdInv' /\ WireInv' /\ RanInv' /\ EofIsFinal'
    BY <1>1, ShellMoves DEF CloseNext, ChainInv, TypeOK
  <1>3. SigpipeIsFinal'
    BY ShellKeepsSigpipe DEF CloseNext, Goto
  <1>4. CASE i < N - 1
    <2>1. ShellInv'
      BY <1>4 DEF ChainInv, TypeOK, ShellInv, CloseNext, Goto, Pipe
    <2>2. ForkInv' /\ ResultInv'
      BY <1>4 DEF ChainInv, TypeOK, ForkInv, ResultInv, CloseNext, Goto, Stage
    <2> QED
      BY <1>2, <1>3, <2>1, <2>2 DEF ChainInv
  <1>5. CASE ~ (i < N - 1)
    <2>1. mine = {}
      BY <1>5 DEF ChainInv, TypeOK, ShellInv, CloseNext, Pipe
    <2>2. ShellInv'
      BY <1>5, <2>1 DEF ShellInv, CloseNext, Goto
    <2>3. ForkInv'
      BY <1>5 DEF ChainInv, TypeOK, ForkInv, CloseNext, Goto, Stage
    <2>4. ResultInv'
      BY <1>5 DEF ChainInv, TypeOK, ResultInv, CloseNext, Goto, Stage
    <2> QED
      BY <1>2, <1>3, <2>2, <2>3, <2>4 DEF ChainInv
  <1> QED
    BY <1>4, <1>5

LEMMA ReturnInv ==
  ASSUME ChainInv, Return PROVE ChainInv'
  <1> USE PipeAssumption
  <1>1. TypeOK' /\ FdInv' /\ WireInv' /\ RanInv' /\ EofIsFinal'
    BY ShellMoves DEF Return, Goto, ShellPc, ChainInv, TypeOK
  <1>2. SigpipeIsFinal'
    BY ShellKeepsSigpipe DEF Return, Goto
  <1>3. ShellInv'
    BY DEF ChainInv, ShellInv, Return, Goto
  <1>4. \A s \in Stage : st[s] \in {"none", "reaped"}
    BY DEF ChainInv, TypeOK, ForkInv, Return, Stage
  <1>5. ForkInv'
    BY <1>4 DEF ChainInv, TypeOK, ForkInv, Return, Goto
  <1>6. ResultInv'
    BY DEF ChainInv, TypeOK, ForkInv, ResultInv, Return, Goto, Stage
  <1> QED
    BY <1>1, <1>2, <1>3, <1>5, <1>6 DEF ChainInv

\* A new child: it inherits every pipe, and it did not exist before.
LEMMA ForkStageInv ==
  ASSUME ChainInv, ForkStage PROVE ChainInv'
  <1> USE PipeAssumption
  <1>1. /\ i \in Stage /\ st[i] = "none"
        /\ st' = [st EXCEPT ![i] = "dup"] /\ st'[i] = "dup"
        /\ \A s \in Stage \ {i} : st'[s] = st[s]
        /\ fds' = [fds EXCEPT ![i] = mine]
    BY DEF ChainInv, TypeOK, ForkInv, ForkStage, ForkWith, Goto, Stage
  <1>2. TypeOK'
    <2>1. pc' \in ShellPc /\ i' \in 0 .. N /\ mine' \subseteq Pipe
      BY DEF ChainInv, TypeOK, ForkStage, ForkWith, Goto, ShellPc
    <2>2. st' \in [Stage -> {"none"} \union Alive \union Ended]
      BY <1>1 DEF ChainInv, TypeOK, Alive, Setup, Early
    <2>3. fds' \in [Stage -> SUBSET Pipe]
      BY <1>1 DEF ChainInv, TypeOK
    <2> QED
      BY <2>1, <2>2, <2>3
      DEF ChainInv, TypeOK, ForkStage, ForkWith, line, wires, prog
  <1>3. ShellInv'
    BY DEF ChainInv, ShellInv, ForkStage, ForkWith, Goto
  <1>4. ForkInv'
    BY DEF ChainInv, TypeOK, ForkInv, ForkStage, ForkWith, Goto, Stage
  <1>5. ResultInv'
    BY DEF ChainInv, TypeOK, ResultInv, ForkStage, ForkWith, Goto, Stage
  <1>6. FdInv'
    BY DEF ChainInv, TypeOK, FdInv, ShellInv, ForkInv, ForkStage, ForkWith,
           Goto, Stage, Early
  <1>7. WireInv'
    BY DEF ChainInv, TypeOK, WireInv, ForkStage, ForkWith, Goto, Stage, wires,
           line, CmdIdx
  <1>8. RanInv'
    BY <1>1 DEF ChainInv, RanInv, ForkStage, ForkWith, prog, Ended
  <1>9. EofIsFinal'
    BY <1>1 DEF ChainInv, EofIsFinal, ForkStage, ForkWith, Stage, wires, line,
                CmdIdx, Silent, prog, Ended
  <1>10. SigpipeIsFinal'
    BY <1>1 DEF ChainInv, SigpipeIsFinal, ForkStage, ForkWith, Goto, Stage,
                wires, line, CmdIdx, Deaf, Ended
  <1> QED
    BY <1>2, <1>3, <1>4, <1>5, <1>6, <1>7, <1>8, <1>9, <1>10 DEF ChainInv

LEMMA WaitStageInv ==
  ASSUME ChainInv, WaitStage PROVE ChainInv'
  <1> USE PipeAssumption
  <1>1. i \in Stage /\ st' = [st EXCEPT ![i] = "reaped"]
    BY DEF ChainInv, TypeOK, WaitStage, WaitFor, Stage
  <1>2. TypeOK'
    <2>1. pc' \in ShellPc /\ i' \in 0 .. N
      BY DEF ChainInv, TypeOK, WaitStage, WaitFor, Goto, ShellPc
    <2>2. st' \in [Stage -> {"none"} \union Alive \union Ended]
      BY <1>1 DEF ChainInv, TypeOK, Ended
    <2> QED
      BY <1>1, <2>1, <2>2
      DEF ChainInv, TypeOK, WaitStage, WaitFor, line, wires, prog, child
  <1>3. ShellInv'
    BY DEF ChainInv, ShellInv, WaitStage, WaitFor, Goto
  <1>4. ForkInv'
    BY DEF ChainInv, TypeOK, ForkInv, WaitStage, WaitFor, Goto, Stage
  <1>5. ResultInv'
    BY DEF ChainInv, TypeOK, ResultInv, WaitStage, WaitFor, Goto, Stage
  <1>6. FdInv'
    BY SMTT(30) DEF ChainInv, TypeOK, FdInv, WaitStage, WaitFor, Stage, child, Early
  <1>7. WireInv'
    BY DEF ChainInv, TypeOK, WireInv, WaitStage, WaitFor, Stage, wires, line, CmdIdx
  <1>8. RanInv' /\ EofIsFinal'
    BY DEF ChainInv, TypeOK, RanInv, EofIsFinal, WaitStage, WaitFor, Stage, wires, line,
           CmdIdx, Silent, prog, Ended
  <1>9. SigpipeIsFinal'
    BY DEF ChainInv, TypeOK, ForkInv, SigpipeIsFinal, WaitStage, WaitFor, Goto, Stage, wires,
           line, CmdIdx, Deaf, Ended
  <1> QED
    BY <1>2, <1>3, <1>4, <1>5, <1>6, <1>7, <1>8, <1>9 DEF ChainInv

LEMMA WaitForkedInv ==
  ASSUME ChainInv, WaitForked PROVE ChainInv'
  <1> USE PipeAssumption
  <1>1. i \in Stage /\ st' = [st EXCEPT ![i] = "reaped"]
    BY DEF ChainInv, TypeOK, WaitForked, Stage
  <1>2. TypeOK'
    <2>1. pc' \in ShellPc /\ i' \in 0 .. N
      BY DEF ChainInv, TypeOK, WaitForked, Goto, ShellPc
    <2>2. st' \in [Stage -> {"none"} \union Alive \union Ended]
      BY <1>1 DEF ChainInv, TypeOK, Ended
    <2> QED
      BY <1>1, <2>1, <2>2
      DEF ChainInv, TypeOK, WaitForked, line, wires, prog, child
  <1>3. ShellInv'
    BY DEF ChainInv, ShellInv, WaitForked, Goto
  <1>4. ForkInv'
    BY SMTT(30) DEF ChainInv, TypeOK, ForkInv, WaitForked, Goto, Stage
  <1>5. ResultInv'
    BY DEF ChainInv, TypeOK, ResultInv, WaitForked, Goto, Stage
  <1>6. FdInv'
    BY SMTT(30) DEF ChainInv, TypeOK, FdInv, WaitForked, Stage, child, Early
  <1>7. WireInv'
    BY DEF ChainInv, TypeOK, WireInv, WaitForked, Stage, wires, line, CmdIdx
  <1>8. RanInv' /\ EofIsFinal'
    BY DEF ChainInv, TypeOK, RanInv, EofIsFinal, WaitForked, Stage, wires, line,
           CmdIdx, Silent, prog, Ended
  <1>9. SigpipeIsFinal'
    BY DEF ChainInv, TypeOK, ForkInv, SigpipeIsFinal, WaitForked, Goto, Stage, wires,
           line, CmdIdx, Deaf, Ended
  <1> QED
    BY <1>2, <1>3, <1>4, <1>5, <1>6, <1>7, <1>8, <1>9 DEF ChainInv

-----------------------------------------------------------------------------
(* The steps of the stages.                                                *)

\* A step of one living stage disturbs nothing that is said of the shell.
LEMMA StageMoves ==
  ASSUME ChainInv, UNCHANGED <<line, shell>>, NEW s \in Stage, st[s] \in Alive,
         \A t \in Stage : t # s => st'[t] = st[t] /\ status'[t] = status[t],
         st'[s] \in Alive \union {"zombie"}
  PROVE  ShellInv' /\ ForkInv' /\ ResultInv'
  <1>1. UNCHANGED <<pc, i, mine, result>>
    BY DEF shell
  <1>2. ShellInv'
    BY <1>1 DEF ShellInv, ChainInv
  <1>3. st[s] \notin {"none", "reaped"} /\ st'[s] \notin {"none", "reaped"}
    BY DEF Alive, Setup, Early
  <1>4. ForkInv'
    BY <1>1, <1>3 DEF ForkInv, ChainInv
  <1>5. pc # "done"
    BY <1>3 DEF ForkInv, ChainInv
  <1>6. pc = "wait" /\ i = N => s # N - 1
    BY PipeAssumption, <1>3 DEF ForkInv, ChainInv, Stage
  <1>7. pc \in {"unpipe", "failclose", "failwait"} => s # N - 1
    BY <1>3 DEF ResultInv, ChainInv
  <1>8. ResultInv'
    BY <1>1, <1>5, <1>6, <1>7, PipeAssumption DEF ResultInv, ChainInv, Stage
  <1> QED
    BY <1>2, <1>4, <1>8

\* How a living stage moves on, as far as its stdin and stdout go.
MovesOn(s) ==
    \/ st'[s] = "zombie"
    \/ st[s] = "redir_out" /\ st'[s] = "exec" /\ in'[s] = in[s]
    \/ st[s] = "exec" /\ st'[s] = "run" /\ in'[s] = in[s] /\ out'[s] = out[s]
    \/ st[s] \in Early \union {"redir_in"}
       /\ st'[s] \in {"close", "redir_in", "redir_out"}
    \/ st[s] = "run" /\ st'[s] = "run" /\ in'[s] = in[s] /\ out'[s] = out[s]

\* A stage that has given up a pipe does not get it back.
LEMMA GivenUp ==
  ASSUME ChainInv, UNCHANGED <<line, shell>>, NEW s \in Stage, MovesOn(s),
         \A t \in Stage : t # s =>
             st'[t] = st[t] /\ in'[t] = in[t] /\ out'[t] = out[t]
  PROVE  \A t \in Stage : (Silent(t) => Silent(t)') /\ (Deaf(t) => Deaf(t)')
  <1>1. UNCHANGED <<reverse, rin, rout>>
    BY DEF line
  <1> USE <1>1 DEF Silent, Deaf, Ended, CmdIdx
  <1>2. CASE st'[s] = "zombie"
    BY <1>2
  <1>3. CASE st[s] = "redir_out" /\ st'[s] = "exec" /\ in'[s] = in[s]
    BY <1>3
  <1>4. CASE st[s] = "exec" /\ st'[s] = "run" /\ in'[s] = in[s] /\ out'[s] = out[s]
    BY <1>4
  <1>5. CASE st[s] \in Early \union {"redir_in"}
             /\ st'[s] \in {"close", "redir_in", "redir_out"}
    BY <1>5 DEF Early
  <1>6. CASE st[s] = "run" /\ st'[s] = "run" /\ in'[s] = in[s] /\ out'[s] = out[s]
    BY <1>6
  <1> QED
    BY <1>2, <1>3, <1>4, <1>5, <1>6 DEF MovesOn

\* So what was final stays final.
LEMMA KeepsFinal ==
  ASSUME ChainInv, UNCHANGED <<line, shell>>, NEW s \in Stage, MovesOn(s),
         st[s] \in Alive,
         \A t \in Stage : t # s =>
             st'[t] = st[t] /\ in'[t] = in[t] /\ out'[t] = out[t]
  PROVE  /\ eof' = eof => EofIsFinal'
         /\ status' = status => SigpipeIsFinal'
  <1>1. \A t \in Stage : (Silent(t) => Silent(t)') /\ (Deaf(t) => Deaf(t)')
    BY GivenUp
  <1>2. eof' = eof => EofIsFinal'
    BY <1>1, PipeAssumption DEF ChainInv, EofIsFinal, Stage
  <1>3. \A t \in Stage : st[t] = "none" => st'[t] = "none"
    BY DEF Alive, Setup, Early
  <1>4. status' = status => SigpipeIsFinal'
    BY <1>1, <1>3, PipeAssumption DEF ChainInv, SigpipeIsFinal, Stage, shell
  <1> QED
    BY <1>2, <1>4

\* No reader is left: the next stage gave the pipe up or will never start.
LEMMA NoReader ==
  ASSUME ChainInv, NEW s \in Stage, s # N - 1, ~ HasReader(s)
  PROVE  Deaf(s + 1) \/ (st[s + 1] = "none" /\ pc \notin {"fork", "close", "wait"})
  <1>1. s + 1 \in Stage /\ s \in Pipe /\ (s + 1) - 1 = s /\ s # Term
    BY PipeAssumption DEF Stage, Pipe, Term
  <1>2. s \notin mine /\ in[s + 1] # s /\ s \notin fds[s + 1]
    BY <1>1 DEF HasReader, StageReads
  <1>3. CASE st[s + 1] = "none"
    <2>1. pc # "fork"
      BY <1>1, <1>2 DEF ChainInv, ShellInv
    <2>2. pc \notin {"close", "wait"}
      BY <1>1, <1>3 DEF ChainInv, ForkInv
    <2> QED
      BY <1>3, <2>1, <2>2
  <1>4. CASE st[s + 1] # "none"
    <2>1. st[s + 1] \notin {"dup", "close", "redir_in"}
      BY <1>1, <1>2 DEF ChainInv, FdInv, WireInv
    <2>2. st[s + 1] \in {"redir_out", "exec", "run"} \union Ended
      BY <1>1, <1>4, <2>1 DEF ChainInv, TypeOK, Alive, Setup, Early
    <2>3. in[s + 1] = Term
      BY <1>1, <1>2 DEF ChainInv, WireInv
    <2> QED
      BY <1>1, <1>2, <2>2, <2>3 DEF Deaf, ChainInv, WireInv
  <1> QED
    BY <1>3, <1>4

\* No writer is left: the previous stage gave the pipe up.
LEMMA NoWriter ==
  ASSUME ChainInv, NEW s \in Stage \ {0}, st[s] = "run", ~ HasWriter(s - 1)
  PROVE  Silent(s - 1)
  <1>1. s - 1 \in Stage /\ s - 1 \in Pipe /\ s - 1 # N - 1 /\ s - 1 =< s
    BY PipeAssumption DEF Stage, Pipe
  <1>2. s - 1 \notin mine /\ out[s - 1] # s - 1 /\ s - 1 \notin fds[s - 1]
    BY <1>1 DEF HasWriter, StageWrites
  <1>3. st[s - 1] # "none"
    BY <1>1 DEF ChainInv, ForkInv
  <1>4. st[s - 1] \notin {"dup", "close", "redir_in", "redir_out"}
    BY <1>1, <1>2 DEF ChainInv, FdInv, WireInv
  <1>5. st[s - 1] \in {"exec", "run"} \union Ended
    BY <1>1, <1>3, <1>4 DEF ChainInv, TypeOK, Alive, Setup, Early
  <1> QED
    BY <1>1, <1>2, <1>5 DEF Silent, ChainInv, WireInv

\* A process that ends, by itself or by a SIGPIPE, closes what it has open.
LEMMA EndsInv ==
  ASSUME ChainInv, NEW s \in Stage, st[s] \in Alive,
         NEW code \in {-1, 0, 1, 123}, Ends(s, code),
         code = -1 /\ s # N - 1 => ~ HasReader(s)
  PROVE  ChainInv'
  <1> USE PipeAssumption DEF Ends
  <1>1. /\ st'[s] = "zombie" /\ \A t \in Stage \ {s} : st'[t] = st[t]
        /\ in'[s] = Term /\ out'[s] = Term /\ fds'[s] = {} /\ status'[s] = code
        /\ \A t \in Stage \ {s} : /\ in'[t] = in[t] /\ out'[t] = out[t]
                                  /\ fds'[t] = fds[t] /\ status'[t] = status[t]
    BY DEF ChainInv, TypeOK
  <1>2. TypeOK'
    <2>1. st' \in [Stage -> {"none"} \union Alive \union Ended]
      BY DEF ChainInv, TypeOK, Ended
    <2> QED
      BY <2>1 DEF ChainInv, TypeOK, line, shell, prog
  <1>3. ShellInv' /\ ForkInv' /\ ResultInv'
    BY <1>1, StageMoves
  <1>4. FdInv'
    BY <1>1 DEF ChainInv, FdInv, Early
  <1>5. WireInv'
    BY <1>1 DEF ChainInv, WireInv, line, CmdIdx
  <1>6. RanInv'
    BY <1>1 DEF ChainInv, RanInv, prog, Ended
  <1>7. \A t \in Stage : (Silent(t) => Silent(t)') /\ (Deaf(t) => Deaf(t)')
    BY <1>1, GivenUp DEF MovesOn
  <1>8. EofIsFinal'
    BY <1>7 DEF ChainInv, EofIsFinal, Stage, prog
  <1>9. SigpipeIsFinal'
    <2> SUFFICES ASSUME NEW t \in Stage \ {N - 1}, status'[t] = -1
                 PROVE  \/ Deaf(t + 1)'
                        \/ (st[t + 1] = "none" /\ pc \notin {"fork", "close", "wait"})'
      BY DEF SigpipeIsFinal
    <2>1. t + 1 \in Stage
      BY DEF Stage
    <2>2. \/ Deaf(t + 1)
          \/ st[t + 1] = "none" /\ pc \notin {"fork", "close", "wait"}
      <3>1. CASE t = s
        BY <1>1, <3>1, NoReader
      <3>2. CASE t # s
        BY <1>1, <3>2 DEF ChainInv, SigpipeIsFinal
      <3> QED
        BY <3>1, <3>2
    <2>3. st[t + 1] = "none" => st'[t + 1] = "none"
      BY <1>1, <2>1 DEF Alive, Setup, Early
    <2> QED
      BY <1>7, <2>1, <2>2, <2>3 DEF shell
  <1> QED
    BY <1>2, <1>3, <1>4, <1>5, <1>6, <1>8, <1>9 DEF ChainInv

LEMMA WireStep ==
  ASSUME ChainInv, NEW s \in Stage, Wire(s) PROVE ChainInv'
  <1> USE PipeAssumption
  <1>0. /\ fds[s] = Pipe
        /\ s > 0 => s - 1 \in Pipe
        /\ s # N - 1 => s \in Pipe /\ s < N - 1
    BY DEF ChainInv, FdInv, Wire, Stage, Pipe
  <1>1. /\ st[s] = "dup" /\ st'[s] = "close" /\ st' = [st EXCEPT ![s] = "close"]
        /\ \A t \in Stage \ {s} : st'[t] = st[t] /\ in'[t] = in[t] /\ out'[t] = out[t]
    BY DEF ChainInv, TypeOK, Wire, Plug
  <1>a. in'[s] = IF s > 0 THEN s - 1 ELSE Term
    BY <1>0 DEF ChainInv, TypeOK, Wire, Plug
  <1>b. out'[s] = IF s # N - 1 THEN s ELSE Term
    BY <1>0 DEF ChainInv, TypeOK, Wire, Plug, Stage
  <1>2. UNCHANGED <<line, shell, child, status, prog>>
    BY DEF Wire, Plug
  <1>3. TypeOK'
    <2>1. st' \in [Stage -> {"none"} \union Alive \union Ended]
      BY <1>1 DEF ChainInv, TypeOK, Alive, Setup, Early
    <2>2. \A t \in Stage : in'[t] \in Pipe \union {Term} /\ out'[t] \in Pipe \union {Term}
      BY <1>0, <1>1, <1>a, <1>b DEF ChainInv, TypeOK
    <2>3. /\ in' \in [Stage -> Pipe \union {Term}]
          /\ out' \in [Stage -> Pipe \union {Term}]
      BY <2>2 DEF ChainInv, TypeOK, Wire, Plug
    <2> QED
      BY <1>2, <2>1, <2>3 DEF ChainInv, TypeOK, line, shell, child, prog
  <1>4. ShellInv' /\ ForkInv' /\ ResultInv'
    BY <1>1, <1>2, StageMoves DEF Alive, Setup, Early
  <1>5. FdInv'
    BY <1>0, <1>1, <1>2 DEF ChainInv, FdInv, Early, child, Pipe
  <1>6. WireInv'
    BY <1>1, <1>2, <1>a, <1>b DEF ChainInv, WireInv, line, CmdIdx, Term, Stage
  <1>7. RanInv'
    BY <1>1, <1>2 DEF ChainInv, RanInv, Ended, prog
  <1>8. EofIsFinal' /\ SigpipeIsFinal'
    BY <1>1, <1>2, KeepsFinal DEF MovesOn, prog, Alive, Setup, Early
  <1> QED
    BY <1>3, <1>4, <1>5, <1>6, <1>7, <1>8 DEF ChainInv

LEMMA ClosePipeStep ==
  ASSUME ChainInv, NEW s \in Stage, ClosePipe(s) PROVE ChainInv'
  <1> USE PipeAssumption DEF ClosePipe, CloseUpTo
  <1>1. /\ st[s] = "close" /\ st'[s] \in {"close", "redir_in"}
        /\ \A t \in Stage \ {s} : st'[t] = st[t]
        /\ in' = in /\ out' = out
    BY DEF ChainInv, TypeOK, wires
  <1>2. TypeOK'
    <2>1. st' \in [Stage -> {"none"} \union Alive \union Ended]
      BY DEF ChainInv, TypeOK, Alive, Setup
    <2>2. fds' \in [Stage -> SUBSET Pipe]
      BY DEF ChainInv, TypeOK, child
    <2>3. at' \in [Stage -> 0 .. N - 1]
      BY DEF ChainInv, TypeOK, child
    <2> QED
      BY <2>1, <2>2, <2>3 DEF ChainInv, TypeOK, line, shell, wires, prog
  <1>3. ShellInv' /\ ForkInv' /\ ResultInv'
    BY <1>1, StageMoves DEF Alive, Setup, Early
  <1>4. FdInv'
    <2>1. CASE at[s] < N - 1
      <3>1. /\ st' = st /\ at'[s] = at[s] + 1 /\ fds'[s] = fds[s] \ {at[s]}
            /\ \A t \in Stage \ {s} : at'[t] = at[t] /\ fds'[t] = fds[t]
        BY <2>1 DEF ChainInv, TypeOK
      <3>2. \A p \in fds'[s] : p >= at'[s]
        BY <1>1, <3>1 DEF ChainInv, TypeOK, FdInv, Pipe
      <3> QED
        BY <1>1, <3>1, <3>2 DEF ChainInv, FdInv, Early
    <2>2. CASE ~ (at[s] < N - 1)
      <3>1. st' = [st EXCEPT ![s] = "redir_in"] /\ fds' = fds /\ at' = at
        BY <2>2 DEF child
      <3>2. fds[s] = {}
        BY <1>1, <2>2 DEF ChainInv, TypeOK, FdInv, Pipe
      <3> QED
        BY <1>1, <3>1, <3>2 DEF ChainInv, TypeOK, FdInv, Early
    <2> QED
      BY <2>1, <2>2
  <1>5. WireInv'
    BY <1>1 DEF ChainInv, WireInv, line, CmdIdx
  <1>6. RanInv'
    BY <1>1 DEF ChainInv, RanInv, Ended, prog
  <1>7. EofIsFinal' /\ SigpipeIsFinal'
    BY <1>1, KeepsFinal DEF MovesOn, prog, Alive, Setup, Early
  <1> QED
    BY <1>2, <1>3, <1>4, <1>5, <1>6, <1>7 DEF ChainInv

LEMMA RedirectInStep ==
  ASSUME ChainInv, NEW s \in Stage, RedirectIn(s) PROVE ChainInv'
  <1> USE PipeAssumption
  <1>1. CASE Ends(s, 1)
    BY <1>1, EndsInv DEF RedirectIn, Alive, Setup
  <1>2. CASE ~ Ends(s, 1)
    <2>1. /\ st[s] = "redir_in" /\ st'[s] = "redir_out" /\ st' = [st EXCEPT ![s] = "redir_out"]
          /\ CmdIdx(s) \notin rin => in' = in
          /\ CmdIdx(s) \in rin => in' = [in EXCEPT ![s] = Term]
          /\ \A t \in Stage \ {s} : st'[t] = st[t] /\ in'[t] = in[t]
          /\ out' = out
      BY <1>2 DEF ChainInv, TypeOK, RedirectIn
    <2>2. UNCHANGED <<line, shell, child, status, prog>>
      BY <1>2 DEF RedirectIn
    <2>3. TypeOK'
      <3>1. st' \in [Stage -> {"none"} \union Alive \union Ended]
        BY <2>1 DEF ChainInv, TypeOK, Alive, Setup
      <3>2. in' \in [Stage -> Pipe \union {Term}]
        BY <2>1 DEF ChainInv, TypeOK
      <3> QED
        BY <2>1, <2>2, <3>1, <3>2 DEF ChainInv, TypeOK, line, shell, child, prog
    <2>4. ShellInv' /\ ForkInv' /\ ResultInv'
      BY <2>1, <2>2, StageMoves DEF Alive, Setup
    <2>5. FdInv'
      BY <2>1, <2>2 DEF ChainInv, FdInv, Early, child
    <2>6. WireInv'
      BY <2>1, <2>2 DEF ChainInv, TypeOK, WireInv, line, CmdIdx
    <2>7. RanInv'
      BY <2>1, <2>2 DEF ChainInv, RanInv, Ended, prog
    <2>8. EofIsFinal' /\ SigpipeIsFinal'
      BY <2>1, <2>2, KeepsFinal DEF MovesOn, prog, Alive, Setup
    <2> QED
      BY <2>3, <2>4, <2>5, <2>6, <2>7, <2>8 DEF ChainInv
  <1> QED
    BY <1>1, <1>2

LEMMA RedirectOutStep ==
  ASSUME ChainInv, NEW s \in Stage, RedirectOut(s) PROVE ChainInv'
  <1> USE PipeAssumption
  <1>1. CASE Ends(s, 1)
    BY <1>1, EndsInv DEF RedirectOut, Alive, Setup
  <1>2. CASE ~ Ends(s, 1)
    <2>1. /\ st[s] = "redir_out" /\ st'[s] = "exec" /\ st' = [st EXCEPT ![s] = "exec"]
          /\ CmdIdx(s) \notin rout => out' = out
          /\ CmdIdx(s) \in rout => out' = [out EXCEPT ![s] = Term]
          /\ \A t \in Stage \ {s} : st'[t] = st[t] /\ out'[t] = out[t]
          /\ in' = in
      BY <1>2 DEF ChainInv, TypeOK, RedirectOut
    <2>2. UNCHANGED <<line, shell, child, status, prog>>
      BY <1>2 DEF RedirectOut
    <2>3. TypeOK'
      <3>1. st' \in [Stage -> {"none"} \union Alive \union Ended]
        BY <2>1 DEF ChainInv, TypeOK, Alive, Setup
      <3>2. out' \in [Stage -> Pipe \union {Term}]
        BY <2>1 DEF ChainInv, TypeOK
      <3> QED
        BY <2>1, <2>2, <3>1, <3>2 DEF ChainInv, TypeOK, line, shell, child, prog
    <2>4. ShellInv' /\ ForkInv' /\ ResultInv'
      BY <2>1, <2>2, StageMoves DEF Alive, Setup
    <2>5. FdInv'
      BY <2>1, <2>2 DEF ChainInv, FdInv, Early, child
    <2>6. WireInv'
      BY <2>1, <2>2 DEF ChainInv, TypeOK, WireInv, line, CmdIdx
    <2>7. RanInv'
      BY <2>1, <2>2 DEF ChainInv, RanInv, Ended, prog
    <2>8. EofIsFinal' /\ SigpipeIsFinal'
      BY <2>1, <2>2, KeepsFinal DEF MovesOn, prog, Alive, Setup
    <2> QED
      BY <2>3, <2>4, <2>5, <2>6, <2>7, <2>8 DEF ChainInv
  <1> QED
    BY <1>1, <1>2

LEMMA ExecStep ==
  ASSUME ChainInv, NEW s \in Stage, Exec(s) PROVE ChainInv'
  <1> USE PipeAssumption
  <1>1. CASE Ends(s, 123)
    BY <1>1, EndsInv DEF Exec, Alive, Setup
  <1>2. CASE ~ Ends(s, 123)
    <2>1. /\ st[s] = "exec" /\ st'[s] = "run" /\ st' = [st EXCEPT ![s] = "run"]
          /\ \A t \in Stage \ {s} : st'[t] = st[t]
          /\ in' = in /\ out' = out
      BY <1>2 DEF ChainInv, TypeOK, Exec, wires
    <2>2. /\ UNCHANGED <<line, shell, child, status, buf, eof>>
          /\ todo' = [todo EXCEPT ![s] = IF in[s] = Term THEN Lines ELSE 0]
      BY <1>2 DEF Exec
    <2>3. TypeOK'
      <3>1. st' \in [Stage -> {"none"} \union Alive \union Ended]
        BY <2>1 DEF ChainInv, TypeOK, Alive
      <3>2. todo' \in [Stage -> Nat]
        BY <2>2 DEF ChainInv, TypeOK
      <3> QED
        BY <2>1, <2>2, <3>1, <3>2 DEF ChainInv, TypeOK, line, shell, child
    <2>4. ShellInv' /\ ForkInv' /\ ResultInv'
      BY <2>1, <2>2, StageMoves DEF Alive, Setup
    <2>5. FdInv'
      BY <2>1, <2>2 DEF ChainInv, FdInv, Early, child
    <2>6. WireInv'
      BY <2>1, <2>2 DEF ChainInv, WireInv, line, CmdIdx
    <2>7. RanInv'
      BY <2>1, <2>2 DEF ChainInv, RanInv, Ended
    <2>8. EofIsFinal' /\ SigpipeIsFinal'
      BY <2>1, <2>2, KeepsFinal DEF MovesOn, Alive, Setup
    <2> QED
      BY <2>3, <2>4, <2>5, <2>6, <2>7, <2>8 DEF ChainInv
  <1> QED
    BY <1>1, <1>2

\* Data moves and nothing else: a write or a read.
LEMMA DataStep ==
  ASSUME ChainInv, NEW s \in Stage, st[s] = "run",
         UNCHANGED <<line, shell, st, child, wires, status, eof>>,
         todo' \in [Stage -> Nat], buf' \in [Pipe -> 0 .. Cap]
  PROVE  ChainInv'
  <1>1. TypeOK'
    BY DEF ChainInv, TypeOK, line, shell, child, wires
  <1>2. ShellInv' /\ ForkInv' /\ ResultInv'
    BY DEF ChainInv, ShellInv, ForkInv, ResultInv, shell
  <1>3. FdInv' /\ WireInv' /\ RanInv'
    BY DEF ChainInv, FdInv, WireInv, RanInv, child, wires, line, CmdIdx
  <1>4. EofIsFinal' /\ SigpipeIsFinal'
    BY DEF ChainInv, EofIsFinal, SigpipeIsFinal, Silent, Deaf, line, shell,
           wires, CmdIdx
  <1> QED
    BY <1>1, <1>2, <1>3, <1>4 DEF ChainInv

LEMMA WriteStep ==
  ASSUME ChainInv, NEW s \in Stage, Write(s) PROVE ChainInv'
  <1> USE PipeAssumption
  <1>1. todo' \in [Stage -> Nat]
    <2>1. todo[s] - 1 \in Nat
      BY DEF ChainInv, TypeOK, Write
    <2> QED
      BY <2>1 DEF ChainInv, TypeOK, Write
  <1>2. buf' \in [Pipe -> 0 .. Cap]
    BY DEF ChainInv, TypeOK, Write
  <1> QED
    BY <1>1, <1>2, DataStep DEF Write

LEMMA ReadStep ==
  ASSUME ChainInv, NEW s \in Stage, Read(s) PROVE ChainInv'
  <1> USE PipeAssumption
  <1>1. todo' \in [Stage -> Nat]
    BY DEF ChainInv, TypeOK, Read
  <1>2. buf' \in [Pipe -> 0 .. Cap]
    BY DEF ChainInv, TypeOK, Read
  <1> QED
    BY <1>1, <1>2, DataStep DEF Read

\* End-of-file reaches a stage when the stage before it is silent.
LEMMA ReadEofStep ==
  ASSUME ChainInv, NEW s \in Stage, ReadEof(s) PROVE ChainInv'
  <1> USE PipeAssumption
  <1>1. UNCHANGED <<line, shell, st, child, wires, status, buf, todo>>
    BY DEF ReadEof
  <1>2. TypeOK'
    BY <1>1 DEF ChainInv, TypeOK, ReadEof, line, shell, child, wires
  <1>3. ShellInv' /\ ForkInv' /\ ResultInv'
    BY <1>1 DEF ChainInv, ShellInv, ForkInv, ResultInv, shell
  <1>4. FdInv' /\ WireInv'
    BY <1>1 DEF ChainInv, FdInv, WireInv, child, wires, line, CmdIdx
  <1>5. RanInv'
    BY <1>1 DEF ChainInv, TypeOK, RanInv, ReadEof
  <1>6. SigpipeIsFinal'
    BY <1>1 DEF ChainInv, SigpipeIsFinal, Deaf, line, shell, wires, CmdIdx
  <1>7. EofIsFinal'
    <2>1. s \in Stage \ {0} /\ in[s] = s - 1
      BY DEF ChainInv, WireInv, ReadEof, Term, Stage
    <2>2. Silent(s - 1)
      BY <2>1, NoWriter DEF ReadEof
    <2>3. \A t \in Stage \ {0} : eof'[t] => Silent(t - 1)
      BY <2>2 DEF ChainInv, TypeOK, EofIsFinal, ReadEof
    <2>4. \A t \in Stage : Silent(t) => Silent(t)'
      BY <1>1 DEF Silent, line, wires, CmdIdx
    <2> QED
      BY <2>3, <2>4 DEF EofIsFinal, Stage
  <1> QED
    BY <1>2, <1>3, <1>4, <1>5, <1>6, <1>7 DEF ChainInv

LEMMA ProgramEnds ==
  ASSUME ChainInv, NEW s \in Stage, BrokenPipe(s) \/ Exit(s) \/ Quit(s)
  PROVE  ChainInv'
  <1>1. st[s] \in Alive
    BY DEF BrokenPipe, Exit, Quit, Alive
  <1>2. CASE BrokenPipe(s)
    <2>1. Ends(s, -1) /\ ~ HasReader(s)
      BY <1>2 DEF BrokenPipe, ChainInv, WireInv
    <2> QED
      BY <1>1, <2>1, EndsInv
  <1>3. CASE Exit(s) \/ Quit(s)
    <2>1. PICK code \in {0, 1} : Ends(s, code)
      BY <1>3 DEF Exit, Quit, Codes
    <2> QED
      BY <1>1, <2>1, EndsInv
  <1> QED
    BY <1>2, <1>3
-----------------------------------------------------------------------------
\* ChainInv is inductive.
LEMMA InvStep == ChainInv /\ [Next]_vars => ChainInv'
  <1> SUFFICES ASSUME ChainInv, [Next]_vars PROVE ChainInv'
    OBVIOUS
  <1>1. CASE Shell
    BY <1>1, MakePipeInv, AllPipedInv, UnpipeInv, ForkStageInv, ForkFailsInv,
       AllForkedInv, CloseNextInv, WaitStageInv, WaitForkedInv, ReturnInv
    DEF Shell
  <1>2. ASSUME NEW s \in Stage, Child(s) PROVE ChainInv'
    BY <1>2, WireStep, ClosePipeStep, RedirectInStep, RedirectOutStep, ExecStep
    DEF Child
  <1>3. ASSUME NEW s \in Stage, Program(s) \/ Quit(s) PROVE ChainInv'
    BY <1>3, WriteStep, ReadStep, ReadEofStep, ProgramEnds DEF Program
  <1>4. CASE UNCHANGED vars
    BY <1>4 DEF vars, line, shell, child, wires, prog, ChainInv, TypeOK,
         ShellInv, ForkInv, ResultInv, FdInv, WireInv, RanInv, EofIsFinal,
         SigpipeIsFinal, Silent, Deaf, CmdIdx
  <1> QED
    BY <1>1, <1>2, <1>3, <1>4 DEF Next

LEMMA ChainInvariant == Spec => []ChainInv
  BY InitInv, InvStep, PTL DEF Spec

\* Every variable of run_pipe, its children and its pipes keeps its type: the
\* loops of src/A3/A3.c stay inside pipes[] and pids[], whatever the length.
THEOREM PipeTypeCorrect == Spec => []TypeOK
  <1>1. ChainInv => TypeOK
    BY DEF ChainInv
  <1> QED
    BY <1>1, ChainInvariant, PTL

\* A stage reads end-of-file only from a stage that has ended or writes
\* elsewhere, in a chain of any length.
THEOREM EofCorrect == Spec => []EofIsFinal
  <1>1. ChainInv => EofIsFinal
    BY DEF ChainInv
  <1> QED
    BY <1>1, ChainInvariant, PTL

\* A stage is killed by SIGPIPE only when its reader is gone for good.
THEOREM SigpipeCorrect == Spec => []SigpipeIsFinal
  <1>1. ChainInv => SigpipeIsFinal
    BY DEF ChainInv
  <1> QED
    BY <1>1, ChainInvariant, PTL

\* A running program holds its own two ends and no other pipe.
THEOREM OwnPipes == Spec => []OwnPipesOnly
  <1>1. ChainInv => OwnPipesOnly
    BY DEF ChainInv, FdInv, WireInv, OwnPipesOnly, StageWrites, StageReads,
           Early, Pipe, Term
  <1> QED
    BY <1>1, ChainInvariant, PTL

\* run_pipe leaves no pipe open and no child unwaited for, on every path.
THEOREM NothingIsLeft == Spec => []NothingLeft
  <1>1. ChainInv => NothingLeft
    BY DEF ChainInv, ShellInv, ForkInv, NothingLeft
  <1> QED
    BY <1>1, ChainInvariant, PTL

\* run_pipe returns the status of the command that runs last.
THEOREM ResultCorrect == Spec => []ResultOfLastCommand
  <1>1. ASSUME ChainInv PROVE ResultOfLastCommand
    <2> SUFFICES ASSUME pc = "done" PROVE ResultOfLastCommand
      BY DEF ResultOfLastCommand
    <2>1. N - 1 \in Stage
      BY PipeAssumption DEF Stage
    <2>2. CASE st[N - 1] = "none" /\ result = -1
      BY <2>1, <2>2 DEF ResultOfLastCommand
    <2>3. CASE st[N - 1] = "reaped" /\ result = status[N - 1]
      <3>1. \A s \in Stage : st[s] = "reaped"
        BY <1>1, <2>1, <2>3 DEF ChainInv, ForkInv, Stage
      <3>2. \A s \in Stage : CmdIdx(s) = (IF reverse THEN 0 ELSE N - 1) => s = N - 1
        BY PipeAssumption DEF CmdIdx, Stage
      <3> QED
        BY <2>3, <3>1, <3>2 DEF ResultOfLastCommand
    <2> QED
      BY <1>1, <2>2, <2>3 DEF ChainInv, ResultInv
  <1> QED
    BY <1>1, ChainInvariant, PTL
=============================================================================
