---------------------------- MODULE BgJobsProofs ----------------------------
(* Proofs about BgJobs, for any set of pids and any capacities.            *)
EXTENDS BgJobs, FunctionTheorems, FiniteSetTheorems, TLAPS

\* An index shows that there is an entry.
LEMMA OneOrMore ==
  ASSUME NEW n \in Nat, NEW k \in 1..n
  PROVE  n = 1 \/ n > 1
  OBVIOUS

-----------------------------------------------------------------------------
(* What the two operations on the array do.                                *)

\* ShiftDown, the loop of bg_remove_at, yields a shorter sequence of pids.
LEMMA ShiftDownType ==
  ASSUME NEW s \in Seq(Pid), NEW idx \in 1..Len(s)
  PROVE  /\ ShiftDown(s, idx) \in Seq(Pid)
         /\ Len(ShiftDown(s, idx)) = Len(s) - 1
         /\ \A k \in 1..(Len(s) - 1) :
              ShiftDown(s, idx)[k] = IF k < idx THEN s[k] ELSE s[k + 1]
  BY DEF ShiftDown

\* It removes entry idx and nothing else.
LEMMA ShiftDownKeeps ==
  ASSUME NEW s \in Seq(Pid), NEW idx \in 1..Len(s),
         NEW k \in 1..Len(s), k # idx
  PROVE  \E m \in 1..(Len(s) - 1) : ShiftDown(s, idx)[m] = s[k]
  <1>1. CASE k < idx
    <2>1. k \in 1..(Len(s) - 1)
      BY <1>1
    <2>2. ShiftDown(s, idx)[k] = s[k]
      BY <1>1, <2>1, ShiftDownType
    <2> QED
      BY <2>1, <2>2
  <1>2. CASE k > idx
    <2>1. k - 1 \in 1..(Len(s) - 1) /\ ~(k - 1 < idx) /\ (k - 1) + 1 = k
      BY <1>2
    <2>2. ShiftDown(s, idx)[k - 1] = s[k]
      BY <2>1, ShiftDownType
    <2> QED
      BY <2>1, <2>2
  <1> QED
    BY <1>1, <1>2

\* One removal keeps the types of the three variables of the table, whatever
\* the process table does.
LEMMA RemoveType ==
  ASSUME TypeOK, NEW idx \in 1..Len(bg_pids), bg_remove_at(idx)
  PROVE  /\ bg_pids' \in Seq(Pid)
         /\ Len(bg_pids') = Len(bg_pids) - 1
         /\ last_bg_pid' \in Pid \cup {NoPid}
         /\ last_stopped_pid' \in Pid \cup {NoPid}
  <1>1. /\ bg_pids' \in Seq(Pid)
        /\ Len(bg_pids') = Len(bg_pids) - 1
    BY ShiftDownType DEF TypeOK, bg_remove_at
  <1>2. Len(bg_pids) > 1 => bg_pids'[Len(bg_pids) - 1] \in Pid
    BY <1>1 DEF TypeOK
  <1> QED
    BY <1>1, <1>2 DEF TypeOK, bg_remove_at

\* A signal leaves a process in one of the states of the model.
LEMMA KillType ==
  ASSUME TypeOK, NEW ps, NEW sig, Kill(ps, sig)
  PROVE  proc' \in [Pid -> ProcState]
  BY DEF TypeOK, Kill, Signalled, ProcState, OwnState, StrangerState

-----------------------------------------------------------------------------
(* Types.                                                                  *)

\* Every variable keeps its type; in particular bg_pids never outgrows
\* MAX_BG and bg_reap's index stays within the array.
THEOREM TypeCorrect == Spec => []TypeOK
  <1>1. Init => TypeOK
    BY BgAssumption DEF Init, TypeOK, ProcState, OwnState, StrangerState, Pc
  <1>2. TypeOK /\ [Next]_vars => TypeOK'
    <2> SUFFICES ASSUME TypeOK, [Next]_vars
                 PROVE  TypeOK'
      OBVIOUS
    <2> USE BgAssumption DEF Pc
    <2>1. CASE bg_reap
      <3>1. i \in 1..Len(bg_pids)
        BY <2>1 DEF bg_reap, TypeOK
      <3>2. CASE proc[bg_pids[i]] \in {"run", "stop"}
        BY <2>1, <3>1, <3>2 DEF bg_reap, TypeOK, table
      <3>3. CASE proc[bg_pids[i]] \notin {"run", "stop"}
        <4>1. bg_remove_at(i) /\ i' = i
          BY <2>1, <3>3 DEF bg_reap
        <4>2. proc' \in [Pid -> ProcState]
          BY <2>1, <3>1, <3>3 DEF bg_reap, TypeOK, ProcState
        <4> QED
          BY <2>1, <3>1, <4>1, <4>2, RemoveType DEF bg_reap, TypeOK
      <3> QED
        BY <3>2, <3>3
    <2>2. CASE Prompt \/ BadLine \/ ReadLine \/ EndOfInput \/ killmb
      BY <2>2 DEF Prompt, BadLine, ReadLine, EndOfInput, killmb, TypeOK, table
    <2>3. CASE ForkFails \/ OtherBuiltin \/ numbg \/ contFails
      BY <2>3 DEF ForkFails, OtherBuiltin, numbg, contFails, Finish, TypeOK, table
    <2>4. CASE FgEnds
      BY <2>4 DEF FgEnds, Finish, TypeOK, table, ProcState
    <2>5. ASSUME NEW p \in Pid, RunBg(p)
          PROVE  TypeOK'
      <3>1. /\ bg_pids' \in Seq(Pid) /\ Len(bg_pids') <= MaxBg
            /\ last_bg_pid' \in Pid \cup {NoPid}
        BY <2>5 DEF RunBg, bg_add, TypeOK
      <3> QED
        BY <2>5, <3>1 DEF RunBg, Finish, TypeOK, ProcState, OwnState
    <2>6. ASSUME NEW p \in Pid, RunFg(p)
          PROVE  TypeOK'
      BY <2>6 DEF RunFg, TypeOK, table, ProcState, OwnState
    <2>7. CASE pstop
      <3>1. proc' \in [Pid -> ProcState]
        BY <2>7, KillType DEF pstop, TypeOK
      <3> QED
        BY <2>7, <3>1 DEF pstop, Finish, TypeOK, table
    <2>8. CASE cont
      <3>1. proc' \in [Pid -> ProcState]
        BY <2>8, KillType DEF cont
      <3> QED
        BY <2>8, <3>1 DEF cont, TypeOK, table
    <2>9. CASE contReturns
      <3>1. proc' \in [Pid -> ProcState]
        BY <2>9 DEF contReturns, TypeOK, ProcState
      <3> QED
        BY <2>9, <3>1 DEF contReturns, Finish, TypeOK
    <2>10. CASE killbp
      <3>1. proc' \in [Pid -> ProcState]
        BY <2>10, KillType DEF killbp
      <3> QED
        <4>1. bg_pids' \in Seq(Pid) /\ Len(bg_pids') <= MaxBg
          BY <2>10 DEF killbp
        <4> QED
          BY <2>10, <3>1, <4>1 DEF killbp, Finish, TypeOK
    <2>11. CASE Environment
      BY <2>11 DEF Environment, ProcessEnds, StrangerStarts, StrangerEnds,
                   TypeOK, table, ProcState, OwnState, StrangerState
    <2>12. CASE Rest \/ UNCHANGED vars
      BY <2>12 DEF Rest, vars, TypeOK
    <2> QED
      BY <2>1, <2>2, <2>3, <2>4, <2>5, <2>6, <2>7, <2>8, <2>9, <2>10, <2>11,
         <2>12 DEF Next, Shell
  <1> QED
    BY <1>1, <1>2, PTL DEF Spec

-----------------------------------------------------------------------------
(* The two remembered pids.                                                *)

\* pstop's target is the last entry of the table.  The only two places that
\* write last_bg_pid, bg_add and bg_remove_at, write the new last entry.
THEOREM LastBgCorrect == Spec => []LastBgIsTail
  <1>1. Init => LastBgIsTail
    BY DEF Init, LastBgIsTail
  <1>2. TypeOK /\ LastBgIsTail /\ [Next]_vars => LastBgIsTail'
    <2> SUFFICES ASSUME TypeOK, LastBgIsTail, [Next]_vars
                 PROVE  LastBgIsTail'
      OBVIOUS
    <2> USE DEF LastBgIsTail
    <2>1. CASE bg_reap /\ bg_remove_at(i)
      <3>1. i \in 1..Len(bg_pids) /\ bg_pids \in Seq(Pid)
        BY <2>1 DEF bg_reap, TypeOK
      <3>2. /\ bg_pids' \in Seq(Pid)
            /\ Len(bg_pids') = Len(bg_pids) - 1
            /\ \A k \in 1..(Len(bg_pids) - 1) :
                 bg_pids'[k] = IF k < i THEN bg_pids[k] ELSE bg_pids[k + 1]
        BY <2>1, <3>1, ShiftDownType DEF bg_remove_at
      <3>3. CASE Len(bg_pids) = 1
        BY <2>1, <3>1, <3>2, <3>3 DEF bg_remove_at
      <3>4. CASE Len(bg_pids) > 1 /\ bg_pids[i] = last_bg_pid
        BY <2>1, <3>1, <3>2, <3>4 DEF bg_remove_at
      <3>5. CASE Len(bg_pids) > 1 /\ bg_pids[i] # last_bg_pid
        <4>1. i # Len(bg_pids) /\ last_bg_pid' = bg_pids[Len(bg_pids)]
          BY <2>1, <3>1, <3>5 DEF bg_remove_at
        <4>2. bg_pids'[Len(bg_pids) - 1] = bg_pids[Len(bg_pids)]
          BY <3>1, <3>2, <3>5, <4>1
        <4> QED
          BY <3>2, <3>5, <4>1, <4>2
      <3>6. Len(bg_pids) = 1 \/ Len(bg_pids) > 1
        <4>1. Len(bg_pids) \in Nat
          BY <3>1
        <4> QED
          BY <3>1, <4>1, OneOrMore
      <3> QED
        BY <3>3, <3>4, <3>5, <3>6
    <2>2. CASE bg_reap /\ UNCHANGED table
      BY <2>2 DEF table
    <2>3. ASSUME NEW p \in Pid, RunBg(p)
          PROVE  LastBgIsTail'
      BY <2>3 DEF RunBg, bg_add, TypeOK
    <2>4. CASE killbp
      BY <2>4 DEF killbp
    <2>5. CASE UNCHANGED <<bg_pids, last_bg_pid>>
      BY <2>5
    <2>6. ASSUME NEW p \in Pid, RunFg(p)
          PROVE  UNCHANGED <<bg_pids, last_bg_pid>>
      BY <2>6 DEF RunFg, table
    <2>7. bg_reap => (bg_reap /\ bg_remove_at(i)) \/ (bg_reap /\ UNCHANGED table)
      BY DEF bg_reap
    <2>8. \/ Prompt \/ BadLine \/ ReadLine \/ EndOfInput \/ ForkFails \/ FgEnds
          \/ OtherBuiltin \/ killmb \/ pstop \/ cont \/ contFails \/ contReturns
          \/ numbg \/ Environment \/ Rest \/ UNCHANGED vars
          => UNCHANGED <<bg_pids, last_bg_pid>>
      BY DEF Prompt, BadLine, ReadLine, EndOfInput, ForkFails, FgEnds,
             OtherBuiltin, killmb, pstop, cont, contFails, contReturns, numbg,
             Environment, ProcessEnds, StrangerStarts, StrangerEnds, Rest,
             vars, table
    <2> QED
      BY <2>1, <2>2, <2>3, <2>4, <2>5, <2>6, <2>7, <2>8 DEF Next, Shell
  <1> QED
    BY <1>1, <1>2, TypeCorrect, PTL DEF Spec

\* cont's target is listed: every removal of its entry forgets it too.
THEOREM LastStoppedCorrect == Spec => []LastStoppedIsListed
  <1>1. Init => LastStoppedIsListed
    BY DEF Init, LastStoppedIsListed
  <1>2. TypeOK /\ LastStoppedIsListed /\ [Next]_vars => LastStoppedIsListed'
    <2> SUFFICES ASSUME TypeOK, LastStoppedIsListed, [Next]_vars,
                        last_stopped_pid' # NoPid
                 PROVE  \E m \in 1..Len(bg_pids') : bg_pids'[m] = last_stopped_pid'
      BY DEF LastStoppedIsListed, Tracked
    <2> USE DEF LastStoppedIsListed, Tracked
    <2>1. CASE bg_reap /\ bg_remove_at(i)
      <3>1. i \in 1..Len(bg_pids) /\ bg_pids \in Seq(Pid)
        BY <2>1 DEF bg_reap, TypeOK
      <3>2. last_stopped_pid' = last_stopped_pid /\ bg_pids[i] # last_stopped_pid
        BY <2>1 DEF bg_remove_at
      <3>3. PICK k \in 1..Len(bg_pids) : bg_pids[k] = last_stopped_pid
        BY <3>2
      <3>4. k # i
        BY <3>2, <3>3
      <3>5. \E m \in 1..(Len(bg_pids) - 1) :
              ShiftDown(bg_pids, i)[m] = bg_pids[k]
        BY <3>1, <3>4, ShiftDownKeeps
      <3>6. bg_pids' = ShiftDown(bg_pids, i) /\ Len(bg_pids') = Len(bg_pids) - 1
        BY <2>1, <3>1, ShiftDownType DEF bg_remove_at
      <3> QED
        BY <3>2, <3>3, <3>5, <3>6
    <2>2. CASE bg_reap /\ UNCHANGED table
      BY <2>2 DEF table
    <2>3. ASSUME NEW p \in Pid, RunBg(p)
          PROVE  \E m \in 1..Len(bg_pids') : bg_pids'[m] = last_stopped_pid'
      <3>1. /\ Len(bg_pids') >= Len(bg_pids)
            /\ \A k \in 1..Len(bg_pids) : bg_pids'[k] = bg_pids[k]
            /\ last_stopped_pid' = last_stopped_pid
        BY <2>3, SMTT(30) DEF RunBg, bg_add, TypeOK
      <3> QED
        BY <3>1 DEF TypeOK
    <2>4. CASE killbp \/ contReturns
      BY <2>4 DEF killbp, contReturns
    <2>5. CASE pstop
      BY <2>5 DEF pstop, bg_has_pid, table
    <2>6. CASE UNCHANGED table
      BY <2>6 DEF table
    <2>7. ASSUME NEW p \in Pid, RunFg(p)
          PROVE  UNCHANGED table
      BY <2>7 DEF RunFg
    <2>8. bg_reap => (bg_reap /\ bg_remove_at(i)) \/ (bg_reap /\ UNCHANGED table)
      BY DEF bg_reap
    <2>9. \/ Prompt \/ BadLine \/ ReadLine \/ EndOfInput \/ ForkFails \/ FgEnds
          \/ OtherBuiltin \/ killmb \/ cont \/ contFails
          \/ numbg \/ Environment \/ Rest \/ UNCHANGED vars
          => UNCHANGED table
      BY DEF Prompt, BadLine, ReadLine, EndOfInput, ForkFails, FgEnds,
             OtherBuiltin, killmb, cont, contFails, numbg,
             Environment, ProcessEnds, StrangerStarts, StrangerEnds, Rest,
             vars, table
    <2> QED
      BY <2>1, <2>2, <2>3, <2>4, <2>5, <2>6, <2>7, <2>8, <2>9 DEF Next, Shell
  <1> QED
    BY <1>1, <1>2, TypeCorrect, PTL DEF Spec

\* What pstop and cont signal is listed (BgJobs' bg_remove_at clears both pids).
THEOREM RememberedCorrect == Spec => []RememberedAreListed
  <1>1. LastBgIsTail /\ LastStoppedIsListed => RememberedAreListed
    BY DEF RememberedAreListed
  <1> QED
    BY <1>1, LastBgCorrect, LastStoppedCorrect, PTL

-----------------------------------------------------------------------------
(* The table and the process table.                                        *)

\* The inductive form of TableExactAtPrompt.  While bg_reap runs, the entries
\* it has passed are children not yet waited for; a later turn of the loop
\* keeps that because it waits for another pid, which needs the entries to
\* be distinct; and the wait for a foreground child cannot release a listed
\* pid.
TableInv ==
  /\ NoDuplicates
  /\ pc = "reap" => \A j \in 1..Len(bg_pids) : j < i => Own(bg_pids[j])
  /\ pc = "read" => \A j \in 1..Len(bg_pids) : Own(bg_pids[j])
  /\ pc = "wait" => fg \notin Tracked

\* The entries that are children before a step of the environment still are
\* after it.
LEMMA EnvironmentKeepsOwn ==
  ASSUME TypeOK, Environment, NEW p \in Pid, Own(p)
  PROVE  Own(p)'
  BY DEF TypeOK, Environment, ProcessEnds, StrangerStarts, StrangerEnds, Own,
         OwnState, Unused

LEMMA KillKeepsOwn ==
  ASSUME TypeOK, NEW ps, NEW sig, Kill(ps, sig), NEW p \in Pid, Own(p)
  PROVE  Own(p)'
  BY DEF TypeOK, Kill, Signalled, Own, OwnState, StrangerState

\* A step of bg_reap that removes entry i moves the later entries down.
LEMMA ReapRemoves ==
  ASSUME TypeOK, bg_reap, proc[bg_pids[i]] \notin {"run", "stop"}
  PROVE  /\ i \in 1..Len(bg_pids) /\ i' = i
         /\ pc' = "reap" /\ pc = "reap" /\ fg' = fg
         /\ bg_pids' = ShiftDown(bg_pids, i)
         /\ bg_pids' \in Seq(Pid)
         /\ Len(bg_pids') = Len(bg_pids) - 1
         /\ \A k \in 1..(Len(bg_pids) - 1) :
              bg_pids'[k] = IF k < i THEN bg_pids[k] ELSE bg_pids[k + 1]
         /\ \A p \in Pid : p # bg_pids[i] => proc'[p] = proc[p]
         /\ proc'[bg_pids[i]] \notin OwnState
  <1>1. i \in 1..Len(bg_pids) /\ bg_remove_at(i) /\ i' = i /\ pc' = pc
        /\ pc = "reap" /\ fg' = fg
    BY DEF bg_reap, TypeOK
  <1>2. bg_pids[i] \in Pid
    BY <1>1 DEF TypeOK
  <1>3. /\ \A p \in Pid : p # bg_pids[i] => proc'[p] = proc[p]
        /\ proc'[bg_pids[i]] \notin OwnState
    <2>1. proc' = IF proc[bg_pids[i]] = "zombie"
                  THEN [proc EXCEPT ![bg_pids[i]] = "gone"] ELSE proc
      BY DEF bg_reap
    <2> QED
      BY <1>2, <2>1 DEF TypeOK, OwnState
  <1> QED
    BY <1>1, <1>3, ShiftDownType DEF bg_remove_at, TypeOK

\* Every command of a line ends at the top of the loop or before the next
\* command, with bg_reap's index reset.
LEMMA FinishPc ==
  ASSUME NEW f, Finish(f)
  PROVE  pc' \in {"reap", "exec"} /\ i' = 1
  BY DEF Finish

LEMMA TableInvStep ==
  ASSUME ~ListedReuse, TypeOK, TableInv, [Next]_vars
  PROVE  TableInv'
  <1> USE DEF TableInv, NoDuplicates, Tracked
  <1>1. CASE bg_reap /\ proc[bg_pids[i]] \notin {"run", "stop"}
    <2> USE ReapRemoves, <1>1
    <2>0. Len(bg_pids) \in Nat /\ i \in Nat /\ bg_pids \in Seq(Pid)
      BY DEF TypeOK
    <2>1. NoDuplicates'
      <3> SUFFICES ASSUME NEW j \in 1..(Len(bg_pids) - 1),
                          NEW k \in 1..(Len(bg_pids) - 1),
                          bg_pids'[j] = bg_pids'[k]
                   PROVE  j = k
        OBVIOUS
      <3> DEFINE old(m) == IF m < i THEN m ELSE m + 1
      <3>1. /\ old(j) \in 1..Len(bg_pids) /\ bg_pids'[j] = bg_pids[old(j)]
            /\ old(k) \in 1..Len(bg_pids) /\ bg_pids'[k] = bg_pids[old(k)]
        BY <2>0, SMTT(30)
      <3>2. old(j) = old(k)
        BY <3>1, ZenonT(60)
      <3> QED
        BY <3>2, <2>0
    <2>2. \A j \in 1..Len(bg_pids') : j < i' => proc'[bg_pids'[j]] \in OwnState
      <3> SUFFICES ASSUME NEW j \in 1..(Len(bg_pids) - 1), j < i
                   PROVE  proc'[bg_pids[j]] \in OwnState
        BY <2>0
      <3>1. j \in 1..Len(bg_pids) /\ j # i /\ bg_pids[j] \in Pid
        BY <2>0
      <3>2. bg_pids[j] # bg_pids[i] /\ Own(bg_pids[j])
        BY <3>1
      <3> QED
        BY <3>1, <3>2 DEF Own
    <2> QED
      BY <2>1, <2>2 DEF Own
  <1>2. CASE bg_reap /\ proc[bg_pids[i]] \in {"run", "stop"}
    <2>1. /\ UNCHANGED <<proc, table, pc, fg>> /\ i' = i + 1
          /\ pc = "reap" /\ Own(bg_pids[i])
      BY <1>2 DEF bg_reap, Own, OwnState
    <2>2. \A j \in 1..Len(bg_pids) : j < i + 1 => Own(bg_pids[j])
      BY <2>1 DEF TypeOK
    <2> QED
      BY <2>1, <2>2 DEF table, Own
  <1>3. CASE Prompt
    <2>1. \A j \in 1..Len(bg_pids) : Own(bg_pids[j])
      BY <1>3 DEF Prompt, TypeOK
    <2> QED
      BY <1>3, <2>1 DEF Prompt, table, Own
  <1>4. CASE BadLine
    <2>1. \A j \in 1..Len(bg_pids) : Own(bg_pids[j])
      BY <1>4 DEF BadLine
    <2> QED
      BY <1>4, <2>1 DEF BadLine, table, Own
  <1>5. CASE ReadLine \/ EndOfInput \/ killmb
    BY <1>5 DEF ReadLine, EndOfInput, killmb, table
  <1>6. CASE ForkFails \/ OtherBuiltin \/ numbg \/ contFails \/ FgEnds \/ pstop \/ contReturns
    <2>1. UNCHANGED bg_pids
      BY <1>6 DEF ForkFails, OtherBuiltin, numbg, contFails, FgEnds, pstop,
                  contReturns, table
    <2>2. pc' \in {"reap", "exec"} /\ i' = 1
      BY <1>6, FinishPc DEF ForkFails, OtherBuiltin, numbg, contFails, FgEnds,
                            pstop, contReturns
    <2> QED
      BY <2>1, <2>2
  <1>7. ASSUME NEW p \in Pid, RunBg(p)
        PROVE  TableInv'
    <2>1. pc' \in {"reap", "exec"} /\ i' = 1
      BY <1>7, FinishPc DEF RunBg
    <2>2. \A j \in 1..Len(bg_pids) : bg_pids[j] # p
      BY <1>7 DEF RunBg, Forkable
    <2>3. NoDuplicates'
      <3>1. CASE bg_pids' = bg_pids
        BY <3>1
      <3>2. CASE bg_pids' = Append(bg_pids, p)
        BY <3>2, <2>2 DEF TypeOK
      <3> QED
        BY <1>7, <3>1, <3>2 DEF RunBg, bg_add
    <2> QED
      BY <2>1, <2>3
  <1>8. ASSUME NEW p \in Pid, RunFg(p)
        PROVE  TableInv'
    BY <1>8 DEF RunFg, Forkable, table
  <1>9. CASE cont
    BY <1>9 DEF cont, table
  <1>10. CASE killbp
    BY <1>10, FinishPc DEF killbp
  <1>11. CASE Environment
    <2>1. UNCHANGED <<table, pc, i, left, fg>>
      BY <1>11 DEF Environment, ProcessEnds, StrangerStarts, StrangerEnds
    <2>2. \A j \in 1..Len(bg_pids) :
            Own(bg_pids[j]) => proc'[bg_pids[j]] \in OwnState
      BY <1>11, EnvironmentKeepsOwn DEF TypeOK, Own
    <2> QED
      BY <2>1, <2>2 DEF table, Own
  <1>12. CASE Rest \/ UNCHANGED vars
    BY <1>12 DEF Rest, vars, Own
  <1> QED
    BY <1>1, <1>2, <1>3, <1>4, <1>5, <1>6, <1>7, <1>8, <1>9, <1>10, <1>11,
       <1>12 DEF Next, Shell

\* At the prompt every entry is a child the shell has not waited for: pstop,
\* cont and killbp on a fresh line cannot reach anybody else's process.
THEOREM TableExact ==
  ASSUME ~ListedReuse
  PROVE  Spec => [](TableExactAtPrompt /\ NoDuplicates)
  <1>1. Init => TableInv
    BY DEF Init, TableInv, NoDuplicates, Tracked
  <1>2. TypeOK /\ TableInv /\ [Next]_vars => TableInv'
    BY TableInvStep
  <1>3. TableInv => TableExactAtPrompt /\ NoDuplicates
    BY DEF TableInv, TableExactAtPrompt, Tracked
  <1> QED
    BY <1>1, <1>2, <1>3, TypeCorrect, PTL DEF Spec
-----------------------------------------------------------------------------
(* Steps.                                                                  *)

\* A removal by bg_reap drops exactly its pid from the listed ones, if the
\* entries are distinct; and in any case drops no other pid.
LEMMA ReapTracked ==
  ASSUME TypeOK, bg_reap, proc[bg_pids[i]] \notin {"run", "stop"}
  PROVE  /\ Tracked' \subseteq Tracked
         /\ Tracked \ {bg_pids[i]} \subseteq Tracked'
         /\ NoDuplicates => Tracked' = Tracked \ {bg_pids[i]}
  <1> USE DEF Tracked
  <1>0. bg_pids \in Seq(Pid) /\ Len(bg_pids) \in Nat /\ i \in 1..Len(bg_pids)
    BY ReapRemoves DEF TypeOK
  <1>1. ASSUME NEW m \in 1..Len(bg_pids')
        PROVE  /\ bg_pids'[m] \in Tracked
               /\ NoDuplicates => bg_pids'[m] # bg_pids[i]
    <2>1. m \in 1..(Len(bg_pids) - 1)
      BY ReapRemoves
    <2>2. PICK k \in 1..Len(bg_pids) : k # i /\ bg_pids'[m] = bg_pids[k]
      <3>1. CASE m < i
        BY <3>1, <2>1, <1>0, ReapRemoves
      <3>2. CASE ~(m < i)
        <4>1. m + 1 \in 1..Len(bg_pids) /\ m + 1 # i
          BY <3>2, <2>1, <1>0
        <4> QED
          BY <4>1, <3>2, <2>1, ReapRemoves
      <3> QED
        BY <3>1, <3>2
    <2> QED
      BY <2>2, <1>0 DEF NoDuplicates
  <1>2. ASSUME NEW k \in 1..Len(bg_pids), bg_pids[k] # bg_pids[i]
        PROVE  bg_pids[k] \in Tracked'
    <2>1. \E m \in 1..(Len(bg_pids) - 1) : ShiftDown(bg_pids, i)[m] = bg_pids[k]
      BY <1>0, <1>2, ShiftDownKeeps
    <2> QED
      BY <2>1, ReapRemoves
  <1> QED
    BY <1>1, <1>2

\* Which steps write bg_pids, and how; every other step of the shell leaves
\* it alone.
LEMMA TrackedStep ==
  ASSUME TypeOK, [Next]_vars
  PROVE  \/ bg_reap /\ proc[bg_pids[i]] \notin {"run", "stop"}
         \/ \E p \in Pid : RunBg(p)
         \/ killbp
         \/ UNCHANGED bg_pids
  BY DEF Next, Shell, bg_reap, Prompt, BadLine, ReadLine, EndOfInput, ForkFails,
         FgEnds, OtherBuiltin, killmb, RunFg, pstop, cont, contFails,
         contReturns, numbg, Environment, ProcessEnds, StrangerStarts,
         StrangerEnds, Rest, vars, table

\* Which steps release a child, so that it is no longer one of the shell.
LEMMA OwnStep ==
  ASSUME TypeOK, [Next]_vars, NEW p \in Pid, Own(p), ~Own(p)'
  PROVE  \/ bg_reap /\ proc[bg_pids[i]] \notin {"run", "stop"} /\ p = bg_pids[i]
         \/ FgEnds /\ p = fg
         \/ contReturns /\ p = fg
  <1>1. CASE bg_reap
    <2>1. proc[bg_pids[i]] \notin {"run", "stop"}
      BY <1>1 DEF bg_reap, Own
    <2> QED
      BY <1>1, <2>1, ReapRemoves DEF Own
  <1>2. CASE FgEnds \/ contReturns
    BY <1>2 DEF FgEnds, contReturns, Own, TypeOK
  <1>3. ASSUME NEW q \in Pid, RunBg(q) \/ RunFg(q)
        PROVE  FALSE
    BY <1>3 DEF RunBg, RunFg, Forkable, Unused, Own, OwnState, TypeOK
  <1>4. CASE pstop \/ cont \/ killbp
    BY <1>4, KillKeepsOwn DEF pstop, cont, killbp, Own
  <1>5. CASE Environment
    BY <1>5, EnvironmentKeepsOwn
  <1>6. CASE \/ Prompt \/ BadLine \/ ReadLine \/ EndOfInput \/ ForkFails
             \/ OtherBuiltin \/ killmb \/ contFails \/ numbg \/ Rest
             \/ UNCHANGED vars
    BY <1>6 DEF Prompt, BadLine, ReadLine, EndOfInput, ForkFails, OtherBuiltin,
                killmb, contFails, numbg, Rest, vars, Own
  <1> QED
    BY <1>1, <1>2, <1>3, <1>4, <1>5, <1>6 DEF Next, Shell

\* Within a line only cont can make an entry of the table stale: nothing else
\* the shell does waits for a listed child without dropping its entry.
THEOREM StaleOnlyByCont ==
  ASSUME ~ListedReuse
  PROVE  Spec => OnlyContLeavesStale
  <1>1. Init => TableInv
    BY DEF Init, TableInv, NoDuplicates, Tracked
  <1>2. TypeOK /\ TableInv /\ [Next]_vars => TableInv'
    BY TableInvStep
  <1>3. TypeOK /\ TableInv /\ [Next]_vars
          => [(\A p \in Tracked : Own(p)) => pc = "cont" \/ (\A p \in Tracked : Own(p))']_vars
    <2> SUFFICES ASSUME TypeOK, TableInv, [Next]_vars,
                        \A p \in Tracked : Own(p), pc # "cont",
                        NEW p \in Tracked'
                 PROVE  Own(p)'
      OBVIOUS
    <2>0. Tracked \subseteq Pid
      BY DEF Tracked, TypeOK
    <2>1. CASE p \in Tracked
      <3> SUFFICES ASSUME ~Own(p)'
                   PROVE  FALSE
        OBVIOUS
      <3>1. \/ bg_reap /\ proc[bg_pids[i]] \notin {"run", "stop"} /\ p = bg_pids[i]
            \/ FgEnds /\ p = fg
            \/ contReturns /\ p = fg
        BY <2>0, <2>1, OwnStep
      <3> QED
        BY <2>1, <3>1, ReapTracked DEF TableInv, FgEnds, contReturns
    <2>2. CASE p \notin Tracked
      <3>1. PICK q \in Pid : RunBg(q)
        <4>1. CASE bg_reap /\ proc[bg_pids[i]] \notin {"run", "stop"}
          BY <2>2, <4>1, ReapTracked
        <4>2. CASE killbp
          BY <4>2 DEF killbp, Tracked
        <4>3. CASE UNCHANGED bg_pids
          BY <2>2, <4>3 DEF Tracked
        <4> QED
          BY <4>1, <4>2, <4>3, TrackedStep
      <3>2. Tracked' \subseteq Tracked \cup {q}
        <4>1. CASE bg_pids' = Append(bg_pids, q)
          BY <4>1, bg_pids \in Seq(Pid) DEF Tracked, TypeOK
        <4>2. CASE UNCHANGED bg_pids
          BY <4>2 DEF Tracked
        <4> QED
          BY <3>1, <4>1, <4>2 DEF RunBg, bg_add
      <3>3. proc'[q] = "run"
        BY <3>1 DEF RunBg, TypeOK
      <3> QED
        BY <2>2, <3>2, <3>3 DEF Own, OwnState
    <2> QED
      BY <2>1, <2>2
  <1> QED
    BY <1>1, <1>2, <1>3, TypeCorrect, PTL DEF Spec, OnlyContLeavesStale

\* No child is lost by the bookkeeping itself: only killbp, or a table with
\* no room, leaves a child that nobody will wait for.
THEOREM LostOnly == Spec => LostOnlyByKillbpOrOverflow
  <1>1. TypeOK /\ [Next]_vars
          => [Lost' \subseteq Lost \/ Len(bg_pids) = MaxBg \/ killbp]_vars
    <2> SUFFICES ASSUME TypeOK, [Next]_vars, Len(bg_pids) # MaxBg, ~killbp,
                        NEW p \in Pid, Own(p)', p \notin Tracked', p # fg',
                        ~(Own(p) /\ p \notin Tracked /\ p # fg)
                 PROVE  FALSE
      BY DEF Lost
    <2>1. CASE ~Own(p)
      <3>1. PICK q \in Pid : RunBg(q) \/ RunFg(q)
        <4>1. CASE bg_reap \/ FgEnds \/ contReturns
          BY <2>1, <4>1 DEF bg_reap, FgEnds, contReturns, Own, OwnState, TypeOK
        <4>2. CASE pstop \/ cont \/ Environment
          BY <2>1, <4>2 DEF pstop, cont, Environment, ProcessEnds, StrangerStarts,
                     StrangerEnds, Kill, Signalled, Own, OwnState,
                     StrangerState, TypeOK
        <4>3. CASE \/ Prompt \/ BadLine \/ ReadLine \/ EndOfInput \/ ForkFails
                   \/ OtherBuiltin \/ killmb \/ contFails \/ numbg \/ Rest
                   \/ UNCHANGED vars
          BY <2>1, <4>3 DEF Prompt, BadLine, ReadLine, EndOfInput, ForkFails,
                  OtherBuiltin, killmb, contFails, numbg, Rest, vars, Own
        <4> QED
          BY <4>1, <4>2, <4>3 DEF Next, Shell
      <3>2. p = q
        BY <2>1, <3>1 DEF RunBg, RunFg, Own, TypeOK
      <3>3. CASE RunFg(q)
        BY <3>2, <3>3 DEF RunFg
      <3>4. CASE RunBg(q)
        <4>1. bg_pids' = Append(bg_pids, q)
          BY <3>4, BgAssumption DEF RunBg, bg_add, TypeOK
        <4>2. Len(bg_pids') = Len(bg_pids) + 1 /\ bg_pids'[Len(bg_pids) + 1] = q
          BY <4>1 DEF TypeOK
        <4> QED
          BY <3>2, <4>2 DEF Tracked, TypeOK
      <3> QED
        BY <3>1, <3>3, <3>4
    <2>2. CASE p \in Tracked
      <3>1. CASE bg_reap /\ proc[bg_pids[i]] \notin {"run", "stop"}
        BY <2>2, <3>1, ReapTracked, ReapRemoves DEF Own
      <3>2. ASSUME NEW q \in Pid, RunBg(q)
            PROVE  FALSE
        <4>1. /\ Len(bg_pids') >= Len(bg_pids)
              /\ \A k \in 1..Len(bg_pids) : bg_pids'[k] = bg_pids[k]
          BY <3>2, SMTT(30) DEF RunBg, bg_add, TypeOK
        <4> QED
          BY <2>2, <4>1 DEF Tracked, TypeOK
      <3>3. CASE UNCHANGED bg_pids
        BY <2>2, <3>3 DEF Tracked
      <3> QED
        BY <3>1, <3>2, <3>3, TrackedStep
    <2>3. CASE Own(p) /\ p = fg
      <3>1. fg # NoPid /\ fg' # fg
        BY <2>3, BgAssumption
      <3>2. FgEnds \/ contReturns
        BY <3>1 DEF Next, Shell, bg_reap, Prompt, BadLine, ReadLine, EndOfInput,
                    ForkFails, OtherBuiltin, killmb, RunBg, RunFg, pstop, cont,
                    contFails, numbg, Environment, ProcessEnds, StrangerStarts,
                    StrangerEnds, Rest, vars, TypeOK
      <3> QED
        BY <2>3, <3>2 DEF FgEnds, contReturns, Own, OwnState, TypeOK
    <2> QED
      BY <2>1, <2>2, <2>3
  <1> QED
    BY <1>1, TypeCorrect, PTL DEF Spec, LostOnlyByKillbpOrOverflow

-----------------------------------------------------------------------------
(* The table implements JobTable.                                          *)

\* There are as many listed jobs as entries, as long as no entry is double.
LEMMA TrackedCardinality ==
  ASSUME bg_pids \in Seq(Pid), NoDuplicates
  PROVE  Cardinality(Tracked) = Len(bg_pids)
  <1>0. Len(bg_pids) \in Nat
    OBVIOUS
  <1> DEFINE f == [j \in 1..Len(bg_pids) |-> bg_pids[j]]
  <1>1. f \in Bijection(1..Len(bg_pids), Tracked)
    BY DEF Bijection, Injection, Surjection, IsInjective, Tracked, NoDuplicates
  <1>2. IsFiniteSet(1..Len(bg_pids)) /\ Cardinality(1..Len(bg_pids)) = Len(bg_pids)
    BY <1>0, FS_Interval, SMTT(30)
  <1>3. Cardinality(Tracked) = Cardinality(1..Len(bg_pids))
    BY <1>1, <1>2, FS_Bijection DEF ExistsBijection
  <1> QED
    BY <1>2, <1>3

\* Stopping, continuing and releasing a child do not change who is alive.
LEMMA KillAlive ==
  ASSUME TypeOK, NEW ps, NEW sig \in {"STOP", "CONT"}, Kill(ps, sig)
  PROVE  Alive' = Alive
  <1>1. \A p \in Pid : proc'[p] \in {"run", "stop"} <=> proc[p] \in {"run", "stop"}
    BY DEF Kill, Signalled, TypeOK, StrangerState
  <1> QED
    BY <1>1 DEF Alive

LEMMA KillBpAlive ==
  ASSUME TypeOK, killbp
  PROVE  Alive' = Alive \ Tracked
  <1>1. PICK refused \in SUBSET {p \in Tracked : Stranger(p)} :
          Kill(Tracked \ refused, "KILL")
    BY DEF killbp
  <1>2. ASSUME NEW p \in Pid
        PROVE  proc'[p] \in {"run", "stop"}
                 <=> proc[p] \in {"run", "stop"} /\ p \notin Tracked
    <2>1. proc[p] \in {"run", "stop"} /\ p \in Tracked => p \in Tracked \ refused
      BY <1>1 DEF Stranger, StrangerState
    <2> QED
      BY <1>1, <2>1 DEF Kill, Signalled, StrangerState, TypeOK
  <1> QED
    BY <1>2 DEF Alive

\* Every step of the shell and of its children is a step of JobTable or
\* leaves the listed jobs, the living children and the one waited for alone.
THEOREM Refinement ==
  ASSUME ~ListedReuse
  PROVE  Spec => ImplementsJobTable
  <1> USE DEF Abs!jvars
  <1>1. Init => Abs!JInit
    BY DEF Init, Abs!JInit, Alive, Tracked
  <1>2. Init => TableInv
    BY DEF Init, TableInv, NoDuplicates, Tracked
  <1>3. TypeOK /\ TableInv /\ [Next]_vars => TableInv'
    BY TableInvStep
  <1>4. TypeOK /\ LastStoppedIsListed /\ TableInv /\ [Next]_vars
          => [Abs!JNext]_<<Alive, Tracked, fg>>
    <2> SUFFICES ASSUME TypeOK, LastStoppedIsListed, TableInv, [Next]_vars
                 PROVE  Abs!JNext \/ UNCHANGED <<Alive, Tracked, fg>>
      OBVIOUS
    <2>0. pc = "exec" => fg = NoPid
      BY DEF TypeOK
    <2>1. CASE bg_reap
      <3>1. CASE proc[bg_pids[i]] \in {"run", "stop"}
        BY <2>1, <3>1 DEF bg_reap, table, Alive, Tracked
      <3>2. CASE proc[bg_pids[i]] \notin {"run", "stop"}
        <4>1. bg_pids[i] \in Pid /\ bg_pids[i] \in Tracked \ Alive
          BY <2>1, <3>2, ReapRemoves DEF Tracked, Alive, TypeOK
        <4>2. Tracked' = Tracked \ {bg_pids[i]}
          BY <2>1, <3>2, ReapTracked DEF TableInv
        <4>3. Alive' = Alive /\ fg' = fg
          BY <2>1, <3>2, <4>1 DEF bg_reap, Alive, TypeOK
        <4> QED
          BY <4>1, <4>2, <4>3 DEF Abs!JNext, Abs!Drop
      <3> QED
        BY <3>1, <3>2
    <2>2. ASSUME NEW p \in Pid, RunBg(p) \/ RunFg(p)
          PROVE  Abs!JNext
      <3>1. /\ p \notin Alive /\ p \notin Tracked
            /\ Alive' = Alive \cup {p}
        BY <2>2 DEF RunBg, RunFg, Forkable, Unused, Alive, TypeOK
      <3>2. Abs!Start(p)
        BY <2>0, <2>2, <3>1 DEF RunBg, RunFg, Abs!Start
      <3>3. Abs!Cardinality(Tracked) = Len(bg_pids)
        BY TrackedCardinality DEF TypeOK, TableInv, Abs!Cardinality, Cardinality
      <3>4. CASE RunFg(p)
        BY <3>2, <3>4 DEF RunFg, table, Tracked, Abs!JNext, Abs!Foreground
      <3>5. CASE RunBg(p) /\ Len(bg_pids) < MaxBg
        <4>1. Tracked' = Tracked \cup {p} /\ fg' = fg
          <5>1. bg_pids' = Append(bg_pids, p) /\ fg' = fg
            BY <3>5 DEF RunBg, bg_add
          <5>2. /\ Len(bg_pids) \in Nat /\ Len(bg_pids') = Len(bg_pids) + 1
                /\ \A j \in 1 .. Len(bg_pids) : bg_pids'[j] = bg_pids[j]
                /\ bg_pids'[Len(bg_pids) + 1] = p
            BY <5>1 DEF TypeOK
          <5>3. 1 .. Len(bg_pids') = (1 .. Len(bg_pids)) \cup {Len(bg_pids) + 1}
            BY <5>2
          <5> QED
            BY <5>1, <5>2, <5>3 DEF Tracked
        <4>2. Abs!Launch(p)
          BY <3>2, <3>3, <3>5, <4>1 DEF Abs!Launch
        <4> QED
          BY <4>2 DEF Abs!JNext
      <3>6. CASE RunBg(p) /\ ~(Len(bg_pids) < MaxBg)
        <4>1. Len(bg_pids) = MaxBg
          BY <3>6, BgAssumption DEF TypeOK
        <4>2. UNCHANGED <<Tracked, fg>>
          BY <3>6 DEF RunBg, bg_add, Tracked
        <4>3. Abs!LaunchUnlisted(p)
          BY <3>2, <3>3, <4>1, <4>2 DEF Abs!LaunchUnlisted
        <4> QED
          BY <4>3 DEF Abs!JNext
      <3> QED
        BY <2>2, <3>4, <3>5, <3>6
    <2>3. CASE FgEnds \/ contReturns
      <3>1. fg \in Pid /\ fg # NoPid
        BY <2>3, BgAssumption DEF FgEnds, contReturns, TypeOK
      <3>2. fg \notin Alive /\ Alive' = Alive
        BY <2>3, <3>1 DEF FgEnds, contReturns, Alive, TypeOK
      <3>3. UNCHANGED Tracked /\ fg' = NoPid
        BY <2>3 DEF FgEnds, contReturns, table, Tracked
      <3> QED
        BY <3>1, <3>2, <3>3 DEF Abs!JNext, Abs!Return
    <2>4. CASE pstop
      <3>1. Alive' = Alive
        BY <2>4, KillAlive DEF pstop, Alive
      <3> QED
        BY <2>4, <3>1 DEF pstop, table, Tracked
    <2>5. CASE cont
      <3>1. Alive' = Alive
        BY <2>5, KillAlive DEF cont
      <3>2. fg = NoPid /\ fg' = last_stopped_pid /\ UNCHANGED Tracked
        BY <2>0, <2>5 DEF cont, table, Tracked
      <3>3. last_stopped_pid \in Tracked /\ last_stopped_pid \in Pid
        BY <2>5 DEF cont, LastStoppedIsListed, TypeOK
      <3> QED
        BY <3>1, <3>2, <3>3 DEF Abs!JNext, Abs!Resume
    <2>6. CASE killbp
      <3>1. Tracked' = {} /\ fg = NoPid /\ fg' = fg
        BY <2>0, <2>6 DEF killbp, Tracked
      <3> QED
        BY <2>6, <3>1, KillBpAlive DEF Abs!JNext, Abs!KillAll
    <2>7. CASE Environment
      <3>1. UNCHANGED <<Tracked, fg>>
        BY <2>7 DEF Environment, ProcessEnds, StrangerStarts, StrangerEnds,
                    table, Tracked
      <3>2. PICK p \in Pid : ProcessEnds(p) \/ StrangerStarts(p) \/ StrangerEnds(p)
        BY <2>7 DEF Environment
      <3>3. CASE ProcessEnds(p)
        <4>1. p \in Alive /\ Alive' = Alive \ {p}
          BY <3>3 DEF ProcessEnds, Alive, TypeOK
        <4> QED
          BY <3>1, <4>1 DEF Abs!JNext, Abs!End
      <3>4. CASE StrangerStarts(p) \/ StrangerEnds(p)
        BY <3>1, <3>4 DEF StrangerStarts, StrangerEnds, Unused, Alive, TypeOK
      <3> QED
        BY <3>2, <3>3, <3>4
    <2>8. CASE \/ Prompt \/ BadLine \/ ReadLine \/ EndOfInput \/ ForkFails
               \/ OtherBuiltin \/ killmb \/ contFails \/ numbg \/ Rest
               \/ UNCHANGED vars
      BY <2>8 DEF Prompt, BadLine, ReadLine, EndOfInput, ForkFails,
                  OtherBuiltin, killmb, contFails, numbg, Rest, vars, table,
                  Alive, Tracked
    <2> QED
      BY <2>1, <2>2, <2>3, <2>4, <2>5, <2>6, <2>7, <2>8 DEF Next, Shell
  <1> QED
    BY <1>1, <1>2, <1>3, <1>4, TypeCorrect, LastStoppedCorrect, PTL
       DEF Spec, ImplementsJobTable, Abs!JSpec
=============================================================================
