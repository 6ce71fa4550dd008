------------------------------- MODULE BgJobs -------------------------------
(***************************************************************************)
(* The background-job table of minibash (A3/A3.c): the globals bg_pids,    *)
(* bg_count (here Len(bg_pids)), last_bg_pid and last_stopped_pid, the     *)
(* helpers bg_add / bg_remove_at / bg_reap, the built-in commands that use *)
(* them, and the main loop that calls bg_reap once per prompt and then     *)
(* runs the commands of one line.                                          *)
(*                                                                         *)
(* Beside the shell runs the kernel's process table, proc.  A child ends   *)
(* whenever it likes, between any two steps of the shell; a pid whose      *)
(* process was waited for can be given to a new process (PidReuse).        *)
(*                                                                         *)
(* A pipeline forks several foreground children and waits for exactly      *)
(* those; towards the table it behaves like one foreground command.  Its   *)
(* inside is the subject of module PipeChain.                              *)
(***************************************************************************)
EXTENDS Integers, Sequences, FiniteSets

CONSTANTS
  Pid,        \* process ids
  NoPid,      \* the -1 of last_bg_pid and last_stopped_pid
  MaxBg,      \* MAX_BG, the capacity of bg_pids (256)
  MaxCmds,    \* MAX_CMDS, the commands of one line (5)
  PidReuse,   \* may the kernel give a released pid out again,
  ListedReuse \* and to a child of this shell while bg_pids still lists it?

ASSUME BgAssumption ==
  /\ NoPid \notin Pid
  /\ MaxBg \in Nat \ {0}
  /\ MaxCmds \in Nat \ {0}
  /\ PidReuse \in BOOLEAN
  /\ ListedReuse \in BOOLEAN

VARIABLES
  proc,              \* what the kernel runs under each pid
  bg_pids,           \* the table, oldest job first
  last_bg_pid,
  last_stopped_pid,
  pc,                \* where the shell is: see Pc
  i,                 \* the index of bg_reap's loop, from 1
  left,              \* commands of the current line still to be run
  fg                 \* the pid waitpid(pid, .., 0) is waiting for

vars == <<proc, bg_pids, last_bg_pid, last_stopped_pid, pc, i, left, fg>>

table == <<bg_pids, last_bg_pid, last_stopped_pid>>

-----------------------------------------------------------------------------
(* Processes.  "run", "stop" and "zombie" are children of this shell that  *)
(* have not been waited for; "other" and "ostop" are a process that is not *)
(* a child of this shell, running or stopped; "gone" is a released pid.    *)

OwnState == {"run", "stop", "zombie"}
StrangerState == {"other", "ostop"}
ProcState == OwnState \cup StrangerState \cup {"free", "gone"}

Pc == {"reap",     \* in bg_reap, at the top of the main loop
       "read",     \* in fgets
       "exec",     \* about to run the next command of the line
       "wait",     \* in the waitpid of run_cmd
       "cont",     \* in the waitpid of the built-in cont
       "exited"}

Own(p) == proc[p] \in OwnState
Stranger(p) == proc[p] \in StrangerState
Exists(p) == Own(p) \/ Stranger(p)
Unused(p) == proc[p] = "free" \/ (PidReuse /\ proc[p] = "gone")

Tracked == {bg_pids[j] : j \in 1..Len(bg_pids)}

\* The pids a fork of the shell can return.
Forkable(p) == Unused(p) /\ (p \in Tracked => ListedReuse)

\* What a delivered signal makes of a process.
Signalled(s, sig) ==
  CASE sig = "STOP" /\ s = "run"    -> "stop"
    [] sig = "STOP" /\ s = "other"  -> "ostop"
    [] sig = "CONT" /\ s = "stop"   -> "run"
    [] sig = "CONT" /\ s = "ostop"  -> "other"
    [] sig = "KILL" /\ s \in {"run", "stop"} -> "zombie"
    [] sig = "KILL" /\ s \in StrangerState   -> "gone"
    [] OTHER -> s

\* kill(2) delivers to every process of the set it may signal; a stranger
\* can belong to another user, so the caller chooses the ones refused.
Kill(ps, sig) ==
  proc' = [p \in Pid |-> IF p \in ps THEN Signalled(proc[p], sig) ELSE proc[p]]

-----------------------------------------------------------------------------
(* The helpers on the table.                                               *)

\* A variant whose table is full one entry early.
bg_add_early(p) ==
  IF Len(bg_pids) < MaxBg - 1
  THEN /\ bg_pids' = Append(bg_pids, p)
       /\ last_bg_pid' = p
  ELSE UNCHANGED <<bg_pids, last_bg_pid>>

bg_add(p) ==
  IF Len(bg_pids) < MaxBg
  THEN /\ bg_pids' = Append(bg_pids, p)
       /\ last_bg_pid' = p
  ELSE UNCHANGED <<bg_pids, last_bg_pid>>

bg_has_pid(p) == p \in Tracked

\* bg_pids without its entry idx: the later entries move down by one.
ShiftDown(s, idx) ==
  [k \in 1..(Len(s) - 1) |-> IF k < idx THEN s[k] ELSE s[k + 1]]

\* A variant that forgets last_stopped_pid.
bg_remove_at_keeps_stopped(idx) ==
  /\ bg_pids' = ShiftDown(bg_pids, idx)
  /\ last_bg_pid' = IF bg_pids[idx] # last_bg_pid THEN last_bg_pid
                    ELSE IF Len(bg_pids) > 1 THEN bg_pids'[Len(bg_pids) - 1]
                    ELSE NoPid
  /\ UNCHANGED last_stopped_pid

bg_remove_at(idx) ==
  /\ bg_pids' = ShiftDown(bg_pids, idx)
  /\ last_bg_pid' = IF bg_pids[idx] # last_bg_pid THEN last_bg_pid
                    ELSE IF Len(bg_pids) > 1 THEN bg_pids'[Len(bg_pids) - 1]
                    ELSE NoPid
  /\ last_stopped_pid' = IF bg_pids[idx] = last_stopped_pid
                         THEN NoPid ELSE last_stopped_pid

-----------------------------------------------------------------------------
(* The environment: the other processes of the machine.                    *)

\* A child ends by itself, or is killed from another terminal (then also
\* while it is stopped).
ProcessEnds(p) ==
  /\ proc[p] \in {"run", "stop"}
  /\ proc' = [proc EXCEPT ![p] = "zombie"]
  /\ UNCHANGED <<table, pc, i, left, fg>>

\* A process of somebody else starts under a pid nobody has, or ends.
StrangerStarts(p) ==
  /\ PidReuse
  /\ Unused(p)
  /\ proc' = [proc EXCEPT ![p] = "other"]
  /\ UNCHANGED <<table, pc, i, left, fg>>

StrangerEnds(p) ==
  /\ proc[p] = "other"
  /\ proc' = [proc EXCEPT ![p] = "gone"]
  /\ UNCHANGED <<table, pc, i, left, fg>>

Environment ==
  \E p \in Pid : ProcessEnds(p) \/ StrangerStarts(p) \/ StrangerEnds(p)

-----------------------------------------------------------------------------
(* main: the reaping pass before the prompt, then fgets.                   *)

\* A variant of the loop that steps over the entry moved into the gap.
bg_reap_skips ==
  /\ pc = "reap" /\ i <= Len(bg_pids)
  /\ LET pid == bg_pids[i] IN
     IF proc[pid] \in {"run", "stop"}
     THEN /\ i' = i + 1
          /\ UNCHANGED <<proc, table>>
     ELSE /\ proc' = IF proc[pid] = "zombie"
                     THEN [proc EXCEPT ![pid] = "gone"] ELSE proc
          /\ bg_remove_at(i)
          /\ i' = i + 1
  /\ UNCHANGED <<pc, left, fg>>

\* A variant that waits for the child but leaves its entry in the table.
bg_reap_keeps_entry ==
  /\ pc = "reap" /\ i <= Len(bg_pids)
  /\ LET pid == bg_pids[i] IN
     proc' = IF proc[pid] = "zombie" THEN [proc EXCEPT ![pid] = "gone"] ELSE proc
  /\ i' = i + 1
  /\ UNCHANGED <<table, pc, left, fg>>

\* A variant that takes waitpid's 0 for an end of the job.
bg_reap_drops_running ==
  /\ pc = "reap" /\ i <= Len(bg_pids)
  /\ LET pid == bg_pids[i] IN
     proc' = IF proc[pid] = "zombie" THEN [proc EXCEPT ![pid] = "gone"] ELSE proc
  /\ bg_remove_at(i)
  /\ UNCHANGED <<pc, i, left, fg>>

\* A variant that gives up at the first job still running.
bg_reap_stops_early ==
  /\ pc = "reap" /\ i <= Len(bg_pids)
  /\ LET pid == bg_pids[i] IN
     IF proc[pid] \in {"run", "stop"}
     THEN /\ i' = Len(bg_pids) + 1
          /\ UNCHANGED <<proc, table>>
     ELSE /\ proc' = IF proc[pid] = "zombie"
                     THEN [proc EXCEPT ![pid] = "gone"] ELSE proc
          /\ bg_remove_at(i)
          /\ UNCHANGED i
  /\ UNCHANGED <<pc, left, fg>>

\* One turn of bg_reap's loop: waitpid(bg_pids[i], .., WNOHANG) answers 0
\* for a child that still lives, reaps one that ended, and fails with
\* ECHILD for a pid that is not (or no longer) a child.
bg_reap ==
  /\ pc = "reap" /\ i <= Len(bg_pids)
  /\ LET pid == bg_pids[i] IN
     IF proc[pid] \in {"run", "stop"}
     THEN /\ i' = i + 1
          /\ UNCHANGED <<proc, table>>
     ELSE /\ proc' = IF proc[pid] = "zombie"
                     THEN [proc EXCEPT ![pid] = "gone"] ELSE proc
          /\ bg_remove_at(i)
          /\ UNCHANGED i
  /\ UNCHANGED <<pc, left, fg>>

Prompt ==
  /\ pc = "reap" /\ i > Len(bg_pids)
  /\ pc' = "read"
  /\ i' = 1
  /\ UNCHANGED <<proc, table, left, fg>>

\* A line that is empty, too long or does not parse runs nothing.
BadLine ==
  /\ pc = "read"
  /\ pc' = "reap"
  /\ UNCHANGED <<proc, table, i, left, fg>>

\* A line that parses; which of its commands run is the subject of module
\* CmdLine, so a line counts here as the commands of it that do run.
ReadLine ==
  /\ pc = "read"
  /\ left' \in 1..MaxCmds
  /\ pc' = "exec"
  /\ UNCHANGED <<proc, table, i, fg>>

EndOfInput ==
  /\ pc = "read"
  /\ pc' = "exited"
  /\ UNCHANGED <<proc, table, i, left, fg>>

-----------------------------------------------------------------------------
(* The commands of a line.                                                 *)

\* The executor after a command: a negative return code gives up the rest.
Finish(failed) ==
  /\ left' = IF failed THEN 0 ELSE left - 1
  /\ pc' = IF left' = 0 THEN "reap" ELSE "exec"
  /\ i' = 1

\* fork fails: run_cmd returns -1 and the line is given up.
ForkFails ==
  /\ pc = "exec"
  /\ Finish(TRUE)
  /\ UNCHANGED <<proc, table, fg>>

\* cmd &
RunBg(p) ==
  /\ pc = "exec"
  /\ Forkable(p)
  /\ proc' = [proc EXCEPT ![p] = "run"]
  /\ bg_add(p)
  /\ UNCHANGED <<last_stopped_pid, fg>>
  /\ Finish(FALSE)

\* cmd, up to the waitpid of the parent
RunFg(p) ==
  /\ pc = "exec"
  /\ Forkable(p)
  /\ proc' = [proc EXCEPT ![p] = "run"]
  /\ fg' = p
  /\ pc' = "wait"
  /\ UNCHANGED <<table, i, left>>

\* The foreground child has ended; run_cmd returns its exit status, or -1
\* when a signal ended it.
FgEnds ==
  /\ pc = "wait"
  /\ proc[fg] = "zombie"
  /\ proc' = [proc EXCEPT ![fg] = "gone"]
  /\ fg' = NoPid
  /\ UNCHANGED table
  /\ \E killed \in BOOLEAN : Finish(killed)

\* #, +, ++ and killallmb work in the shell itself; they touch neither the
\* table nor its children and return 0 or -1.
OtherBuiltin ==
  /\ pc = "exec"
  /\ \E failed \in BOOLEAN : Finish(failed)
  /\ UNCHANGED <<proc, table, fg>>

killmb ==
  /\ pc = "exec"
  /\ pc' = "exited"
  /\ UNCHANGED <<proc, table, i, left, fg>>

pstop ==
  /\ pc = "exec"
  /\ \/ /\ last_bg_pid = NoPid \/ ~bg_has_pid(last_bg_pid)
        /\ UNCHANGED <<proc, table>>
     \/ /\ last_bg_pid # NoPid /\ bg_has_pid(last_bg_pid)
        /\ ~Own(last_bg_pid)               \* kill: ESRCH or EPERM
        /\ UNCHANGED <<proc, table>>
     \/ /\ last_bg_pid # NoPid /\ bg_has_pid(last_bg_pid)
        /\ Exists(last_bg_pid)
        /\ Kill({last_bg_pid}, "STOP")
        /\ last_stopped_pid' = last_bg_pid
        /\ UNCHANGED <<bg_pids, last_bg_pid>>
  /\ UNCHANGED fg
  /\ Finish(FALSE)

\* A variant that waits for the job without continuing it.
cont_only_waits ==
  /\ pc = "exec"
  /\ last_stopped_pid # NoPid
  /\ Exists(last_stopped_pid)
  /\ fg' = last_stopped_pid
  /\ pc' = "cont"
  /\ UNCHANGED <<proc, table, i, left>>

\* cont, up to the waitpid of the parent
cont ==
  /\ pc = "exec"
  /\ last_stopped_pid # NoPid
  /\ Exists(last_stopped_pid)
  /\ Kill({last_stopped_pid}, "CONT")
  /\ fg' = last_stopped_pid
  /\ pc' = "cont"
  /\ UNCHANGED <<table, i, left>>

\* Nothing was stopped, or kill fails.
contFails ==
  /\ pc = "exec"
  /\ \/ last_stopped_pid = NoPid
     \/ last_stopped_pid # NoPid /\ ~Own(last_stopped_pid)
  /\ UNCHANGED <<proc, table, fg>>
  /\ Finish(FALSE)

\* The waitpid of cont returns: the job has ended, or it is no child of the
\* shell (ECHILD).  Its entry stays in bg_pids.
contReturns ==
  /\ pc = "cont"
  /\ proc[fg] \notin {"run", "stop"}
  /\ proc' = IF proc[fg] = "zombie" THEN [proc EXCEPT ![fg] = "gone"] ELSE proc
  /\ last_stopped_pid' = NoPid
  /\ fg' = NoPid
  /\ UNCHANGED <<bg_pids, last_bg_pid>>
  /\ Finish(FALSE)

\* numbg prints bg_count
numbg ==
  /\ pc = "exec"
  /\ UNCHANGED <<proc, table, fg>>
  /\ Finish(FALSE)

\* SIGKILL to every entry, then an empty table; nobody waits for them.
killbp ==
  /\ pc = "exec"
  /\ \E refused \in SUBSET {p \in Tracked : Stranger(p)} :
       Kill(Tracked \ refused, "KILL")
  /\ bg_pids' = <<>>
  /\ last_bg_pid' = NoPid
  /\ last_stopped_pid' = NoPid
  /\ UNCHANGED fg
  /\ Finish(FALSE)

-----------------------------------------------------------------------------
Init ==
  /\ proc \in [Pid -> {"free", "other"}]
  /\ (~PidReuse) => \A p \in Pid : proc[p] = "free"
  /\ bg_pids = <<>>
  /\ last_bg_pid = NoPid
  /\ last_stopped_pid = NoPid
  /\ pc = "reap"
  /\ i = 1
  /\ left = 0
  /\ fg = NoPid

Shell ==
  \/ bg_reap \/ Prompt \/ BadLine \/ ReadLine \/ EndOfInput
  \/ ForkFails \/ FgEnds \/ OtherBuiltin \/ killmb
  \/ \E p \in Pid : RunBg(p) \/ RunFg(p)
  \/ pstop \/ cont \/ contFails \/ contReturns \/ numbg \/ killbp

\* Once the shell has exited its children belong to init; only the
\* environment moves, and it may rest.
Rest == pc = "exited" /\ UNCHANGED vars

Next == Shell \/ Environment \/ Rest

Spec == Init /\ [][Next]_vars

(* The shell is one running process, and its user keeps typing lines; the  *)
(* programs it runs are taken to be finite.  A stopped child ends only if  *)
(* somebody kills it, which nobody has to.                                 *)
Fairness ==
  /\ WF_vars(Shell)
  /\ \A p \in Pid : WF_vars(proc[p] = "run" /\ ProcessEnds(p))

FairSpec == Spec /\ Fairness

-----------------------------------------------------------------------------
(* Properties.                                                             *)

\* The types of the variables.  The bound on bg_pids is the one bg_add
\* keeps: no index of the C array is ever out of range.
TypeOK ==
  /\ proc \in [Pid -> ProcState]
  /\ bg_pids \in Seq(Pid) /\ Len(bg_pids) <= MaxBg
  /\ last_bg_pid \in Pid \cup {NoPid}
  /\ last_stopped_pid \in Pid \cup {NoPid}
  /\ pc \in Pc
  /\ i \in 1..(MaxBg + 1)
  /\ left \in 0..MaxCmds
  /\ fg \in Pid \cup {NoPid}
  /\ pc \in {"wait", "cont"} <=> fg # NoPid
  /\ pc \in {"exec", "wait", "cont"} => left > 0

\* pstop acts on the most recent job that is still listed: whatever jobs
\* ended, in whatever order, last_bg_pid is the last entry of bg_pids.
LastBgIsTail ==
  last_bg_pid = IF bg_pids = <<>> THEN NoPid ELSE bg_pids[Len(bg_pids)]

\* cont never signals, and never waits for, a pid the table has dropped.
LastStoppedIsListed == last_stopped_pid # NoPid => last_stopped_pid \in Tracked

\* The two remembered pids are what pstop and cont may signal, after any removals.
RememberedAreListed == LastBgIsTail /\ LastStoppedIsListed

\* When the shell has read its table and waits for input, each entry is a
\* child it has not waited for, so no entry can name a stranger's process
\* (as long as fork returns no listed pid: else bg_pids can hold a pid twice,
\* and the entry that bg_reap visits first outlives the child).
TableExactAtPrompt == pc = "read" => \A p \in Tracked : Own(p)

\* Between two prompts only the return of cont's waitpid can leave an entry
\* whose process is no longer a child of the shell (under the same
\* condition).
OnlyContLeavesStale ==
  [][(\A p \in Tracked : Own(p)) => pc = "cont" \/ (\A p \in Tracked : Own(p))']_vars

\* The children nobody will wait for until the shell exits.
Lost == {p \in Pid : Own(p) /\ p \notin Tracked /\ p # fg}

\* A child escapes the table in two ways only: killbp empties the table
\* without waiting, and a full table takes no further job.
LostOnlyByKillbpOrOverflow ==
  [][Lost' \subseteq Lost \/ Len(bg_pids) = MaxBg \/ killbp]_vars

\* numbg counts each job once (as long as fork returns no listed pid).
NoDuplicates == \A j, k \in 1..Len(bg_pids) : bg_pids[j] = bg_pids[k] => j = k

\* The children that have not ended, for the abstract table.
Alive == {p \in Pid : proc[p] \in {"run", "stop"}}

Abs == INSTANCE JobTable WITH alive <- Alive, jobs <- Tracked, waited <- fg

\* The table implements JobTable: a job started while there is room is listed
\* and only a full table takes none; a job leaves the list after it has ended,
\* or with all the others, killed; and the shell takes its next command only
\* when the child it waited for, one of its own or a listed one, has ended
\* (as long as fork returns no listed pid).
ImplementsJobTable == Abs!JSpec

\* A job that has ended leaves the table, however many other jobs are
\* running or stopped before it in bg_pids.
FinishedJobsLeave ==
  \A p \in Pid : (proc[p] = "zombie" /\ p \in Tracked)
                   ~> (p \notin Tracked \/ pc = "exited")

\* A foreground command, or a job resumed by cont, gives the prompt back.
PromptReturns == pc \in {"wait", "cont"} ~> pc \in {"read", "exited"}
=============================================================================
