------------------------------ MODULE JobTable ------------------------------
(***************************************************************************)
(* What the background-job table promises, with neither the array, nor the *)
(* loop of bg_reap, nor the two remembered pids: the set of listed jobs,   *)
(* the set of children that are alive and the child the shell waits for.   *)
(* A job started while there is room is listed, and only a full table      *)
(* takes none.  A job leaves the list after it has ended, or when all the  *)
(* jobs are killed.  The shell waits for the command it runs in the        *)
(* foreground or for a listed job, until that one has ended.  BgJobs       *)
(* implements this module.                                                 *)
(***************************************************************************)
EXTENDS Naturals, FiniteSets

CONSTANTS
  Pid,       \* process ids
  NoPid,     \* nobody
  MaxBg      \* the jobs the table can list

VARIABLES
  alive,     \* children that have not ended
  jobs,      \* the listed jobs
  waited     \* the child the shell waits for, or NoPid

jvars == <<alive, jobs, waited>>

JInit ==
  /\ alive = {}
  /\ jobs = {}
  /\ waited = NoPid

\* A new child: its pid is neither alive nor listed.
Start(p) ==
  /\ waited = NoPid
  /\ p \notin alive /\ p \notin jobs
  /\ alive' = alive \cup {p}

\* cmd & with room in the table
Launch(p) ==
  /\ Start(p)
  /\ Cardinality(jobs) < MaxBg
  /\ jobs' = jobs \cup {p}
  /\ UNCHANGED waited

\* cmd & with a full table: the job runs on, listed nowhere
LaunchUnlisted(p) ==
  /\ Start(p)
  /\ Cardinality(jobs) = MaxBg
  /\ UNCHANGED <<jobs, waited>>

\* cmd
Foreground(p) ==
  /\ Start(p)
  /\ waited' = p
  /\ UNCHANGED jobs

\* cont
Resume(p) ==
  /\ waited = NoPid
  /\ p \in jobs
  /\ waited' = p
  /\ UNCHANGED <<alive, jobs>>

\* The child the shell waits for has ended.
Return ==
  /\ waited # NoPid
  /\ waited \notin alive
  /\ waited' = NoPid
  /\ UNCHANGED <<alive, jobs>>

End(p) ==
  /\ p \in alive
  /\ alive' = alive \ {p}
  /\ UNCHANGED <<jobs, waited>>

\* Only a job that has ended is dropped.
Drop(p) ==
  /\ p \in jobs \ alive
  /\ jobs' = jobs \ {p}
  /\ UNCHANGED <<alive, waited>>

\* killbp: no listed job survives.
KillAll ==
  /\ waited = NoPid
  /\ alive' = alive \ jobs
  /\ jobs' = {}
  /\ UNCHANGED waited

JNext ==
  \/ KillAll
  \/ Return
  \/ \E p \in Pid : \/ Launch(p) \/ LaunchUnlisted(p) \/ Foreground(p)
                    \/ Resume(p) \/ End(p) \/ Drop(p)

JSpec == JInit /\ [][JNext]_jvars
=============================================================================
