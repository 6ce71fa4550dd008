-------------------------------- MODULE Fifo ---------------------------------
(***************************************************************************)
(* src/A3/A3.c: "cmd |||" and "|||cmd" in several minibash shells, which    *)
(* share the one FIFO ~/Assignments/Assignment3/minibash_fifo.             *)
(*                                                                         *)
(* The shell opens the FIFO, forks the command with its end as stdout or   *)
(* stdin (run_cmd), waits for it, and only then closes its own end.  A     *)
(* write end is opened with O_NONBLOCK, and stays so for the command.      *)
(***************************************************************************)
EXTENDS Integers, FiniteSets, Sequences

CONSTANTS
    Shells,     \* the minibash processes
    Commands,   \* bound: how many FIFO commands are typed in all
    MaxLines,   \* bound: how many lines a writing command writes at most
    Cap,        \* bound: how many lines fit into the FIFO
    Faults      \* bound: how many forks fail or reading commands end too early

ASSUME FifoAssumption ==
    /\ Commands \in Nat /\ MaxLines \in Nat /\ Cap \in Nat \ {0} /\ Faults \in Nat

VARIABLES
    pc,         \* shell: "prompt", "opening", "open", "wait"
    role,       \* shell: "r" or "w", the command it is at
    prog,       \* its command: "none", "run", "ended"
    holds,      \* is the shell's own end of the FIFO open?
    woken,      \* a reader blocked in open: has a writer opened since?
    fifo,       \* the lines in the FIFO
    typed,      \* commands typed so far, also the names of lines
    wrote,      \* lines the shell's command has written
    met,        \* has a writer been there while this reader was?
    early,      \* has a reading command met end-of-file before any writer came?
    lost,       \* lines that were in the FIFO when its last end was closed
    late,       \* lines written when no reading command was there to come
    faults
fifoVars == <<pc, role, prog, holds, woken, fifo, typed, wrote, met, early,
          lost, late, faults>>

IsRunning(s) == prog[s] = "run"
Has(s, r)  == role[s] = r /\ (holds[s] \/ IsRunning(s))
Writers == {s \in Shells : Has(s, "w")}
\* To the kernel, a reader blocked in open() is one.
Readers == {s \in Shells : Has(s, "r") \/ (role[s] = "r" /\ pc[s] = "opening")}

FifoInit ==
    /\ pc = [s \in Shells |-> "prompt"] /\ role = [s \in Shells |-> "r"]
    /\ prog = [s \in Shells |-> "none"]
    /\ holds = [s \in Shells |-> FALSE] /\ woken = [s \in Shells |-> FALSE]
    /\ fifo = <<>> /\ typed = 0 /\ wrote = [s \in Shells |-> 0]
    /\ met = [s \in Shells |-> FALSE] /\ early = FALSE
    /\ lost = {} /\ late = {} /\ faults = Faults

\* When the last end is closed, the kernel drops what is in the FIFO.  In the
\* next state: call it last.
LastCloseDrops ==
    IF Writers' = {} /\ Readers' = {}
    THEN fifo' = <<>> /\ lost' = lost \union {fifo[i] : i \in DOMAIN fifo}
    ELSE UNCHANGED <<fifo, lost>>

Typed(s) == pc[s] = "prompt" /\ typed < Commands /\ typed' = typed + 1
-----------------------------------------------------------------------------
(* exc_fifo_write_cmd.                                                     *)

\* open(O_WRONLY | O_NONBLOCK): ENXIO when nobody reads.
WriteRefused(s) ==
    /\ Typed(s) /\ Readers = {}
    /\ UNCHANGED <<pc, role, prog, holds, woken, fifo, wrote, met, early,
                   lost, late, faults>>

WriteOpens(s) ==
    /\ Typed(s) /\ Readers # {}
    /\ role' = [role EXCEPT ![s] = "w"] /\ pc' = [pc EXCEPT ![s] = "open"]
    /\ holds' = [holds EXCEPT ![s] = TRUE] /\ wrote' = [wrote EXCEPT ![s] = 0]
    /\ woken' = [r \in Shells |-> woken[r] \/ pc[r] = "opening"]
    /\ met' = [r \in Shells |-> met[r] \/ r \in Readers]
    /\ UNCHANGED <<prog, fifo, early, lost, late, faults>>
-----------------------------------------------------------------------------
(* exc_fifo_read_cmd.                                                      *)

\* open(O_RDONLY) blocks until a writer has opened the FIFO.
ReadStarts(s) ==
    /\ Typed(s)
    /\ role' = [role EXCEPT ![s] = "r"] /\ pc' = [pc EXCEPT ![s] = "opening"]
    /\ woken' = [woken EXCEPT ![s] = Writers # {}]
    /\ met' = [met EXCEPT ![s] = Writers # {}]
    /\ UNCHANGED <<prog, holds, fifo, wrote, early, lost, late, faults>>

\* Variant: the read end is opened with O_NONBLOCK too.
ReadOpens_at_once(s) ==
    /\ pc[s] = "opening"
    /\ pc' = [pc EXCEPT ![s] = "open"] /\ holds' = [holds EXCEPT ![s] = TRUE]
    /\ UNCHANGED <<role, prog, woken, fifo, typed, wrote, met, early, lost,
                   late, faults>>

ReadOpens(s) ==
    /\ pc[s] = "opening" /\ woken[s]
    /\ pc' = [pc EXCEPT ![s] = "open"] /\ holds' = [holds EXCEPT ![s] = TRUE]
    /\ UNCHANGED <<role, prog, woken, fifo, typed, wrote, met, early, lost,
                   late, faults>>
-----------------------------------------------------------------------------
(* run_cmd with stdin_fd or stdout_fd, in the foreground.                  *)

\* Variant: a reading shell closes its end before it forks.
Forks_closed_first(s) ==
    /\ pc[s] = "open"
    /\ pc' = [pc EXCEPT ![s] = "wait"]
    /\ prog' = [prog EXCEPT ![s] = IF role[s] = "r" THEN "ended" ELSE "run"]
    /\ holds' = [holds EXCEPT ![s] = role[s] = "w"]
    /\ UNCHANGED <<role, woken, typed, wrote, met, early, late, faults>>
    /\ LastCloseDrops

Forks(s) ==
    /\ pc[s] = "open"
    /\ pc' = [pc EXCEPT ![s] = "wait"] /\ prog' = [prog EXCEPT ![s] = "run"]
    /\ UNCHANGED <<role, holds, woken, fifo, typed, wrote, met, early, lost,
                   late, faults>>

\* Back at the prompt: close(fd) after run_cmd.
Closes(s) ==
    /\ pc' = [pc EXCEPT ![s] = "prompt"] /\ holds' = [holds EXCEPT ![s] = FALSE]
    /\ prog' = [prog EXCEPT ![s] = "none"]
    /\ UNCHANGED <<role, woken, typed, wrote, met, early, late>>

ForkFails(s) ==
    /\ pc[s] = "open" /\ faults > 0 /\ faults' = faults - 1
    /\ Closes(s) /\ LastCloseDrops

\* Variant: the return in front of close(fd).
Waited_stays_open(s) ==
    /\ pc[s] = "wait" /\ prog[s] = "ended"
    /\ pc' = [pc EXCEPT ![s] = "prompt"] /\ prog' = [prog EXCEPT ![s] = "none"]
    /\ UNCHANGED <<role, holds, woken, typed, wrote, met, early, late, faults>>
    /\ LastCloseDrops

Waited(s) ==
    /\ pc[s] = "wait" /\ prog[s] = "ended" /\ UNCHANGED faults
    /\ Closes(s) /\ LastCloseDrops
-----------------------------------------------------------------------------
(* The commands (external).                                                *)

Ends(s) == prog' = [prog EXCEPT ![s] = "ended"]
Shell == <<pc, role, holds, woken, typed>>

\* Will a reading command still be there?
ReaderToCome == \E r \in Readers : pc[r] \in {"opening", "open"} \/ IsRunning(r)

Writes(s) ==
    /\ IsRunning(s) /\ role[s] = "w" /\ wrote[s] < MaxLines /\ Readers # {}
    /\ Len(fifo) < Cap
    /\ LET line == <<typed, s, wrote[s]>> IN
       /\ fifo' = Append(fifo, line)
       /\ late' = IF ReaderToCome THEN late ELSE late \union {line}
    /\ wrote' = [wrote EXCEPT ![s] = @ + 1]
    /\ UNCHANGED <<Shell, faults, prog, met, early, lost>>

\* Its stdout is non-blocking: a full FIFO is an error, and the command gives up.
WriteAgain(s) ==
    /\ IsRunning(s) /\ role[s] = "w" /\ wrote[s] < MaxLines /\ Readers # {}
    /\ Len(fifo) = Cap /\ Ends(s)
    /\ UNCHANGED <<Shell, faults, fifo, wrote, met, early, lost, late>>

WriterEnds(s) ==
    /\ IsRunning(s) /\ role[s] = "w" /\ Ends(s)
    /\ UNCHANGED <<Shell, faults, fifo, wrote, met, early, lost, late>>

Reads(s) ==
    /\ IsRunning(s) /\ role[s] = "r" /\ fifo # <<>>
    /\ fifo' = Tail(fifo)
    /\ UNCHANGED <<Shell, faults, prog, wrote, met, early, lost, late>>

ReadsEof(s) ==
    /\ IsRunning(s) /\ role[s] = "r" /\ fifo = <<>> /\ Writers = {} /\ Ends(s)
    /\ early' = (early \/ ~ met[s])
    /\ UNCHANGED <<Shell, faults, fifo, wrote, met, lost, late>>

\* SIGPIPE when every reader is gone; a reading command that needs no more.
Sigpipe(s) ==
    /\ IsRunning(s) /\ role[s] = "w" /\ Readers = {} /\ Ends(s)
    /\ UNCHANGED <<Shell, faults, fifo, wrote, met, early, lost, late>>
Quit(s) ==
    /\ faults > 0 /\ faults' = faults - 1
    /\ IsRunning(s) /\ role[s] = "r" /\ Ends(s)
    /\ UNCHANGED <<Shell, fifo, wrote, met, early, lost, late>>

Command(s) == Writes(s) \/ WriteAgain(s) \/ WriterEnds(s) \/ Reads(s) \/ ReadsEof(s) \/ Sigpipe(s)
Minibash(s) == ReadOpens(s) \/ Forks(s) \/ ForkFails(s) \/ Waited(s)
Types(s) == WriteRefused(s) \/ WriteOpens(s) \/ ReadStarts(s)
FifoNext == \E s \in Shells : Types(s) \/ Minibash(s) \/ Command(s) \/ Quit(s)
FifoSpec == FifoInit /\ [][FifoNext]_fifoVars
FairSpec == FifoSpec /\ \A s \in Shells : WF_fifoVars(Minibash(s)) /\ WF_fifoVars(Command(s))
-----------------------------------------------------------------------------
TypeOK ==
    /\ pc \in [Shells -> {"prompt", "opening", "open", "wait"}]
    /\ role \in [Shells -> {"r", "w"}] /\ prog \in [Shells -> {"none", "run", "ended"}]
    /\ {holds, woken, met} \subseteq [Shells -> BOOLEAN]
    /\ Len(fifo) =< Cap /\ typed \in 0 .. Commands /\ wrote \in [Shells -> 0 .. MaxLines]
    /\ early \in BOOLEAN /\ faults \in 0 .. Faults
    /\ \A s \in Shells : pc[s] = "wait" <=> prog[s] # "none"

\* A reading command never meets end-of-file before a writer has come: its shell
\* waits in open (O_RDONLY without O_NONBLOCK).
EofAfterWriter == ~ early

\* As long as no reading command ended before its input and no fork failed, a line
\* that was written while a reading command was there, or was to come, is not dropped:
\* one of them reads it, however the shells' opens, waits and closes are interleaved
\* (exc_fifo_read_cmd, exc_fifo_write_cmd).
LostOnlyIfLate == faults = Faults => lost \subseteq late

\* Writing commands are not typed for ever.
WritersStop == <>[][\A s \in Shells : ~ WriteOpens(s)]_fifoVars

\* A shell that has opened the FIFO gets back to its prompt (run_cmd's waitpid, the
\* close(fd) of every other shell).  That needs WritersStop: a reading command whose
\* writers relieve one another without end never meets end-of-file, in the code either.
OpenedReturns == WritersStop => \A s \in Shells : pc[s] = "open" ~> pc[s] = "prompt"
=============================================================================
