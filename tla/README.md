# A TLA+ verification project for COMP8567

The repository holds three larger programs of a systems-programming course and many
short ones. The larger programs are `src/A3/A3.c` (*minibash*, a shell), `src/A2/A2.c`
(a tool on the process tree) and `src/A1/A1.c` (a tool on directory trees); of the short
ones, five run several processes, threads or signal handlers with a protocol between
them. This directory models them in TLA+, checks the models with TLC and proves part of
the results with TLAPS.

All but one of these programs are single-threaded. What makes them hard is what runs beside
them: children that end when they like, other shells on the same FIFO and files, a
kernel process table that changes between two reads, system calls that fail in the
middle of a loop.

## 1. Inventory

### minibash (`src/A3/A3.c`)

`main` is a loop: `bg_reap`, prompt, `fgets`, trim, `do_lex`, `parse_command_line`,
`do_execute`. A line becomes tokens, tokens become up to `MAX_CMDS` commands with the
operators between them, and one of five executors runs them. They call
`do_dispatch_cmd`, which ends in `run_cmd` (fork, wire, exec, wait), `run_pipe`, the FIFO
commands, the text commands or a builtin.

| part | state | operations | what is hard |
|---|---|---|---|
| background jobs | `bg_pids`, `bg_count`, `last_bg_pid`, `last_stopped_pid` | `bg_add`, `bg_has_pid`, `bg_remove_at`, `bg_reap`, `run_cmd`, `pstop`, `cont`, `numbg`, `killbp`, `killmb` | jobs end between any two steps; entries removed inside the loop; two pids that are copies of an entry; pids the kernel reuses; a table at its limit |
| lexer | the token array | `do_lex`, `push_token` | operators that are prefixes of others; three places where an array or a text may be full |
| parser | the command array, the operators | `parse_command`, `append_command_arg`, `parse_operator`, `parse_command_line` | which prefix and suffix marks combine, and which wins |
| execution of a line | `last_rc`, the loop index | `do_execute`, `exc_sequence_cmd`, `exc_conditional_cmd`, `exc_pipe_cmd`, `exc_reverse_pipe_cmd` | skipped commands, negative return codes, mixed operators |
| pipe chains | `pipes[][2]`, `pids[]`, descriptors of shell and children | `run_pipe` | every process holds every pipe until it closes it; stages end while others are still forked; failures in the middle |
| common FIFO | descriptors, the FIFO | `exc_fifo_write_cmd`, `exc_fifo_read_cmd`, `run_cmd` | several shells; blocking and non-blocking open; a shell's own end outliving its command |
| text operators | the files | `exc_txt_app_cmd` (`++`), `exc_word_count_cmd` (`#`), `exc_txt_cat_cmd` (`+`) | two appends of two writes each, of which one may fail; several shells; a shell killed between two writes; two names of one file |
| `killallmb` | other processes | `signal_other_minibash_instances`, `is_same_executable_as_self`, `is_on_different_terminal_from_self` | a walk over `/proc` with two tests and a signal per process, each a step; children of other shells that have not exec'd yet |
| main loop and stdio | `line`, the buffers of stdin and stdout, the file offset | `main`, `discard_rest_of_line`, `trim_inplace`, `report_parse_error` | a forked child has copies of both buffers and shares the offset; lines at the limit or without end |

### Process-tree tool (`src/A2/A2.c`)

`main` checks that `process_id` lies below `root_process` and runs one option: counts
(`-cnt`, `-dnd`, `-oct`), oldest and newest descendant (`-odt`, `-ndt`), kills of
descendants, children, grandchildren (`-dtm`, `-kcp`, `-kgc`), signals to siblings
(`-sst`, `-sco`, `-ksp`, `-kps`), to the parent, grandparent or root (`-kpp`, `-kgp`,
`-krp`), bash subtrees (`-bcp`, `-bop`), and two values of one process (`-mmd`, `-mpd`).
Its only state is the list it collects; the state it relates is the kernel's. Hard:
every file of `/proc` is a separate read, and processes end, are reaped, fork and exec in
between; process ids are signalled long after they were read.

### Directory tool (`src/A1/A1.c`)

One `nftw` walk with a callback whose mode is a global; `-dmove` walks a second time with
`FTW_DEPTH` and deletes. `-copyd` and `-dmove` change the file system, `-remd` unlinks
files with a given extension, the other options (`-flist`, `-tcount`, `-srchf`,
`-dircnt`, `-sumfilesize`, `-lfsize`, `-nonwr`) collect during one walk, sort and print.
Hard: destination inside or above the source, entries that fail, directories that cannot
be read, links and fifos where a copy goes, another program that adds or deletes entries
during the walk.

### Labs and snippets

`labs/lab7.c` is a ring of five processes that stop themselves and resume each other;
`labs/lab6.c` counts CTRL-C in two signal handlers; `threads/ticket1.c` and `ticket2.c`
book tickets from several threads, without and with a mutex; `pipes/ex5server.c` and
`ex5client.c` talk over a FIFO that the server makes anew. The other files of `labs`,
`fileio`, `pointer`, `process`, `pipes`, `threads`, `signals`, `sockets` and `shellp` are
course examples of a few lines each, with no state that outlives a statement or two, or
special cases of what is modelled (section 5).

## 2. Modules

| module | models | lines of code |
|---|---|---|
| `JobTable` | what the job table promises: a set of listed jobs, a set of live children and the child the shell waits for | abstract |
| `BgJobs` | the job table, the builtins on it, `run_cmd`'s fork and wait, `bg_reap` one turn at a time, next to the kernel's process table | A3.c 27-31, 246-312, 837-906, 1185-1272, 1729-1790 |
| `BgJobsProofs` | theorems on `BgJobs` | |
| `CmdLexer` | `do_lex` and `push_token` | A3.c 56-80, 325-343, 519-658 |
| `CmdParser` | `parse_command`, `parse_command_line`; extends `CmdLexer` | A3.c 44-140, 346-367, 661-802 |
| `CmdExec` | `do_execute` and the executors; extends `CmdParser`, so that one behaviour is one line from its characters to its last return code | A3.c 1160-1182, 1283-1392, 1663-1727 |
| `PipeChain` | `run_pipe`, one loop iteration per step, with children and programs | A3.c 924-1055 |
| `PipeChainProofs` | theorems on `PipeChain` | |
| `Fifo` | `cmd |||` and `|||cmd` in several shells | A3.c 1406-1481 |
| `ShellProofs` | theorems on `CmdLexer`, `CmdParser`, `CmdExec` and `Fifo` | |
| `TxtFiles` | `++`, `+` and `#` in several shells | A3.c 370-467, 1492-1660 |
| `KillAllMb` | `killallmb`, and a child on its way to exec; extends `TxtFiles`, so that shells are killed inside an operator | A3.c 1062-1157, parts of `run_cmd` |
| `KillAllMbProofs` | theorems on `TxtFiles` and `KillAllMb` | |
| `Stdio` | `main`'s loop around the executors, with stdin and stdout as the children see them | A3.c 156-198, 528-534, 842-906, 1189-1272, 1729-1790 |
| `StdioProofs` | theorems on `Stdio` | |
| `ProcTool` | all of A2's options, one read of `/proc` per step, next to other processes | A2.c |
| `ProcToolProofs` | theorems on `ProcTool` | |
| `DirMove` | `-copyd` and `-dmove`, one entry per step, with `main`'s checks of the paths | A1.c, `cb` in two modes and their helpers |
| `DirTool` | the other options of A1; extends `DirMove` to the whole tool | A1.c, `cb` in the other modes, comparisons, `main` |
| `DirToolProofs` | theorems on `DirMove` and `DirTool` | |
| `StopRing` | lab7 | lab7.c |
| `CtrlC` | lab6 | lab6.c |
| `Tickets` | the ticket counter | ticket1.c, ticket2.c |
| `FifoExchange` | the FIFO server and its clients | ex5server.c, ex5client.c |
| `Labs` | the last four, of which `Init` chooses one | |
| `LabsProofs` | theorems on `StopRing`, `CtrlC`, `Tickets` and `FifoExchange` | |
| `MCCmdLine`, `MCDirTool`, `MCKillAllMb`, `MCProcTool`, `MCStdio` | the inputs TLC tries | |

How state and actions correspond to the code, module by module:

**BgJobs.** `bg_pids` is a sequence whose length is `bg_count`; `NoPid` is the `-1` of
the two remembered pids. `proc` maps every pid to what the kernel runs under it: a
running, stopped or dead child of the shell (`zombie` until it is waited for), a
stranger, nothing. `bg_reap` is one turn of the loop (one `waitpid(.., WNOHANG)` and, if
it does not return 0, `bg_remove_at`); `RunFg` and `FgEnds` are the two halves of a
foreground `run_cmd`, `cont` and `contReturns` those of `cont`. The children
(`ProcessEnds`) and the owners of reused pids (`StrangerStarts`, `StrangerEnds`) move
between any two steps of the shell. Commands that neither touch the table nor its
children are one action, `OtherBuiltin`. Up to `MaxCmds` commands follow each other on a
line; a failing one may end it (`Finish`).

**CmdLexer, CmdParser, CmdExec.** A character is one of the eight special characters, a
blank or `w`, any other. The text of a word is kept as its place in the line. `Operator`
takes the longest spelling that fits, what the code's order of tests comes to; `Word`
takes characters up to the next blank or special one; `push_token` refuses the token that
would take the place of `TOK_EOF`. The
parser consumes one token per step, as the code's loop does, into a command (argument
count, node type, background flag, redirections). Execution yields a return code of
`{-1, 0, 1}` for each command: negative for a child ended by a signal, an unreadable
file, a FIFO without reader, a failed fork; positive for any other failure.

**PipeChain.** `pc` and `i` are the shell's place in `run_pipe`, `mine` the pipes it has
open; `st`, `at`, `fds`, `in`, `out` are each child's place, the pipes it has not closed
yet and what is behind its stdin and stdout. The shell and a child close both ends of
one pipe per step. Programs write, read, meet end-of-file, get SIGPIPE, exit or quit; a
pipe holds `Cap` writes. `pipe`, `fork`, `open` and `execvp` may fail.

**Fifo.** Each shell is at its prompt, in a blocking `open`, between `open` and `fork`,
or waiting; `holds` says whether its own end is open, `prog` what its command does.
`LastCloseDrops` is the kernel's rule that a FIFO without any end loses its content.
Background forms of the FIFO commands are not modelled: `CmdParser` shows that a line
with `|||` and `&` becomes a plain background command, so those branches of
`exc_fifo_*` are never taken.

**TxtFiles.** A content is a sequence of characters, some of them blanks. `Names` maps
typed paths to files, and two paths may name one file. A file is read bit by bit: each
read goes on from where the last one ended as far as the file reaches by then or less
(`Further`), until one finds the end (`AtEnd`), and other shells append in between. The
end is sticky, as the C standard has it. `#` reads a character at a time; `Width`
characters of a word are as much as `fscanf` takes at once, 511 in the code, so that a
longer word counts more than once. An append is two writes, those of `fwrite` and of
`fclose`, cut anywhere; a failing `fwrite` is taken to have written nothing.

**KillAllMb.** `exe` and `fd0` are the two links of `/proc` the tests read. A shell that
runs a command has a child that is minibash too until it execs, and whose stdin becomes a
file on the way. `pending` are the processes a SIGTERM is on its way to. `opendir("/proc")`
may fail (`ProcUnopened`), one of the failures `OpenFaults` bounds.

**Stdio.** A script is a sequence of cells (commands, blanks, newlines), cut anywhere by
the end of a buffer or of `line`. `offset` belongs to the open file, which children
share; `unread` and `out` are the shell's buffers; a member of `kids` has copies. What
`exit()` in a child does with them (`Exits`) is glibc's: unwritten output is written,
and a seekable stdin is moved back, relative to where the offset is by then, by what the
copy had not used. Commands are those that print, those that are exec'd, and those whose
redirection or exec fails, with or without redirection, in front or in the background.

**ProcTool.** `ps`, `ppid`, `start`, `bash` are the kernel's; each step of the tool
reads one file for one process (`Hop`, `Climb`, `Stat`, `Status`, `Comm`) or sends one
signal. `opendir("/proc")` may fail wherever it is called (`OpenFails`). What `-kpp`,
`-kgp` and `-krp` print is the pid they have killed, or nothing; the other options print
a pid or a number. The pids of a directory stream are those of the moment it was opened. A process
that ends leaves its children to init (pid 1). `Others` is everything the rest of the
system may do; with `quiet` it does nothing.

**DirMove, DirTool.** A path is a sequence of names, a name one of characters where it
matters (extensions, the test that a path is below HOME). The file system is a function
from paths to nodes; a file's data is named after its source and is whole or not. `stack`
is `nftw`'s: the directories being read, with the entries that were there when each was
opened, which it must visit, and those that came later, which it may. Copying a file is
two steps (open, then data), and for the reports passing an entry is two (lstat, then
the callback), so that another program's step comes between them. Below
`destination_dir` the kernel follows the links it finds: `Way` are the places
`mkdirs_for_path` comes to, where `EEXIST` of a link counts as success, and `Lands` is the
file `open` truncates. A link is modelled as the path it leads to in the end; that path
may lie anywhere and need not exist. A fifo where a copy goes blocks the tool in `open`
(`CopyBlocks`). `nftw` itself may fail (`WalkFails`), and `main` dies of it.

**StopRing.** `pc` of the five processes; a SIGCONT to a process that is not stopped has
no effect. `timely` says whether sleeps are longer than everything else.

**CtrlC.** `frames` is the stack of handlers, each at a statement; a signal is delivered
unless its own handler runs. **Tickets.** One step per load, test and store; the compiler
may or may not read the variable again. **FifoExchange.** `open` counts the end it opens
and then waits for the other one, as Linux does it; `name` is the FIFO the path names,
`file` the one a client has opened.

## 3. Runs

Every passing run ends without error and without hitting its bounds' edge cases
artificially: each bound below is the smallest at which the interesting case exists, or
one more.

| run | checks | bounds and why they are enough |
|---|---|---|
| `bg_table` | `RememberedAreListed`, `TableExactAtPrompt`, `LostOnlyByKillbpOrOverflow`, `OnlyContLeavesStale`, `ImplementsJobTable`, `FinishedJobsLeave`, `PromptReturns` | 3 pids and a table of 2: a full table with a further job, a removal in front of another entry; 3 commands on a line: `pstop ; cont ; numbg` |
| `command_line` | `TokensAreLine`, `ParserReadsLine`, `LineRunsAsWritten` | all lines of 4 characters (every three-character operator with a neighbour), all lines of 3 tokens, lines up to 7 tokens over the types that shape a line, chains of 3 commands with every connector; limits of 7 tokens, 2 arguments, 3 commands, all of which are exceeded |
| `pipe_chain` | `EofIsFinal`, `SigpipeIsFinal`, `OwnPipesOnly`, `NothingLeft`, `ResultOfLastCommand`, `ChainReturns` | 3 stages, so that one has a pipe on both sides; pipes that block after one write, programs with two |
| `fifo` | `EofAfterWriter`, `LostOnlyIfLate`, `OpenedReturns` | 3 shells (two of a kind and one of the other), 4 commands, so that one shell can be there twice; a FIFO that is full after one line; one failing fork or reader that quits |
| `shells` | `OutcomeReported`, `ReadsAContent`, `KillallSpares`, `KillallReaches` | 3 shells on up to three terminals or a file, one line each: `++` on either order of two files and on two names of one, `+`, `#`, `killallmb`, a command; a text that ends inside a word, which an append makes longer than `Width = 2`, and one that ends with a blank; one failing call (`opendir` among them), one failing `fclose` |
| `stdio` | `LinesRunOnce`, `PrintedOnce` | scripts of 3 or 4 lines from nine kinds, every pair of the first two; lines of up to 7 cells against a limit of 4; a read-ahead of 6 cells, which ends inside a line; 6 lines run |
| `proc_tool` | `ExactWhenQuiet`, `DtmLeavesFirst`, `KillsOnlyFamily`, `SparesBash` | all trees of 5 processes (a chain of great-grandchildren, siblings at each level) that keep still, up to two of them bash, for all options, and an `opendir` that fails; 4 processes and room for one more with 3 events of others for `-dtm`, `-kgc`, `-ksp`, `-kpp`: a parent that ends during the climb, a pid released before the kill |
| `dir_tool` | `CopiedOrCounted`, `GoneOrReported`, `ReportSpansWalk`, `ChangesOnlyNamed` | `-copyd` and `-dmove`: a directory with an entry of each kind and a subdirectory with a file; nothing, a file, a directory or a blocked directory at the destination, a fifo there, and ten worlds of links: at the copy of a file, to the source, to a file outside HOME, to nothing, to a second copy; at the copy of a directory, to one outside HOME, to nothing, to the source; a link that leads back; destination beside the source, the source itself, outside HOME; one failing call, one file that appears; paths of 6 names, so that the copy into itself runs into the limit. The other options: two files of one name and size, a name that is the extension, a fifo, an empty and a locked directory, one entry that comes and one that goes |
| `labs` | `CounterArmed`, `BookedOnce`, `LostOnlyAtEof`, `InRingOrder`, `KeepsGoing`, `ExchangeReturns` | the five processes of lab7; six CTRL-C and a window of two ticks, so that three windows end; the five threads and two tickets of the programs; three clients of two bytes each, one of which can be early, one in time and one late |

What the runs show, in words:

- **bg_table**: while fork returns no listed pid (`ListedReuse = FALSE`), at every prompt
  each entry is a distinct child not yet waited for; within a line only `cont` makes an
  entry stale; the remembered pids are entries; children are lost only by `killbp` or a
  full table; jobs that ended leave the table and the prompt always comes back; and the
  whole implements `JobTable` (refinement: `alive` is the running and stopped children,
  `jobs` the set of entries, `waited` is `fg`): a job started while there is room is listed,
  and a job that starts unlisted has met a full table. The assumption is needed: a stale entry left by `cont` and
  a new job with the same pid are two entries for one child, of which the second outlives
  the child.
- **command_line**: tokens are the line without its blanks, each the longest the line
  allows; the parser accepts exactly the language written down without a parser
  (`Accepts`) and reads each command's arguments and type off the right words; the
  commands run are those the operators ask for, in order, up to the first negative code.
  `PARSE_ERR_TOO_MANY_COMMANDS` and a trailing operator behave as coded: the former
  cannot be reached before another error, the latter is accepted by the parser and
  refused by the sequence and conditional executors.
- **pipe_chain**: end-of-file and SIGPIPE come only when a neighbour is gone for good, a
  program holds just its two ends, `run_pipe` leaves nothing behind on any path, always
  returns, and returns the status of the stage that runs last.
- **fifo**: a reading command never meets end-of-file before a writer came; if nothing
  fails, lines are dropped only when written after the last reading command had ended;
  a shell that has opened the FIFO comes back, if writers do not come for ever.
- **shells**: `++` returns 0 only when both contents arrived (as long as `fclose` works);
  `++`, `+` and `#` see a content the file had between call and return, although they
  read it bit by bit and other shells append meanwhile, half a word at a time. What `#`
  counts are the words of that content, one longer than `Width` once for each `Width`
  characters it has begun. `killallmb` signals no shell of its own terminal and no program
  that had been exec'd when it began; when the `killallmb` of a shell with a terminal
  returns 0, every shell of another terminal that was there at its start is signalled or
  has ended. Called by a shell without a terminal it signals nobody, and when `/proc`
  cannot be opened it returns -1.
- **stdio**: as long as no child moves the shared offset, the lines of the input are run
  once each and in order, but for those too long, refused or without newline, and no
  rest of a dropped line is run. Output is printed once, and on a file once more for
  each command behind it on its line that could not be exec'd, never for one of a later
  line, because `main` flushes at the prompt.
- **proc_tool**: on a tree that keeps still every report and every set of victims is
  exact, the single victims of `-kpp`, `-kgp` and `-krp` too, a tool that cannot read
  `/proc` has printed nothing and killed nobody, and `-dtm` kills leaves first; while the tree changes, `-dtm`, `-kcp` and
  `-kgc` still signal nothing that was never a descendant (without pid reuse), and no
  process that was bash from its start is signalled. `-oct` prints 0 on a still tree: an
  orphan is a child of init by then and no descendant any more. Ties of start time go to
  the smaller pid for `-ndt` and `-odt`, to the larger for `-dtm`.
- **dir_tool**: for each regular file that is not whole where the path of its copy leads a
  failure was counted (except below unreadable directories, and where one file is copied
  over another); `-dmove` removes the source or warns; a report lies between what was
  there throughout its walk and what was there at any time of it, in the order it
  promises; nothing changes but what the command names, below HOME, and what links below
  `destination_dir/<base>` lead the copy to, which may be anywhere.
- **labs**: never two turns out of order in lab7, and everyone gets a turn again and
  again if the sleeps are long enough; lab6 remembers a press exactly as long as an alarm
  is out that forgets it; with the mutex no ticket is booked twice, and without it
  nobody is turned away while one is left; the FIFO server prints every byte of every
  client but one that comes between its end-of-file and its close, and server and
  clients end unless a client has opened a FIFO left from before, or has come after the
  server was done, or none has come.

Three runs end in a violation. Each states what the repository says of the program and
the code does not do:

| run | property | what the run shows |
|---|---|---|
| `sequence_stops_on_failure` | `SequenceIgnoresResults` | `;` runs the next command "whatever the result" says the comment of `exc_sequence_cmd`; a negative code ends the line |
| `copy_into_parent` | `SourceUntouched` | `-copyd` into the parent of the source copies every file onto itself, truncated first |
| `move_after_failure` | `DeletesOnlyAfterSuccess` | `-dmove` deletes the source of a copy that failed |

Further places where code and text differ, met while modelling and not kept as runs:
`-dtm` on the shell that started the tool kills the tool first, as the newest descendant,
and leaves the others (A2.c 669);
a script on a seekable stdin (`minibash < script`) is read again from behind the read-ahead
after each command that cannot be exec'd, because the child's `exit(123)` moves the shared
offset (A3.c 890), so that its later lines run twice, while `_exit` would not do it;
the last line of a script without a newline is reported as too long and not run (1750);
`cmd > file` that fails writes the shell's unflushed output into that file (890);
a client of ex5 that opens a FIFO of an earlier run waits for a server that has replaced
it, and the server for a client, though the comment (ex5client.c 30) says "keep trying
until server is ready"; lab6 may exit on a press after the message that the count is reset
(lab6.c 31); the rest are of the larger programs again:
a job started with a full table is not "stored in bg list" (A3.c 249, comment of
`run_cmd`); `cont` leaves its pid listed until the next prompt (1230); `cont` says there
is no stopped process after the second of two stopped jobs was asked for (1222); `||`
does not run its alternative after a negative code (1366); lines that mix `|` with `&&`
are refused without the message test TC-NEG-03 expects (1690); a full FIFO is an EAGAIN
error to the writing command, because its end was opened non-blocking (1422); a writer
that comes between the end of the reading command and its shell's `close` loses its
output in silence (1478); `a.txt ++ ./a.txt` is accepted (1625); the result of `fclose`
is not looked at; `-bop` counts a bash that runs below another; a directory that cannot
be opened is left out of `-copyd` without a failure, and `-dmove` of one says "source
removed"; `-dmove` into a directory of the source deletes the copy as well; links below
`destination_dir/<base>` are followed, so that `-copyd` and `-dmove` may make and truncate
files outside HOME, which `path_is_under_home` keeps them from otherwise (A1.c 356-368,
390), and where the link at a file's copy leads to the file itself, its content is gone and
the copy is counted as made, a second way to break `SourceUntouched`; a fifo at the place of a
copy makes the tool wait in `open`, for ever if nobody reads it; A1.md (9, 13-36)
describes `-flist` and `-tcount` for the regular files of the whole tree, while the code,
its comment (A1.c 510) and test_case.txt (19, 23: "one-level only") take those of the
directory itself, which is what `ReportSpansWalk` states; A1.md (54-64) has `-dircnt`
count every directory, and the code leaves out one that cannot be opened (`FTW_DNR`);
`#` counts a word of 512 bytes or more as several (A3.c 1522). A pid reused
between scan and kill, and a process that execs bash between check and kill, are killed
by A2.

### Fairness

`bg_table`: the shell takes steps, because it is a running process and its user keeps
typing; a *running* child ends, because programs are taken to be finite. A stopped child
need not. `pipe_chain`: shell, children and programs take steps; `Quit`, ending before
the end of input, is never forced. `fifo`: shells and commands take steps; users are not
forced to type (`Types` has no fairness), so a reader may wait for a writer forever, and
the property speaks of shells that have opened the FIFO. A reading command also stays as
long as any writer is there, and writers that relieve one another without end would keep
it from end-of-file for ever, in the code too: `OpenedReturns` has as hypothesis that
writing commands are not typed for ever (`WritersStop`). The bound `Commands` makes that
true of every behaviour of the run. `labs`: every process that can
run does and every sleep ends; `FifoExchange`: server and clients run, and whoever types
into a client ends the input some time. All of it is weak fairness. `proc_tool`,
`dir_tool`, `shells`, `stdio` and `command_line` check no liveness: their programs are
loops over finite data.

`CHECK_DEADLOCK FALSE` is set where the program ends (a line has run, `run_pipe` has
returned, the bounded number of commands has been typed, the tool is done) and for
`labs`, whose programs end or may really stop.

## 4. Proofs

Eight modules hold theorems. They are for every value of the constants: any set of pids,
any table size, any chain length, any capacity, any number of shells, processes or
threads, within the named assumption of each module (`PipeAssumption`, `ToolAssumption`
and so on), which every run evaluates. The bounds on the environment (`Events`,
`Presses`, `Faults`) are constants too, so that they bound nothing in a proof.

`BgJobsProofs`:

- `TypeCorrect`, `RememberedCorrect` (from `LastBgCorrect` and `LastStoppedCorrect`) and
  `LostOnly` need no assumption on
  pid reuse. `LastBgIsTail` is inductive with `TypeOK`. `LastStoppedIsListed` follows
  because `pstop` tests `bg_has_pid` and `bg_remove_at` clears what it removes.
- `TableExact`, `StaleOnlyByCont` and `Refinement` assume `~ListedReuse`.
  `TableExactAtPrompt` is not inductive: it says nothing while `bg_reap` runs. The
  inductive `TableInv` adds that entries are distinct (`NoDuplicates`: otherwise waiting
  for one entry makes another stale), that in the loop the entries already passed are
  children (`j < i`), and that a foreground child is not listed (its wait would make the
  entry stale). Lemmas say what `bg_remove_at` keeps (`ShiftDownKeeps`, `ReapRemoves`),
  which steps change the set of entries (`TrackedStep`) and which release a child
  (`OwnStep`).
- `Refinement` maps every step of `BgJobs` to a step of `JobTable` or a stutter. That a
  job is refused by a full table only needs `TrackedCardinality`: as the entries are
  distinct, the listed jobs are as many as `bg_count`. That a job is listed while there is
  room is `LaunchUnlisted`'s guard in `JobTable`.

`PipeChainProofs`: `ChainInv` is the conjunction of the type invariant, the place of the
shell in its loops (`ShellInv`), which stages have been forked and waited for at each
place (`ForkInv`), the result (`ResultInv`), which pipes a child has still open at each
place of its loop (`FdInv`), what its stdin and stdout are (`WireInv`), that what ran is
accounted for (`RanInv`), and the two properties `EofIsFinal` and `SigpipeIsFinal`
themselves. `SigpipeIsFinal` needs the rest: that no reader is left when SIGPIPE comes
means that the next stage was forked, since until then the shell holds the pipe. One
lemma per action; the six safety properties of the run `pipe_chain` follow.

`ShellProofs`, for a line and limits of any length:

- `TokensCorrect` from `LexInv`: the tokens taken so far stand one behind the other before
  `p`, cover every character there that is not blank, none could have been longer, and
  their number leaves a place for `TOK_EOF`. That no character of an operator is blank or
  of a word (`SpellingFacts`, `StartsIs`), and what stands on the line one character
  further (`LongerIs`), are lemmas.
- `ParserCorrect` from `LineType`, `CountInv` (below) and `ParseInv`. The language is
  defined on the whole line, cut at its connectors; the parser sees one token at a time.
  `ParseInv` ties them: the pieces before the current one are the commands read, the
  current one is read to `pos`, a place between its two connectors (`InCommand`,
  `AfterCommand`), and once an error is returned the line is not in the language. Every
  error needs a reason that no later token can repair: too many words (`TooManyWords`), a
  redirection without file (`NoFile`), a `&` with something behind it (`AmpInside`).
  `PARSE_ERR_TOO_MANY_COMMANDS` needs none: the proof shows that it is never returned.
  That `Cuts` lists all connectors in order is a counting argument (`RankGrows`,
  `RankReached`).
- `LineRunsCorrect` from `LineType`, `CountInv` (an accepted line has as many operators as
  commands or one less, what the executors index) and `ExecInv`. `LineRunsAsWritten` says
  which commands have run once the line is done and is not inductive; `SequenceInv` and
  `ConditionalInv` say at every command that of those before it exactly the wanted ones
  have run and that `last_rc` is the code of the last of them, which after a command that
  was skipped is not the one before. What `Wanted` says of a command depends on the codes
  of those that ran before it only, so it stays true as later ones run (`BeforeSame`).
- `EofCorrect` and `LossCorrect` from `FifoInv`. Neither property is inductive. The first
  needs that a reader that has got past its open has met a writer (`MetInv`) and holds its
  end until it closes it (`HoldsInv`, or the FIFO could empty itself under it). The second
  speaks of what is lost already; `LateInv` adds what will be: once no reading command is
  there or to come, everything in the FIFO was written too late, because the last one left
  after it had found the FIFO empty.

`KillAllMbProofs`: `OutcomeCorrect` from `TextInv`, which says of a shell in `++` that
what it has read is what the file starts with (`ReadOf`) and what it has appended stands
behind it (`WrittenOf`), a part of it between `fwrite` and `fclose` (`HalfWritten`).
Another shell may append in between: the lemmas on sequences say that a text that stands
in a file stands there still when the file grows. `SparesCorrect` and `ReachesCorrect` from `KillInv`. `SparesInv` gives the reason why a
process is spared, at each point of the walk: it is a shell on the same terminal or has
exec'd, and neither is ever undone (`Onwards`), so a test made earlier still holds at the
signal. `ReachesInv` says of each shell to be reached that it is gone, signalled, or
still ahead of the walk; none is to be reached for a shell without a terminal.
`ReadsCorrect` from `ReadInv`: files have only grown since the call (`BeganOf`), what has
been read of one is what it starts with (`HasRead`), and at its end no less than there was
at the call (`BetweenAtEnd`); what has been printed was such a content (`PrintOf`). `#`
reads a character at a time, and a read may end anywhere inside a word: `Counted` ties
`fscanf`'s two numbers to the `Pieces` of what has been read so far, defined on the whole
text, and `CountedStep` says that one more character keeps that, for texts and words of
any length.

`ProcToolProofs`:

- `SparesBashCorrect`, for any tree, option and steps of other processes, assuming
  `~Reuse`. What the tool has found to be no bash (a record in `list`, or `cur` before a
  single signal) stays none (`NoBash`): it becomes bash only by exec, or its pid is free
  and, since it was given out once (`KernelInv`: parents and processes have pids in
  `used`; `PlaceInv`: so has every pid the tool holds), is never given out again.
- `FamilyCorrect`, assuming `~Reuse`. `TreeInv` says what the kernel keeps of the tree:
  every process hangs below init and nothing hangs below a zombie. `FamilyInv` says what
  the tool may believe: each record of the list was a descendant (child, grandchild) of
  the process named at some time of the scan, and while it follows parents upwards from a
  process, that process was one if the parent it has reached was. The reads of one climb
  are of different times, so neither is true of any single state.
- `ExactCorrect`, on a tree that keeps still: `StillInv` (the tree is that of the start),
  `CollectInv` (the list holds the records of the wanted processes among those already
  read, and no others), `BaseInv` (the way up to the base process), `AncestorInv` for
  `-bcp`, `UnionInv` for `-bop`, `OutInv` for what has been printed, the victim of
  `-kpp`, `-kgp` and `-krp` among it (`SingleQuiet`, `SignalOneQuiet`). `Descendants` is
  a recursive function; lemmas on it say that a process is below another exactly if its
  parent is, or is the other itself.
- `DtmCorrect`, from the same and `DtmInv`: of what is below the process named, whatever
  is alive and no bash is still on the list. The list is ordered from the youngest, a
  child is not older than its parent and has the larger pid, and equal start times are
  decided by pid.

`DirToolProofs`, for any finite file system at the start in which parents are directories
and regular files have a size, with the three extensions at most that `main` takes
(`DirAssumption`), any tree depth, failing calls and steps of another program:

- `GoneCorrect` and `NamedCorrect` from `DirInv`: everything `nftw` has on its stack lies
  below the root of the walk (`StackInv` in `WalkInv`), `main`'s checks hold as long as
  anything is written (`CheckedInv`), a copy takes nothing away and leaves the links as
  they were (`KeptInv`), and the two properties themselves. `Written` says what one step
  of a copy may do: only places in `Reach` get a new node, those below
  `destination_dir/<base>` or below what a link leads to that is itself in reach. The
  property defines the reach by closed sets, so that it needs no recursion, and
  `ReachMore` says that it goes on through a link and to a name below (`WayWithin`). `UnderHome` is the step from text to names: the byte-wise
  comparison of `path_is_under_home`, with its test of the next character, accepts
  only paths whose first names are those of HOME.
- `CopiedCorrect` from `CopyInv`. The property compares a number with a counter;
  `CountedInv` has in its place a set, no larger than `copy_failures`, that holds every
  file that is neither copied, nor hidden in a directory nobody can read, nor `Pending`,
  that is still to be reached from the stack. The property has the hypothesis `Apart`:
  no file is copied over one of the source, no two to one place. `main` does not test that,
  and run `copy_into_parent` shows a source for which it is false, whose files are
  truncated. Links and another program decide it, too, so it is said of the state at the
  end; the files of the source only become more and the links stay, so it held before
  (`ApartBack`), where the copies land is the same throughout (`LandsSame`), and no copy
  made is overwritten.
- `ReportsCorrect` from `DirInv` and `ReportInv`, whose core is the set `M` of the paths
  passed so far (`Met`): `PassedBy` says that none of them is `Ahead` of the walk any more,
  so that none is passed twice, and that whatever was there all along and can be reached
  is in `M` or still `Coming`. `Collected` says of every mode what its callback has made
  of `M`: the items, the lines, the counts, the sum. That nothing is passed twice needs
  `FramesInv`: the open directories lie one in another, and each lies below an entry the
  one above has passed already. `FilesInv` bounds what the other program does: one entry,
  and what stays has its parents; `DiedInv`, that the tool dies only of a directory that
  has gone or of a failing call. For `-remd`, whose walk changes what it walks over,
  `Removed` has two further sets, what was removed and what was warned of. At the end
  nothing is coming; `FS_Injection` makes the array `qsort` has ordered a list of all the
  items. `Bytes` is a fold over a set, of which the library has theorems that take an
  operator only; that a sum grows by what is added, in any order, is proved from the
  fold's definition (`SumsExist`, `SumsAgree`, `SumLess`, `BytesAdd`).

`StdioProofs`, for any script, length of `line` and size of the buffer:

- `PrintedCorrect` from `PrintInv`. Where a printed item may be depends on where the shell
  is (`PlaceInv`), on which lines the children on their way to exec or exit come from
  (`KidsInv`), and on the copies (`ItemInv`): each item is written or in the shell's
  buffer once, and once more for each command of its line behind it whose exec has failed
  already; the copy of a child that is still to fail has the item only if its command
  stands behind it on the same line, because `main` flushes before it reads. Lemmas count
  occurrences in appended and concatenated sequences.
- `LinesCorrect` from `ReadInv`: as long as nobody has moved the offset, what is read ahead
  and what the file has still to give are together the rest of the script (`AheadInv`),
  `line` is what follows from a place where a line may begin, and the lines run are the
  good ones up to there (`RunUpTo`). `TrimType` and `TrimKeeps` say what `trim_inplace`
  does with a line, whose two ends it cuts, and `LexType` what `do_lex`, a recursive
  function, takes from it; the `GoodUpTo` lemmas how the good lines grow when
  one more has been read, dropped or refused.

`LabsProofs`: `RingOrder` from `TurnInv` (one process has the turn, and it is the one
that is due: a lost SIGCONT can only stop the ring). `TicketsCorrect` from `TicketInv`:
with the mutex its holder alone is between test and unlock and what it has read is what
is there (`Excluded`); without it every value that is or may be stored is too large
rather than too small (`NoneTooFew`). `CounterCorrect` from `CounterInv`: an alarm is
counting, sent or in its handler, never two of these, and the first press finds none.
`ExchangeCorrect` from `ExchangeInv`: every byte a client has written is printed or in the
FIFO it has open, and once the server has met end-of-file only a client that came after
it writes.

Of the 39 properties of the passing runs 33 have a theorem. Only model-checked are the
six liveness properties (`FinishedJobsLeave`, `PromptReturns`, `ChainReturns`,
`OpenedReturns`, `KeepsGoing`, `ExchangeReturns`): fairness and ENABLED are beyond the
prover.

`TypeCorrect`, `PipeTypeCorrect` and `DirCorrect` are proved and not listed in a run.

## 5. Not modelled

- Memory allocation, permissions other than those named, and the wording of messages,
  throughout. Signals from a terminal (CTRL-C) to the shell and its children are left out
  of `BgJobs`: minibash installs no handler and ends.
- In A3: `ensure_common_fifo` (two `mkdir` and a `mkfifo` before the first use, which
  tolerate what is there already); a pid that is given out again between the tests of
  `killallmb` and its signal; programs that read the shell's stdin; a read of stdin that
  fails, which `main` repeats for ever.
- In A2: a read of `/proc/<pid>/comm` or `status` that fails for a process that is alive
  (A2.c 150, 399), after which a bash is taken for something else; the runs and theorems
  on `-dtm`, `-kgc` and so on also leave out pid reuse (`Reuse = FALSE`): a pid given out
  again between scan and kill is killed, and no property can exclude it.
- In A1: chains and loops of links below the destination (`ELOOP`), links that come or go
  during the copy, a reader at the other end of a fifo there.
- The course examples but for the four above: single calls of an interface (`fileio`,
  `pointer`, `shellp`), a fixed tree of `fork`, `exec` and `wait` (`process`, `labs/lab3.c`,
  `lab5.c`), two or three commands wired with pipes (`pipes`, `labs/lab8B.c`), which
  `PipeChain` covers for every length, threads that share nothing (`threads`), two
  processes that take turns with a signal (`signals`), which is the two-process case of
  lab7's ring, and an accept loop whose children share nothing (`sockets`).

## 6. Plan

The plan is carried out: every component with a state worth modelling has a module, and
every safety and action property of a passing run has a theorem. A change of the code
starts at the definition that `map` in `PROJECT.json` gives for its lines; the runs say
quickly whether a property still holds, the proofs then which step depends on the change.
