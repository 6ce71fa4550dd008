------------------------------- MODULE DirMove -------------------------------
(***************************************************************************)
(* src/A1/A1.c, -copyd and -dmove: nftw() walks source_dir and copies it   *)
(* into destination_dir; -dmove walks it a second time, contents first,    *)
(* and deletes it.  Another program may add files to the source meanwhile, *)
(* and system calls may fail.                                              *)
(*                                                                         *)
(* A path is the sequence of names below /, a name the sequence of its     *)
(* characters.  nftw is modelled as glibc has it: a directory is opened,   *)
(* the callback is called for it (before its entries, or after them with   *)
(* FTW_DEPTH), and its entries are read one by one; an entry made after    *)
(* the directory was opened may be seen.                                   *)
(*                                                                         *)
(* source_dir and destination_dir come from realpath and have no link on   *)
(* them.  Below destination_dir the kernel follows the links it finds; a   *)
(* link is modelled as the path it leads to in the end, which has no link  *)
(* on it and may not exist.                                                *)
(***************************************************************************)
EXTENDS Integers, SequencesExt

CONSTANTS
    Starts,     \* the starts tried: a file system and a command line
    Home,       \* HOME, after realpath
    PathMax,    \* bound: the longest path (PATH_MAX)
    Faults,     \* bound: how many system calls fail
    Extra       \* the paths another program may create as files, one of them

VARIABLES
    fs,         \* the file system: existing paths to nodes
    args,       \* the command line
    phase,      \* "args", "copy", "delete", "done"; "refused", "died", "stuck"
    stack,      \* nftw: the directories being read, innermost last
    copying,    \* source path of the open copy, or <<>>
    copy_failures, warns,
    faults,     \* failures left
    before      \* the file system at the start
moving == <<fs, args, phase, stack, copying, copy_failures, warns, faults, before>>

opt == args.opt
source == args.source   \* source_dir, or the one root of the other options
dest == args.dest       \* destination_dir

Exists(p) == p \in DOMAIN fs
IsDir(p)  == fs[p].kind \in {"dir", "locked"}
IsReg(n)  == n.kind \in {"file", "unread"}     \* S_ISREG
Below(p, d) == IsPrefix(d, p)
Upward(p) == {SubSeq(p, 1, n) : n \in 1 .. Len(p)}
Parent(p) == Front(p)
Entries(d) == {p \in DOMAIN fs : Len(p) = Len(d) + 1 /\ Below(p, d)}

\* The content of a file: whose bytes, and are they all there?
Data(p, all) == [of |-> p, whole |-> all]
Dir     == [kind |-> "dir", data |-> Data(<<>>, TRUE)]
File(d) == [kind |-> "file", data |-> d]
Empty   == Data(<<>>, FALSE)

base == source[Len(source)]
Rel(p) == SubSeq(p, Len(source) + 1, Len(p))

build_dst_path(p) == dest \o <<base>> \o Rel(p)

TooLong(p) == Len(p) > PathMax

\* What the links lead to.
Links == [l \in {q \in DOMAIN fs : fs[q].kind = "link"} |-> fs[l].data.of]
Follow(links, p) == IF p \in DOMAIN links THEN links[p] ELSE p

\* The places of the names r below the directory d, the links before each followed.
Way(links, d, r) ==
    LET at[n \in 0 .. Len(r)] ==
            IF n = 0 THEN d ELSE Append(Follow(links, at[n - 1]), r[n])
    IN  at

\* The places of build_dst_path(p) below destination_dir, and what open finds there.
DstWay(p) == Way(Links, dest, <<base>> \o Rel(p))
Lands(p) == Follow(Links, DstWay(p)[Len(Rel(p)) + 1])

MoveInit ==
    /\ \E s \in Starts : before = s.fs /\ args = s.args
    /\ fs = before
    /\ phase = "args" /\ stack = <<>> /\ copying = <<>>
    /\ copy_failures = 0 /\ warns = 0 /\ faults = Faults
-----------------------------------------------------------------------------
(* The argument checks of main.                                            *)

\* A path as the program has it, with a slash before each name.
Text(p) == IF p = <<>> THEN <<"/">>
           ELSE FlattenSeq([i \in DOMAIN p |-> <<"/">> \o p[i]])

\* Variant: a prefix is enough, whatever follows it.
path_is_under_home_prefix(p, home) == IsPrefix(Text(home), Text(p))

\* A prefix that ends where a name of the path ends.
path_is_under_home(p, home) ==
    LET path_abs == Text(p)
        home_abs == Text(home)
        hl == Len(home_abs) IN
    /\ IsPrefix(home_abs, path_abs)
    /\ \/ Len(path_abs) = hl
       \/ home_abs[hl] = "/"
       \/ path_abs[hl + 1] = "/"

\* realpath, under HOME but not HOME, a directory.
Fits(p) == Exists(p) /\ path_is_under_home(p, Home) /\ p # Home /\ IsDir(p)

\* -copyd and -dmove: the two directories.
CheckDirs ==
    /\ phase = "args" /\ opt \in {"copyd", "dmove"}
    /\ phase' = IF Fits(source) /\ Fits(dest) THEN "copy" ELSE "refused"
    /\ UNCHANGED <<fs, args, stack, copying, copy_failures, warns, faults, before>>
-----------------------------------------------------------------------------
(* nftw.                                                                   *)

Frame(d) == [dir |-> d, must |-> Entries(d), seen |-> {}]
Top == stack[Len(stack)]
Push(d) == stack' = Append(stack, Frame(d))

\* readdir: an entry that was there at opendir, or one that came since.
Visit(p) ==
    /\ copying = <<>> /\ stack # <<>>
    /\ p \in (Top.must \union Entries(Top.dir)) \ Top.seen

Visited(p) == [Top EXCEPT !.must = @ \ {p}, !.seen = @ \union {p}]
Mark(p) == [stack EXCEPT ![Len(stack)] = Visited(p)]
Passed(p) == stack' = Mark(p)
Entered(p) == stack' = Append(Mark(p), Frame(p))

\* Gone, or a directory that cannot be opened (FTW_NS, FTW_DNR): cb does nothing.
Skips(p) == ~ Exists(p) \/ fs[p].kind = "locked"

Fault == faults > 0 /\ faults' = faults - 1
-----------------------------------------------------------------------------
(* The copy: cb in mode M_COPYD.                                           *)

\* mkdirs_for_path: mkdir of the n places of a way, EEXIST counts as success, of a
\* link and of a file too.
mkdirs_for_path(way, n) ==
    [q \in DOMAIN fs \union {way[i] : i \in 1 .. n} |-> IF Exists(q) THEN fs[q] ELSE Dir]

\* It fails when what is there leads to no directory and there are names left.
Blocked(way, n) ==
    \E i \in 1 .. n - 1 :
        LET t == Follow(Links, way[i]) IN Exists(way[i]) /\ ~ (Exists(t) /\ IsDir(t))

CopyRunning == phase = "copy" /\ UNCHANGED <<args, phase, warns, before>>

Counted == copy_failures' = copy_failures + 1

\* The directory d: mkdirs_for_path(dst), which may fail half-way.
MakeDir(d) ==
    LET way == DstWay(d)
        n == Len(Rel(d)) + 1 IN
    IF TooLong(build_dst_path(d)) \/ Blocked(way, n)
    THEN Counted /\ UNCHANGED <<fs, faults>>
    ELSE \/ fs' = mkdirs_for_path(way, n) /\ UNCHANGED <<copy_failures, faults>>
         \/ Fault /\ Counted /\ \E i \in 0 .. n - 1 : fs' = mkdirs_for_path(way, i)

AfterCopy == IF opt = "dmove" THEN "delete" ELSE "done"

CopyRoot ==
    /\ CopyRunning /\ stack = <<>> /\ copying = <<>> /\ ~ Skips(source)
    /\ MakeDir(source) /\ Push(source) /\ UNCHANGED copying

\* An entry that is not copied: a failure if its path would be too long.
SkipCounts(p) ==
    copy_failures' = copy_failures + IF TooLong(build_dst_path(p)) THEN 1 ELSE 0

\* source_dir itself cannot be opened: nftw returns 0 all the same.
CopyNothing ==
    /\ phase = "copy" /\ stack = <<>> /\ copying = <<>> /\ Skips(source)
    /\ phase' = AfterCopy /\ SkipCounts(source)
    /\ UNCHANGED <<fs, args, stack, copying, warns, faults, before>>

CopyDir(p) ==
    /\ CopyRunning /\ Visit(p) /\ ~ Skips(p) /\ fs[p].kind = "dir"
    /\ MakeDir(p) /\ Entered(p) /\ UNCHANGED copying

\* A link, a fifo, a directory that cannot be read, an entry gone again.
CopySkips(p) ==
    /\ CopyRunning /\ Visit(p)
    /\ Skips(p) \/ fs[p].kind \in {"link", "fifo"}
    /\ Passed(p) /\ SkipCounts(p) /\ UNCHANGED <<fs, copying, faults>>

\* A regular file: the directories above its copy, mkdirs_for_path(parent).
Parents(p) == mkdirs_for_path(DstWay(p), Len(Rel(p)))
NoParents(p) == TooLong(build_dst_path(p)) \/ Blocked(DstWay(p), Len(Rel(p)))

\* A source that may not be read, a copy with no directory to be in, or a directory.
OpenFails(p) ==
    LET t == Lands(p)
        made == Parents(p) IN
    \/ fs[p].kind = "unread"
    \/ ~ (Parent(t) \in DOMAIN made /\ made[Parent(t)].kind \in {"dir", "locked"})
    \/ t \in DOMAIN made /\ made[t].kind \in {"dir", "locked"}

WaitsForReader(p) == Exists(Lands(p)) /\ fs[Lands(p)].kind = "fifo"

\* What O_CREAT | O_TRUNC leaves: a new file, or an old one without content.
Emptied(t) == IF Exists(t) THEN [fs[t] EXCEPT !.data = Empty] ELSE File(Empty)

CopyOpen(p) ==
    /\ CopyRunning /\ Visit(p) /\ ~ Skips(p) /\ IsReg(fs[p]) /\ Passed(p)
    /\ \/ NoParents(p) /\ Counted /\ UNCHANGED <<fs, copying, faults>>
       \/ /\ ~ NoParents(p) /\ Fault /\ Counted /\ UNCHANGED copying
          /\ \E i \in 0 .. Len(Rel(p)) : fs' = mkdirs_for_path(DstWay(p), i)
       \/ /\ ~ NoParents(p) /\ OpenFails(p)
          /\ fs' = Parents(p) /\ Counted /\ UNCHANGED <<copying, faults>>
       \/ /\ ~ NoParents(p) /\ ~ OpenFails(p) /\ ~ WaitsForReader(p)
          /\ LET t == Lands(p)
                 made == Parents(p) IN
             fs' = [q \in DOMAIN made \union {t} |-> IF q = t THEN Emptied(t) ELSE made[q]]
          /\ copying' = p /\ UNCHANGED <<copy_failures, faults>>

\* open of a fifo waits for a reader, here for ever.
CopyBlocks(p) ==
    /\ phase = "copy" /\ Visit(p) /\ ~ Skips(p) /\ IsReg(fs[p]) /\ Passed(p)
    /\ ~ NoParents(p) /\ ~ OpenFails(p) /\ WaitsForReader(p)
    /\ fs' = Parents(p) /\ phase' = "stuck"
    /\ UNCHANGED <<args, copying, copy_failures, warns, faults, before>>

\* copy_file_bytes' loop: to the end of the source, or until read or write fails.
CopyDataWith(counts) ==
    /\ CopyRunning /\ copying # <<>>
    /\ \/ /\ fs' = [fs EXCEPT ![Lands(copying)].data = fs[copying].data]
          /\ UNCHANGED <<copy_failures, faults>>
       \/ /\ Fault /\ copy_failures' = copy_failures + counts
          /\ fs' = [fs EXCEPT ![Lands(copying)].data = Data(copying, FALSE)]
    /\ copying' = <<>> /\ UNCHANGED stack

\* Variant: the value of copy_file_bytes is not looked at.
CopyData_uncounted == CopyDataWith(0)

CopyData == CopyDataWith(1)

\* The last entry of a directory; below source_dir itself nftw returns.
Pop == /\ copying = <<>> /\ stack # <<>> /\ Top.must = {}
       /\ stack' = SubSeq(stack, 1, Len(stack) - 1)

CopyPops ==
    /\ phase = "copy" /\ Pop
    /\ phase' = IF stack' = <<>> THEN AfterCopy ELSE "copy"
    /\ UNCHANGED <<fs, args, copying, copy_failures, warns, faults, before>>
-----------------------------------------------------------------------------
(* The deletion: delete_one_path on the second walk.                       *)

Without(p) == [q \in DOMAIN fs \ {p} |-> fs[q]]

DeleteRunning == phase = "delete" /\ UNCHANGED <<args, copying, copy_failures, before>>

DeleteRoot ==
    /\ DeleteRunning /\ stack = <<>>
    /\ IF Skips(source) THEN phase' = "done" /\ UNCHANGED stack
       ELSE Push(source) /\ UNCHANGED phase
    /\ UNCHANGED <<fs, warns, faults>>

DeleteDir(p) ==
    /\ DeleteRunning /\ Visit(p) /\ ~ Skips(p) /\ fs[p].kind = "dir"
    /\ Entered(p) /\ UNCHANGED <<fs, phase, warns, faults>>

DeleteSkips(p) ==
    /\ DeleteRunning /\ Visit(p) /\ Skips(p)
    /\ Passed(p) /\ UNCHANGED <<fs, phase, warns, faults>>

\* unlink, of links and special files too.
Unlink ==
    \E p \in DOMAIN fs :
    /\ DeleteRunning /\ Visit(p) /\ ~ IsDir(p) /\ Passed(p)
    /\ \/ fs' = Without(p) /\ UNCHANGED <<warns, faults>>
       \/ Fault /\ warns' = warns + 1 /\ UNCHANGED fs
    /\ UNCHANGED phase

\* rmdir, once the entries are done: a directory with entries stays.
RmdirWith(counts) ==
    /\ DeleteRunning /\ Pop
    /\ LET d == Top.dir IN
       \/ /\ Entries(d) = {}
          /\ fs' = Without(d) /\ UNCHANGED <<warns, faults>>
       \/ /\ Entries(d) # {} /\ warns' = warns + counts /\ UNCHANGED <<fs, faults>>
       \/ /\ Fault /\ warns' = warns + counts /\ UNCHANGED fs
    /\ phase' = IF stack' = <<>> THEN "done" ELSE "delete"

\* Variant: only failing unlinks are reported.
Rmdir_silent == RmdirWith(0)

Rmdir == RmdirWith(1)
-----------------------------------------------------------------------------
Copy == \/ CopyRoot \/ CopyNothing \/ CopyData \/ CopyPops
        \/ \E p \in DOMAIN fs : CopyDir(p) \/ CopySkips(p) \/ CopyOpen(p) \/ CopyBlocks(p)
Delete == \/ DeleteRoot \/ Unlink \/ Rmdir
          \/ \E p \in DOMAIN fs : DeleteDir(p) \/ DeleteSkips(p)

\* nftw is out of memory or of descriptors: -1, and die("nftw(...)").
WalkFails ==
    /\ phase \in {"copy", "delete", "walk"} /\ copying = <<>> /\ Fault
    /\ phase' = "died"
    /\ UNCHANGED <<fs, args, stack, copying, copy_failures, warns, before>>

MoveNext == CheckDirs \/ Copy \/ Delete \/ WalkFails
-----------------------------------------------------------------------------
Files == {p \in DOMAIN before : Below(p, source) /\ IsReg(before[p])}

\* Below source_dir, in or at a directory that cannot be read.
Hidden(p) == \E n \in Len(source) .. Len(p) :
    LET q == SubSeq(p, 1, n) IN q \in DOMAIN before /\ before[q].kind = "locked"
CopiedWell(p) ==
    LET t == Lands(p) IN Exists(t) /\ IsReg(fs[t]) /\ fs[t].data = before[p].data

\* No file is copied over a file of the source, no two to one place: links make it so,
\* or a destination_dir that is the parent of source_dir.
Apart ==
    LET sources == {p \in DOMAIN fs : Below(p, source) /\ IsReg(fs[p])} IN
    \A p \in sources :
        Lands(p) \notin Files /\ \A q \in sources \ {p} : Lands(q) # Lands(p)

\* When the copy is done, no fewer failures are counted than there are regular files
\* of the source, but those below an unreadable directory, that are not with all their
\* bytes where the path of their copy leads (cb's M_COPYD branch, copy_file_bytes),
\* unless one was copied over another.
CopiedOrCounted ==
    phase = "done" /\ opt = "copyd" /\ Apart =>
        Cardinality({p \in Files : ~ Hidden(p) /\ ~ CopiedWell(p)}) =< copy_failures

\* A1.md on -copyd: every node of the source stays as it was.
SourceUntouched ==
    opt = "copyd" =>
        \A p \in DOMAIN before : Below(p, source) => Exists(p) /\ fs[p] = before[p]

\* When -dmove says "source removed", the source is gone or a failure to delete
\* was reported, whatever another program adds to it (delete_one_path, FTW_DEPTH).
\* It needs a source_dir that can be read.
GoneOrReported ==
    phase = "done" /\ opt = "dmove" /\ before[source].kind # "locked" =>
        ~ Exists(source) \/ warns > 0

\* A1.md on -dmove: the source is deleted if the copy succeeded.
DeletesOnlyAfterSuccess ==
    phase = "delete" => \A p \in Files : CopiedWell(p)
=============================================================================
