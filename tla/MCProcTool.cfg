\* every tree of five processes and every option, when nothing else happens; four
\* processes and one to be forked while others exit, are reaped, fork, exec bash
SPECIFICATION Spec
CONSTANTS
    NPid = 5
    Quiet = 5
    Busy = 4
    MaxBash = 2
    QuietOptions = {"none","cnt","dnd","oct","odt","ndt","mmd","mpd","bcp","bop","dtm","kgc","kcp","sst","sco","ksp","kps","kpp","kgp","krp"}
    BusyOptions = {"dtm","kgc","ksp","kpp"}
    Rss <- MCRss
    Cpu <- MCCpu
    Events = 3
    Reuse = FALSE
INVARIANTS ExactWhenQuiet KillsOnlyFamily SparesBash
PROPERTY DtmLeavesFirst
CHECK_DEADLOCK FALSE
