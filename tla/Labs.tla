-------------------------------- MODULE Labs ---------------------------------
(* The small programs of the course that several processes, threads or      *)
(* handlers run at once, each on its own: Init chooses which one is run.    *)
EXTENDS StopRing, CtrlC, Tickets, FifoExchange

VARIABLE program
vars == <<program, ring, ctrlc, tickets, exchange>>

Init ==
    /\ RingInit /\ CtrlCInit /\ TicketInit /\ ExchangeInit
    /\ \/ program = "lab7" /\ mutex /\ name = "none"
       \/ program = "lab6" /\ mutex /\ name = "none" /\ ~ timely
       \/ program = "ticket" /\ name = "none" /\ ~ timely
       \/ program = "ex5" /\ mutex /\ ~ timely

Ring(p) ==
    program = "lab7" /\ Step(p) /\ UNCHANGED <<program, ctrlc, tickets, exchange>>
Handlers == program = "lab6" /\ CtrlCNext /\ UNCHANGED <<program, ring, tickets, exchange>>
Booking == program = "ticket" /\ TicketNext /\ UNCHANGED <<program, ring, ctrlc, exchange>>
Serving == program = "ex5" /\ ServerStep /\ UNCHANGED <<program, ring, ctrlc, tickets>>
Sending(c) == program = "ex5" /\ ClientStep(c) /\ UNCHANGED <<program, ring, ctrlc, tickets>>

Next == \/ \E p \in Proc : Ring(p)
        \/ Handlers \/ Booking \/ Serving
        \/ \E c \in Clients : Sending(c)

\* lab7: every process that can run does, and every sleep ends.  ex5: server and
\* clients run, and every input ends.
FairSpec ==
    /\ Init /\ [][Next]_vars
    /\ \A p \in Proc : WF_vars(Ring(p))
    /\ WF_vars(Serving)
    /\ \A c \in Clients : WF_vars(Sending(c))

\* ex5, of the runs in which it is the program.
ExchangeReturns == program = "ex5" => ExchangeEnds
=============================================================================
