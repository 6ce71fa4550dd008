-------------------------------- MODULE CtrlC --------------------------------
(***************************************************************************)
(* src/labs/lab6.c: CTRL-C ends the program when it comes twice within     *)
(* five seconds.  The SIGINT handler counts and sets the alarm, the        *)
(* SIGALRM handler takes the count back.  signal() blocks a signal while   *)
(* its own handler runs, but not the other one, so that either handler may *)
(* interrupt the other at any point.  A blocked signal is pending once.    *)
(***************************************************************************)
EXTENDS Naturals, SequencesExt

CONSTANTS
    Window,     \* seconds of the alarm
    Presses     \* bound: how often CTRL-C is pressed

ASSUME CtrlCAssumption == Window \in Nat \ {0} /\ Presses \in Nat

VARIABLES
    is_first_enter,
    frames,     \* the handlers that run, the interrupted ones first
    pending,    \* signals sent and not delivered
    timer,      \* seconds left of the alarm, 0 if there is none
    pressed,    \* how often
    exited
ctrlc == <<is_first_enter, frames, pending, timer, pressed, exited>>

CtrlCInit ==
    /\ is_first_enter = FALSE /\ frames = <<>> /\ pending = {}
    /\ timer = 0 /\ pressed = 0 /\ exited = FALSE

Runs(sig) == \E i \in DOMAIN frames : frames[i].sig = sig
Top(sig, at) == ~ exited /\ frames # <<>> /\ Last(frames) = [sig |-> sig, at |-> at]
Moves(sig, from, to) ==
    Top(sig, from) /\ frames' = Append(Front(frames), [sig |-> sig, at |-> to])
Returns(sig, from) == Top(sig, from) /\ frames' = Front(frames)
-----------------------------------------------------------------------------
Press ==
    /\ ~ exited /\ pressed < Presses /\ pressed' = pressed + 1
    /\ pending' = pending \union {"SIGINT"}
    /\ UNCHANGED <<is_first_enter, frames, timer, exited>>

Tick ==
    /\ ~ exited /\ timer > 0 /\ timer' = timer - 1
    /\ pending' = IF timer = 1 THEN pending \union {"SIGALRM"} ELSE pending
    /\ UNCHANGED <<is_first_enter, frames, pressed, exited>>

Deliver(sig) ==
    /\ ~ exited /\ sig \in pending /\ ~ Runs(sig)
    /\ frames' = Append(frames, [sig |-> sig, at |-> "begin"])
    /\ pending' = pending \ {sig}
    /\ UNCHANGED <<is_first_enter, timer, pressed, exited>>

Tests ==
    /\ Moves("SIGINT", "begin", IF is_first_enter THEN "second" ELSE "first")
    /\ UNCHANGED <<is_first_enter, pending, timer, pressed, exited>>

\* Variant: the alarm is set before the flag.
First_alarm_early ==
    \/ /\ Moves("SIGINT", "first", "set") /\ timer' = Window
       /\ UNCHANGED <<is_first_enter, pending, pressed, exited>>
    \/ /\ Returns("SIGINT", "set") /\ is_first_enter' = TRUE
       /\ UNCHANGED <<pending, timer, pressed, exited>>

\* The first press: the flag, a message, the alarm.
First ==
    \/ /\ Moves("SIGINT", "first", "set") /\ is_first_enter' = TRUE
       /\ UNCHANGED <<pending, timer, pressed, exited>>
    \/ /\ Returns("SIGINT", "set") /\ timer' = Window
       /\ UNCHANGED <<is_first_enter, pending, pressed, exited>>

\* The second: a message, alarm(0), _exit.
Second ==
    \/ /\ Moves("SIGINT", "second", "leave") /\ timer' = 0
       /\ UNCHANGED <<is_first_enter, pending, pressed, exited>>
    \/ /\ Top("SIGINT", "leave") /\ exited' = TRUE
       /\ UNCHANGED <<is_first_enter, frames, pending, timer, pressed>>

\* The five seconds are over: a message, then the flag.
sigalrm_handler ==
    \/ /\ Moves("SIGALRM", "begin", "said")
       /\ UNCHANGED <<is_first_enter, pending, timer, pressed, exited>>
    \/ /\ Returns("SIGALRM", "said") /\ is_first_enter' = FALSE
       /\ UNCHANGED <<pending, timer, pressed, exited>>

CtrlCNext == \/ Press \/ Tick \/ Tests \/ First \/ Second \/ sigalrm_handler
             \/ \E sig \in {"SIGINT", "SIGALRM"} : Deliver(sig)
-----------------------------------------------------------------------------
\* An alarm that will still take the count back.
Armed == timer > 0 \/ "SIGALRM" \in pending \/ Runs("SIGALRM")
Between == \E i \in DOMAIN frames : frames[i].at \in {"set", "leave"}

\* However the handlers interrupt each other, a press is remembered exactly as long as
\* an alarm is out that will forget it: no count is left that a CTRL-C of much later
\* could complete, and none is lost before its time.  The last press that counts may
\* come as late as inside the SIGALRM handler, after its message (lab6.c 16-34).
CounterArmed == ~ exited /\ ~ Between => (is_first_enter <=> Armed)
=============================================================================
