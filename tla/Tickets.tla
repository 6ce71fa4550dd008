------------------------------- MODULE Tickets -------------------------------
(***************************************************************************)
(* src/threads/ticket1.c and ticket2.c: threads that book one ticket each, *)
(* without and with a mutex around test and decrement.  Without it there   *)
(* is a data race: the compiler may subtract from the value it has tested  *)
(* or read the variable again.                                             *)
(***************************************************************************)
EXTENDS Integers, FiniteSets

CONSTANTS Threads, Tickets0     \* what no_of_tickets is at first
ASSUME TicketAssumption == IsFiniteSet(Threads) /\ Tickets0 \in Nat

VARIABLES
    mutex,          \* is it ticket2.c?
    lk1,            \* the threads that hold the mutex
    no_of_tickets,
    at,             \* where each thread is in bookticket
    seen,           \* the value each thread has in a register
    booked          \* the threads that were told so
tickets == <<mutex, lk1, no_of_tickets, at, seen, booked>>

TicketInit ==
    /\ mutex \in BOOLEAN /\ lk1 = {} /\ no_of_tickets = Tickets0
    /\ at = [t \in Threads |-> "sleep"] /\ seen = [t \in Threads |-> 0] /\ booked = {}

Steps(t, from, to) == at[t] = from /\ at' = [at EXCEPT ![t] = to] /\ UNCHANGED mutex
Loads(t, v) == seen' = [seen EXCEPT ![t] = v]

\* Variant: the mutex is not initialised, pthread_mutex_lock fails and nobody looks.
Locks_fails(t) ==
    /\ Steps(t, "sleep", "test")
    /\ UNCHANGED <<lk1, no_of_tickets, seen, booked>>

Locks(t) ==
    /\ Steps(t, "sleep", "test")
    /\ IF mutex THEN lk1 = {} /\ lk1' = {t} ELSE UNCHANGED lk1
    /\ UNCHANGED <<no_of_tickets, seen, booked>>

TestsCount(t) ==
    /\ Steps(t, "test", IF no_of_tickets >= 1 THEN "take" ELSE "unlock")
    /\ Loads(t, no_of_tickets) /\ UNCHANGED <<lk1, no_of_tickets, booked>>

ReadsAgain(t) ==
    /\ Steps(t, "take", "store")
    /\ \E v \in {seen[t], no_of_tickets} : Loads(t, v)
    /\ UNCHANGED <<lk1, no_of_tickets, booked>>

Stores(t) ==
    /\ Steps(t, "store", "unlock") /\ no_of_tickets' = seen[t] - 1
    /\ booked' = booked \union {t} /\ UNCHANGED <<lk1, seen>>

Unlocks(t) ==
    /\ Steps(t, "unlock", "done") /\ lk1' = lk1 \ {t}
    /\ UNCHANGED <<no_of_tickets, seen, booked>>

bookticket(t) == Locks(t) \/ TestsCount(t) \/ ReadsAgain(t) \/ Stores(t) \/ Unlocks(t)
TicketNext == \E t \in Threads : bookticket(t)
-----------------------------------------------------------------------------
Joined == \A t \in Threads : at[t] = "done"

\* When all threads have been joined: nobody was turned away while a ticket was left,
\* and what is left is at least what was not booked; with the mutex no ticket was
\* booked twice, and what is left is exactly that (bookticket of the two programs).
BookedOnce ==
    Joined =>
      /\ booked # Threads => Cardinality(booked) >= Tickets0
      /\ no_of_tickets + Cardinality(booked) >= Tickets0
      /\ mutex => /\ Cardinality(booked) =< Tickets0
                  /\ no_of_tickets + Cardinality(booked) = Tickets0
=============================================================================
