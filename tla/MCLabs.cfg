\* the five processes of lab7; six presses, a window of two ticks; five threads and two
\* tickets, as in the programs; three clients of two bytes each
SPECIFICATION FairSpec
CONSTANTS
    Window = 2
    Presses = 6
    Threads = {t1, t2, t3, t4, t5}
    Tickets0 = 2
    Clients = {c1, c2, c3}
    MaxBytes = 2
INVARIANTS CounterArmed BookedOnce LostOnlyAtEof
PROPERTIES InRingOrder KeepsGoing ExchangeReturns
CHECK_DEADLOCK FALSE
