------------------------------ MODULE LabsProofs -----------------------------
(* Proofs about lab7's ring, about the ticket counter for any number of     *)
(* threads and tickets, and about lab6's count for any window.              *)
EXTENDS Labs, FiniteSetTheorems, SequenceTheorems, TLAPS

-----------------------------------------------------------------------------
(* lab7: at most one process has the turn, and it is the right one.        *)

PCs == {"unborn", "fork", "write", "nap", "stop", "stopped", "read", "say",
        "asleep", "signal"}
Turn == {"write", "nap", "read", "say", "asleep", "signal"}

\* One turn at a time; who is about to print is the one that is due; GC1 takes the
\* first turn without being resumed, and nobody else has one before.
TurnInv ==
    /\ pc \in [Proc -> PCs]
    /\ \A p, q \in Proc : pc[p] \in Turn /\ pc[q] \in Turn => p = q
    /\ \A p \in Proc :
         /\ pc[p] \in {"asleep", "signal"} => said = p
         /\ pc[p] \in {"read", "say"} =>
              p = IF said = "nobody" THEN "GC1" ELSE Successor[said]
         /\ pc[p] \in {"write", "nap"} => p = "GC1" /\ said = "nobody"
    /\ said = "nobody" => /\ pc["GC1"] \in {"unborn", "fork", "write", "nap", "say"}
                          /\ \A p \in Proc \ {"GC1"} : pc[p] \notin Turn
    /\ said # "nobody" => said \in Proc /\ pc["GC1"] \notin {"unborn", "fork"}

LEMMA SuccessorIn == /\ Successor \in [Proc -> Proc]
                     /\ \A p \in Proc : Successor[p] # p
  BY DEF Successor, Proc

LEMMA InitTurn == Init => TurnInv
  BY DEF Init, RingInit, TurnInv, Proc, PCs, Turn

LEMMA StepTurn ==
  ASSUME TurnInv, NEW p \in Proc, Step(p) PROVE TurnInv'
  <1> USE DEF TurnInv, PCs, Turn
  <1>1. "GC1" \in Proc /\ "nobody" \notin Proc
    BY DEF Proc
  <1>2. CASE Forks(p)
    <2>1. PICK q \in Proc : pc[q] = "unborn" /\ pc' = [pc EXCEPT ![q] = "fork"]
      BY <1>2 DEF Forks, Unborn, Parent, Proc
    <2> QED
      BY <1>1, <1>2, <2>1 DEF Forks
  <1>3. CASE Forked(p)
    BY <1>1, <1>3 DEF Forked, Goes
  <1>4. CASE WritesPid(p)
    BY <1>1, <1>4 DEF WritesPid, Goes
  <1>5. CASE Stops(p)
    BY <1>1, <1>5 DEF Stops, Goes
  <1>6. CASE ReadsPid(p)
    BY <1>1, <1>6 DEF ReadsPid, Goes
  <1>7. CASE Says(p)
    BY <1>1, <1>7 DEF Says, Goes
  <1>8. CASE Wakes(p)
    BY <1>1, <1>8 DEF Wakes, Goes
  <1>9. CASE Signals(p)
    <2> DEFINE q == Successor[p]
    <2>1. said = p /\ said' = p /\ q \in Proc /\ q # p
      BY <1>9, SuccessorIn DEF Signals
    <2>2. pc' = [pc EXCEPT ![p] = "stop", ![q] = Resumed(q)]
      BY <1>9 DEF Signals
    <2>3. \A r \in Proc \ {p} : pc[r] \notin Turn
      BY <1>9 DEF Signals
    <2>4. Resumed(q) \in {"read", "say", pc[q]} /\ Resumed(q) \in PCs
      BY <2>1 DEF Resumed
    <2>5. /\ pc'[p] = "stop" /\ pc'[q] = Resumed(q)
          /\ \A r \in Proc \ {p, q} : pc'[r] = pc[r]
      BY <2>1, <2>2
    <2>6. pc' \in [Proc -> PCs]
      BY <2>1, <2>2, <2>4
    <2>7. \A r \in Proc : pc'[r] \in Turn => r = q /\ pc'[r] \in {"read", "say"}
      BY <2>1, <2>3, <2>4, <2>5
    <2>8. pc'["GC1"] \notin {"unborn", "fork"}
      BY <1>1, <2>1, <2>4, <2>5
    <2> QED
      BY <1>1, <2>1, <2>6, <2>7, <2>8
  <1> QED
    BY <1>2, <1>3, <1>4, <1>5, <1>6, <1>7, <1>8, <1>9 DEF Step

LEMMA NextTurn == TurnInv /\ [Next]_vars => TurnInv'
  <1> SUFFICES ASSUME TurnInv, [Next]_vars PROVE TurnInv'
    OBVIOUS
  <1>1. CASE UNCHANGED ring
    BY <1>1 DEF ring, TurnInv
  <1>2. CASE \E p \in Proc : Ring(p)
    BY <1>2, StepTurn DEF Ring
  <1> QED
    BY <1>1, <1>2 DEF Next, vars, Handlers, Booking, Serving, Sending

LEMMA TurnInvariant == FairSpec => []TurnInv
  BY InitTurn, NextTurn, PTL DEF FairSpec

\* GC1 prints first and then always the one that was resumed, however the processes
\* are scheduled and however many SIGCONTs are lost (lab7.c).
THEOREM RingOrder == FairSpec => InRingOrder
  <1>1. TurnInv /\ [Next]_vars =>
          [said' # said => said' = IF said = "nobody" THEN "GC1" ELSE Successor[said]]_ring
    <2> SUFFICES ASSUME TurnInv, Next, said' # said
                 PROVE  said' = IF said = "nobody" THEN "GC1" ELSE Successor[said]
      BY DEF vars, ring
    <2>1. PICK p \in Proc : Step(p)
      BY DEF Next, Ring, Handlers, Booking, Serving, Sending, ring
    <2>2. pc[p] = "say" /\ said' = p
      BY <2>1 DEF Step, Forks, Forked, WritesPid, Stops, ReadsPid, Says, Wakes, Signals, Goes
    <2> QED
      BY <2>2 DEF TurnInv
  <1> QED
    BY TurnInvariant, <1>1, PTL DEF FairSpec, InRingOrder
-----------------------------------------------------------------------------
(* The ticket counter.                                                     *)

Places == {"sleep", "test", "take", "store", "unlock", "done"}

TicketType ==
    /\ mutex \in BOOLEAN /\ lk1 \subseteq Threads /\ booked \subseteq Threads
    /\ no_of_tickets \in Int /\ at \in [Threads -> Places] /\ seen \in [Threads -> Int]
    /\ \A t \in Threads : t \in booked => at[t] \in {"unlock", "done"}

\* Every value that is or may be stored is too large rather than too small: a value
\* read earlier is as large as one read now.  Who was turned away saw none left.
NoneTooFew ==
    /\ no_of_tickets + Cardinality(booked) >= Tickets0
    /\ \A t \in Threads :
         /\ at[t] \in {"take", "store"} => seen[t] + Cardinality(booked) >= Tickets0
         /\ at[t] \in {"unlock", "done"} /\ t \notin booked => Cardinality(booked) >= Tickets0

\* With the mutex only its holder is between test and unlock, and what it has read
\* is what is there.
Excluded ==
    mutex => /\ no_of_tickets >= 0 /\ no_of_tickets + Cardinality(booked) = Tickets0
             /\ \A t \in Threads :
                  /\ at[t] \in {"test", "take", "store", "unlock"} => lk1 = {t}
                  /\ at[t] \in {"take", "store"} => seen[t] = no_of_tickets /\ seen[t] >= 1

TicketInv == TicketType /\ NoneTooFew /\ Excluded

LEMMA InitTickets == Init => TicketInv
  BY TicketAssumption, FS_EmptySet
  DEF Init, TicketInit, TicketInv, TicketType, NoneTooFew, Excluded, Places

LEMMA BookedFinite ==
  ASSUME TicketType
  PROVE  /\ IsFiniteSet(booked) /\ Cardinality(booked) \in Nat
         /\ \A t \in Threads \ booked :
              Cardinality(booked \union {t}) = Cardinality(booked) + 1
  <1>1. IsFiniteSet(booked)
    BY TicketAssumption, FS_Subset DEF TicketType
  <1> QED
    BY <1>1, FS_CardinalityType, FS_AddElement

LEMMA StepTickets ==
  ASSUME TicketInv, NEW t \in Threads, bookticket(t) PROVE TicketInv'
  <1> USE TicketAssumption, BookedFinite DEF TicketInv, TicketType, Places, Steps, Loads
  <1>1. CASE Locks(t)
    BY <1>1 DEF Locks, NoneTooFew, Excluded
  <1>2. CASE TestsCount(t)
    <2>1. TicketType'
      BY <1>2 DEF TestsCount
    <2>2. NoneTooFew'
      BY <1>2 DEF TestsCount, NoneTooFew
    <2>3. Excluded'
      BY <1>2 DEF TestsCount, Excluded
    <2> QED
      BY <2>1, <2>2, <2>3
  <1>3. CASE ReadsAgain(t)
    <2>1. PICK v \in {seen[t], no_of_tickets} : seen' = [seen EXCEPT ![t] = v]
      BY <1>3 DEF ReadsAgain
    <2>2. /\ at[t] = "take" /\ at' = [at EXCEPT ![t] = "store"]
          /\ UNCHANGED <<mutex, lk1, no_of_tickets, booked>>
      BY <1>3 DEF ReadsAgain
    <2>3. TicketType'
      BY <2>1, <2>2
    <2>4. NoneTooFew'
      BY <2>1, <2>2 DEF NoneTooFew
    <2>5. Excluded'
      BY <2>1, <2>2 DEF Excluded
    <2> QED
      BY <2>3, <2>4, <2>5
  <1>4. CASE Stores(t)
    <2>1. TicketType'
      BY <1>4 DEF Stores
    <2>2. Cardinality(booked') = Cardinality(booked) + 1
      BY <1>4 DEF Stores
    <2>3. NoneTooFew'
      BY <1>4, <2>1, <2>2 DEF Stores, NoneTooFew
    <2>4. Excluded'
      BY <1>4, <2>1, <2>2 DEF Stores, NoneTooFew, Excluded
    <2> QED
      BY <2>1, <2>3, <2>4
  <1>5. CASE Unlocks(t)
    BY <1>5 DEF Unlocks, NoneTooFew, Excluded
  <1> QED
    BY <1>1, <1>2, <1>3, <1>4, <1>5 DEF bookticket

LEMMA NextTickets == TicketInv /\ [Next]_vars => TicketInv'
  <1> SUFFICES ASSUME TicketInv, [Next]_vars PROVE TicketInv'
    OBVIOUS
  <1>1. CASE UNCHANGED tickets
    BY <1>1 DEF tickets, TicketInv, TicketType, NoneTooFew, Excluded
  <1>2. CASE Booking
    BY <1>2, StepTickets DEF Booking, TicketNext
  <1> QED
    BY <1>1, <1>2 DEF Next, vars, Ring, Handlers, Serving, Sending

LEMMA TicketInvariant == FairSpec => []TicketInv
  BY InitTickets, NextTickets, PTL DEF FairSpec

\* With the mutex no ticket is booked twice; without it tickets are booked too often
\* but none is lost, for any number of threads and tickets (ticket1.c, ticket2.c).
THEOREM TicketsCorrect == FairSpec => []BookedOnce
  <1>1. ASSUME TicketInv PROVE BookedOnce
    <2> USE <1>1, BookedFinite, TicketAssumption DEF TicketInv, TicketType
    <2>1. booked # Threads => \E t \in Threads : t \notin booked
      OBVIOUS
    <2>2. Joined /\ booked # Threads => Cardinality(booked) >= Tickets0
      BY <2>1 DEF Joined, NoneTooFew
    <2> QED
      BY <2>2 DEF BookedOnce, NoneTooFew, Excluded
  <1> QED
    BY TicketInvariant, <1>1, PTL
-----------------------------------------------------------------------------
(* lab6: an alarm is counting, sent, or in its handler, and never two of   *)
(* these.                                                                  *)

Signal == {"SIGINT", "SIGALRM"}
Frame  == [sig : Signal, at : {"begin", "first", "set", "second", "leave", "said"}]
At6(place) == \E i \in DOMAIN frames : frames[i].at = place

\* Each handler runs at most once.
FramesType ==
    /\ frames \in Seq(Frame) /\ Len(frames) =< 2
    /\ Len(frames) = 2 => frames[1].sig # frames[2].sig
    /\ \A i \in DOMAIN frames : frames[i].at \in {"first", "set", "second", "leave"} =>
                                  frames[i].sig = "SIGINT"
    /\ timer \in Nat /\ is_first_enter \in BOOLEAN

\* The first press finds no alarm and sets one last.
CounterInv ==
    /\ FramesType
    /\ timer > 0 => "SIGALRM" \notin pending /\ ~ Runs("SIGALRM")
    /\ "SIGALRM" \in pending => ~ Runs("SIGALRM")
    /\ At6("first") => ~ is_first_enter /\ ~ Armed
    /\ At6("set") => is_first_enter /\ ~ Armed
    /\ ~ At6("set") /\ ~ At6("leave") => (is_first_enter <=> Armed)

LEMMA SomeFrames ==
  ASSUME FramesType
  PROVE /\ Len(frames) \in 0 .. 2
        /\ frames # <<>> => Len(frames) # 0
        /\ \A i \in 1 .. Len(frames) : frames[i] \in Frame
        /\ DOMAIN frames = 1 .. Len(frames)
  <1>1. frames \in Seq(Frame)
    BY DEF FramesType
  <1>2. Len(frames) \in Nat /\ DOMAIN frames = 1 .. Len(frames)
    BY <1>1
  <1>3. frames # <<>> => Len(frames) # 0
    BY <1>1, EmptySeq
  <1>4. \A i \in 1 .. Len(frames) : frames[i] \in Frame
    BY <1>1, ElementOfSeq
  <1> QED
    BY <1>2, <1>3, <1>4 DEF FramesType

\* What the three moves do to the stack of handlers.
LEMMA MovedFrames ==
  ASSUME FramesType, NEW sig \in Signal, NEW from, NEW to, [sig |-> sig, at |-> to] \in Frame,
         Moves(sig, from, to)
  PROVE /\ frames' \in Seq(Frame) /\ Len(frames') = Len(frames) /\ Len(frames) > 0
        /\ frames[Len(frames)] = [sig |-> sig, at |-> from]
        /\ frames'[Len(frames)] = [sig |-> sig, at |-> to]
        /\ Len(frames) = 2 => frames'[1] = frames[1]
  <1>1. Len(frames) \in {1, 2}
    BY SomeFrames DEF Moves, Top
  <1>2. CASE Len(frames) = 1
    BY <1>2 DEF Moves, Top, FramesType, Front, Last
  <1>3. CASE Len(frames) = 2
    BY <1>3 DEF Moves, Top, FramesType, Front, Last
  <1> QED
    BY <1>1, <1>2, <1>3

LEMMA ReturnedFrames ==
  ASSUME FramesType, NEW sig \in Signal, NEW from, Returns(sig, from)
  PROVE /\ frames' \in Seq(Frame) /\ Len(frames') = Len(frames) - 1 /\ Len(frames) > 0
        /\ frames[Len(frames)] = [sig |-> sig, at |-> from]
        /\ Len(frames) = 2 => frames'[1] = frames[1]
  <1>1. Len(frames) \in {1, 2}
    BY SomeFrames DEF Returns, Top
  <1> QED
    BY <1>1 DEF Returns, Top, FramesType, Front, Last

LEMMA DeliveredFrames ==
  ASSUME FramesType, NEW sig \in Signal, Deliver(sig)
  PROVE /\ frames' \in Seq(Frame) /\ Len(frames') = Len(frames) + 1 /\ Len(frames) =< 1
        /\ frames'[Len(frames')] = [sig |-> sig, at |-> "begin"]
        /\ Len(frames) = 1 => frames'[1] = frames[1] /\ frames[1].sig # sig
  <1>1. [sig |-> sig, at |-> "begin"] \in Frame
    BY DEF Frame
  <1>2. Len(frames) =< 1
    <2> SUFFICES ASSUME Len(frames) = 2 PROVE FALSE
      BY SomeFrames
    <2>1. frames[1] \in Frame /\ frames[2] \in Frame /\ frames[1].sig # frames[2].sig
      BY SomeFrames DEF FramesType
    <2>2. frames[1].sig = sig \/ frames[2].sig = sig
      BY <2>1 DEF Frame, Signal
    <2> QED
      BY <2>2, SomeFrames DEF Deliver, Runs
  <1>3. frames' = Append(frames, [sig |-> sig, at |-> "begin"]) /\ frames \in Seq(Frame)
    BY DEF Deliver, FramesType
  <1> QED
    BY <1>1, <1>2, <1>3 DEF Deliver, Runs, FramesType

\* The handler that the one on top has interrupted is at this place.
Below(place) == Len(frames) = 2 /\ frames[1].at = place

LEMMA Moved ==
  ASSUME FramesType, NEW sig \in Signal, NEW from, NEW to, [sig |-> sig, at |-> to] \in Frame,
         to \in {"first", "set", "second", "leave"} => sig = "SIGINT",
         Moves(sig, from, to), timer' \in Nat, is_first_enter' \in BOOLEAN
  PROVE /\ FramesType' /\ Runs(sig)
        /\ \A x : Runs(x)' <=> Runs(x)
        /\ \A a : (At6(a) <=> a = from \/ Below(a)) /\ (At6(a)' <=> a = to \/ Below(a))
        /\ sig = "SIGINT" => \A a \in {"first", "set", "second", "leave"} : ~ Below(a)
  <1>1. Len(frames) \in {1, 2} /\ DOMAIN frames = 1 .. Len(frames)
    <2>1. Len(frames) > 0
      BY MovedFrames
    <2> QED
      BY <2>1, SomeFrames
  <1>2. frames' \in Seq(Frame) /\ DOMAIN frames' = 1 .. Len(frames)
    <2>1. frames' \in Seq(Frame) /\ Len(frames') = Len(frames)
      BY MovedFrames
    <2> QED
      BY <2>1
  <1>3. /\ frames[Len(frames)] = [sig |-> sig, at |-> from]
        /\ frames'[Len(frames)] = [sig |-> sig, at |-> to]
        /\ Len(frames') = Len(frames) /\ (Len(frames) = 2 => frames'[1] = frames[1])
    BY MovedFrames
  <1>4. Len(frames) = 2 => frames[1].sig # sig
    BY <1>3 DEF FramesType
  <1>5. Len(frames) = 1 => frames[1] = [sig |-> sig, at |-> from] /\ frames'[1] = [sig |-> sig, at |-> to]
    BY <1>3
  <1>6. FramesType'
    BY <1>1, <1>2, <1>3, <1>4, <1>5 DEF FramesType
  <1>7. Runs(sig) /\ \A x : Runs(x)' <=> Runs(x)
    BY <1>1, <1>2, <1>3, <1>5 DEF Runs
  <1>8. \A a : (At6(a) <=> a = from \/ Below(a)) /\ (At6(a)' <=> a = to \/ Below(a))
    BY <1>1, <1>2, <1>3, <1>5 DEF At6, Below
  <1>9. sig = "SIGINT" => \A a \in {"first", "set", "second", "leave"} : ~ Below(a)
    BY <1>1, <1>4 DEF FramesType, Below
  <1> QED
    BY <1>6, <1>7, <1>8, <1>9

LEMMA Returned ==
  ASSUME FramesType, NEW sig \in Signal, NEW from, Returns(sig, from),
         timer' \in Nat, is_first_enter' \in BOOLEAN
  PROVE /\ FramesType' /\ Runs(sig) /\ ~ Runs(sig)'
        /\ \A x \in Signal \ {sig} : Runs(x)' <=> Runs(x)
        /\ \A a : (At6(a) <=> a = from \/ Below(a)) /\ (At6(a)' <=> Below(a))
        /\ sig = "SIGINT" => \A a \in {"first", "set", "second", "leave"} : ~ Below(a)
  <1>1. Len(frames) \in {1, 2} /\ DOMAIN frames = 1 .. Len(frames)
    <2>1. Len(frames) > 0
      BY ReturnedFrames
    <2> QED
      BY <2>1, SomeFrames
  <1>2. frames' \in Seq(Frame) /\ DOMAIN frames' = 1 .. Len(frames')
    <2>1. frames' \in Seq(Frame)
      BY ReturnedFrames
    <2> QED
      BY <2>1
  <1>3. /\ frames[Len(frames)] = [sig |-> sig, at |-> from]
        /\ Len(frames') = Len(frames) - 1 /\ (Len(frames) = 2 => frames'[1] = frames[1])
    BY ReturnedFrames
  <1>4. Len(frames) = 2 => frames[1].sig # sig
    BY <1>3 DEF FramesType
  <1>5. Len(frames) = 1 => frames[1] = [sig |-> sig, at |-> from]
    BY <1>3
  <1>6. FramesType'
    BY <1>1, <1>2, <1>3 DEF FramesType
  <1>7. Runs(sig) /\ ~ Runs(sig)' /\ \A x \in Signal \ {sig} : Runs(x)' <=> Runs(x)
    BY <1>1, <1>2, <1>3, <1>4, <1>5 DEF Runs
  <1>8. \A a : (At6(a) <=> a = from \/ Below(a)) /\ (At6(a)' <=> Below(a))
    BY <1>1, <1>2, <1>3, <1>5 DEF At6, Below
  <1>9. sig = "SIGINT" => \A a \in {"first", "set", "second", "leave"} : ~ Below(a)
    BY <1>1, <1>4 DEF FramesType, Below
  <1> QED
    BY <1>6, <1>7, <1>8, <1>9

LEMMA Delivered ==
  ASSUME FramesType, NEW sig \in Signal, Deliver(sig)
  PROVE /\ FramesType' /\ Runs(sig)' /\ ~ Runs(sig)
        /\ \A x \in Signal \ {sig} : Runs(x)' <=> Runs(x)
        /\ \A a : At6(a)' <=> a = "begin" \/ At6(a)
  <1>1. Len(frames) \in {0, 1} /\ DOMAIN frames = 1 .. Len(frames)
    <2>1. Len(frames) =< 1
      BY DeliveredFrames
    <2> QED
      BY <2>1, SomeFrames
  <1>2. frames' \in Seq(Frame) /\ DOMAIN frames' = 1 .. Len(frames')
    <2>1. frames' \in Seq(Frame)
      BY DeliveredFrames
    <2> QED
      BY <2>1
  <1>3. /\ frames'[Len(frames')] = [sig |-> sig, at |-> "begin"] /\ Len(frames') = Len(frames) + 1
        /\ Len(frames) = 1 => frames'[1] = frames[1] /\ frames[1].sig # sig
    BY DeliveredFrames
  <1>4. Len(frames) = 0 => frames'[1] = [sig |-> sig, at |-> "begin"]
    BY <1>3
  <1>5. Len(frames) = 1 => frames'[2] = [sig |-> sig, at |-> "begin"]
    BY <1>3
  <1>6. FramesType'
    BY <1>1, <1>2, <1>3, <1>4, <1>5 DEF FramesType, Deliver
  <1>7. Runs(sig)' /\ ~ Runs(sig) /\ \A x \in Signal \ {sig} : Runs(x)' <=> Runs(x)
    BY <1>1, <1>2, <1>3, <1>4, <1>5 DEF Runs, Deliver
  <1>8. \A a : At6(a)' <=> a = "begin" \/ At6(a)
    BY <1>1, <1>2, <1>3, <1>4, <1>5 DEF At6
  <1> QED
    BY <1>6, <1>7, <1>8

LEMMA InitCounter == Init => CounterInv
  <1> SUFFICES ASSUME Init PROVE CounterInv
    OBVIOUS
  <1>1. frames = <<>> /\ timer = 0 /\ pending = {} /\ is_first_enter = FALSE
    BY DEF Init, CtrlCInit
  <1>2. frames \in Seq(Frame) /\ Len(frames) = 0
    BY <1>1, EmptySeq
  <1>3. DOMAIN frames = {}
    BY <1>2
  <1>4. FramesType
    <2>1. timer \in Nat /\ is_first_enter \in BOOLEAN
      BY <1>1
    <2> QED
      BY <1>2, <1>3, <2>1 DEF FramesType
  <1>5. (\A x : ~ Runs(x)) /\ (\A a : ~ At6(a))
    BY <1>3 DEF Runs, At6
  <1> QED
    BY <1>1, <1>4, <1>5 DEF CounterInv, Armed

\* What sends or counts down the alarm leaves the handlers alone.
LEMMA OutsideKept ==
  ASSUME CounterInv, Press \/ Tick PROVE CounterInv'
  <1>1. UNCHANGED <<is_first_enter, frames>>
    BY DEF Press, Tick
  <1>2. FramesType' /\ (\A a : At6(a)' <=> At6(a)) /\ (\A x : Runs(x)' <=> Runs(x))
    BY <1>1 DEF CounterInv, FramesType, At6, Runs, Press, Tick
  <1>3. Armed' <=> Armed
    BY <1>2 DEF Press, Tick, CounterInv, FramesType, Armed
  <1> QED
    BY <1>1, <1>2, <1>3 DEF CounterInv, FramesType, Press, Tick

LEMMA DeliverKept ==
  ASSUME CounterInv, NEW sig \in Signal, Deliver(sig) PROVE CounterInv'
  <1>1. /\ FramesType' /\ Runs(sig)' /\ ~ Runs(sig)
        /\ \A x \in Signal \ {sig} : Runs(x)' <=> Runs(x)
        /\ \A a : At6(a)' <=> a = "begin" \/ At6(a)
    BY Delivered DEF CounterInv
  <1>2. /\ sig \in pending /\ pending' = pending \ {sig}
        /\ UNCHANGED <<is_first_enter, timer>>
    BY DEF Deliver
  <1>3. (At6("first")' <=> At6("first")) /\ (At6("set")' <=> At6("set")) /\ (At6("leave")' <=> At6("leave"))
    BY <1>1
  <1>4. CASE sig = "SIGINT"
    BY <1>1, <1>2, <1>3, <1>4 DEF CounterInv, Armed, Signal
  <1>5. CASE sig = "SIGALRM"
    BY <1>1, <1>2, <1>3, <1>5 DEF CounterInv, Armed, FramesType
  <1> QED
    BY <1>4, <1>5 DEF Signal

\* A statement of a handler that only moves on, or sets or clears the count or alarm.
LEMMA TestsKept ==
  ASSUME CounterInv, Tests PROVE CounterInv'
  <1> DEFINE to == IF is_first_enter THEN "second" ELSE "first"
  <1>1. Moves("SIGINT", "begin", to) /\ UNCHANGED <<is_first_enter, timer, pending>>
    BY DEF Tests
  <1>2. "SIGINT" \in Signal /\ [sig |-> "SIGINT", at |-> to] \in Frame
    BY DEF Signal, Frame
  <1>3. FramesType /\ timer' \in Nat /\ is_first_enter' \in BOOLEAN
    BY <1>1 DEF CounterInv, FramesType
  <1>4. /\ FramesType' /\ \A x : Runs(x)' <=> Runs(x)
        /\ \A a : (At6(a) <=> a = "begin" \/ Below(a)) /\ (At6(a)' <=> a = to \/ Below(a))
        /\ \A a \in {"first", "set", "second", "leave"} : ~ Below(a)
    BY <1>1, <1>2, <1>3, Moved
  <1> QED
    BY <1>1, <1>4 DEF CounterInv, Armed

LEMMA FirstKept ==
  ASSUME CounterInv, First PROVE CounterInv'
  <1>1. "SIGINT" \in Signal /\ [sig |-> "SIGINT", at |-> "set"] \in Frame /\ FramesType
    BY DEF Signal, Frame, CounterInv
  <1>2. timer' \in Nat /\ is_first_enter' \in BOOLEAN
    BY CtrlCAssumption DEF First, CounterInv, FramesType
  <1>3. CASE Moves("SIGINT", "first", "set") /\ is_first_enter' = TRUE /\ UNCHANGED <<timer, pending>>
    <2>1. /\ FramesType' /\ \A x : Runs(x)' <=> Runs(x)
          /\ \A a : (At6(a) <=> a = "first" \/ Below(a)) /\ (At6(a)' <=> a = "set" \/ Below(a))
          /\ \A a \in {"first", "set", "second", "leave"} : ~ Below(a)
      BY <1>1, <1>2, <1>3, Moved
    <2> QED
      BY <1>3, <2>1 DEF CounterInv, Armed
  <1>4. CASE Returns("SIGINT", "set") /\ timer' = Window /\ UNCHANGED <<is_first_enter, pending>>
    <2>1. /\ FramesType' /\ (Runs("SIGALRM")' <=> Runs("SIGALRM"))
          /\ \A a : (At6(a) <=> a = "set" \/ Below(a)) /\ (At6(a)' <=> Below(a))
          /\ \A a \in {"first", "set", "second", "leave"} : ~ Below(a)
      BY <1>1, <1>2, <1>4, Returned DEF Signal
    <2>2. timer' > 0
      BY <1>4, CtrlCAssumption
    <2> QED
      BY <1>4, <2>1, <2>2 DEF CounterInv, Armed
  <1> QED
    BY <1>3, <1>4 DEF First

LEMMA SecondKept ==
  ASSUME CounterInv, Second PROVE CounterInv'
  <1>1. "SIGINT" \in Signal /\ [sig |-> "SIGINT", at |-> "leave"] \in Frame /\ FramesType
    BY DEF Signal, Frame, CounterInv
  <1>2. timer' \in Nat /\ is_first_enter' \in BOOLEAN
    BY DEF Second, CounterInv, FramesType
  <1>3. CASE Moves("SIGINT", "second", "leave") /\ timer' = 0 /\ UNCHANGED <<is_first_enter, pending>>
    <2>1. /\ FramesType' /\ \A x : Runs(x)' <=> Runs(x)
          /\ \A a : (At6(a) <=> a = "second" \/ Below(a)) /\ (At6(a)' <=> a = "leave" \/ Below(a))
          /\ \A a \in {"first", "set", "second", "leave"} : ~ Below(a)
      BY <1>1, <1>2, <1>3, Moved
    <2> QED
      BY <1>3, <2>1 DEF CounterInv, Armed
  <1>4. CASE UNCHANGED <<is_first_enter, frames, pending, timer>>
    BY <1>4 DEF CounterInv, FramesType, Armed, Runs, At6
  <1> QED
    BY <1>3, <1>4 DEF Second

LEMMA AlarmKept ==
  ASSUME CounterInv, sigalrm_handler PROVE CounterInv'
  <1>1. "SIGALRM" \in Signal /\ [sig |-> "SIGALRM", at |-> "said"] \in Frame /\ FramesType
    BY DEF Signal, Frame, CounterInv
  <1>2. timer' \in Nat /\ is_first_enter' \in BOOLEAN /\ UNCHANGED <<timer, pending>>
    BY DEF sigalrm_handler, CounterInv, FramesType
  <1>3. CASE Moves("SIGALRM", "begin", "said") /\ UNCHANGED is_first_enter
    <2>1. /\ FramesType' /\ \A x : Runs(x)' <=> Runs(x)
          /\ \A a : (At6(a) <=> a = "begin" \/ Below(a)) /\ (At6(a)' <=> a = "said" \/ Below(a))
      BY <1>1, <1>2, <1>3, Moved
    <2> QED
      BY <1>2, <1>3, <2>1 DEF CounterInv, Armed
  <1>4. CASE Returns("SIGALRM", "said") /\ is_first_enter' = FALSE
    <2>1. /\ FramesType' /\ Runs("SIGALRM") /\ ~ Runs("SIGALRM")'
          /\ \A a : (At6(a) <=> a = "said" \/ Below(a)) /\ (At6(a)' <=> Below(a))
      BY <1>1, <1>2, <1>4, Returned
    <2>2. ~ At6("first") /\ ~ At6("set")
      BY <2>1 DEF CounterInv, Armed
    <2>3. ~ Armed'
      BY <1>2, <2>1 DEF CounterInv, FramesType, Armed
    <2> QED
      BY <1>2, <1>4, <2>1, <2>2, <2>3 DEF CounterInv
  <1> QED
    BY <1>3, <1>4 DEF sigalrm_handler

LEMMA NextCounter ==
  ASSUME CounterInv, [Next]_vars PROVE CounterInv'
  <1>1. CASE CtrlCNext
    BY <1>1, OutsideKept, DeliverKept, TestsKept, FirstKept, SecondKept, AlarmKept DEF CtrlCNext, Signal
  <1>2. CASE UNCHANGED ctrlc
    BY <1>2 DEF ctrlc, CounterInv, FramesType, Armed, Runs, At6
  <1> QED
    BY <1>1, <1>2 DEF Next, vars, Ring, Handlers, Booking, Serving, Sending

\* lab6 remembers a press exactly as long as an alarm is out that forgets it, for any
\* window, any number of presses and every way the handlers interrupt each other
\* (lab6.c).
THEOREM CounterCorrect == FairSpec => []CounterArmed
  <1>1. CounterInv => CounterArmed
    <2> SUFFICES ASSUME CounterInv, ~ Between PROVE is_first_enter <=> Armed
      BY DEF CounterArmed
    <2>1. ~ At6("set") /\ ~ At6("leave")
      BY DEF At6, Between
    <2> QED
      BY <2>1 DEF CounterInv
  <1> QED
    BY <1>1, InitCounter, NextCounter, PTL DEF FairSpec
-----------------------------------------------------------------------------
(* The FIFO server: nothing is lost between what was written, what is in   *)
(* the FIFO and what is printed.                                           *)

Came == printed \o fifo
CameOf(c) == {i \in DOMAIN Came : Came[i] = c}

ExchangeType ==
    /\ client \in [Clients -> {"open", "opening", "write", "close", "done"}]
    /\ file \in [Clients -> {"none", "old", "new"}] /\ name \in {"none", "old", "new"}
    /\ sent \in [Clients -> Nat] /\ printed \in Seq(Clients) /\ fifo \in Seq(Clients)

\* Every byte written is printed or in the FIFO; only who has the server's FIFO open
\* writes; and after the end-of-file that is only who has come late.
ExchangeInv ==
    /\ ExchangeType
    /\ \A c \in Clients : /\ IsFiniteSet(CameOf(c)) /\ sent[c] = Cardinality(CameOf(c))
                          /\ client[c] = "write" => file[c] = "new"
    /\ server \in {"eof", "done"} =>
         /\ \A c \in Clients : client[c] = "write" => c \in late
         /\ \A i \in DOMAIN fifo : fifo[i] \in late

LEMMA InitExchange == Init => ExchangeInv
  <1> SUFFICES ASSUME Init PROVE ExchangeInv
    OBVIOUS
  <1>1. ExchangeType /\ server = "unlink" /\ \A c \in Clients : client[c] = "open" /\ sent[c] = 0
    BY DEF Init, ExchangeInit, ExchangeType
  <1>2. printed = <<>> /\ fifo = <<>>
    BY DEF Init, ExchangeInit
  <1>3. Len(printed) = 0 /\ Len(fifo) = 0
    BY <1>2
  <1>4. DOMAIN Came = {}
    BY <1>1, <1>3 DEF Came, ExchangeType
  <1>5. \A c \in Clients : IsFiniteSet(CameOf(c)) /\ Cardinality(CameOf(c)) = 0
    BY <1>4, FS_EmptySet DEF CameOf
  <1> QED
    BY <1>1, <1>5 DEF ExchangeInv

\* A step that leaves alone what has come leaves its count alone.
LEMMA SameCame ==
  ASSUME Came' = Came, NEW c PROVE CameOf(c)' = CameOf(c)
  BY DEF CameOf

LEMMA ServerKept ==
  ASSUME ExchangeInv, ServerStep PROVE ExchangeInv'
  <1> USE DEF ExchangeInv, ExchangeType, Server
  <1>1. UNCHANGED <<file, sent>> /\ name' \in {"none", "old", "new"}
    BY DEF ServerStep, Unlink, Mkfifo, ServerOpens, Reads, Eof, ServerCloses
  <1>2. CASE Reads
    <2>1. /\ printed' = Append(printed, Head(fifo)) /\ fifo' = Tail(fifo)
          /\ UNCHANGED <<client, late>> /\ fifo # <<>> /\ server' = "read"
      BY <1>2 DEF Reads
    <2>2. printed' \in Seq(Clients) /\ fifo' \in Seq(Clients)
      BY <2>1
    <2>3. fifo = <<Head(fifo)>> \o Tail(fifo)
      BY <2>1
    <2>4. <<Head(fifo)>> \in Seq(Clients) /\ Tail(fifo) \in Seq(Clients)
      BY <2>1
    <2>5. Append(printed, Head(fifo)) = printed \o <<Head(fifo)>>
      BY <2>1, AppendIsConcat
    <2>6. Came' = Came
      BY <2>1, <2>3, <2>4, <2>5, ConcatAssociative, SMTT(30) DEF Came
    <2> QED
      BY <1>1, <2>1, <2>2, <2>6, SameCame
  <1>3. CASE ServerOpens
    <2>1. /\ server' \in {"opening", "read"} /\ UNCHANGED <<printed, fifo>>
          /\ client' = [c \in Clients |-> IF c \in Writers THEN "write" ELSE client[c]]
      BY <1>3 DEF ServerOpens
    <2>2. Came' = Came
      BY <2>1 DEF Came
    <2>3. client' \in [Clients -> {"open", "opening", "write", "close", "done"}]
      BY <2>1
    <2>4. \A c \in Clients : client'[c] = "write" => file[c] = "new"
      BY <2>1 DEF Writers
    <2> QED
      BY <1>1, <2>1, <2>2, <2>3, <2>4, SameCame
  <1>4. CASE Unlink \/ Mkfifo \/ Eof \/ ServerCloses
    <2>1. UNCHANGED <<client, printed, fifo, late>>
      BY <1>4 DEF Unlink, Mkfifo, Eof, ServerCloses
    <2>2. Came' = Came
      BY <2>1 DEF Came
    <2>3. CASE Eof
      <3>1. fifo = <<>> /\ \A c \in Clients : client[c] # "write"
        BY <2>3 DEF Eof, Writers
      <3>2. Len(fifo) = 0
        BY <3>1
      <3> QED
        BY <1>1, <2>1, <2>2, <3>1, <3>2, SameCame
    <2>4. CASE Unlink \/ Mkfifo \/ ServerCloses
      <3>1. server' \in {"eof", "done"} => server \in {"eof", "done"}
        BY <2>4 DEF Unlink, Mkfifo, ServerCloses
      <3> QED
        BY <1>1, <2>1, <2>2, <3>1, SameCame
    <2> QED
      BY <1>4, <2>3, <2>4
  <1> QED
    BY <1>2, <1>3, <1>4 DEF ServerStep

LEMMA ClientKept ==
  ASSUME ExchangeInv, NEW c \in Clients, ClientStep(c) PROVE ExchangeInv'
  <1> USE DEF ExchangeInv, ExchangeType, Client
  <1>1. CASE ClientOpens(c)
    <2>1. /\ UNCHANGED <<name, sent, fifo, printed>> /\ file' = [file EXCEPT ![c] = name]
          /\ client' = [client EXCEPT ![c] = IF name = "new" /\ Reader THEN "write" ELSE "opening"]
          /\ server' = IF name = "new" /\ server = "opening" THEN "read" ELSE server
          /\ late' = IF server = "eof" THEN late \union {c} ELSE late
      BY <1>1 DEF ClientOpens
    <2>2. Came' = Came
      BY <2>1 DEF Came
    <2>3. /\ client' \in [Clients -> {"open", "opening", "write", "close", "done"}]
          /\ file' \in [Clients -> {"none", "old", "new"}]
          /\ \A d \in Clients : client'[d] = "write" => file'[d] = "new"
      BY <2>1
    <2>4. CASE server' \in {"eof", "done"}
      <3>1. server \in {"eof", "done"} /\ late \subseteq late' /\ (server = "eof" => c \in late')
        BY <2>1, <2>4
      <3>2. client'[c] = "write" => server = "eof"
        BY <2>1, <3>1 DEF Reader
      <3>3. \A d \in Clients : client'[d] = "write" => d \in late'
        BY <2>1, <3>1, <3>2
      <3> QED
        BY <2>1, <2>2, <2>3, <3>1, <3>3, SameCame
    <2> QED
      BY <2>1, <2>2, <2>3, <2>4, SameCame
  <1>2. CASE Writes(c) /\ Reader
    <2>1. /\ UNCHANGED <<name, server, file, printed, late, client>>
          /\ client[c] = "write" /\ sent' = [sent EXCEPT ![c] = @ + 1] /\ fifo' = Append(fifo, c)
      BY <1>2 DEF Writes
    <2>2. fifo' \in Seq(Clients) /\ sent' \in [Clients -> Nat]
      BY <2>1
    <2>3. PICK n \in Nat : n = Len(Came)
      BY DEF Came
    <2>4. Came' = Append(Came, c) /\ Came \in Seq(Clients)
      BY <2>1, <2>2, SMTT(30) DEF Came
    <2>5. DOMAIN Came = 1 .. n /\ DOMAIN Came' = 1 .. (n + 1) /\ Came'[n + 1] = c
          /\ \A i \in 1 .. n : Came'[i] = Came[i]
      BY <2>3, <2>4
    <2>6. \A d \in Clients : CameOf(d)' = IF d = c THEN CameOf(d) \union {n + 1} ELSE CameOf(d)
      BY <2>5 DEF CameOf
    <2>7. n + 1 \notin CameOf(c)
      BY <2>5 DEF CameOf
    <2>8. \A d \in Clients : IsFiniteSet(CameOf(d)') /\ sent'[d] = Cardinality(CameOf(d)')
      <3>1. /\ IsFiniteSet(CameOf(c) \union {n + 1})
            /\ Cardinality(CameOf(c) \union {n + 1}) = Cardinality(CameOf(c)) + 1
        BY <2>7, FS_AddElement
      <3>2. IsFiniteSet(CameOf(c)') /\ sent'[c] = Cardinality(CameOf(c)')
        BY <2>1, <2>6, <3>1
      <3>3. \A d \in Clients : d # c => IsFiniteSet(CameOf(d)') /\ sent'[d] = Cardinality(CameOf(d)')
        BY <2>1, <2>6
      <3> QED
        BY <3>2, <3>3
    <2>9. server \in {"eof", "done"} => \A i \in DOMAIN fifo' : fifo'[i] \in late
      BY <2>1
    <2> QED
      BY <2>1, <2>2, <2>8, <2>9
  <1>3. CASE (Writes(c) /\ ~ Reader) \/ InputEnds(c) \/ ClientCloses(c)
    <2>1. /\ UNCHANGED <<name, server, file, sent, fifo, printed, late>>
          /\ \E s \in {"close", "done"} : client' = [client EXCEPT ![c] = s]
      BY <1>3 DEF Writes, InputEnds, ClientCloses
    <2>2. Came' = Came
      BY <2>1 DEF Came
    <2> QED
      BY <2>1, <2>2, SameCame
  <1> QED
    BY <1>1, <1>2, <1>3 DEF ClientStep

LEMMA NextExchange ==
  ASSUME ExchangeInv, [Next]_vars PROVE ExchangeInv'
  <1>1. CASE ServerStep \/ \E c \in Clients : ClientStep(c)
    BY <1>1, ServerKept, ClientKept
  <1>2. CASE UNCHANGED exchange
    <2>1. Came' = Came
      BY <1>2 DEF exchange, Came
    <2> QED
      BY <1>2, <2>1, SameCame DEF exchange, ExchangeInv, ExchangeType
  <1> QED
    BY <1>1, <1>2 DEF Next, vars, Ring, Handlers, Booking, Serving, Sending

\* When the server has ended it has printed all that any client wrote, for any number
\* of clients and bytes and every order of their steps, but for clients that came
\* between its end-of-file and its close (ex5server.c, ex5client.c).
THEOREM ExchangeCorrect == FairSpec => []LostOnlyAtEof
  <1>1. ASSUME ExchangeInv PROVE LostOnlyAtEof
    <2> SUFFICES ASSUME server = "done", NEW c \in Clients \ late PROVE PrintedOf(c) = sent[c]
      BY DEF LostOnlyAtEof
    <2> USE <1>1 DEF ExchangeInv, ExchangeType
    <2>1. \A i \in DOMAIN fifo : fifo[i] # c
      OBVIOUS
    <2>2. CameOf(c) = {i \in DOMAIN printed : printed[i] = c}
      BY <2>1 DEF CameOf, Came
    <2> QED
      BY <2>2 DEF PrintedOf
  <1> QED
    BY <1>1, InitExchange, NextExchange, PTL DEF FairSpec
=============================================================================
