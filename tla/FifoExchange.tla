---------------------------- MODULE FifoExchange -----------------------------
(***************************************************************************)
(* src/pipes/ex5server.c and ex5client.c: a server that makes a FIFO anew, *)
(* opens it and prints what comes until end-of-file, and clients that try  *)
(* to open it until they can and send what is typed.  A FIFO of an earlier *)
(* run may be there: a client can open it before the server unlinks it,    *)
(* and then waits at a FIFO that has no name any more.                     *)
(*                                                                         *)
(* open counts the end it opens and then waits until the other end is      *)
(* there; a write does not fill the FIFO.                                  *)
(***************************************************************************)
EXTENDS Naturals, Sequences, FiniteSets

CONSTANTS Clients, MaxBytes     \* bound: how much each client is given to send
ASSUME ExchangeAssumption == MaxBytes \in Nat

VARIABLES
    name,       \* the FIFO "server" names: "none", "old" or "new"
    server,     \* where the server is: "unlink", "mkfifo", "open", "opening",
                \* "read", "eof", "done"
    client,     \* where each client is: "open", "opening", "write", "close", "done"
    file,       \* the FIFO each client has opened
    sent,       \* how many bytes each client has written
    fifo,       \* what is in the new FIFO: the sender of each byte
    printed,    \* and what the server has printed
    late        \* ghost: who has opened it when the server had met its end-of-file
exchange == <<name, server, client, file, sent, fifo, printed, late>>

ExchangeInit ==
    /\ name \in {"none", "old"} /\ server = "unlink"
    /\ client = [c \in Clients |-> "open"] /\ file = [c \in Clients |-> "none"]
    /\ sent = [c \in Clients |-> 0] /\ fifo = <<>> /\ printed = <<>> /\ late = {}

Server(from, to) == server = from /\ server' = to
Client(c, from, to) == client[c] = from /\ client' = [client EXCEPT ![c] = to]

Reader == server \in {"opening", "read", "eof"}
Writers == {c \in Clients : file[c] = "new" /\ client[c] \in {"opening", "write", "close"}}
-----------------------------------------------------------------------------
Unlink ==
    /\ Server("unlink", "mkfifo") /\ name' = "none"
    /\ UNCHANGED <<client, file, sent, fifo, printed, late>>
Mkfifo ==
    /\ Server("mkfifo", "open") /\ name' = "new"
    /\ UNCHANGED <<client, file, sent, fifo, printed, late>>

\* Clients that wait at this FIFO go on.
ServerOpens ==
    /\ Server("open", IF Writers = {} THEN "opening" ELSE "read")
    /\ client' = [c \in Clients |-> IF c \in Writers THEN "write" ELSE client[c]]
    /\ UNCHANGED <<name, file, sent, fifo, printed, late>>

Reads ==
    /\ server = "read" /\ fifo # <<>>
    /\ printed' = Append(printed, Head(fifo)) /\ fifo' = Tail(fifo)
    /\ UNCHANGED <<name, server, client, file, sent, late>>

\* Variant: the read does not wait, and any result but 1 ends the loop.
Eof_when_empty ==
    /\ fifo = <<>> /\ Server("read", "eof")
    /\ UNCHANGED <<name, client, file, sent, fifo, printed, late>>
\* Variant: the loop is continued at 0, as it is for EINTR.
Eof_continues ==
    /\ fifo = <<>> /\ Writers = {} /\ server = "read"
    /\ UNCHANGED exchange

\* read returns 0: nothing in it and no writer.
Eof ==
    /\ fifo = <<>> /\ Writers = {} /\ Server("read", "eof")
    /\ UNCHANGED <<name, client, file, sent, fifo, printed, late>>

ServerCloses ==
    /\ Server("eof", "done")
    /\ UNCHANGED <<name, client, file, sent, fifo, printed, late>>

ServerStep == Unlink \/ Mkfifo \/ ServerOpens \/ Reads \/ Eof \/ ServerCloses
-----------------------------------------------------------------------------
\* open fails and is tried again as long as there is no FIFO.
ClientOpens(c) ==
    /\ name # "none"
    /\ Client(c, "open", IF name = "new" /\ Reader THEN "write" ELSE "opening")
    /\ file' = [file EXCEPT ![c] = name]
    /\ server' = IF name = "new" /\ server = "opening" THEN "read" ELSE server
    /\ late' = IF server = "eof" THEN late \union {c} ELSE late
    /\ UNCHANGED <<name, sent, fifo, printed>>

\* Without a reader the write fails and ends the loop.
Writes(c) ==
    /\ sent[c] < MaxBytes
    /\ IF Reader
       THEN /\ client[c] = "write" /\ sent' = [sent EXCEPT ![c] = @ + 1]
            /\ fifo' = Append(fifo, c) /\ UNCHANGED client
       ELSE Client(c, "write", "close") /\ UNCHANGED <<sent, fifo>>
    /\ UNCHANGED <<name, server, file, printed, late>>

\* getchar returns EOF.
InputEnds(c) ==
    /\ Client(c, "write", "close")
    /\ UNCHANGED <<name, server, file, sent, fifo, printed, late>>

ClientCloses(c) ==
    /\ Client(c, "close", "done")
    /\ UNCHANGED <<name, server, file, sent, fifo, printed, late>>

ClientStep(c) == ClientOpens(c) \/ Writes(c) \/ InputEnds(c) \/ ClientCloses(c)
-----------------------------------------------------------------------------
PrintedOf(c) == Cardinality({i \in DOMAIN printed : printed[i] = c})

\* When the server has ended, it has printed every byte of every client, but for one
\* that opened the FIFO between the server's end-of-file and its close: such a
\* client's writes succeed and are lost (ex5server.c 62-91).
LostOnlyAtEof ==
    server = "done" => \A c \in Clients \ late : PrintedOf(c) = sent[c]

\* Server and clients come to an end, but for three cases: a client has opened a FIFO
\* left from before and the server has then replaced it; a client has come when the
\* server was done; or no client has come to the server's FIFO, for which it waits
\* (the loop of ex5client.c 41-50, unlink and open of ex5server.c 27-56).
ExchangeEnds ==
    <>[](/\ \A c \in Clients : \/ client[c] = "done"
                               \/ client[c] = "opening" /\ (file[c] = "old" \/ server = "done")
         /\ server = "done" \/ \A c \in Clients : file[c] # "new")
=============================================================================
