------------------------------ MODULE EventLoop ------------------------------
(***************************************************************************)
(* serverServe and handle of src/server.c, responseWrite of response.c,    *)
(* the kernel's sockets and epoll as far as the loop can tell, and clients.*)
(* Every system call is a step of its own; what a handler computes is left *)
(* out (module Facebooc).                                                  *)
(*                                                                         *)
(* Data is counted in units: a request is RequestLen of them, the first    *)
(* HeadLen its request line and headers; a reply is what responseWrite     *)
(* sends in Len(Pieces) calls of send.  A client makes one connection.     *)
(***************************************************************************)
EXTENDS Integers, Sequences, FiniteSets, SequencesExt, FiniteSetsExt, Functions

CONSTANTS
    Clients,
    MaxFds,                     \* connections the process may have open
    EpollNum,                   \* events per epoll_wait (64 in the code)
    Backlog,                    \* second argument of listen (1 in the code)
    HeadLen, RequestLen,
    BufSize,                    \* what one recv takes (20480 bytes in the code)
    Pieces,                     \* lengths of what responseWrite hands to send
    SndBuf,                     \* what a socket holds until the client reads
    AcceptMayFail               \* accept may fail with ECONNABORTED, EPROTO or EINTR

ASSUME EventLoopAssumption ==
    /\ MaxFds \in Nat \ {0} /\ EpollNum \in Nat \ {0} /\ Backlog \in Nat
    /\ HeadLen \in Nat \ {0} /\ RequestLen \in Nat /\ HeadLen <= RequestLen
    /\ BufSize \in Nat \ {0}
    /\ Pieces \in Seq(Nat) /\ Len(Pieces) > 0
    /\ SndBuf \in Nat
    /\ AcceptMayFail \in BOOLEAN

Listener == 0                   \* the listening socket among the descriptors
Fds      == 1..MaxFds           \* those of connections

VARIABLES
    conn,       \* per client: its connection
    pc,         \* "loop", "write" (in responseWrite) or "down"
    fds,        \* open descriptors, and the client at the other end
    backlog,    \* established connections that wait for accept
    armed,      \* descriptors whose one-shot registration is alive
    ready,      \* epoll's ready list
    batch,      \* events of the last epoll_wait still to be looked at
    reply       \* in responseWrite: descriptor, whose reply it is, next piece

vars    == <<conn, pc, fds, backlog, armed, ready, batch, reply>>
process == <<pc, fds, backlog, armed, ready, batch, reply>>

\* sent and taken: units of the request the client sent and recv returned; runs:
\* how much of it each handler run had; wire: units of replies sent back, those
\* up to read being out of the socket.
NoConnection == [st |-> "none", sent |-> 0, taken |-> 0, gone |-> FALSE,
                 runs |-> << >>, wire |-> << >>, read |-> 0]

NoReply == [fd |-> Listener, of |-> {}, piece |-> 0]

Alive(c)    == conn[c].st \in {"queued", "open"}
Readable(c) == conn[c].sent > conn[c].taken \/ conn[c].gone
FdOf(c)     == CHOOSE fd \in DOMAIN fds : fds[fd] = c

\* The kernel puts a descriptor at the end of the ready list, once.
Notify(list, fd) == IF fd \in Range(list) THEN list ELSE Append(list, fd)

---------------------------------------------------------------------------
(* Clients, and the kernel on their behalf *)

\* While the accept queue is full the kernel drops the SYN, and the client tries again.
Connect(c) ==
    /\ conn[c].st = "none" /\ pc # "down" /\ Len(backlog) <= Backlog
    /\ conn' = [conn EXCEPT ![c].st = "queued"]
    /\ backlog' = Append(backlog, c)
    /\ ready' = Notify(ready, Listener)
    /\ UNCHANGED <<pc, fds, armed, batch, reply>>

\* Something to read on c's connection: only a live registration hears of it.
Arrival(c) ==
    /\ ready' = IF conn[c].st = "open" /\ FdOf(c) \in armed
                THEN Notify(ready, FdOf(c)) ELSE ready
    /\ UNCHANGED <<pc, fds, backlog, armed, batch, reply>>

SendPart(c) == /\ Alive(c) /\ ~conn[c].gone /\ conn[c].sent < RequestLen
               /\ conn' = [conn EXCEPT ![c].sent = @ + 1]
               /\ Arrival(c)

HangUp(c) == /\ Alive(c) /\ ~conn[c].gone
             /\ conn' = [conn EXCEPT ![c].gone = TRUE]
             /\ Arrival(c)

ReadReply(c) == /\ ~conn[c].gone /\ conn[c].read < Len(conn[c].wire)
                /\ conn' = [conn EXCEPT ![c].read = Len(conn[c].wire)]
                /\ UNCHANGED process

---------------------------------------------------------------------------
(* The end of the process and of a connection *)

\* The kernel resets every connection that is not closed.
Exit ==
    /\ conn' = [c \in Clients |-> IF Alive(c) THEN [conn[c] EXCEPT !.st = "reset"] ELSE conn[c]]
    /\ pc' = "down"
    /\ fds' = << >> /\ backlog' = << >> /\ armed' = {} /\ ready' = << >>
    /\ batch' = << >> /\ reply' = NoReply

\* Mutant: the descriptor is only taken out of epoll (FdsExact).
CloseLeaks(fd, con) ==
    /\ conn' = [con EXCEPT ![fds[fd]].st = "closed"]
    /\ armed' = armed \ {fd}
    /\ ready' = RemoveFirst(ready, fd)
    /\ batch' = Tail(batch)
    /\ UNCHANGED <<fds, backlog>>

\* serverDelFd and close, and on to the next event.  A connection with unread data
\* is reset.
Close(fd, con) ==
    /\ conn' = [con EXCEPT ![fds[fd]].st =
                    IF con[fds[fd]].sent > con[fds[fd]].taken THEN "reset" ELSE "closed"]
    /\ fds' = Restrict(fds, DOMAIN fds \ {fd})
    /\ armed' = armed \ {fd}
    /\ ready' = RemoveFirst(ready, fd)
    /\ batch' = Tail(batch)
    /\ UNCHANGED backlog

---------------------------------------------------------------------------
(* serverServe *)

Looping == pc = "loop"

\* Entries of the ready list are polled again when they are reported.
StillReady(fd) == IF fd = Listener THEN backlog # << >> ELSE Readable(fds[fd])

\* The members of a list that are in a set, in the order of the list.
Among(list, set) ==
    LET kept[i \in 0..Len(list)] ==
            IF i = 0 THEN << >>
            ELSE IF list[i] \in set THEN Append(kept[i - 1], list[i]) ELSE kept[i - 1]
    IN  kept[Len(list)]

EpollWait ==
    LET events == Among(ready, {fd \in Range(ready) : StillReady(fd)})
        n      == Min({Len(events), EpollNum})
    IN  /\ Looping /\ batch = << >> /\ events # << >>
        /\ batch' = SubSeq(events, 1, n)
        /\ ready' = SubSeq(events, n + 1, Len(events))
        /\ armed' = armed \ Range(batch')
        /\ UNCHANGED <<conn, pc, fds, backlog, reply>>

Dispatching(fd) == Looping /\ batch # << >> /\ Head(batch) = fd

FreeFds == Fds \ DOMAIN fds

\* Mutant: only what comes later counts (EveryConnectionEnds).
RegisterEdge(list, c, fd) == list

\* serverAddFd of an accepted connection; what it has sent by then counts.
Register(list, c, fd) == IF Readable(c) THEN Notify(list, fd) ELSE list

\* accept returns the lowest free descriptor.
AcceptOne ==
    LET c  == Head(backlog)
        fd == Min(FreeFds)
    IN  /\ Dispatching(Listener) /\ backlog # << >> /\ FreeFds # {}
        /\ conn' = [conn EXCEPT ![c].st = "open"]
        /\ fds' = [f \in DOMAIN fds \cup {fd} |-> IF f = fd THEN c ELSE fds[f]]
        /\ backlog' = Tail(backlog)
        /\ armed' = armed \cup {fd}
        /\ ready' = Register(ready, c, fd)
        /\ UNCHANGED <<pc, batch, reply>>

\* Mutant: the loop makes room by closing some other connection (EventsAreFresh).
AcceptDrops ==
    /\ Dispatching(Listener) /\ backlog # << >> /\ FreeFds = {}
    /\ \E fd \in DOMAIN fds : /\ conn' = [conn EXCEPT ![fds[fd]].st = "closed"]
                             /\ fds' = Restrict(fds, DOMAIN fds \ {fd})
                             /\ armed' = armed \ {fd}
                             /\ ready' = RemoveFirst(ready, fd)
    /\ UNCHANGED <<pc, backlog, batch, reply>>

\* EMFILE is not among the errors the loop passes over.
AcceptFails == /\ Dispatching(Listener) /\ backlog # << >> /\ FreeFds = {}
               /\ Exit

\* Mutant: one accept per event (NobodyForgotten).
OneAccept == AcceptMayFail \/ backlog = << >> \/ DOMAIN fds # {}

\* accept fails: with EAGAIN when nobody waits, or with an error that is passed over.
NoMoreToAccept == AcceptMayFail \/ backlog = << >>

AcceptEnds == /\ Dispatching(Listener) /\ NoMoreToAccept
              /\ batch' = Tail(batch)
              /\ UNCHANGED <<conn, pc, fds, backlog, armed, ready, reply>>

---------------------------------------------------------------------------
(* handle *)

Unread(c) == conn[c].sent - conn[c].taken

\* One recv, and the handler runs on what it returned.  A head that is cut makes
\* the parser write through an invalid pointer, or find a bad request, which is
\* answered with a fixed text, or find some other one in it.
Receive(fd) ==
    LET c == fds[fd]
        n == Min({Unread(c), BufSize})
    IN  /\ Dispatching(fd) /\ n > 0
        /\ \/ /\ conn' = [conn EXCEPT ![c].taken = @ + n, ![c].runs = Append(@, n)]
              /\ pc' = "write"
              /\ reply' = [fd |-> fd, of |-> c, piece |-> 1]
              /\ UNCHANGED <<fds, backlog, armed, ready, batch>>
           \/ /\ n < HeadLen
              /\ Close(fd, [conn EXCEPT ![c].taken = @ + n])
              /\ UNCHANGED <<pc, reply>>
           \/ n < HeadLen /\ Exit

\* The client has closed and recv returns 0, or there is nothing and it fails with
\* EAGAIN: both end in close, the second after the one-shot was armed again.
ReceiveNothing(fd) ==
    /\ Dispatching(fd) /\ Unread(fds[fd]) = 0
    /\ Close(fd, conn)
    /\ UNCHANGED <<pc, reply>>

---------------------------------------------------------------------------
(* responseWrite *)

\* Where a piece begins in the reply.
Offset(piece) ==
    LET before[p \in 1..Len(Pieces) + 1] ==
            IF p = 1 THEN 0 ELSE before[p - 1] + Pieces[p - 1]
    IN  before[piece]
ReplyLen      == Offset(Len(Pieces) + 1)

Room(c) == SndBuf - (Len(conn[c].wire) - conn[c].read)

\* Mutant: each piece starts over (OwnReply).
UnitsAgain(of, piece, n) == [i \in 1..n |-> <<of, i>>]

\* The first n units of a piece of somebody's reply.
Units(of, piece, n) == [i \in 1..n |-> <<of, Offset(piece) + i>>]

\* A non-blocking send takes what there is room for; its result is not looked at.
SendPiece ==
    LET c   == fds[reply.fd]
        n   == Min({Pieces[reply.piece], Room(c)})
        con == [conn EXCEPT ![c].wire = @ \o Units(reply.of, reply.piece, n)]
    IN  /\ pc = "write"
        /\ IF reply.piece < Len(Pieces)
           THEN /\ reply' = [reply EXCEPT !.piece = @ + 1]
                /\ conn' = con
                /\ UNCHANGED <<pc, fds, backlog, armed, ready, batch>>
           ELSE /\ reply' = NoReply /\ pc' = "loop"
                /\ Close(reply.fd, con)

\* A send after the one that made the client's side answer with a reset.
BrokenPipe == /\ pc = "write" /\ reply.piece > 1 /\ conn[fds[reply.fd]].gone
              /\ Exit

---------------------------------------------------------------------------
\* SIGINT or SIGTERM.
Terminate == pc # "down" /\ Exit

\* makeSocket and an empty epoll set; docker-compose.yml, "restart: always".
Start == /\ pc = "down"
         /\ pc' = "loop"
         /\ UNCHANGED <<conn, fds, backlog, armed, ready, batch, reply>>

Init == /\ conn = [c \in Clients |-> NoConnection]
        /\ pc = "loop" /\ fds = << >> /\ backlog = << >>
        /\ armed = {} /\ ready = << >> /\ batch = << >> /\ reply = NoReply

Serve == \/ EpollWait \/ AcceptOne \/ AcceptFails \/ AcceptEnds
         \/ SendPiece \/ BrokenPipe
         \/ \E fd \in DOMAIN fds : Receive(fd) \/ ReceiveNothing(fd)

Next == \/ \E c \in Clients : Connect(c) \/ SendPart(c) \/ HangUp(c) \/ ReadReply(c)
        \/ Serve \/ Terminate \/ Start

Spec == Init /\ [][Next]_vars

\* The loop never waits for anything but epoll_wait, and the process comes back.
FairSpec == Spec /\ WF_vars(Serve) /\ WF_vars(Start)
=============================================================================
