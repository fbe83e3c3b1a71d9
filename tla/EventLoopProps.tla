---------------------------- MODULE EventLoopProps ----------------------------
(***************************************************************************)
(* What server.c's loop must keep, whatever clients and kernel do.         *)
(***************************************************************************)
EXTENDS EventLoop

\* No descriptor leaks and none is shared: each open one belongs to one open
\* connection and the other way round, on every path out of handle.
FdsExact ==
    /\ \A f, g \in DOMAIN fds : fds[f] = fds[g] => f = g
    /\ \A c \in Clients : conn[c].st = "open" <=> c \in Range(fds)

\* An event of the batch still means what epoll_wait said when the loop comes to
\* it: the descriptor was not closed, nor closed and reused by an accept of the
\* same batch, and recv finds something.  So handle never sees EAGAIN, after
\* which it would close a connection whose request is still on its way.
EventsAreFresh ==
    \A i \in DOMAIN batch :
        /\ \A j \in DOMAIN batch : batch[i] = batch[j] => i = j
        /\ batch[i] # Listener => /\ batch[i] \in DOMAIN fds
                                  /\ i > 1 \/ pc # "write" => Readable(fds[batch[i]])

\* What a client is sent is its own reply, from its first byte on and in order,
\* though descriptors are reused and sends are cut.
OwnReply == \A c \in Clients : \A i \in DOMAIN conn[c].wire : conn[c].wire[i] = <<c, i>>

\* Edge-triggered and one-shot events are not lost: when the loop is about to
\* wait, epoll still holds one for every connection that can be read, and one for
\* the listening socket when clients wait for accept.
NobodyForgotten ==
    pc = "loop" /\ batch = << >> =>
        /\ \A f \in DOMAIN fds : f \in armed /\ (Readable(fds[f]) => f \in Range(ready))
        /\ backlog # << >> => Listener \in Range(ready)

---------------------------------------------------------------------------
\* A client that has sent something, or gives up, is not kept waiting: its
\* connection is accepted, looked at and ends.
EveryConnectionEnds == \A c \in Clients : (Alive(c) /\ Readable(c)) ~> ~Alive(c)
=============================================================================
