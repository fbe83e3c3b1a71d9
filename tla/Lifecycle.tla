------------------------------ MODULE Lifecycle ------------------------------
(***************************************************************************)
(* main.c with FB_new, FB_run and FB_delete of src/facebooc_server.c: the  *)
(* process from its start to its end, and the signal handler, which runs   *)
(* in the middle of whatever main is doing and frees what main uses.       *)
(***************************************************************************)
EXTENDS Integers, Sequences, FiniteSets

CONSTANTS
    Signals,        \* those that main handles, in order: SIGINT, SIGTERM
    MaxEvents     \* bound

ASSUME LifecycleAssumption == Signals \in Seq(STRING) /\ MaxEvents \in Nat

VARIABLES
    main,       \* the statement that main is at
    busy,       \* main is within malloc, realloc or free
    bound,      \* how many of them have sig as their handler
    fb,         \* the global: is it set
    made,       \* what is allocated of FB_new's objects
    frees,      \* how often each was freed
    frames,     \* the calls of sig: the signal, and where in FB_delete it is
    outcome,    \* "running", or how the process ended
    events

processVars == <<main, busy, bound, fb, made, frees, frames, outcome, events>>

Objects == {"fb", "server", "table"}

Alive == outcome = "running"

---------------------------------------------------------------------------
(* main: runs while no handler does *)

MainAt(place) == Alive /\ frames = << >> /\ main = place

\* Statements that allocate or free: the call of malloc, and then the rest.
Allocating == {"FB_new", "serverNew", "serverAddHandler", "initDB", "serverServe", "handle"}

InMalloc ==
    /\ \E place \in Allocating : MainAt(place)
    /\ ~busy /\ busy' = TRUE
    /\ UNCHANGED <<main, bound, fb, made, frees, frames, outcome, events>>

Then(next) == main' = next /\ busy' = FALSE /\ UNCHANGED <<frees, frames>>

\* signal, once for each: up to then the default is to end.
BindSignal ==
    /\ MainAt("signal")
    /\ bound' = bound + 1
    /\ Then(IF bound' = Len(Signals) THEN "FB_new" ELSE "signal")
    /\ UNCHANGED <<fb, made, outcome, events>>

Make(place, object, next) ==
    /\ MainAt(place) /\ busy
    /\ made' = made \cup {object}
    /\ Then(next)
    /\ UNCHANGED <<bound, fb, outcome, events>>

\* Mutant: FB_new publishes what it has before it is complete (DiesOnlyFor).
MakeFbEarly ==
    /\ MainAt("FB_new") /\ busy
    /\ made' = made \cup {"fb"} /\ fb' = TRUE
    /\ Then("serverNew")
    /\ UNCHANGED <<bound, outcome, events>>

MakeFb     == Make("FB_new", "fb", "serverNew")
MakeServer == Make("serverNew", "server", "serverAddHandler")
MakeTable  == Make("serverAddHandler", "table", "initDB")

\* sqlite3_open or CREATE TABLE fails, or they go well.
OpenDB ==
    /\ MainAt("initDB") /\ busy
    /\ outcome' \in {"running", "exit 1"}
    /\ Then("assign")
    /\ UNCHANGED <<bound, fb, made, events>>

Assign ==
    /\ MainAt("assign")
    /\ fb' = TRUE
    /\ Then("serverServe")
    /\ UNCHANGED <<bound, made, outcome, events>>

\* makeSocket may find the port in use.
Listen ==
    /\ MainAt("serverServe") /\ busy
    /\ outcome' \in {"running", "exit 1"}
    /\ Then("epoll_wait")
    /\ UNCHANGED <<bound, fb, made, events>>

Event ==
    /\ MainAt("epoll_wait") /\ events < MaxEvents
    /\ events' = events + 1
    /\ Then("handle")
    /\ UNCHANGED <<bound, fb, made, outcome>>

\* The table is asked for the handler.
Handle ==
    /\ MainAt("handle") /\ busy
    /\ outcome' = IF frees["table"] = 0 THEN "running" ELSE "crashed"
    /\ Then("epoll_wait")
    /\ UNCHANGED <<bound, fb, made, events>>

---------------------------------------------------------------------------
(* Signals *)

\* A handler may interrupt main or the handler of the other signal; its own signal waits.
Deliver(sig) ==
    /\ Alive
    /\ IF sig <= bound
       THEN /\ \A k \in DOMAIN frames : frames[k].signal # sig
            /\ frames' = Append(frames, [signal |-> sig, at |-> "table"])
            /\ UNCHANGED outcome
       ELSE outcome' = "killed" /\ UNCHANGED frames
    /\ UNCHANGED <<main, busy, bound, fb, made, frees, events>>

InHandler(place) == Alive /\ frames # << >> /\ frames[Len(frames)].at = place

GoOn(place) == frames' = [frames EXCEPT ![Len(frames)].at = place]

\* What was interrupted, main or the other call of sig, may be within the allocator.
Interrupted == busy \/ Len(frames) > 1

\* Then, or with an object that is not there, the allocator ends the process, waits for
\* its own lock, or does as it is told.
Bad(object) == object \notin made \/ frees[object] > 0 \/ Interrupted

FreeIt(object, next) ==
    /\ \/ /\ frees' = [frees EXCEPT ![object] = @ + 1]
          /\ GoOn(next)
          /\ UNCHANGED outcome
       \/ /\ Bad(object)
          /\ outcome' \in {"crashed"} \cup (IF Interrupted THEN {"hangs"} ELSE {})
          /\ UNCHANGED <<frees, frames>>
    /\ UNCHANGED <<main, busy, bound, fb, made, events>>

\* FB_delete: with fb NULL it reads through it.
NullFb == /\ InHandler("table") /\ ~fb
          /\ outcome' = "crashed"
          /\ UNCHANGED <<main, busy, bound, fb, made, frees, frames, events>>

DeleteTable  == InHandler("table") /\ fb /\ FreeIt("table", "server")
DeleteServer == InHandler("server") /\ FreeIt("server", "fb")
DeleteFb     == InHandler("fb") /\ FreeIt("fb", "exit")

\* The tables are not closed: FB_delete declares db_close, and does not call it.
Exit ==
    /\ InHandler("exit")
    /\ outcome' = "exit 0"
    /\ UNCHANGED <<main, busy, bound, fb, made, frees, frames, events>>

---------------------------------------------------------------------------
ProcessInit ==
    /\ main = "signal" /\ busy = FALSE /\ bound = 0 /\ fb = FALSE /\ made = {}
    /\ frees = [o \in Objects |-> 0] /\ frames = << >> /\ outcome = "running" /\ events = 0

Main == \/ InMalloc \/ BindSignal \/ MakeFb \/ MakeServer \/ MakeTable
        \/ OpenDB \/ Assign \/ Listen \/ Event \/ Handle

Sig == NullFb \/ DeleteTable \/ DeleteServer \/ DeleteFb \/ Exit

ProcessNext == Main \/ Sig \/ \E sig \in DOMAIN Signals : Deliver(sig)

ProcessSpec == ProcessInit /\ [][ProcessNext]_processVars

---------------------------------------------------------------------------
(* Properties *)

\* What a signal can do to the process other than end it in order: it came before main had
\* set fb, within an allocation, or while the other one was being handled.  In all other
\* places each object is freed once and main never uses it again.
DiesOnlyFor ==
    outcome \in {"crashed", "hangs"} \/ (\E o \in Objects : frees[o] > 1) =>
        frames # << >> /\ (~fb \/ Interrupted)

\* Once a signal is being handled, main is over.
Ending == frames # << >> /\ Alive
=============================================================================
