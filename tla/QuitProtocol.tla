---------------------------- MODULE QuitProtocol ----------------------------
(***************************************************************************)
(* Starting up and shutting down: main (src/main.c), the health thread     *)
(* (src/health.c), the flag g_quit with its mutex (src/global.c) and the   *)
(* SIGINT handler, which runs on top of either thread wherever that thread *)
(* happens to be.                                                          *)
(*                                                                         *)
(* A frame is a flow of control: the two threads and, on top of each, a    *)
(* handler that suspends it.  A step of a frame is what no other frame can *)
(* see the middle of.                                                      *)
(***************************************************************************)
EXTENDS Integers

CONSTANT MaxSigints  \* how often SIGINT may be delivered

ASSUME SigintAssumption == MaxSigints \in Nat

VARIABLES
  pc,       \* where each frame is
  mutex,    \* g_quit_mutex: free, destroyed, or the frame that holds it
  g_quit,   \* the flag
  quit,     \* the threads' local variables quit
  ring,     \* the connection of the HDU to the ring buffer
  log,      \* the logger all of them use
  process,  \* running, returned (from main) or died (exit elsewhere, or UB)
  sigints,  \* SIGINTs delivered so far
  late      \* health messages sent since g_quit was raised

vars == <<pc, mutex, g_quit, quit, ring, log, process, sigints, late>>

Threads == {"main", "health"}
Handlers == {"main_handler", "health_handler"}
Frames == Threads \cup Handlers

HandlerOf(t) == IF t = "main" THEN "main_handler" ELSE "health_handler"

MainLabels ==
  { "initialise", "install", "setup", "launch", "read", "set_lock",
    "set_store", "set_unlock", "get_lock", "get_load", "get_unlock", "loop",
    "join", "disconnect", "close_log", "destroy_quit", "return" }

HealthLabels ==
  { "unborn", "socket", "get_lock", "get_load", "get_unlock", "collect",
    "send", "sleep", "finished" }

HandlerLabels == {"idle", "log", "set_lock", "set_store", "set_unlock"}

Labels == MainLabels \cup HealthLabels \cup HandlerLabels

\* f has the processor: a thread under a handler is suspended.
Runs(f) ==
  /\ process = "running"
  /\ f \in Threads => pc[HandlerOf(f)] = "idle"

At(f, label) == Runs(f) /\ pc[f] = label

GoTo(f, label) == pc' = [pc EXCEPT ![f] = label]

-----------------------------------------------------------------------------
(* set_quit(1) and get_quit, called from any frame *)

\* The mutex is a normal one: it does not know its owner, and locking it twice
\* blocks.  Locking it after its destruction is undefined: it may do nothing.
Lock(f) ==
  /\ Runs(f)
  /\ \/ pc[f] = "set_lock" /\ GoTo(f, "set_store")
     \/ pc[f] = "get_lock" /\ GoTo(f, "get_load")
  /\ mutex \in {"free", "destroyed"}
  /\ mutex' = IF mutex = "free" THEN f ELSE mutex
  /\ UNCHANGED <<g_quit, quit, ring, log, process, sigints, late>>

Store(f) ==
  /\ At(f, "set_store")
  /\ g_quit' = TRUE
  /\ GoTo(f, "set_unlock")
  /\ UNCHANGED <<mutex, quit, ring, log, process, sigints, late>>

Load(f) ==
  /\ At(f, "get_load")
  /\ quit' = [quit EXCEPT ![f] = g_quit]
  /\ GoTo(f, "get_unlock")
  /\ UNCHANGED <<mutex, g_quit, ring, log, process, sigints, late>>

\* ... and return to the caller
Unlock(f) ==
  /\ Runs(f)
  /\ \/ pc[f] = "set_unlock"
        /\ GoTo(f, IF f \in Handlers THEN "idle" ELSE "get_lock")
     \/ pc[f] = "get_unlock"
        /\ GoTo(f, IF f = "main" THEN "loop" ELSE "collect")
  /\ mutex' = IF mutex = f THEN "free" ELSE mutex
  /\ UNCHANGED <<g_quit, quit, ring, log, process, sigints, late>>

-----------------------------------------------------------------------------
(* main *)

\* initialise_quit and set_quit(0), before there is anybody else
Initialise ==
  /\ At("main", "initialise")
  /\ mutex' = "free"
  /\ g_quit' = FALSE
  /\ GoTo("main", "install")
  /\ UNCHANGED <<quit, ring, log, process, sigints, late>>

\* signal(SIGINT, sig_handler)
Install ==
  /\ At("main", "install")
  /\ GoTo("main", "setup")
  /\ UNCHANGED <<mutex, g_quit, quit, ring, log, process, sigints, late>>

\* return EXIT_FAILURE, wherever main does, or exit in one of the callbacks of
\* dada_client_read
MainFails ==
  /\ \E label \in {"setup", "read", "loop", "disconnect"} :
       At("main", label) /\ (label = "loop" => ~quit["main"])
  /\ process' = "returned"
  /\ UNCHANGED <<pc, mutex, g_quit, quit, ring, log, sigints, late>>

\* dada_hdu_connect, dada_hdu_lock_read, dada_client_create
Setup ==
  /\ At("main", "setup")
  /\ ring' = "connected"
  /\ GoTo("main", "launch")
  /\ UNCHANGED <<mutex, g_quit, quit, log, process, sigints, late>>

Launch ==
  /\ At("main", "launch")
  /\ pc' = [pc EXCEPT !["main"] = "read", !["health"] = "socket"]
  /\ UNCHANGED <<mutex, g_quit, quit, ring, log, process, sigints, late>>

\* dada_client_read returns; set_quit(1) is called in dada_dbfil_open for
\* MODE=QUIT, or here after an error.
Read ==
  /\ At("main", "read")
  /\ \E next \in {"get_lock", "set_lock"} : GoTo("main", next)
  /\ UNCHANGED <<mutex, g_quit, quit, ring, log, process, sigints, late>>

\* The read lock is dropped and taken again, or the loop is left.
Loop ==
  /\ At("main", "loop")
  /\ GoTo("main", IF quit["main"] THEN "join" ELSE "read")
  /\ UNCHANGED <<mutex, g_quit, quit, ring, log, process, sigints, late>>

\* Variant: main does not wait.
JoinableAlways == TRUE

Joinable == pc["health"] = "finished"

\* pthread_join(health_thread)
Join ==
  /\ At("main", "join") /\ Joinable
  /\ GoTo("main", "disconnect")
  /\ UNCHANGED <<mutex, g_quit, quit, ring, log, process, sigints, late>>

\* dada_hdu_disconnect, dada_hdu_destroy, dada_client_destroy
Disconnect ==
  /\ At("main", "disconnect")
  /\ ring' = "gone"
  /\ GoTo("main", "close_log")
  /\ UNCHANGED <<mutex, g_quit, quit, log, process, sigints, late>>

CloseLog ==
  /\ At("main", "close_log")
  /\ log' = "closed"
  /\ GoTo("main", "destroy_quit")
  /\ UNCHANGED <<mutex, g_quit, quit, ring, process, sigints, late>>

DestroyQuit ==
  /\ At("main", "destroy_quit")
  /\ mutex' = "destroyed"
  /\ GoTo("main", "return")
  /\ UNCHANGED <<g_quit, quit, ring, log, process, sigints, late>>

Return ==
  /\ At("main", "return")
  /\ process' = "returned"
  /\ UNCHANGED <<pc, mutex, g_quit, quit, ring, log, sigints, late>>

main ==
  \/ Initialise \/ Install \/ Setup \/ Launch \/ Read \/ Loop \/ Join
  \/ Disconnect \/ CloseLog \/ DestroyQuit \/ Return \/ MainFails

-----------------------------------------------------------------------------
(* health_thread_fn *)

OpenSocket ==
  /\ At("health", "socket")
  /\ GoTo("health", "get_lock")
  /\ UNCHANGED <<mutex, g_quit, quit, ring, log, process, sigints, late>>

\* socket, inet_aton or sendto fails: exit(EXIT_FAILURE) ends all threads.
HealthFails ==
  /\ \E label \in {"socket", "send"} : At("health", label)
  /\ process' = "died"
  /\ UNCHANGED <<pc, mutex, g_quit, quit, ring, log, sigints, late>>

\* collect_buffer_stats reads the ring buffer's counters.
Collect ==
  /\ At("health", "collect")
  /\ GoTo("health", "send")
  /\ UNCHANGED <<mutex, g_quit, quit, ring, log, process, sigints, late>>

MaxLate == 3

Send ==
  /\ At("health", "send")
  /\ late' = IF g_quit /\ late < MaxLate THEN late + 1 ELSE late
  /\ GoTo("health", "sleep")
  /\ UNCHANGED <<mutex, g_quit, quit, ring, log, process, sigints>>

\* Variants of the loop's condition: main is past its loop; the ring buffer
\* is gone.
HealthQuitsAfterMain ==
  pc["main"] \in {"join", "disconnect", "close_log", "destroy_quit", "return"}

HealthQuitsAfterRing == ring = "gone"

HealthQuits == quit["health"]

Sleep ==
  /\ At("health", "sleep")
  /\ GoTo("health", IF HealthQuits THEN "finished" ELSE "get_lock")
  /\ UNCHANGED <<mutex, g_quit, quit, ring, log, process, sigints, late>>

health_thread_fn == OpenSocket \/ HealthFails \/ Collect \/ Send \/ Sleep

-----------------------------------------------------------------------------
(* sig_handler *)

\* Variant: the handler is there from the beginning.
InstalledFirst == TRUE

Installed == pc["main"] \notin {"initialise", "install"}

Alive(t) == pc[t] \notin {"unborn", "finished"}

\* The kernel picks any thread; SIGINT is blocked during its own handler.
Deliver(t) ==
  /\ process = "running" /\ Installed
  /\ sigints < MaxSigints
  /\ Alive(t) /\ pc[HandlerOf(t)] = "idle"
  /\ sigints' = sigints + 1
  /\ GoTo(HandlerOf(t), "log")
  /\ UNCHANGED <<mutex, g_quit, quit, ring, log, process, late>>

\* multilog uses memory that multilog_close has freed.
HandlerLogs(f) ==
  /\ At(f, "log")
  /\ GoTo(f, "set_lock")
  /\ process' \in {"running"} \cup IF log = "closed" THEN {"died"} ELSE {}
  /\ UNCHANGED <<mutex, g_quit, quit, ring, log, sigints, late>>

-----------------------------------------------------------------------------

Init ==
  /\ pc = [ f \in Frames |-> IF f = "main" THEN "initialise"
                             ELSE IF f = "health" THEN "unborn" ELSE "idle" ]
  /\ mutex = "free"
  /\ g_quit = FALSE
  /\ quit = [t \in Threads |-> FALSE]
  /\ ring = "none"
  /\ log = "open"
  /\ process = "running"
  /\ sigints = 0
  /\ late = 0

\* Everything f does of itself but taking the mutex.
Step(f) ==
  \/ Store(f)
  \/ f \in Threads /\ Load(f)
  \/ Unlock(f)
  \/ f = "main" /\ main
  \/ f = "health" /\ health_thread_fn
  \/ f \in Handlers /\ HandlerLogs(f)

Ended == process # "running" /\ UNCHANGED vars

Next ==
  \/ \E f \in Frames : Lock(f) \/ Step(f)
  \/ \E t \in Threads : Deliver(t)
  \/ Ended

Spec == Init /\ [][Next]_vars

\* Threads run on; upstream goes on sending, so that dada_client_read returns;
\* a mutex that is free again and again is not kept from a frame for ever,
\* its critical sections being a few instructions long.
Fairness == \A f \in Frames : WF_vars(Step(f)) /\ SF_vars(Lock(f))

FairSpec == Spec /\ Fairness

-----------------------------------------------------------------------------
(* Properties *)

TypeOK ==
  /\ pc \in [Frames -> Labels]
  /\ mutex \in {"free", "destroyed"} \cup Frames
  /\ g_quit \in BOOLEAN
  /\ quit \in [Threads -> BOOLEAN]
  /\ ring \in {"none", "connected", "gone"}
  /\ log \in {"open", "closed"}
  /\ process \in {"running", "returned", "died"}
  /\ sigints \in 0 .. MaxSigints
  /\ late \in 0 .. MaxLate

\* As long as the health thread runs, what it uses is there: main tears down
\* the ring buffer connection, the log and the mutex only after joining it.
HealthProvided ==
  (process = "running" /\ Alive("health")) =>
    ring = "connected" /\ log = "open" /\ mutex # "destroyed"

\* A request to quit is never lost, from whomever it comes: g_quit is not
\* lowered again, not even by main's own initialisation.
QuitNeverLost == [][g_quit => g_quit']_vars

\* The health thread notices the flag within one round: it sends at most the
\* message under way and one more after it.
HealthStopsPromptly == late <= 2

\* The handler waits for a mutex that the thread under it holds.
Stuck == \E t \in Threads : mutex = t /\ At(HandlerOf(t), "set_lock")

\* Once the flag is up the process ends, and a SIGINT inside set_quit or
\* get_quit is the only thing that can keep it from doing so.
QuitEnds == g_quit ~> (process # "running" \/ Stuck)

\* SIGINT ends the process (main.c: "set the g_quit variable so the program
\* quits gracefully").
SigintEnds == (sigints > 0) ~> process # "running"

-----------------------------------------------------------------------------
(* Why the safety properties hold: an inductive invariant *)

Starting == {"initialise", "install", "setup", "launch"}
Stopping == {"disconnect", "close_log", "destroy_quit", "return"}

\* Each frame is in its own program.
Labelled ==
  /\ pc["main"] \in MainLabels
  /\ pc["health"] \in HealthLabels
  /\ \A f \in Handlers : pc[f] \in HandlerLabels

\* Nobody raises the flag before main has set it to 0.
QuietStart ==
  pc["main"] \in {"initialise", "install"} =>
    /\ ~g_quit
    /\ \A f \in Handlers : pc[f] = "idle"

\* The health thread lives between main's start and its teardown.
Enclosed ==
  /\ pc["main"] \in Starting => pc["health"] = "unborn"
  /\ pc["main"] \in Stopping => pc["health"] = "finished"
  /\ pc["main"] \notin (Starting \cup Stopping) \/ pc["main"] = "launch" =>
       ring = "connected"
  /\ pc["main"] \notin {"destroy_quit", "return"} => log = "open"
  /\ pc["main"] # "return" => mutex # "destroyed"

\* What the health thread has sent since the flag was raised, and where in its
\* round it is.
RoundsLeft ==
  /\ late <= 2
  /\ late >= 1 => g_quit
  /\ late >= 1 /\ pc["health"] \in {"get_unlock", "collect", "send"} =>
       quit["health"]
  /\ late >= 2 => quit["health"] /\ pc["health"] \in {"sleep", "finished"}

SafetyInv == TypeOK /\ Labelled /\ QuietStart /\ Enclosed /\ RoundsLeft
=============================================================================
