----------------------------- MODULE Lifecycle -----------------------------
(***************************************************************************)
(* How hfast starts its servers and how a signal stops them: the end of    *)
(* main() (main.go), the three server goroutines it starts, the accept     *)
(* loop of the queue (queue/worker.go), and the goroutine that waits for   *)
(* the signal.  main() returns when the WaitGroup is empty.                *)
(***************************************************************************)
EXTENDS Naturals, FiniteSets

CONSTANTS
  Listeners,   \* what systemd or listener() gave: a subset of {"http", "https"}
  H3Fails,     \* the UDP socket may be refused or fail
  MaxActive,   \* bound of the model: requests in progress per server
  MaxSignals   \* bound of the model: SIGINT and SIGTERM received

ASSUME LifecycleAssumption ==
  /\ Listeners \subseteq {"http", "https"}
  /\ H3Fails \in BOOLEAN
  /\ MaxActive \in Nat /\ MaxSignals \in Nat

Servers == Listeners \cup {"h3"}

VARIABLES
  process,  \* "running", "exited" (main returned), "died" (panic, Fatal), "killed"
  useQueues,\* some domain has a SecretKey
  main,     \* "spawn", "notify", "wait" (in wg.Wait)
  srv,      \* goroutine of each server: "off", "started", "assigned" (the
            \* variable httpServer, ... is set), "serving", "returned" (wg.Done)
  shut,     \* the servers on which Shutdown() or Close() was called
  active,   \* requests in progress of each server
  accept,   \* accept loop of the queue: "off", "accepting", "spinning"
  quit,     \* signals in the channel quit, of capacity 1
  stopper,  \* goroutine of <-quit: "none", "wait", "http", "https", "h3", "queue", "end"
  ctx,      \* its context: "none", "running", "over" (6 seconds)
  signals,  \* history: signals received
  failed    \* history: the HTTP/3 server ended by itself

vars == <<process, useQueues, main, srv, shut, active, accept, quit, stopper, ctx, signals, failed>>

TypeOK ==
  /\ process \in {"running", "exited", "died", "killed"}
  /\ useQueues \in BOOLEAN /\ main \in {"spawn", "notify", "wait"}
  /\ srv \in [Servers -> {"off", "started", "assigned", "serving", "returned"}]
  /\ shut \subseteq Servers /\ active \in [Servers -> 0 .. MaxActive]
  /\ accept \in {"off", "accepting", "spinning"} /\ quit \in {0, 1}
  /\ stopper \in {"none", "wait", "http", "https", "h3", "queue", "end"}
  /\ ctx \in {"none", "running", "over"}
  /\ signals \in 0 .. MaxSignals /\ failed \in BOOLEAN

\* The process runs.
Up == process = "running"

\* The pointer the stopper reads without synchronisation is not nil.
Assigned(s) == s \in Servers /\ srv[s] \notin {"off", "started"}

-----------------------------------------------------------------------------
(* Starting *)

\* main() listens for workers and starts a goroutine per server.
Spawn ==
  /\ Up
  /\ main = "spawn"
  /\ main' = "notify"
  /\ srv' = [s \in Servers |-> "started"]
  /\ accept' = IF useQueues THEN "accepting" ELSE "off"
  /\ UNCHANGED <<process, useQueues, shut, active, quit, stopper, ctx, signals, failed>>

\* signal.Notify and the goroutine that waits for quit; then wg.Wait.
Notify ==
  /\ Up
  /\ main = "notify"
  /\ main' = "wait"
  /\ stopper' = "wait"
  /\ UNCHANGED <<process, useQueues, srv, shut, active, accept, quit, ctx, signals, failed>>

\* httpServer = s, httpsServer = s, http3Server = s
Assign(s) ==
  /\ Up
  /\ srv[s] = "started"
  /\ srv' = [srv EXCEPT ![s] = "assigned"]
  /\ UNCHANGED <<process, useQueues, main, shut, active, accept, quit, stopper, ctx, signals, failed>>

\* Serve(), which returns ErrServerClosed at once after a Shutdown() or Close().
Serve(s) ==
  /\ Up
  /\ srv[s] = "assigned"
  /\ srv' = [srv EXCEPT ![s] = IF s \in shut THEN "returned" ELSE "serving"]
  /\ UNCHANGED <<process, useQueues, main, shut, active, accept, quit, stopper, ctx, signals, failed>>

\* The requests of the process end with it.
Ends(how) ==
  /\ process' = how
  /\ UNCHANGED <<useQueues, main, srv, shut, active, accept, quit, stopper, ctx, signals, failed>>

\* Serve() of an HTTP or HTTPS server fails: logger.Fatal and panic.
ServeDies(s) == Up /\ s # "h3" /\ srv[s] = "serving" /\ s \notin shut /\ Ends("died")

\* ListenAndServe() of HTTP/3 fails: the error is printed, wg.Done.
H3Ends ==
  /\ Up
  /\ H3Fails /\ srv["h3"] = "serving" /\ "h3" \notin shut
  /\ srv' = [srv EXCEPT !["h3"] = "returned"]
  /\ active' = [active EXCEPT !["h3"] = 0]
  /\ failed' = TRUE
  /\ UNCHANGED <<process, useQueues, main, shut, accept, quit, stopper, ctx, signals>>

-----------------------------------------------------------------------------
(* Requests *)

Arrive(s) ==
  /\ Up
  /\ srv[s] = "serving" /\ s \notin shut /\ active[s] < MaxActive
  /\ active' = [active EXCEPT ![s] = @ + 1]
  /\ UNCHANGED <<process, useQueues, main, srv, shut, accept, quit, stopper, ctx, signals, failed>>

\* A handler may also never return: one that waits for a full queue does not.
Finish(s) ==
  /\ Up
  /\ active[s] > 0
  /\ active' = [active EXCEPT ![s] = @ - 1]
  /\ UNCHANGED <<process, useQueues, main, srv, shut, accept, quit, stopper, ctx, signals, failed>>

-----------------------------------------------------------------------------
(* Stopping *)

\* Mutant: quit without the bound of one.
Bug_Signal ==
  /\ Up
  /\ signals < MaxSignals
  /\ signals' = signals + 1
  /\ IF main = "wait" THEN quit' = quit + 1 /\ UNCHANGED process
                      ELSE process' = "killed" /\ UNCHANGED quit
  /\ UNCHANGED <<useQueues, main, srv, shut, active, accept, stopper, ctx, failed>>

\* Before signal.Notify a signal has its default effect.  Afterwards it is put
\* in quit, or dropped when quit is full.
Signal ==
  /\ Up
  /\ signals < MaxSignals
  /\ signals' = signals + 1
  /\ IF main = "wait" THEN quit' = 1 /\ UNCHANGED process
                      ELSE process' = "killed" /\ UNCHANGED quit
  /\ UNCHANGED <<useQueues, main, srv, shut, active, accept, stopper, ctx, failed>>

\* <-quit, received once; the 6 seconds are for all servers together.
TakeSignal ==
  /\ Up
  /\ stopper = "wait" /\ quit = 1
  /\ quit' = 0
  /\ stopper' = "http"
  /\ ctx' = "running"
  /\ UNCHANGED <<process, useQueues, main, srv, shut, active, accept, signals, failed>>

\* Mutant: a context that never ends.
Bug_Timeout == FALSE

\* The 6 seconds of context.WithTimeout are over.
Timeout ==
  /\ Up
  /\ ctx = "running"
  /\ ctx' = "over"
  /\ UNCHANGED <<process, useQueues, main, srv, shut, active, accept, quit, stopper, signals, failed>>

After(s) == IF s = "http" THEN "https" ELSE "h3"

\* if httpServer != nil: a server whose goroutine has not run yet is passed by.
Skip(s) ==
  /\ Up
  /\ stopper = s /\ ~Assigned(s)
  /\ stopper' = After(s)
  /\ UNCHANGED <<process, useQueues, main, srv, shut, active, accept, quit, ctx, signals, failed>>

\* Shutdown(ctx) closes the listener, then polls until no request is active.
Shutdown(s) ==
  /\ Up
  /\ stopper = s /\ Assigned(s) /\ s \notin shut
  /\ shut' = shut \cup {s}
  /\ UNCHANGED <<process, useQueues, main, srv, active, accept, quit, stopper, ctx, signals, failed>>

\* Mutant: Close() where Shutdown() is, which does not wait for the requests.
Bug_ShutdownReturns(s) ==
  /\ Up
  /\ stopper = s /\ s \in shut
  /\ stopper' = After(s)
  /\ UNCHANGED <<process, useQueues, main, srv, shut, active, accept, quit, ctx, signals, failed>>

\* Shutdown() returns once it has seen no request in progress.
ShutdownReturns(s) ==
  /\ Up
  /\ stopper = s /\ s \in shut /\ active[s] = 0
  /\ stopper' = After(s)
  /\ UNCHANGED <<process, useQueues, main, srv, shut, active, accept, quit, ctx, signals, failed>>

\* panic(e) of the context's error.
ShutdownPanics(s) ==
  /\ Up
  /\ stopper = s /\ s \in shut /\ active[s] > 0 /\ ctx = "over"
  /\ Ends("died")

\* http3Server.Close() ends its connections, then queue.Listen.Close() is next.
CloseH3 ==
  /\ Up
  /\ stopper = "h3"
  /\ stopper' = IF useQueues THEN "queue" ELSE "end"
  /\ IF Assigned("h3")
     THEN shut' = shut \cup {"h3"} /\ active' = [active EXCEPT !["h3"] = 0]
     ELSE UNCHANGED <<shut, active>>
  /\ UNCHANGED <<process, useQueues, main, srv, accept, quit, ctx, signals, failed>>

\* The accept loop logs the error of Accept() and continues, for ever.
CloseQueue ==
  /\ Up
  /\ stopper = "queue"
  /\ stopper' = "end"
  /\ accept' = "spinning"
  /\ UNCHANGED <<process, useQueues, main, srv, shut, active, quit, ctx, signals, failed>>

\* Serve() returns as soon as its listener is closed, before Shutdown() does.
ServeReturns(s) ==
  /\ Up
  /\ srv[s] = "serving" /\ s \in shut
  /\ srv' = [srv EXCEPT ![s] = "returned"]
  /\ UNCHANGED <<process, useQueues, main, shut, active, accept, quit, stopper, ctx, signals, failed>>

\* Mutant: no wg.Add(1) for HTTP/3.
Bug_WgZero == accept = "off" /\ \A s \in Listeners : srv[s] = "returned"

\* wg.Wait: one wg.Done per server, and one of the accept loop if there is one.
WgZero == accept = "off" /\ \A s \in Servers : srv[s] = "returned"

Exit == Up /\ main = "wait" /\ WgZero /\ Ends("exited")

-----------------------------------------------------------------------------
(* The specification *)

Init ==
  /\ process = "running" /\ useQueues \in BOOLEAN /\ main = "spawn"
  /\ srv = [s \in Servers |-> "off"] /\ shut = {} /\ active = [s \in Servers |-> 0]
  /\ accept = "off" /\ quit = 0 /\ stopper = "none" /\ ctx = "none"
  /\ signals = 0 /\ failed = FALSE

ServerNext(s) ==
  \/ Assign(s) \/ Serve(s) \/ ServeDies(s) \/ Arrive(s) \/ Finish(s) \/ ServeReturns(s)

StopperNext ==
  \/ TakeSignal \/ CloseH3 \/ CloseQueue
  \/ \E s \in {"http", "https"} : Skip(s) \/ Shutdown(s) \/ ShutdownReturns(s) \/ ShutdownPanics(s)

Next ==
  \/ Spawn \/ Notify \/ H3Ends \/ Signal \/ Timeout \/ Exit
  \/ StopperNext
  \/ \E s \in Servers : ServerNext(s)

\* Goroutines run and time passes.  Nothing is assumed of requests and signals.
Fairness ==
  /\ WF_vars(Spawn \/ Notify \/ Exit) /\ WF_vars(StopperNext)
  /\ WF_vars(Timeout)
  /\ \A s \in Servers : WF_vars(Assign(s) \/ Serve(s) \/ ServeReturns(s))

Spec     == Init /\ [][Next]_vars
FairSpec == Spec /\ Fairness

-----------------------------------------------------------------------------
(* Properties *)

\* main() does not return under a request of the HTTP or the HTTPS server: the
\* WaitGroup gets empty when Serve() returns, which is before Shutdown() does,
\* so this hangs on the HTTP/3 server being closed last.
ExitsDrained == process = "exited" /\ ~failed => \A s \in Listeners : active[s] = 0

\* The stopper has left server s behind.
Past(s) == stopper \in {"h3", "queue", "end"} \/ (s = "http" /\ stopper = "https")

\* The invariant behind ExitsDrained: the stopper waits only after the servers
\* were started, a listener's goroutine returns only after its server was shut
\* down, the stopper shuts down only what it does not pass by and leaves it only
\* drained, and HTTP/3 returns by itself or when the stopper is past all others.
StopInv ==
  /\ TypeOK
  /\ main # "wait" => stopper = "none"
  /\ \A s \in Listeners :
       /\ srv[s] = "returned" => s \in shut
       /\ s \in shut => Assigned(s) /\ (stopper = s \/ Past(s))
       /\ s \in shut /\ Past(s) => active[s] = 0
  /\ srv["h3"] = "returned" => failed \/ "h3" \in shut
  /\ "h3" \in shut => stopper \in {"queue", "end"}
  /\ ExitsDrained

AllAssigned == \A s \in Servers : Assigned(s)

\* Without queues, and when every server goroutine has set its variable before
\* the signal is taken, the process ends, whether requests finish or not.
LateSignalStops == (stopper = "http" /\ AllAssigned /\ ~useQueues) ~> (process # "running")

-----------------------------------------------------------------------------
(* "Graceful shutdown (6 second timeout)", README.md:21, and what the code does *)

\* The same with queues.
QueuesStop == (stopper = "http" /\ AllAssigned /\ useQueues) ~> (process # "running")
=============================================================================
