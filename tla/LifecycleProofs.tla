-------------------------- MODULE LifecycleProofs --------------------------
(* main() does not return under a request while HTTP/3 has not failed, for *)
(* every set of listeners and any number of requests and signals.          *)
EXTENDS Lifecycle, TLAPS

USE LifecycleAssumption DEF Servers

\* No server has been started.
LEMMA StopInit == Init => StopInv
<1> SUFFICES ASSUME Init PROVE StopInv
  OBVIOUS
<1>1. srv \in [Servers -> {"off", "started", "assigned", "serving", "returned"}]
  BY DEF Init
<1>2. active \in [Servers -> 0 .. MaxActive]
  BY DEF Init
<1>3. TypeOK
  <2>1. shut \subseteq Servers BY DEF Init
  <2>2. signals \in 0 .. MaxSignals BY DEF Init
  <2>3. useQueues \in BOOLEAN /\ failed \in BOOLEAN BY DEF Init
  <2> HIDE DEF Servers
  <2> QED BY <1>1, <1>2, <2>1, <2>2, <2>3 DEF Init, TypeOK
<1>4. \A s \in Servers : srv[s] = "off" BY DEF Init
<1> QED BY <1>3, <1>4 DEF Init, StopInv, Past, ExitsDrained, Assigned

\* Goroutines of the servers, and their requests.
LEMMA ServerStep ==
  ASSUME StopInv, NEW s \in Servers, ServerNext(s)
  PROVE  StopInv'
<1> USE DEF StopInv, TypeOK, Past, ExitsDrained, Up, Assigned
<1>1. CASE Assign(s) BY <1>1 DEF Assign
<1>2. CASE Serve(s) BY <1>2 DEF Serve
<1>3. CASE ServeDies(s) BY <1>3 DEF ServeDies, Ends
<1>4. CASE Arrive(s) BY <1>4 DEF Arrive
<1>5. CASE Finish(s) BY <1>5 DEF Finish
<1>6. CASE ServeReturns(s) BY <1>6 DEF ServeReturns
<1> QED BY <1>1, <1>2, <1>3, <1>4, <1>5, <1>6 DEF ServerNext

\* The goroutine that shuts the servers down.
LEMMA StopperStep ==
  ASSUME StopInv, StopperNext
  PROVE  StopInv'
<1> USE DEF StopInv, TypeOK, Past, ExitsDrained, Up, Assigned
<1>1. CASE TakeSignal BY <1>1 DEF TakeSignal
<1>2. CASE CloseH3
  <2>1. active' \in [Servers -> 0 .. MaxActive] BY <1>2 DEF CloseH3
  <2>2. TypeOK'
    <3>1. shut' = shut \cup {"h3"} \/ shut' = shut BY <1>2 DEF CloseH3
    <3>2. shut \subseteq Servers /\ "h3" \in Servers OBVIOUS
    <3>3. shut' \subseteq Servers
      <4>1. SUFFICES ASSUME NEW x \in shut' PROVE x \in Servers OBVIOUS
      <4>2. x \in shut \/ x = "h3" BY <3>1
      <4> QED BY <4>2, <3>2
    <3> HIDE DEF Servers
    <3> QED BY <1>2, <2>1, <3>3 DEF CloseH3
  <2>3. \A s \in Listeners : active'[s] = active[s] BY <1>2 DEF CloseH3
  <2>4. \A s \in Listeners : s \in shut' <=> s \in shut BY <1>2 DEF CloseH3
  <2>5. "h3" \in shut' => stopper' \in {"queue", "end"} BY <1>2 DEF CloseH3
  <2> QED BY <1>2, <2>2, <2>3, <2>4, <2>5 DEF CloseH3
<1>3. CASE CloseQueue BY <1>3 DEF CloseQueue
<1>4. ASSUME NEW s \in {"http", "https"}, Skip(s) PROVE StopInv'
  <2>1. CASE s = "http" BY <1>4, <2>1 DEF Skip, After
  <2>2. CASE s = "https" BY <1>4, <2>2 DEF Skip, After
  <2> QED BY <1>4, <2>1, <2>2
<1>5. ASSUME NEW s \in {"http", "https"}, Shutdown(s) PROVE StopInv'
  BY <1>5 DEF Shutdown
<1>6. ASSUME NEW s \in {"http", "https"}, ShutdownReturns(s) PROVE StopInv'
  BY <1>6 DEF ShutdownReturns, After
<1>7. ASSUME NEW s \in {"http", "https"}, ShutdownPanics(s) PROVE StopInv'
  BY <1>7 DEF ShutdownPanics, Ends
<1> QED BY <1>1, <1>2, <1>3, <1>4, <1>5, <1>6, <1>7 DEF StopperNext

\* Every step keeps the invariant.
LEMMA StopStep == StopInv /\ [Next]_vars => StopInv'
<1> SUFFICES ASSUME StopInv, [Next]_vars PROVE StopInv'
  OBVIOUS
<1> USE DEF Up
<1>1. CASE UNCHANGED vars BY <1>1 DEF vars, StopInv, TypeOK, Past, ExitsDrained, Assigned
<1>2. CASE Spawn BY <1>2 DEF Spawn, StopInv, TypeOK, Past, ExitsDrained, Assigned
<1>3. CASE Notify BY <1>3 DEF Notify, StopInv, TypeOK, Past, ExitsDrained, Assigned
<1>4. CASE H3Ends
  <2>1. srv' \in [Servers -> {"off", "started", "assigned", "serving", "returned"}]
    BY <1>4 DEF H3Ends, StopInv, TypeOK
  <2>2. active' \in [Servers -> 0 .. MaxActive]
    BY <1>4 DEF H3Ends, StopInv, TypeOK
  <2>3. \A s \in Listeners : srv'[s] = srv[s] /\ active'[s] = active[s]
    BY <1>4 DEF H3Ends, StopInv, TypeOK
  <2> QED BY <1>4, <2>1, <2>2, <2>3 DEF H3Ends, StopInv, TypeOK, Past, ExitsDrained, Assigned
<1>5. CASE Signal BY <1>5 DEF Signal, StopInv, TypeOK, Past, ExitsDrained, Assigned
<1>6. CASE Timeout BY <1>6 DEF Timeout, StopInv, TypeOK, Past, ExitsDrained, Assigned
<1>7. CASE Exit
  BY <1>7 DEF Exit, Ends, WgZero, StopInv, TypeOK, Past, ExitsDrained, Assigned
<1>8. CASE StopperNext BY <1>8, StopperStep
<1>9. CASE \E s \in Servers : ServerNext(s) BY <1>9, ServerStep
<1> QED BY <1>1, <1>2, <1>3, <1>4, <1>5, <1>6, <1>7, <1>8, <1>9 DEF Next

\* The order of start and stop that StopInv describes holds always.
THEOREM AlwaysStopInv == Spec => []StopInv
<1> QED BY StopInit, StopStep, PTL DEF Spec

\* The state of the servers, of the stopper and of quit has its types: quit
\* never holds more than its capacity.
THEOREM LifecycleTypes == Spec => []TypeOK
<1>1. StopInv => TypeOK BY DEF StopInv
<1> QED BY <1>1, AlwaysStopInv, PTL

\* main() returns under no request of HTTP or HTTPS while HTTP/3 has not failed.
THEOREM AlwaysExitsDrained == Spec => []ExitsDrained
<1>1. StopInv => ExitsDrained BY DEF StopInv
<1> QED BY <1>1, AlwaysStopInv, PTL
=============================================================================
