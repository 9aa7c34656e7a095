----------------------------- MODULE JobHandout -----------------------------
(***************************************************************************)
(* What the job queue of hfast promises while no commit fails, without the *)
(* database, the locks and the connections: the ids of a channel are       *)
(* numbered in the order they are published, handed out in that order and  *)
(* each of them once.  A job that nobody answers stays with the connection *)
(* that received it.  When the process ends, every job that was not        *)
(* answered is stranded on disk; at most one, the last of its channel, is  *)
(* forgotten, because its transaction was still open.                      *)
(***************************************************************************)
EXTENDS Integers

CONSTANTS
  Channels,
  MaxId      \* bound of the model: ids per channel, a natural number

VARIABLE status

Ids    == 1 .. MaxId
Known  == {"queued", "held", "done", "stranded"}

TypeOK == status \in [Channels -> [Ids -> Known \cup {"free"}]]

With(c, s) == {i \in Ids : status[c][i] = s}

Init == status = [c \in Channels |-> [i \in Ids |-> "free"]]

Move(c, i, to) == status' = [status EXCEPT ![c][i] = to]

\* The next number, one more than those in use, is published.
Publish(c) ==
  \E i \in With(c, "free") :
    /\ \A j \in 1 .. i - 1 : status[c][j] # "free"
    /\ Move(c, i, "queued")

\* The oldest queued job goes to a worker.
Take(c) ==
  \E i \in With(c, "queued") :
    /\ \A j \in With(c, "queued") : i <= j
    /\ Move(c, i, "held")

Finish(c) == \E i \in With(c, "held") : Move(c, i, "done")

\* The last id of a channel, the only one an open transaction can have taken.
IsLast(c, i) == status[c][i] # "free" /\ \A j \in i + 1 .. MaxId : status[c][j] = "free"

Crash ==
  \E lost \in SUBSET {ci \in Channels \X Ids : IsLast(ci[1], ci[2])} :
    /\ \A x, y \in lost : x = y
    /\ status' = [c \in Channels |-> [i \in Ids |->
         IF <<c, i>> \in lost THEN "free"
         ELSE IF status[c][i] \in {"queued", "held"} THEN "stranded"
         ELSE status[c][i]]]

Next == Crash \/ \E c \in Channels : Publish(c) \/ Take(c) \/ Finish(c)

Spec == Init /\ [][Next]_status
=============================================================================
