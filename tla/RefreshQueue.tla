---------------------------- MODULE RefreshQueue ----------------------------
(***************************************************************************)
(* What the memory service promises of the refreshes of a conversation      *)
(* ("async and serialized per conversation", MEMORY_SYSTEM_SPEC): they run  *)
(* one at a time, in the order in which they were asked for.  Requests are  *)
(* numbered in that order.                                                  *)
(***************************************************************************)
EXTENDS Naturals

CONSTANTS
  Queues,      \* one queue per conversation
  Requests     \* the numbers of the requests

VARIABLES
  waiting,     \* waiting[q]: the requests of q that have not started
  running      \* running[q]: those that have started and not ended

queueVars == <<waiting, running>>

QueueInit ==
  /\ waiting = [q \in Queues |-> {}]
  /\ running = [q \in Queues |-> {}]

Ask(q, n) ==
  /\ waiting' = [waiting EXCEPT ![q] = @ \cup {n}]
  /\ \A p \in Queues : \A m \in waiting[p] \cup running[p] : m < n
  /\ UNCHANGED running

Start(q, n) ==
  /\ running[q] = {}
  /\ \A m \in waiting[q] : n <= m
  /\ waiting' = [waiting EXCEPT ![q] = @ \ {n}]
  /\ running' = [running EXCEPT ![q] = {n}]

End(q, n) ==
  /\ running' = [running EXCEPT ![q] = {}]
  /\ UNCHANGED waiting

(* A request that has nothing to do when its turn comes. *)
Skip(q, n) ==
  /\ running[q] = {}
  /\ \A m \in waiting[q] : n <= m
  /\ waiting' = [waiting EXCEPT ![q] = @ \ {n}]
  /\ UNCHANGED running

(* The queues are in memory: the server's restart empties them. *)
Lose == QueueInit'

QueueNext ==
  \/ \E q \in Queues :
       \/ \E n \in waiting[q] : Start(q, n) \/ Skip(q, n)
       \/ \E n \in running[q] : End(q, n)
       \/ \E n \in Requests : Ask(q, n)
  \/ Lose

QueueSpec == QueueInit /\ [][QueueNext]_queueVars

=============================================================================
