---------------------------- MODULE ExchangeLedger ----------------------------
(***************************************************************************)
(* What a session's runtime promises a client that waits for each answer.   *)
(* Exchanges are recorded one at a time and numbered in that order; a plan  *)
(* is made after each of them, and after each opening of a conversation,    *)
(* and says which exchange it follows.  The plan on offer gives way only to *)
(* one that follows the same or a later exchange; an exchange is answered   *)
(* with one plan at most, made after the exchange before it, and no other   *)
(* exchange is ever answered with that plan.                                *)
(* The requests name their plans: [by |-> who asked, after |-> the number   *)
(* of the exchange it follows].                                             *)
(***************************************************************************)
EXTENDS Naturals

CONSTANTS
  Exchanges,
  Openings,
  FirstNumbers,  \* the numbers the first exchange may be given
  None

VARIABLES
  begun,     \* the exchanges recorded and the openings that asked for a plan
  count,     \* how many exchanges were recorded
  making,    \* the plans being made
  held,      \* the published plans that somebody may still write back
  offer,     \* the plan on offer, alone in a set; empty before the first
  answered   \* answered[e]: who asked for the plan that e is answered with

ledgerVars == <<begun, count, making, held, offer, answered>>

LedgerInit ==
  /\ begun = {}
  /\ count = 0
  /\ making = {}
  /\ held = {}
  /\ offer = {}
  /\ answered = [e \in Exchanges |-> None]

Later(p) == IF \E q \in offer : q.after > p.after THEN offer ELSE {p}

NumbersIt(n) == n = count + 1 \/ (count = 0 /\ n \in FirstNumbers)

(* Whoever records an exchange may write back a plan that it holds.         *)
Record(e) ==
  /\ e \notin begun
  /\ begun' = begun \cup {e}
  /\ count' = count + 1
  /\ \E p \in making' : p.by = e /\ NumbersIt(p.after) /\ making' = making \cup {p}
  /\ held' \subseteq held
  /\ offer' = offer \/ \E p \in held : offer' = Later(p)
  /\ UNCHANGED answered

Open(o) ==
  /\ o \notin begun
  /\ begun' = begun \cup {o}
  /\ making' = making \cup {[by |-> o, after |-> 0]}
  /\ UNCHANGED <<count, held, offer, answered>>

Publish(p) ==
  /\ making' = making \ {p}
  /\ held' \subseteq held \cup {p}
  /\ offer' = Later(p)
  /\ UNCHANGED <<begun, count, answered>>

(* Nobody is told of a plan that could not be made. *)
Abandon(p) ==
  /\ making' = making \ {p}
  /\ UNCHANGED <<begun, count, held, offer, answered>>

Answer(e, p) ==
  /\ e \notin begun
  /\ answered[e] = None
  /\ p.after = count
  /\ \A f \in Exchanges : answered[f] # p.by
  /\ answered' = [answered EXCEPT ![e] = p.by]
  /\ held' \subseteq held
  /\ offer' = Later(p)
  /\ UNCHANGED <<begun, count, making>>

Forget ==
  /\ held' \subseteq held
  /\ UNCHANGED <<begun, count, making, offer, answered>>

LedgerNext ==
  \/ \E e \in Exchanges : Record(e) \/ \E p \in held : Answer(e, p)
  \/ \E o \in Openings : Open(o)
  \/ \E p \in making : Publish(p) \/ Abandon(p)
  \/ Forget

LedgerSpec == LedgerInit /\ [][LedgerNext]_ledgerVars

=============================================================================
