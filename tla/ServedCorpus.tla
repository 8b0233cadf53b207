----------------------------- MODULE ServedCorpus -----------------------------
(***************************************************************************)
(* What the knowledge corpus promises whoever searches it.  Searches find   *)
(* the content of one active generation, which changes by ingestion and     *)
(* deletion alone.  Another generation is made aside, of the sources that   *)
(* there were when it was begun, and takes the place of the active one in a *)
(* single step, provided that the active one is still the one it was begun  *)
(* against and that it lacks none of its sources.  Generations hold what a  *)
(* source has said by then, and nothing of one that is deleted, ever after. *)
(***************************************************************************)
EXTENDS Naturals

CONSTANTS
  Sources,
  Operations   \* numbers, each also of the generation it makes; 0 is the first there is

VARIABLES
  active,    \* the generation that is searched
  content,   \* content[g][s]: the version of s that g holds, 0 if none
  latest,    \* the version of each source, 0 before there is one
  gone,      \* the sources deleted
  begun,     \* the operations begun
  basis,     \* basis[o]: the generation that was active when o was begun
  list       \* list[o]: the sources that o is to hold

servedVars == <<active, content, latest, gone, begun, basis, list>>

Generations == Operations \cup {0}

ServedInit ==
  /\ active = 0
  /\ latest \in [Sources -> Nat]
  /\ content = [g \in Generations |-> IF g = 0 THEN latest ELSE [s \in Sources |-> 0]]
  /\ gone = {}
  /\ begun = {}
  /\ basis = [o \in Operations |-> 0]
  /\ list = [o \in Operations |-> {}]

There(s) == s \notin gone /\ latest[s] # 0

Edit(s) ==
  /\ s \notin gone
  /\ latest' = [latest EXCEPT ![s] = latest[s] + 1]
  /\ UNCHANGED <<active, content, gone, begun, basis, list>>

(* From every generation at once. *)
Withdraw(s) ==
  /\ content' = [g \in Generations |-> [content[g] EXCEPT ![s] = 0]]
  /\ UNCHANGED <<active, latest, begun, basis>>

Delete(s) ==
  /\ Withdraw(s)
  /\ gone' = gone \cup {s}
  /\ list' = [o \in Operations |-> list[o] \ {s}]

Holds(g, s, v) == content' = [content EXCEPT ![g] = [content[g] EXCEPT ![s] = v]]

Ingest(s, v) ==
  /\ There(s)
  /\ Holds(active, s, v)
  /\ UNCHANGED <<active, latest, gone, begun, basis, list>>

Begin(o) ==
  /\ \A p \in begun : p < o
  /\ begun' = begun \cup {o}
  /\ basis' = [basis EXCEPT ![o] = active]
  /\ list' = [list EXCEPT ![o] = {s \in Sources : There(s)}]
  /\ UNCHANGED <<active, content, latest, gone>>

Stage(o, s, v) ==
  /\ o \in begun
  /\ o # active
  /\ s \in list[o]
  /\ Holds(o, s, v)
  /\ UNCHANGED <<active, latest, gone, begun, basis, list>>

Promote(o) ==
  /\ o \in begun
  /\ basis[o] = active
  /\ \A s \in Sources : content[o][s] # 0 <=> s \in list[o]
  /\ active' = o
  /\ UNCHANGED <<content, latest, gone, begun, basis, list>>

ServedNext ==
  \/ \E s \in Sources :
       \/ Edit(s) \/ Delete(s)
       \/ Withdraw(s) /\ UNCHANGED <<gone, list>>
       \/ \E v \in 1..latest[s] : Ingest(s, v) \/ \E o \in Operations : Stage(o, s, v)
  \/ \E o \in Operations : Begin(o) \/ Promote(o)

ServedSpec == ServedInit /\ [][ServedNext]_servedVars

=============================================================================
