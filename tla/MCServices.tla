----------------------------- MODULE MCServices -----------------------------
(***************************************************************************)
(* An instance, for TLC, of four components that share no state with one    *)
(* another: the submission of an utterance, the knowledge corpus, the web   *)
(* player and the way it comes to its session.  Every behaviour is of one   *)
(* of them, chosen at its start; the others stay as they were.              *)
(***************************************************************************)
EXTENDS MCVoiceTurn, KnowledgeCorpus, Player, Discovery

VARIABLE service

webVars == <<playerVars, discoveryVars>>

servicesVars == <<vars, knowledgeVars, webVars, service>>

ServicesInit ==
  /\ service \in {"voice", "knowledge", "player", "discovery"}
  /\ Init
  /\ KnowledgeInit
  /\ PlayerInit
  /\ DiscoveryInit
  /\ service # "discovery" => choice.scenario = 0

Of(s, others) == service = s /\ UNCHANGED <<others, service>>

ServicesNext ==
  \/ Of("voice", <<knowledgeVars, webVars>>) /\ Next
  \/ Of("knowledge", <<vars, webVars>>) /\ KnowledgeNext
  \/ Of("player", <<vars, knowledgeVars, discoveryVars>>) /\ PlayerNext
  \/ Of("discovery", <<vars, knowledgeVars, playerVars>>) /\ DiscoveryNext

KnowledgeFairness ==
  \A g \in Operations :
    WF_servicesVars(Of("knowledge", <<vars, webVars>>) /\ WorkerStep(g))

PlayerFairness ==
  WF_servicesVars(Of("player", <<vars, knowledgeVars, discoveryVars>>)
                    /\ (AnswerStep \/ DeviceStep \/ PlaybackStep))

ServicesSpec ==
  ServicesInit /\ [][ServicesNext]_servicesVars /\ KnowledgeFairness /\ PlayerFairness

(* The state of both parts of the web player is of the declared kind, and   *)
(* no cue is queued twice.                                                  *)
WebTypeOK == PlayerTypeOK /\ DiscoveryTypeOK

=============================================================================
