--------------------------- MODULE Services_proofs ---------------------------
(***************************************************************************)
(* The instance of the four components that share no state: what is proved  *)
(* of each by itself holds of every behaviour of the instance, whatever its *)
(* constants.                                                               *)
(***************************************************************************)
EXTENDS MCServices, Web_proofs

-----------------------------------------------------------------------------
(* A step of one component leaves the three others as they are.             *)
LEMMA OneServiceMoves ==
  ASSUME [ServicesNext]_servicesVars
  PROVE  /\ [Next]_vars
         /\ [KnowledgeNext]_knowledgeVars
         /\ [PlayerNext]_playerVars
         /\ [DiscoveryNext]_discoveryVars
<1>1. CASE Of("voice", <<knowledgeVars, webVars>>) /\ Next
  BY <1>1 DEF Of, webVars
<1>2. CASE Of("knowledge", <<vars, webVars>>) /\ KnowledgeNext
  BY <1>2 DEF Of, webVars
<1>3. CASE Of("player", <<vars, knowledgeVars, discoveryVars>>) /\ PlayerNext
  BY <1>3 DEF Of
<1>4. CASE Of("discovery", <<vars, knowledgeVars, playerVars>>) /\ DiscoveryNext
  BY <1>4 DEF Of
<1>5. CASE UNCHANGED servicesVars
  BY <1>5 DEF servicesVars, webVars
<1>6. QED
  BY <1>1, <1>2, <1>3, <1>4, <1>5 DEF ServicesNext

(* The submission of an utterance, the knowledge corpus, the web player and *)
(* its discovery behave beside one another as each does alone.              *)
THEOREM ServicesFollowTheirSpecs ==
  ServicesSpec => Spec /\ KnowledgeSpec /\ PlayerSpec /\ DiscoverySpec
<1>1. ServicesInit => Init /\ KnowledgeInit /\ PlayerInit /\ DiscoveryInit
  BY DEF ServicesInit
<1>2. [ServicesNext]_servicesVars =>
        /\ [Next]_vars
        /\ [KnowledgeNext]_knowledgeVars
        /\ [PlayerNext]_playerVars
        /\ [DiscoveryNext]_discoveryVars
  BY OneServiceMoves
<1>3. QED
  BY <1>1, <1>2, PTL DEF ServicesSpec, Spec, KnowledgeSpec, PlayerSpec, DiscoverySpec

(* Both parts of the web player always hold data of the declared kinds, and *)
(* no cue is queued twice: what chat, microphone, cues and discovery keep,  *)
(* and the answers on their way to them.                                    *)
THEOREM WebTypeCorrect == ServicesSpec => []WebTypeOK
<1>1. PlayerTypeOK /\ DiscoveryTypeOK => WebTypeOK
  BY DEF WebTypeOK
<1>2. QED
  BY <1>1, ServicesFollowTheirSpecs, PlayerTypeCorrect, DiscoveryTypeCorrect, PTL

=============================================================================
