------------------------- MODULE MCCampaignSequence -------------------------
(* A small instance of CampaignSequence: two required facts, the seeded
   campaigns, and the decisions that differ. *)
EXTENDS CampaignSequence

TwoFacts == <<"age", "photo_status">>

SeededCampaigns == {DefaultCampaign, BrainCampaign, SoulChatCampaign}

\* A refusal, a consent, and plain answers or objections without a marker.
SomeTexts ==
  {[hits |-> {"do_not_contact"}, objects |-> FALSE, fits |-> {}],
   [hits |-> {"negative", "positive"}, objects |-> TRUE, fits |-> {}],
   [hits |-> {"positive"}, objects |-> FALSE, fits |-> {"age"}],
   [hits |-> {}, objects |-> FALSE, fits |-> {}]}

SomeDecisions ==
  {d \in Decision :
     /\ d.after \in {"QUALIFIED", "READY_FOR_HUMAN", "DO_NOT_CONTACT", "unknown state"}
     /\ d.asks \in {"age", "other", "none"}
     /\ d.facts \in {{}, {"age"}}}
=============================================================================
