-------------------------- MODULE BrainOrchestrator --------------------------
(***************************************************************************)
(* BrainOrchestrator without its database: which decision is taken for a    *)
(* candidate's message and what the decision means for the lead.  A text is *)
(* the set of marker lists of the source it hits, whether it reads as a     *)
(* question or objection, and the facts it can be parsed as; a decision of  *)
(* the model is any value of the BrainDecision schema.                      *)
(***************************************************************************)
EXTENDS Naturals, Sequences

CONSTANTS
  RequiredFacts,   \* REQUIRED_FACTS, in the order they are asked for
  MinInbound       \* brain_min_inbound_before_handoff

ASSUME OrchestratorConstantsOK ==
  /\ RequiredFacts \in Seq(STRING)
  /\ MinInbound \in Nat

FunnelStates ==
  {"NEW_LEAD", "WAITING_FIRST_REPLY", "INFO_SENT", "WAITING_AFTER_INFO",
   "INTEREST_CLASSIFICATION", "QUALIFICATION_STARTED", "QUALIFICATION_IN_PROGRESS",
   "OBJECTION_HANDLING", "QUALIFIED", "READY_FOR_HUMAN", "HUMAN_HANDOFF",
   "CONVERTED", "LOST", "DO_NOT_CONTACT"}

TerminalStates == {"CONVERTED", "LOST", "DO_NOT_CONTACT", "HUMAN_HANDOFF"}
HandedOverStates == {"READY_FOR_HUMAN", "HUMAN_HANDOFF"}
Actions == {"send_reply", "send_fixed_info", "ask_question", "stop", "handoff", "wait"}
Facts == {RequiredFacts[i] : i \in DOMAIN RequiredFacts}

\* asks: the required fact the reply asks for, "other" for any other reply
\* and "none" for no reply text.
Decision == [after : FunnelStates \cup {"unknown state"}, action : Actions,
             asks : Facts \cup {"other", "none"}, facts : SUBSET Facts]

Text == [hits : SUBSET {"do_not_contact", "negative", "positive"},
         objects : BOOLEAN, fits : SUBSET Facts]

NormalizeState(after) ==
  IF after \in FunnelStates THEN after ELSE "QUALIFICATION_IN_PROGRESS"

Decide(after, action) == [after |-> after, action |-> action, asks |-> "none", facts |-> {}]

\* The rules of the interest gate, in their order; {} when none applies.
ClassifyInterestByRules(text) ==
  IF "do_not_contact" \in text.hits THEN {Decide("DO_NOT_CONTACT", "stop")}
  ELSE IF "negative" \in text.hits THEN {Decide("LOST", "stop")}
  ELSE IF "positive" \in text.hits THEN {Decide("INFO_SENT", "send_fixed_info")}
  ELSE {}

\* Faulty variant: only the action is looked at, not the state it leads to.
EnforceMinInbound_ActionOnly(decision, inbound) ==
  IF inbound >= MinInbound \/ decision.action # "handoff" THEN decision
  ELSE [decision EXCEPT !.after = "QUALIFICATION_IN_PROGRESS", !.action = "ask_question",
                        !.asks = "other"]

\* A hand-over that comes too early becomes one more question.
EnforceMinInbound(decision, inbound) ==
  IF \/ inbound >= MinInbound
     \/ decision.action # "handoff" /\ decision.after \notin HandedOverStates \cup {"QUALIFIED"}
  THEN decision
  ELSE [decision EXCEPT !.after = "QUALIFICATION_IN_PROGRESS", !.action = "ask_question",
                        !.asks = "other"]

Remaining(known) == SelectSeq(RequiredFacts, LAMBDA fact : fact \notin known)

\* What a text gives for the fact our last message asked for; a photo needs no parsing.
Extracted(text, asked) ==
  {asked} \cap (IF asked = "photo_status" THEN Facts ELSE text.fits)

\* A plain answer to a qualification question is handled without the model;
\* {} when the model has to decide.
LocalTurn(text, asked, known) ==
  LET found == Extracted(text, asked)
      left  == Remaining(known \cup found)
  IN IF text.objects \/ found = {} THEN {}
     ELSE IF left = <<>>
          THEN {[Decide("READY_FOR_HUMAN", "handoff") EXCEPT !.facts = found]}
          ELSE {[after |-> "QUALIFICATION_IN_PROGRESS", action |-> "ask_question",
                 asks |-> Head(left), facts |-> found]}

\* The decisions a turn can end with; llm is what the model may answer.
TurnDecisions(text, asked, known, inbound, llm) ==
  LET local == LocalTurn(text, asked, known)
  IN {EnforceMinInbound(d, inbound) : d \in IF local = {} THEN llm ELSE local}

GateDecisions(text, inbound, llm) ==
  LET ruled == ClassifyInterestByRules(text)
  IN IF ruled = {} THEN {EnforceMinInbound(d, inbound) : d \in llm} ELSE ruled

\* The reply a step result carries.
HasReply(decision) ==
  decision.action \in {"send_reply", "ask_question"} /\ decision.asks # "none"

GateContinues(decision) ==
  decision.after \notin TerminalStates /\ decision.action \in {"send_fixed_info", "wait"}

TurnEnds(decision) ==
  decision.after \in TerminalStates \/ decision.action \in {"stop", "handoff"}

OpensHandoff(decision) ==
  decision.action = "handoff" \/ NormalizeState(decision.after) \in HandedOverStates
=============================================================================
