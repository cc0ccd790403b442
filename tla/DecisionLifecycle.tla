--------------------------- MODULE DecisionLifecycle ---------------------------
(***************************************************************************)
(* The decision state machine of decision_state_machine.py: the graph of   *)
(* legal status changes, the stage record each status requires, and the    *)
(* pure function that applies one transition to one decision.  There are   *)
(* no variables here; DecisionStore keeps the decisions.                   *)
(*                                                                         *)
(* Volumes are natural numbers of grid steps of 1e-6 MWh, the step every   *)
(* stored volume is rounded to.  A stage record that is None in the code   *)
(* is a record whose tag is "NONE" (or FALSE), so that all values of one   *)
(* field have the same shape.                                              *)
(***************************************************************************)
EXTENDS Integers, Sequences

CONSTANT NoBatch    \* batch_id is None

Statuses == {"PROPOSED", "ACCEPTED", "MODIFIED", "REJECTED", "DELAYED",
             "SUBMITTED", "PARTIALLY_FILLED", "FILLED", "CANCELLED", "EXPIRED",
             "DELIVERED", "SETTLED", "EVALUATED"}

AllowedTransitions(s) ==
  CASE s = "PROPOSED"               -> {"ACCEPTED", "MODIFIED", "REJECTED", "DELAYED"}
    [] s = "DELAYED"                -> {"PROPOSED", "REJECTED"}
    [] s \in {"ACCEPTED", "MODIFIED"} -> {"SUBMITTED", "REJECTED"}
    [] s = "SUBMITTED"              -> {"PARTIALLY_FILLED", "FILLED", "CANCELLED", "EXPIRED"}
    [] s = "PARTIALLY_FILLED"       -> {"FILLED", "DELIVERED", "CANCELLED", "EXPIRED"}
    [] s \in {"FILLED", "REJECTED", "CANCELLED", "EXPIRED"} -> {"DELIVERED"}
    [] s = "DELIVERED"              -> {"SETTLED"}
    [] s = "SETTLED"                -> {"EVALUATED"}
    [] OTHER                        -> {}

\* _FILL_TOLERANCE_MWH = 1e-6 MWh: one grid step
FillTolerance == 1

NoLimit == 0    \* limit_price is None; a limit price is a token in Nat
NoGate  == -1   \* gate_closure_at is None; an instant is a natural number

(***************************************************************************)
(* Stage records.  instr: TraderInstruction, exec: ExecutionResult,        *)
(* settlement: SettlementResult (delivered / settled say whether           *)
(* realised_generation_mwh / realised_pnl_gbp are set), evaluated: whether *)
(* there is an EvaluationResult.                                           *)
(***************************************************************************)
TraderActions     == {"ACCEPT", "MODIFY", "REJECT", "DELAY"}
ExecutionStatuses == {"SUBMITTED", "PARTIALLY_FILLED", "FILLED", "CANCELLED", "EXPIRED"}

NoInstruction == [action |-> "NONE", buy |-> 0, sell |-> 0, limit |-> NoLimit, until |-> 0]
NoExecution   == [status |-> "NONE", requested |-> 0, buy |-> 0, sell |-> 0, unfilled |-> 0]
NoSettlement  == [delivered |-> FALSE, position |-> 0, settled |-> FALSE, pnl |-> 0]

\* deliver() starts a new SettlementResult
Delivered(position) ==
  [delivered |-> TRUE, position |-> position, settled |-> FALSE, pnl |-> 0]

Instruction(action, buy, sell, limit, until) ==
  [action |-> action, buy |-> buy, sell |-> sell, limit |-> limit, until |-> until]

(***************************************************************************)
(* _validate_stage_payload: the record that the new status requires.       *)
(***************************************************************************)
ExpectedAction(s) == CASE s = "ACCEPTED" -> "ACCEPT"
                       [] s = "MODIFIED" -> "MODIFY"
                       [] s = "REJECTED" -> "REJECT"
                       [] s = "DELAYED"  -> "DELAY"
                       [] OTHER          -> "NONE"

StagePayloadOK(new, previous) ==
  LET s == new.status IN
  /\ s \in {"ACCEPTED", "MODIFIED", "REJECTED", "DELAYED"} =>
       new.instr.action = ExpectedAction(s)
  /\ s = "PROPOSED" /\ previous.status = "DELAYED" => new.instr.action = "NONE"
  /\ s = "SUBMITTED" => /\ new.instr.action \in {"ACCEPT", "MODIFY"}
                        /\ new.exec.status = "SUBMITTED"
  /\ s \in {"PARTIALLY_FILLED", "FILLED", "CANCELLED", "EXPIRED"} => new.exec.status = s
  /\ s = "FILLED"           => new.exec.unfilled <= FillTolerance
  /\ s = "PARTIALLY_FILLED" => new.exec.unfilled > FillTolerance
  /\ s = "DELIVERED" => new.settlement.delivered
  /\ s = "SETTLED"   => new.settlement.settled
  /\ s = "EVALUATED" => new.evaluated

(***************************************************************************)
(* The audit log.  sequence of the newest record, 0 for an empty log.      *)
(***************************************************************************)
CurrentSequence(dec) == IF dec.log = <<>> THEN 0 ELSE dec.log[Len(dec.log)].seq

\* Mutant: the record is built after the status was set
AdvanceFromNew(dec, target) ==
  [dec EXCEPT !.status = target,
              !.log    = Append(dec.log, [seq  |-> CurrentSequence(dec) + 1,
                                          from |-> target,
                                          to   |-> target])]

\* apply_transition, its checks aside: the new status and the appended record
Advance(dec, target) ==
  [dec EXCEPT !.status = target,
              !.log    = Append(dec.log, [seq  |-> CurrentSequence(dec) + 1,
                                          from |-> dec.status,
                                          to   |-> target])]

\* Mutant: an order that expired may be submitted again
LegalResubmit(dec, updated, target) ==
  /\ target \in AllowedTransitions(dec.status) \/ (dec.status = "EXPIRED" /\ target = "SUBMITTED")
  /\ StagePayloadOK(Advance(updated, target), dec)

\* Mutant: repeating the last transition is taken for an idempotent retry
LegalRepeat(dec, updated, target) ==
  /\ target \in AllowedTransitions(dec.status) \cup {dec.status}
  /\ StagePayloadOK(Advance(updated, target), dec)

\* Mutant: an accepted decision may still be modified
LegalReapprove(dec, updated, target) ==
  /\ target \in AllowedTransitions(dec.status) \/ (dec.status = "ACCEPTED" /\ target = "MODIFIED")
  /\ StagePayloadOK(Advance(updated, target), dec)

\* apply_transition accepts `updated` (dec with the caller's stage records)
Legal(dec, updated, target) ==
  /\ target \in AllowedTransitions(dec.status)
  /\ StagePayloadOK(Advance(updated, target), dec)

\* an identifier that names no decision
NoDecision ==
  [status |-> "ABSENT", gate |-> NoGate, rec |-> [buy |-> 0, sell |-> 0, limit |-> NoLimit],
   batch |-> NoBatch, instr |-> NoInstruction, exec |-> NoExecution,
   settlement |-> NoSettlement, evaluated |-> FALSE, log |-> <<>>]

\* TradeDecision(...) followed by record_creation
Proposed(gate, rec, batch) ==
  [NoDecision EXCEPT !.status = "PROPOSED", !.gate = gate, !.rec = rec, !.batch = batch,
                     !.log = <<[seq |-> 1, from |-> "NONE", to |-> "PROPOSED"]>>]
================================================================================
