------------------------------ MODULE DecisionStore ------------------------------
(***************************************************************************)
(* DecisionStore of decision_service.py: the process-wide registry of      *)
(* single-period trade decisions.  Every method runs under one RLock, so   *)
(* every method is one action; an exception it raises leaves the store as  *)
(* it was, so a raising call is an action that is not enabled.             *)
(*                                                                         *)
(* Concurrency enters through the arguments: a request was built from a    *)
(* version of the decision that may be stale by the time the lock is taken *)
(* (the guards g), and the handler reads the clock before it takes the     *)
(* lock (the instant at <= now).                                           *)
(***************************************************************************)
EXTENDS DecisionLifecycle, FiniteSets, SequencesExt

CONSTANTS
  Ids,              \* decision ids (new_decision_id draws a fresh one)
  BatchIds,         \* batch ids (new_batch_id draws a fresh one)
  Orders,           \* recommendations and trader volumes [buy, sell, limit]
  Gates,            \* gate closures of decision contexts, NoGate among them or not
  Figures,          \* realised positions and P&L values
  MaxTime,          \* bound: the clock stops there
  MaxBatch,         \* bound: periods in one batch
  MaxDelayLog       \* bound: a decision is delayed only while its log is shorter

ASSUME StoreAssumption ==
  /\ NoBatch \notin BatchIds
  /\ Orders \subseteq [buy : Nat, sell : Nat, limit : Nat]
  /\ Gates \subseteq Int
  /\ Figures \subseteq Int
  /\ MaxTime \in Nat /\ MaxBatch \in Nat /\ MaxDelayLog \in Nat

VARIABLES
  decisions,   \* _decisions: a function on all ids, NoDecision where there is none
  order,       \* _order: ids in creation order
  batches,     \* _batches: the decision_ids of each batch, <<>> where there is none
  now          \* the wall clock

vars == <<decisions, order, batches, now>>

Init ==
  /\ decisions = [id \in Ids |-> NoDecision]
  /\ order = <<>>
  /\ batches = [b \in BatchIds |-> <<>>]
  /\ now = 0

Exists(id) == decisions[id].status # "ABSENT"

(***************************************************************************)
(* Optimistic concurrency: expected_status ("ANY" when omitted) and        *)
(* expected_sequence (0 when omitted).  A client can only send versions it *)
(* has read, and every version it may have read is a record of the log.    *)
(***************************************************************************)
NoGuard == [status |-> "ANY", seq |-> 0]

RequestGuards(id) ==
  {NoGuard} \cup
  UNION { LET r == decisions[id].log[i]
          IN {[status |-> r.to, seq |-> 0], [status |-> r.to, seq |-> r.seq]}
          : i \in 1..Len(decisions[id].log) }

\* Mutant: expected_sequence is not compared
PreconditionStatusOnly(dec, g) == g.status \in {"ANY", dec.status}

Precondition(dec, g) ==
  /\ g.status \in {"ANY", dec.status}
  /\ g.seq \in {0, CurrentSequence(dec)}

\* transition(): _require, _assert_precondition, apply_transition, _store
Transition(id, g, target, updated) ==
  /\ Exists(id)
  /\ Precondition(decisions[id], g)
  /\ Legal(decisions[id], updated, target)
  /\ decisions' = [decisions EXCEPT ![id] = Advance(updated, target)]
  /\ UNCHANGED <<order, batches, now>>

----------------------------------------------------------------------------
\* Construction

\* create(): one decision outside any batch
Create(id, gate, rec) ==
  /\ ~Exists(id)
  /\ decisions' = [decisions EXCEPT ![id] = Proposed(gate, rec, NoBatch)]
  /\ order' = Append(order, id)
  /\ UNCHANGED <<batches, now>>

\* Mutant: the batch's index misses the last decision
CreateBatchShort(b, ids, gates, recs) ==
  /\ batches[b] = <<>>
  /\ ids # <<>>
  /\ \A i \in DOMAIN ids : ~Exists(ids[i])
  /\ decisions' = [id \in Ids |->
                     IF \E i \in DOMAIN ids : ids[i] = id
                     THEN Proposed(gates[id], recs[id], b)
                     ELSE decisions[id]]
  /\ order' = order \o ids
  /\ batches' = [batches EXCEPT ![b] = Front(ids)]
  /\ UNCHANGED now

\* create_batch(): one decision per context, then the batch's index record
CreateBatch(b, ids, gates, recs) ==
  /\ batches[b] = <<>>
  /\ ids # <<>>
  /\ \A i \in DOMAIN ids : ~Exists(ids[i])
  /\ decisions' = [id \in Ids |->
                     IF \E i \in DOMAIN ids : ids[i] = id
                     THEN Proposed(gates[id], recs[id], b)
                     ELSE decisions[id]]
  /\ order' = order \o ids
  /\ batches' = [batches EXCEPT ![b] = ids]
  /\ UNCHANGED now

----------------------------------------------------------------------------
\* Trader lifecycle

Accept(id, g) ==
  LET rec == decisions[id].rec IN
  Transition(id, g, "ACCEPTED",
    [decisions[id] EXCEPT !.instr = Instruction("ACCEPT", rec.buy, rec.sell, rec.limit, 0)])

Within(x, y) == x - y <= FillTolerance /\ y - x <= FillTolerance

\* _validate_modify: one-sided and different from the recommendation
ValidModification(rec, o) ==
  /\ ~(o.buy > FillTolerance /\ o.sell > FillTolerance)
  /\ ~(/\ Within(o.buy, rec.buy)
       /\ Within(o.sell, rec.sell)
       /\ o.limit \in {NoLimit, rec.limit})

\* Mutant: the trader's volume overwrites the recommendation
ModifyOverwritesModel(id, g, o) ==
  /\ ValidModification(decisions[id].rec, o)
  /\ Transition(id, g, "MODIFIED",
       [decisions[id] EXCEPT !.instr = Instruction("MODIFY", o.buy, o.sell, o.limit, 0),
                             !.rec = o])

Modify(id, g, o) ==
  /\ ValidModification(decisions[id].rec, o)
  /\ Transition(id, g, "MODIFIED",
       [decisions[id] EXCEPT !.instr = Instruction("MODIFY", o.buy, o.sell, o.limit, 0)])

Reject(id, g) ==
  Transition(id, g, "REJECTED",
    [decisions[id] EXCEPT !.instr = Instruction("REJECT", 0, 0, NoLimit, 0)])

\* _validate_delay: later than the request, and both before Gate Closure
ValidDelay(gate, until, at) ==
  /\ until > at
  /\ gate # NoGate => at < gate /\ until < gate

Delay(id, g, until, at) ==
  /\ Len(decisions[id].log) < MaxDelayLog
  /\ ValidDelay(decisions[id].gate, until, at)
  /\ Transition(id, g, "DELAYED",
       [decisions[id] EXCEPT !.instr = Instruction("DELAY", 0, 0, NoLimit, until)])

\* reopen() and, without guards, re_propose()
Reopen(id, g) ==
  Transition(id, g, "PROPOSED", [decisions[id] EXCEPT !.instr = NoInstruction])

----------------------------------------------------------------------------
\* Execution lifecycle

\* Mutant: a net sale keeps its sign
AbsSigned(x) == x

Abs(x) == IF x < 0 THEN -x ELSE x
AtLeastZero(x) == IF x < 0 THEN 0 ELSE x

\* _effective_requested_mwh: the trader's volume if modified, else the model's
EffectiveRequested(dec) ==
  IF dec.instr.action = "MODIFY" /\ dec.instr.buy + dec.instr.sell > 0
  THEN Abs(dec.instr.buy - dec.instr.sell)
  ELSE Abs(dec.rec.buy - dec.rec.sell)

\* what the execution service passes as requested_mwh: the instruction's side
InstructionVolume(dec) ==
  IF dec.instr.buy > FillTolerance THEN dec.instr.buy ELSE dec.instr.sell

Submit(id, g, requested) ==
  Transition(id, g, "SUBMITTED",
    [decisions[id] EXCEPT !.exec = [NoExecution EXCEPT !.status = "SUBMITTED",
                                                       !.requested = requested]])

\* apply_fill(): buy and sell are the volumes executed so far; takes no guards.  unfilled_mwh
\* is omitted or, from the simulator, the same difference.
ApplyFill(id, buy, sell) ==
  LET base     == decisions[id].exec
      unfilled == AtLeastZero(base.requested - (buy + sell))
      target   == IF unfilled <= FillTolerance THEN "FILLED" ELSE "PARTIALLY_FILLED"
  IN /\ base.status # "NONE"
     /\ Transition(id, NoGuard, target,
          [decisions[id] EXCEPT !.exec = [base EXCEPT !.status = target, !.buy = buy,
                                                      !.sell = sell, !.unfilled = unfilled]])

Cancel(id) ==
  /\ decisions[id].exec.status # "NONE"
  /\ Transition(id, NoGuard, "CANCELLED", [decisions[id] EXCEPT !.exec.status = "CANCELLED"])

\* Mutant: the unfilled volume is left as it was
ExpireKeepsUnfilled(id) ==
  /\ decisions[id].exec.status # "NONE"
  /\ Transition(id, NoGuard, "EXPIRED", [decisions[id] EXCEPT !.exec.status = "EXPIRED"])

Expire(id) ==
  LET base == decisions[id].exec IN
  /\ base.status # "NONE"
  /\ Transition(id, NoGuard, "EXPIRED",
       [decisions[id] EXCEPT
          !.exec = [base EXCEPT !.status   = "EXPIRED",
                                !.unfilled = AtLeastZero(base.requested - (base.buy + base.sell))]])

----------------------------------------------------------------------------
\* Delivery, settlement, evaluation

\* Mutant: the guards are dropped
DeliverUnguarded(id, g, position) ==
  Transition(id, NoGuard, "DELIVERED",
    [decisions[id] EXCEPT !.settlement = Delivered(position)])

Deliver(id, g, position) ==
  Transition(id, g, "DELIVERED",
    [decisions[id] EXCEPT !.settlement = Delivered(position)])

\* Mutant: settlement starts a new record
SettleAnew(id, g, pnl) ==
  Transition(id, g, "SETTLED",
    [decisions[id] EXCEPT !.settlement = [NoSettlement EXCEPT !.settled = TRUE, !.pnl = pnl]])

Settle(id, g, pnl) ==
  LET base == decisions[id].settlement IN
  Transition(id, g, "SETTLED",
    [decisions[id] EXCEPT !.settlement = [base EXCEPT !.settled = TRUE, !.pnl = pnl]])

Evaluate(id, g) ==
  Transition(id, g, "EVALUATED", [decisions[id] EXCEPT !.evaluated = TRUE])

\* clear()
Clear ==
  /\ decisions' = [id \in Ids |-> NoDecision]
  /\ order' = <<>>
  /\ batches' = [b \in BatchIds |-> <<>>]
  /\ UNCHANGED now

Tick == now < MaxTime /\ now' = now + 1 /\ UNCHANGED <<decisions, order, batches>>

----------------------------------------------------------------------------
\* Fresh ids in every order a batch of at most MaxBatch contexts can get them
FreshSequences ==
  UNION { {s \in [1..n -> Ids] : IsInjective(s)} : n \in 1..MaxBatch }

Construct ==
  \/ \E id \in Ids, gate \in Gates, rec \in Orders : Create(id, gate, rec)
  \/ \E b \in BatchIds, ids \in FreshSequences :
       \E gates \in [ToSet(ids) -> Gates], recs \in [ToSet(ids) -> Orders] :
         CreateBatch(b, ids, gates, recs)

TraderStep(id) ==
  \E g \in RequestGuards(id) :
    \/ Accept(id, g)
    \/ \E o \in Orders : Modify(id, g, o)
    \/ Reject(id, g)
    \/ \E until \in 1..MaxTime, at \in 0..now : Delay(id, g, until, at)
    \/ Reopen(id, g)

\* a fill is reported on the side of the instruction and never shrinks
Fill(id) ==
  LET dec == decisions[id] IN
  \E executed \in (dec.exec.buy + dec.exec.sell)..dec.exec.requested :
    IF dec.instr.buy > FillTolerance THEN ApplyFill(id, executed, 0)
                                     ELSE ApplyFill(id, 0, executed)

ExecutionStep(id) ==
  \/ \E g \in RequestGuards(id),
        v \in {EffectiveRequested(decisions[id]), InstructionVolume(decisions[id])} :
       Submit(id, g, v)
  \/ Fill(id)
  \/ Cancel(id)
  \/ Expire(id)

OutcomeStep(id) ==
  \E g \in RequestGuards(id) :
    \/ \E position \in Figures : Deliver(id, g, position)
    \/ \E pnl \in Figures : Settle(id, g, pnl)
    \/ Evaluate(id, g)

Next ==
  \/ Construct
  \/ \E id \in Ids : TraderStep(id) \/ ExecutionStep(id) \/ OutcomeStep(id)
  \/ Clear
  \/ Tick

Spec == Init /\ [][Next]_vars

----------------------------------------------------------------------------
(***************************************************************************)
(* Type invariant                                                          *)
(***************************************************************************)
Order == [buy : Nat, sell : Nat, limit : Nat]

Decision ==
  [status : Statuses \cup {"ABSENT"}, gate : Int, rec : Order, batch : BatchIds \cup {NoBatch},
   instr : [action : TraderActions \cup {"NONE"}, buy : Nat, sell : Nat, limit : Nat, until : Nat],
   exec : [status : ExecutionStatuses \cup {"NONE"}, requested : Nat, buy : Nat, sell : Nat,
           unfilled : Nat],
   settlement : [delivered : BOOLEAN, position : Int, settled : BOOLEAN, pnl : Int],
   evaluated : BOOLEAN,
   log : Seq([seq : Nat, from : Statuses \cup {"NONE"}, to : Statuses])]

\* Every stored record, index entry and the clock have the shape the code gives them.
TypeOK ==
  /\ decisions \in [Ids -> Decision]
  /\ order \in Seq(Ids)
  /\ batches \in [BatchIds -> Seq(Ids)]
  /\ now \in Nat

(***************************************************************************)
(* Safety                                                                  *)
(***************************************************************************)
Passed(dec, s) == \E i \in 1..Len(dec.log) : dec.log[i].to = s

\* The transitions of a decision are a path of the state graph that starts with the
\* creation record and ends in the stored status, numbered 1, 2, 3, ... without a gap
\* (the audit log of apply_transition and record_creation never disagrees with status).
LogIsPath(dec) ==
  LET log == dec.log IN
  /\ dec.status = IF log = <<>> THEN "ABSENT" ELSE log[Len(log)].to
  /\ \A i \in 1..Len(log) :
       /\ log[i].seq = i
       /\ IF i = 1 THEN log[1].from = "NONE" /\ log[1].to = "PROPOSED"
          ELSE /\ log[i].from = log[i-1].to
               /\ log[i].to \in AllowedTransitions(log[i].from)

AuditTrail == \A id \in Ids : LogIsPath(decisions[id])

\* A stage record is present exactly when the log shows its stage was passed: an order
\* exists iff the decision was submitted, figures iff it was delivered / settled / evaluated,
\* a trader instruction iff the decision is not waiting for the trader; while the trader's word
\* or the order is the latest stage, the record says what the status says; and no delivered
\* decision has an order that is still open.
RecordsMatchLog(dec) ==
  /\ dec.instr.action # "NONE" <=> dec.status \notin {"ABSENT", "PROPOSED"}
  /\ dec.exec.status # "NONE"  <=> Passed(dec, "SUBMITTED")
  /\ dec.settlement.delivered  <=> Passed(dec, "DELIVERED")
  /\ dec.settlement.settled    <=> Passed(dec, "SETTLED")
  /\ dec.evaluated             <=> Passed(dec, "EVALUATED")
  /\ dec.status \in {"ACCEPTED", "MODIFIED", "REJECTED", "DELAYED"} =>
       dec.instr.action = ExpectedAction(dec.status)
  /\ dec.status \in ExecutionStatuses => dec.exec.status = dec.status
  /\ dec.settlement.delivered => dec.exec.status # "SUBMITTED"

StageRecordsMatchLog == \A id \in Ids : RecordsMatchLog(decisions[id])

\* An order exists only for a decision the trader accepted or modified, and a decision is
\* submitted at most once in its life, whatever was delayed, reopened, filled or cancelled.
TradedOnce(dec) ==
  /\ dec.exec.status # "NONE" => dec.instr.action \in {"ACCEPT", "MODIFY"}
  /\ \A i, j \in 1..Len(dec.log) :
       dec.log[i].to = "SUBMITTED" /\ dec.log[j].to = "SUBMITTED" => i = j

OneApprovedOrder == \A id \in Ids : TradedOnce(decisions[id])

\* Executed and unfilled volume add up to the requested volume after every fill and after
\* expiry, in one step or in several (apply_fill and expire recompute one from the other).
FillConservation ==
  \A id \in Ids : LET e == decisions[id].exec IN
    e.status \in {"PARTIALLY_FILLED", "FILLED", "EXPIRED"} =>
      e.buy + e.sell + e.unfilled = e.requested

\* _order names every decision once; a batch names exactly the decisions that carry its id.
IndexesAgree ==
  /\ IsInjective(order)
  /\ \A id \in Ids : Exists(id) <=> \E i \in 1..Len(order) : order[i] = id
  /\ \A b \in BatchIds, id \in Ids :
       decisions[id].batch = b <=> \E i \in 1..Len(batches[b]) : batches[b][i] = id

(***************************************************************************)
(* Action properties.  clear() is the one way back.                        *)
(***************************************************************************)
Cleared == \A id \in Ids : decisions'[id] = NoDecision

\* No operation rewrites history: the log of every decision only grows, by at most one
\* record, and the context, the recommendation and the batch of a decision never change.
AppendOnly ==
  [][\A id \in Ids : Exists(id) =>
       \/ Cleared
       \/ /\ IsPrefix(decisions[id].log, decisions'[id].log)
          /\ Len(decisions'[id].log) <= Len(decisions[id].log) + 1
          /\ decisions'[id].gate  = decisions[id].gate
          /\ decisions'[id].rec   = decisions[id].rec
          /\ decisions'[id].batch = decisions[id].batch]_vars

\* What was executed is final once the decision left the market, and the delivered position
\* is final once observed: settlement and evaluation only add to the record.
OutcomeFinal ==
  [][\A id \in Ids : LET d == decisions[id]
                         e == decisions'[id] IN
       \/ Cleared
       \/ /\ d.status \notin {"ABSENT", "PROPOSED", "DELAYED", "ACCEPTED", "MODIFIED",
                              "SUBMITTED", "PARTIALLY_FILLED"} => e.exec = d.exec
          /\ d.settlement.delivered => /\ e.settlement.delivered
                                       /\ e.settlement.position = d.settlement.position
          /\ d.settlement.settled => e.settlement = d.settlement]_vars

(***************************************************************************)
(* What the store promises of one decision, told as the life of a ticket.  *)
(***************************************************************************)
PhaseOf(s) ==
  CASE s = "ABSENT"                              -> "none"
    [] s \in {"PROPOSED", "DELAYED"}             -> "open"
    [] s \in {"ACCEPTED", "MODIFIED"}            -> "approved"
    [] s \in {"SUBMITTED", "PARTIALLY_FILLED"}   -> "working"
    [] s \in {"REJECTED", "FILLED", "CANCELLED", "EXPIRED"} -> "closed"
    [] s = "DELIVERED"                           -> "delivered"
    [] s = "SETTLED"                             -> "settled"
    [] OTHER                                     -> "scored"

Ticket == INSTANCE TradeTicket WITH
  phase  <- [id \in Ids |-> PhaseOf(decisions[id].status)],
  booked <- [id \in Ids |-> decisions[id].exec.buy + decisions[id].exec.sell]

\* The store implements TradeTicket: one pass through the market, a booked volume that only
\* grows while the order works and never moves again, no way around delivery and settlement.
TicketSpec == Ticket!Spec
================================================================================
