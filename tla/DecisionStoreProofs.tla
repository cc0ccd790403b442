--------------------------- MODULE DecisionStoreProofs ---------------------------
(***************************************************************************)
(* Theorems of DecisionStore, for every set of ids, orders, gates, figures *)
(* and every bound.                                                        *)
(*                                                                         *)
(* Every operation changes one decision, or creates some, or clears all.   *)
(* StageUpdate says what the caller of apply_transition may have changed   *)
(* before the new status is set; DecisionStep is what one step of the      *)
(* store means to one decision.  NextIsDecisionStep reduces Next to it,    *)
(* once, and every invariant is then proved decision by decision.          *)
(***************************************************************************)
EXTENDS DecisionStore, TLAPS

TraderTargets == {"PROPOSED", "ACCEPTED", "MODIFIED", "REJECTED", "DELAYED"}

\* what an execution operation does to the volumes of the order
VolumeChange(e, x, t) ==
  /\ t = "SUBMITTED" => x.buy = 0 /\ x.sell = 0
  /\ t \in {"PARTIALLY_FILLED", "FILLED"} =>
       /\ x.requested = e.requested
       /\ x.buy + x.sell \in (e.buy + e.sell)..e.requested
       /\ x.unfilled = e.requested - (x.buy + x.sell)
  /\ t \in {"CANCELLED", "EXPIRED"} =>
       x.requested = e.requested /\ x.buy = e.buy /\ x.sell = e.sell
  /\ t = "EXPIRED" => x.unfilled = AtLeastZero(e.requested - (e.buy + e.sell))

StageUpdate(d, u, t) ==
  /\ u \in Decision
  /\ u.status = d.status /\ u.log = d.log
  /\ u.gate = d.gate /\ u.rec = d.rec /\ u.batch = d.batch
  /\ t \notin TraderTargets => u.instr = d.instr
  /\ t = "PROPOSED" => u.instr.action = "NONE"
  /\ IF t \in ExecutionStatuses THEN VolumeChange(d.exec, u.exec, t) ELSE u.exec = d.exec
  /\ t \notin {"DELIVERED", "SETTLED"} => u.settlement = d.settlement
  /\ t = "DELIVERED" => ~u.settlement.settled
  /\ t = "SETTLED" => /\ u.settlement.delivered = d.settlement.delivered
                      /\ u.settlement.position = d.settlement.position
  /\ t # "EVALUATED" => u.evaluated = d.evaluated

DecisionStep(d, e) ==
  \/ e = d
  \/ /\ d.status = "ABSENT"
     /\ \E gate \in Int, rec \in Orders, b \in BatchIds \cup {NoBatch} :
          e = Proposed(gate, rec, b)
  \/ /\ d.status # "ABSENT"
     /\ \E t \in Statuses, u \in Decision :
          /\ StageUpdate(d, u, t)
          /\ Legal(d, u, t)
          /\ e = Advance(u, t)

----------------------------------------------------------------------------
\* The two decisions that are built from nothing have the type of a decision.
LEMMA NoDecisionType == NoDecision \in Decision
<1> DEFINE Rec == [seq : Nat, from : Statuses \cup {"NONE"}, to : Statuses]
<1>1. <<>> \in Seq(Rec)
  OBVIOUS
<1>2. /\ NoInstruction \in [action : TraderActions \cup {"NONE"}, buy : Nat, sell : Nat,
                            limit : Nat, until : Nat]
      /\ NoExecution \in [status : ExecutionStatuses \cup {"NONE"}, requested : Nat, buy : Nat,
                          sell : Nat, unfilled : Nat]
      /\ NoSettlement \in [delivered : BOOLEAN, position : Int, settled : BOOLEAN, pnl : Int]
  BY DEF NoInstruction, NoExecution, NoSettlement, NoLimit
<1>3. [buy |-> 0, sell |-> 0, limit |-> NoLimit] \in Order
  BY DEF Order, NoLimit
<1> HIDE DEF Rec
<1>4. QED
  BY <1>1, <1>2, <1>3 DEF NoDecision, Decision, NoGate, Rec

\* So has a decision that is proposed.
LEMMA ProposedType ==
  ASSUME NEW gate \in Int, NEW rec \in Orders, NEW b \in BatchIds \cup {NoBatch}
  PROVE  Proposed(gate, rec, b) \in Decision
<1> DEFINE Rec == [seq : Nat, from : Statuses \cup {"NONE"}, to : Statuses]
           log == <<[seq |-> 1, from |-> "NONE", to |-> "PROPOSED"]>>
<1>1. rec \in Order
  BY StoreAssumption DEF Order
<1>2. log \in Seq(Rec)
  BY DEF Statuses
<1>3. "PROPOSED" \in Statuses
  BY DEF Statuses
<1>4. Proposed(gate, rec, b) = [NoDecision EXCEPT !.status = "PROPOSED", !.gate = gate,
                                  !.rec = rec, !.batch = b, !.log = log]
  BY DEF Proposed
<1> HIDE DEF log
<1>5. QED
  BY <1>1, <1>2, <1>3, <1>4, NoDecisionType DEF Decision

\* The last element of a sequence that is not empty.
LEMMA LastElement ==
  ASSUME NEW S, NEW s \in Seq(S), s # <<>>
  PROVE  Len(s) \in 1..Len(s) /\ s[Len(s)] \in S
OBVIOUS

\* Every record of a log names a status it leads to.
LEMMA LogRecordType ==
  ASSUME NEW d \in Decision, NEW i \in 1..Len(d.log)
  PROVE  d.log[i].to \in Statuses
<1> DEFINE Rec == [seq : Nat, from : Statuses \cup {"NONE"}, to : Statuses]
<1>1. d.log \in Seq(Rec)
  BY DEF Decision
<1> HIDE DEF Rec
<1>2. d.log[i] \in Rec
  BY <1>1
<1>3. QED
  BY <1>2 DEF Rec

\* Advancing a decision yields a decision.
LEMMA AdvanceType ==
  ASSUME NEW u \in Decision, NEW t \in Statuses, u.status \in Statuses
  PROVE  Advance(u, t) \in Decision
<1> DEFINE Rec == [seq : Nat, from : Statuses \cup {"NONE"}, to : Statuses]
<1>1. u.log \in Seq(Rec)
  BY DEF Decision
<1>2. CurrentSequence(u) \in Nat
  <2>1. CASE u.log = <<>>
    BY <2>1 DEF CurrentSequence
  <2>2. CASE u.log # <<>>
    <3>1. u.log[Len(u.log)] \in Rec
      BY <1>1, <2>2, LastElement
    <3>2. QED
      BY <2>2, <3>1 DEF CurrentSequence
  <2>3. QED
    BY <2>1, <2>2
<1>3. [seq |-> CurrentSequence(u) + 1, from |-> u.status, to |-> t] \in Rec
  BY <1>2
<1>4. Append(u.log, [seq |-> CurrentSequence(u) + 1, from |-> u.status, to |-> t]) \in Seq(Rec)
  BY <1>1, <1>3
<1>5. QED
  BY <1>4 DEF Advance, Decision

----------------------------------------------------------------------------
\* One decision makes a legal move and the others stay as they are.
OneDecisionMoves(id) ==
  /\ Exists(id)
  /\ \E t \in Statuses, u \in Decision :
       /\ StageUpdate(decisions[id], u, t)
       /\ Legal(decisions[id], u, t)
       /\ decisions' = [decisions EXCEPT ![id] = Advance(u, t)]

\* A transition through the store is such a move.
LEMMA TransitionMoves ==
  ASSUME TypeOK, NEW id \in Ids, NEW g, NEW t \in Statuses, NEW u,
         StageUpdate(decisions[id], u, t), Transition(id, g, t, u)
  PROVE  OneDecisionMoves(id)
<1>1. u \in Decision
  BY DEF StageUpdate
<1>2. QED
  BY <1>1 DEF Transition, OneDecisionMoves

\* Such a move is a step of every decision, of all but one a stutter.
LEMMA MoveIsDecisionStep ==
  ASSUME TypeOK, NEW id \in Ids, OneDecisionMoves(id)
  PROVE  \A i \in Ids : DecisionStep(decisions[i], decisions'[i])
<1>1. PICK t \in Statuses, u \in Decision :
        /\ StageUpdate(decisions[id], u, t)
        /\ Legal(decisions[id], u, t)
        /\ decisions' = [decisions EXCEPT ![id] = Advance(u, t)]
  BY DEF OneDecisionMoves
<1>2. DecisionStep(decisions[id], Advance(u, t))
  BY <1>1 DEF DecisionStep, OneDecisionMoves, Exists
<1>3. ASSUME NEW i \in Ids PROVE DecisionStep(decisions[i], decisions'[i])
  <2>1. CASE i = id
    BY <1>1, <1>2, <2>1 DEF TypeOK
  <2>2. CASE i # id
    BY <1>1, <2>2 DEF TypeOK, DecisionStep
  <2>3. QED
    BY <2>1, <2>2
<1>4. QED
  BY <1>3

\* A trader's instruction, an order, a settlement record of the right type replaces only
\* its own field.
LEMMA InstructionUpdate ==
  ASSUME NEW d \in Decision, NEW t \in TraderTargets,
         NEW i \in [action : TraderActions \cup {"NONE"}, buy : Nat, sell : Nat, limit : Nat,
                    until : Nat],
         t = "PROPOSED" => i.action = "NONE"
  PROVE  StageUpdate(d, [d EXCEPT !.instr = i], t)
BY DEF StageUpdate, Decision, TraderTargets, ExecutionStatuses

\* An order of the right type replaces only its own field.
LEMMA ExecutionUpdate ==
  ASSUME NEW d \in Decision, NEW t \in ExecutionStatuses,
         NEW x \in [status : ExecutionStatuses \cup {"NONE"}, requested : Nat, buy : Nat,
                    sell : Nat, unfilled : Nat],
         VolumeChange(d.exec, x, t)
  PROVE  StageUpdate(d, [d EXCEPT !.exec = x], t)
BY DEF StageUpdate, Decision, TraderTargets, ExecutionStatuses

\* Whatever the trader says, one decision moves.
LEMMA TraderStepMoves ==
  ASSUME TypeOK, NEW id \in Ids, TraderStep(id)
  PROVE  OneDecisionMoves(id)
<1> DEFINE d == decisions[id]
           Instr == [action : TraderActions \cup {"NONE"}, buy : Nat, sell : Nat, limit : Nat,
                     until : Nat]
<1>1. d \in Decision /\ d.rec \in Order
  BY DEF TypeOK, Decision
<1>2. PICK g : \/ Accept(id, g)
               \/ \E o \in Orders : Modify(id, g, o)
               \/ Reject(id, g)
               \/ \E until \in 1..MaxTime, at \in 0..now : Delay(id, g, until, at)
               \/ Reopen(id, g)
  BY DEF TraderStep
<1>3. CASE Accept(id, g)
  <2> DEFINE i == Instruction("ACCEPT", d.rec.buy, d.rec.sell, d.rec.limit, 0)
  <2>1. i \in Instr
    BY <1>1 DEF Instruction, Order, TraderActions
  <2>2. StageUpdate(d, [d EXCEPT !.instr = i], "ACCEPTED")
    BY <1>1, <2>1, InstructionUpdate DEF TraderTargets
  <2>3. Transition(id, g, "ACCEPTED", [d EXCEPT !.instr = i])
    BY <1>3 DEF Accept
  <2>4. QED
    BY <2>2, <2>3, TransitionMoves DEF Statuses
<1>4. ASSUME NEW o \in Orders, Modify(id, g, o)
      PROVE  OneDecisionMoves(id)
  <2> DEFINE i == Instruction("MODIFY", o.buy, o.sell, o.limit, 0)
  <2>1. i \in Instr
    BY StoreAssumption DEF Instruction, TraderActions
  <2>2. StageUpdate(d, [d EXCEPT !.instr = i], "MODIFIED")
    BY <1>1, <2>1, InstructionUpdate DEF TraderTargets
  <2>3. Transition(id, g, "MODIFIED", [d EXCEPT !.instr = i])
    BY <1>4 DEF Modify
  <2>4. QED
    BY <2>2, <2>3, TransitionMoves DEF Statuses
<1>5. CASE Reject(id, g)
  <2> DEFINE i == Instruction("REJECT", 0, 0, NoLimit, 0)
  <2>1. i \in Instr
    BY DEF Instruction, TraderActions, NoLimit
  <2>2. StageUpdate(d, [d EXCEPT !.instr = i], "REJECTED")
    BY <1>1, <2>1, InstructionUpdate DEF TraderTargets
  <2>3. Transition(id, g, "REJECTED", [d EXCEPT !.instr = i])
    BY <1>5 DEF Reject
  <2>4. QED
    BY <2>2, <2>3, TransitionMoves DEF Statuses
<1>6. ASSUME NEW until \in 1..MaxTime, NEW at \in 0..now, Delay(id, g, until, at)
      PROVE  OneDecisionMoves(id)
  <2> DEFINE i == Instruction("DELAY", 0, 0, NoLimit, until)
  <2>1. i \in Instr
    BY StoreAssumption DEF Instruction, TraderActions, NoLimit
  <2>2. StageUpdate(d, [d EXCEPT !.instr = i], "DELAYED")
    BY <1>1, <2>1, InstructionUpdate DEF TraderTargets
  <2>3. Transition(id, g, "DELAYED", [d EXCEPT !.instr = i])
    BY <1>6 DEF Delay
  <2>4. QED
    BY <2>2, <2>3, TransitionMoves DEF Statuses
<1>7. CASE Reopen(id, g)
  <2>1. NoInstruction \in Instr /\ NoInstruction.action = "NONE"
    BY DEF NoInstruction, TraderActions, NoLimit
  <2>2. StageUpdate(d, [d EXCEPT !.instr = NoInstruction], "PROPOSED")
    BY <1>1, <2>1, InstructionUpdate DEF TraderTargets
  <2>3. Transition(id, g, "PROPOSED", [d EXCEPT !.instr = NoInstruction])
    BY <1>7 DEF Reopen
  <2>4. QED
    BY <2>2, <2>3, TransitionMoves DEF Statuses
<1>8. QED
  BY <1>2, <1>3, <1>4, <1>5, <1>6, <1>7

\* The two ways apply_fill can be reached report a total between what was executed before
\* and what was requested.
LEMMA ApplyFillMoves ==
  ASSUME TypeOK, NEW id \in Ids, NEW buy \in Nat, NEW sell \in Nat, ApplyFill(id, buy, sell),
         buy + sell \in (decisions[id].exec.buy + decisions[id].exec.sell)
                        ..decisions[id].exec.requested
  PROVE  OneDecisionMoves(id)
<1> DEFINE d        == decisions[id]
           base     == d.exec
           unfilled == AtLeastZero(base.requested - (buy + sell))
           t        == IF unfilled <= FillTolerance THEN "FILLED" ELSE "PARTIALLY_FILLED"
           x        == [base EXCEPT !.status = t, !.buy = buy, !.sell = sell,
                                    !.unfilled = unfilled]
<1>1. d \in Decision
  BY DEF TypeOK
<1>2. base \in [status : ExecutionStatuses \cup {"NONE"}, requested : Nat, buy : Nat,
                sell : Nat, unfilled : Nat]
  BY <1>1 DEF Decision
<1>3. unfilled = base.requested - (buy + sell) /\ unfilled \in Nat
  BY <1>2 DEF AtLeastZero
<1>4. t \in {"FILLED", "PARTIALLY_FILLED"}
  OBVIOUS
<1> HIDE DEF unfilled, t
<1>5. x \in [status : ExecutionStatuses \cup {"NONE"}, requested : Nat, buy : Nat,
             sell : Nat, unfilled : Nat]
  BY <1>2, <1>3, <1>4 DEF ExecutionStatuses
<1>6. VolumeChange(base, x, t)
  BY <1>2, <1>3, <1>4 DEF VolumeChange
<1>7. StageUpdate(d, [d EXCEPT !.exec = x], t)
  BY <1>1, <1>4, <1>5, <1>6, ExecutionUpdate DEF ExecutionStatuses
<1>8. Transition(id, NoGuard, t, [d EXCEPT !.exec = x])
  BY DEF ApplyFill, t, unfilled
<1>9. QED
  BY <1>4, <1>7, <1>8, TransitionMoves DEF Statuses

\* A submission starts a new order, an expiry keeps what was executed.
LEMMA SubmitMoves ==
  ASSUME TypeOK, NEW id \in Ids, NEW g, NEW v \in Nat, Submit(id, g, v)
  PROVE  OneDecisionMoves(id)
<1> DEFINE d == decisions[id]
           x == [NoExecution EXCEPT !.status = "SUBMITTED", !.requested = v]
<1>1. d \in Decision
  BY DEF TypeOK
<1>2. /\ x \in [status : ExecutionStatuses \cup {"NONE"}, requested : Nat, buy : Nat, sell : Nat,
                unfilled : Nat]
      /\ VolumeChange(d.exec, x, "SUBMITTED")
  BY DEF NoExecution, ExecutionStatuses, VolumeChange
<1>3. StageUpdate(d, [d EXCEPT !.exec = x], "SUBMITTED")
  BY <1>1, <1>2, ExecutionUpdate DEF ExecutionStatuses
<1>4. Transition(id, g, "SUBMITTED", [d EXCEPT !.exec = x])
  BY DEF Submit
<1>5. QED
  BY <1>3, <1>4, TransitionMoves DEF Statuses

\* An expiry keeps what was executed.
LEMMA ExpireMoves ==
  ASSUME TypeOK, NEW id \in Ids, Expire(id)
  PROVE  OneDecisionMoves(id)
<1> DEFINE d    == decisions[id]
           left == AtLeastZero(d.exec.requested - (d.exec.buy + d.exec.sell))
           x    == [d.exec EXCEPT !.status = "EXPIRED", !.unfilled = left]
<1>1. /\ d \in Decision
      /\ d.exec \in [status : ExecutionStatuses \cup {"NONE"}, requested : Nat, buy : Nat,
                     sell : Nat, unfilled : Nat]
  BY DEF TypeOK, Decision
<1>2. left \in Nat
  BY <1>1 DEF AtLeastZero
<1>3. VolumeChange(d.exec, x, "EXPIRED")
  BY <1>1 DEF VolumeChange
<1>4. x \in [status : ExecutionStatuses \cup {"NONE"}, requested : Nat, buy : Nat, sell : Nat,
             unfilled : Nat]
  BY <1>1, <1>2 DEF ExecutionStatuses
<1>5. StageUpdate(d, [d EXCEPT !.exec = x], "EXPIRED")
  BY <1>1, <1>3, <1>4, ExecutionUpdate DEF ExecutionStatuses
<1>6. Transition(id, NoGuard, "EXPIRED", [d EXCEPT !.exec = x])
  BY DEF Expire
<1>7. QED
  BY <1>5, <1>6, TransitionMoves DEF Statuses

\* Whatever is reported of an order, one decision moves.
LEMMA ExecutionStepMoves ==
  ASSUME TypeOK, NEW id \in Ids, ExecutionStep(id)
  PROVE  OneDecisionMoves(id)
<1> DEFINE d    == decisions[id]
           Exec == [status : ExecutionStatuses \cup {"NONE"}, requested : Nat, buy : Nat,
                    sell : Nat, unfilled : Nat]
<1>1. d \in Decision /\ d.rec \in Order
  BY DEF TypeOK, Decision
<1>2. /\ d.exec \in Exec
      /\ d.instr \in [action : TraderActions \cup {"NONE"}, buy : Nat, sell : Nat, limit : Nat,
                      until : Nat]
  BY <1>1 DEF Decision
<1>3. ASSUME NEW g, NEW v \in {EffectiveRequested(d), InstructionVolume(d)}, Submit(id, g, v)
      PROVE  OneDecisionMoves(id)
  <2>1. v \in Nat
    BY <1>1, <1>2 DEF EffectiveRequested, InstructionVolume, Abs, Order
  <2>2. QED
    BY <1>3, <2>1, SubmitMoves
<1>4. CASE Fill(id)
  <2>1. PICK executed \in (d.exec.buy + d.exec.sell)..d.exec.requested :
          ApplyFill(id, executed, 0) \/ ApplyFill(id, 0, executed)
    BY <1>4 DEF Fill
  <2>2. executed \in Nat /\ executed + 0 = executed /\ 0 + executed = executed
    BY <1>2
  <2>3. QED
    BY <2>1, <2>2, ApplyFillMoves
<1>5. CASE Cancel(id)
  <2> DEFINE x == [d.exec EXCEPT !.status = "CANCELLED"]
  <2>1. x \in Exec /\ VolumeChange(d.exec, x, "CANCELLED")
    BY <1>2 DEF ExecutionStatuses, VolumeChange
  <2>2. StageUpdate(d, [d EXCEPT !.exec = x], "CANCELLED")
    BY <1>1, <2>1, ExecutionUpdate DEF ExecutionStatuses
  <2>3. Transition(id, NoGuard, "CANCELLED", [d EXCEPT !.exec = x])
    BY <1>5 DEF Cancel
  <2>4. QED
    BY <2>2, <2>3, TransitionMoves DEF Statuses
<1>6. QED
  BY <1>3, <1>4, <1>5, ExpireMoves DEF ExecutionStep

\* A settlement record of the right type replaces only its own field.
LEMMA SettlementUpdate ==
  ASSUME NEW d \in Decision, NEW t \in {"DELIVERED", "SETTLED"},
         NEW x \in [delivered : BOOLEAN, position : Int, settled : BOOLEAN, pnl : Int],
         t = "DELIVERED" => ~x.settled,
         t = "SETTLED" => /\ x.delivered = d.settlement.delivered
                          /\ x.position = d.settlement.position
  PROVE  StageUpdate(d, [d EXCEPT !.settlement = x], t)
BY DEF StageUpdate, Decision, TraderTargets, ExecutionStatuses

\* What is realised may be any figure.
LEMMA DeliverMoves ==
  ASSUME TypeOK, NEW id \in Ids, NEW g, NEW position \in Int, Deliver(id, g, position)
  PROVE  OneDecisionMoves(id)
<1> DEFINE d == decisions[id]
           x == Delivered(position)
<1>1. d \in Decision
  BY DEF TypeOK
<1>2. /\ x \in [delivered : BOOLEAN, position : Int, settled : BOOLEAN, pnl : Int]
      /\ ~x.settled
  BY DEF Delivered
<1>3. StageUpdate(d, [d EXCEPT !.settlement = x], "DELIVERED")
  BY <1>1, <1>2, SettlementUpdate
<1>4. Transition(id, g, "DELIVERED", [d EXCEPT !.settlement = x])
  BY DEF Deliver
<1>5. QED
  BY <1>3, <1>4, TransitionMoves DEF Statuses

\* A settlement keeps the delivered position, whatever the P&L.
LEMMA SettleMoves ==
  ASSUME TypeOK, NEW id \in Ids, NEW g, NEW pnl \in Int, Settle(id, g, pnl)
  PROVE  OneDecisionMoves(id)
<1> DEFINE d == decisions[id]
           x == [d.settlement EXCEPT !.settled = TRUE, !.pnl = pnl]
<1>1. /\ d \in Decision
      /\ d.settlement \in [delivered : BOOLEAN, position : Int, settled : BOOLEAN, pnl : Int]
  BY DEF TypeOK, Decision
<1>2. /\ x \in [delivered : BOOLEAN, position : Int, settled : BOOLEAN, pnl : Int]
      /\ x.delivered = d.settlement.delivered
      /\ x.position = d.settlement.position
  BY <1>1
<1>3. StageUpdate(d, [d EXCEPT !.settlement = x], "SETTLED")
  BY <1>1, <1>2, SettlementUpdate
<1>4. Transition(id, g, "SETTLED", [d EXCEPT !.settlement = x])
  BY DEF Settle
<1>5. QED
  BY <1>3, <1>4, TransitionMoves DEF Statuses

\* An evaluation touches no other record.
LEMMA EvaluateMoves ==
  ASSUME TypeOK, NEW id \in Ids, NEW g, Evaluate(id, g)
  PROVE  OneDecisionMoves(id)
<1> DEFINE d == decisions[id]
<1>1. d \in Decision
  BY DEF TypeOK
<1>2. StageUpdate(d, [d EXCEPT !.evaluated = TRUE], "EVALUATED")
  BY <1>1 DEF StageUpdate, Decision, TraderTargets, ExecutionStatuses
<1>3. Transition(id, g, "EVALUATED", [d EXCEPT !.evaluated = TRUE])
  BY DEF Evaluate
<1>4. QED
  BY <1>2, <1>3, TransitionMoves DEF Statuses

\* Whatever is delivered, settled or evaluated, one decision moves.
LEMMA OutcomeStepMoves ==
  ASSUME TypeOK, NEW id \in Ids, OutcomeStep(id)
  PROVE  OneDecisionMoves(id)
<1>1. Figures \subseteq Int
  BY StoreAssumption
<1>2. QED
  BY <1>1, DeliverMoves, SettleMoves, EvaluateMoves DEF OutcomeStep

\* A sequence that FreshSequences offers is a sequence of ids.
LEMMA FreshSequenceType ==
  ASSUME NEW ids \in FreshSequences
  PROVE  ids \in Seq(Ids) /\ IsInjective(ids)
BY StoreAssumption DEF FreshSequences

\* The decisions of a batch, or the one created, come into being; the others stay.
LEMMA ConstructIsDecisionStep ==
  ASSUME TypeOK, Construct
  PROVE  \A i \in Ids : DecisionStep(decisions[i], decisions'[i])
<1>1. ASSUME NEW id \in Ids, NEW gate \in Gates, NEW rec \in Orders, Create(id, gate, rec)
      PROVE  \A i \in Ids : DecisionStep(decisions[i], decisions'[i])
  <2>1. decisions' = [decisions EXCEPT ![id] = Proposed(gate, rec, NoBatch)]
    BY <1>1 DEF Create
  <2>2. decisions[id].status = "ABSENT"
    BY <1>1 DEF Create, Exists
  <2>3. gate \in Int
    BY StoreAssumption
  <2>4. QED
    BY <2>1, <2>2, <2>3 DEF DecisionStep, TypeOK
<1>2. ASSUME NEW b \in BatchIds, NEW ids \in FreshSequences,
             NEW gates \in [ToSet(ids) -> Gates], NEW recs \in [ToSet(ids) -> Orders],
             CreateBatch(b, ids, gates, recs)
      PROVE  \A i \in Ids : DecisionStep(decisions[i], decisions'[i])
  <2>1. ASSUME NEW id \in Ids PROVE DecisionStep(decisions[id], decisions'[id])
    <3>1. CASE \E i \in DOMAIN ids : ids[i] = id
      <4>1. PICK i \in DOMAIN ids : ids[i] = id
        BY <3>1
      <4>2. id \in ToSet(ids)
        BY <4>1 DEF ToSet
      <4>3. gates[id] \in Int /\ recs[id] \in Orders
        BY <4>2, StoreAssumption
      <4>4. decisions[id].status = "ABSENT"
        BY <1>2, <4>1 DEF CreateBatch, Exists
      <4>5. decisions'[id] = Proposed(gates[id], recs[id], b)
        BY <1>2, <3>1 DEF CreateBatch
      <4>6. QED
        BY <4>3, <4>4, <4>5 DEF DecisionStep
    <3>2. CASE ~ \E i \in DOMAIN ids : ids[i] = id
      BY <1>2, <3>2 DEF CreateBatch, DecisionStep
    <3>3. QED
      BY <3>1, <3>2
  <2>2. QED
    BY <2>1
<1>3. QED
  BY <1>1, <1>2 DEF Construct

\* Every step of the store, and every stuttering step, is a step of each decision, or
\* clears them all.
LEMMA NextIsDecisionStep ==
  ASSUME TypeOK, [Next]_vars
  PROVE  Cleared \/ \A i \in Ids : DecisionStep(decisions[i], decisions'[i])
<1>1. CASE Construct
  BY <1>1, ConstructIsDecisionStep
<1>2. ASSUME NEW id \in Ids, TraderStep(id) \/ ExecutionStep(id) \/ OutcomeStep(id)
      PROVE  \A i \in Ids : DecisionStep(decisions[i], decisions'[i])
  BY <1>2, TraderStepMoves, ExecutionStepMoves, OutcomeStepMoves, MoveIsDecisionStep
<1>3. CASE Clear
  BY <1>3 DEF Clear, Cleared
<1>4. CASE Tick \/ UNCHANGED vars
  BY <1>4 DEF Tick, vars, DecisionStep
<1>5. QED
  BY <1>1, <1>2, <1>3, <1>4 DEF Next

----------------------------------------------------------------------------
\* One step of a decision keeps its type.
LEMMA DecisionStepType ==
  ASSUME NEW d \in Decision, NEW e, DecisionStep(d, e)
  PROVE  e \in Decision
<1>1. ASSUME d.status # "ABSENT", NEW t \in Statuses, NEW u \in Decision, StageUpdate(d, u, t)
      PROVE  Advance(u, t) \in Decision
  <2>1. u.status \in Statuses
    BY <1>1 DEF StageUpdate, Decision
  <2>2. QED
    BY <2>1, AdvanceType
<1>2. QED
  BY <1>1, ProposedType DEF DecisionStep

\* The index, the batches and the clock stay well-typed.
LEMMA IndexType ==
  ASSUME TypeOK, [Next]_vars
  PROVE  order' \in Seq(Ids) /\ batches' \in [BatchIds -> Seq(Ids)] /\ now' \in Nat
<1>1. CASE UNCHANGED <<order, batches, now>>
  BY <1>1 DEF TypeOK
<1>2. ASSUME NEW id \in Ids, NEW gate, NEW rec, Create(id, gate, rec)
      PROVE  order' \in Seq(Ids) /\ batches' \in [BatchIds -> Seq(Ids)] /\ now' \in Nat
  BY <1>2 DEF Create, TypeOK
<1>3. ASSUME NEW b \in BatchIds, NEW ids \in FreshSequences, NEW gates, NEW recs,
             CreateBatch(b, ids, gates, recs)
      PROVE  order' \in Seq(Ids) /\ batches' \in [BatchIds -> Seq(Ids)] /\ now' \in Nat
  BY <1>3, FreshSequenceType DEF CreateBatch, TypeOK
<1>4. ASSUME NEW id \in Ids, TraderStep(id) \/ ExecutionStep(id) \/ OutcomeStep(id)
      PROVE  UNCHANGED <<order, batches, now>>
  BY <1>4 DEF TraderStep, ExecutionStep, OutcomeStep, Fill, Accept, Modify, Reject, Delay, Reopen,
              Submit, ApplyFill, Cancel, Expire, Deliver, Settle, Evaluate, Transition
<1>5. CASE Clear
  BY <1>5 DEF Clear, TypeOK
<1>6. CASE Tick
  BY <1>6 DEF Tick, TypeOK
<1>7. CASE UNCHANGED vars
  BY <1>7 DEF vars, TypeOK
<1>8. QED
  BY <1>1, <1>2, <1>3, <1>4, <1>5, <1>6, <1>7 DEF Next, Construct

\* The registry stays a function on the ids.
LEMMA RegistryFunction ==
  ASSUME TypeOK, [Next]_vars
  PROVE  decisions' = [i \in Ids |-> decisions'[i]]
<1>1. decisions = [i \in Ids |-> decisions[i]]
  BY DEF TypeOK
<1>2. ASSUME NEW id, NEW x, decisions' = [decisions EXCEPT ![id] = x]
      PROVE  decisions' = [i \in Ids |-> decisions'[i]]
  BY <1>1, <1>2
<1>3. ASSUME NEW id \in Ids, TraderStep(id) \/ ExecutionStep(id) \/ OutcomeStep(id)
      PROVE  decisions' = [i \in Ids |-> decisions'[i]]
  BY <1>2, <1>3, TraderStepMoves, ExecutionStepMoves, OutcomeStepMoves DEF OneDecisionMoves
<1>4. CASE Construct
  BY <1>2, <1>4 DEF Construct, Create, CreateBatch
<1>5. CASE Clear
  BY <1>5 DEF Clear
<1>6. CASE Tick \/ UNCHANGED vars
  BY <1>1, <1>6 DEF Tick, vars
<1>7. QED
  BY <1>3, <1>4, <1>5, <1>6 DEF Next

\* Every stored decision, index entry and batch keeps the shape the code gives it, under any
\* interleaving of operations and for every instance.
THEOREM TypeCorrect == Spec => []TypeOK
<1>1. Init => TypeOK
  BY NoDecisionType DEF Init, TypeOK
<1>2. TypeOK /\ [Next]_vars => TypeOK'
  <2> SUFFICES ASSUME TypeOK, [Next]_vars PROVE TypeOK'
    OBVIOUS
  <2>1. Cleared \/ \A i \in Ids : DecisionStep(decisions[i], decisions'[i])
    BY NextIsDecisionStep
  <2>2. \A i \in Ids : decisions'[i] \in Decision
    BY <2>1, DecisionStepType, NoDecisionType DEF TypeOK, Cleared
  <2>3. decisions' \in [Ids -> Decision]
    <3>1. decisions' = [i \in Ids |-> decisions'[i]]
      BY RegistryFunction
    <3>2. QED
      BY <2>2, <3>1
  <2>4. QED
    BY <2>3, IndexType DEF TypeOK
<1>3. QED
  BY <1>1, <1>2, PTL DEF Spec

----------------------------------------------------------------------------
\* How far a decision has got.  Only PROPOSED and DELAYED can follow one another for ever.
Rank(s) == CASE s \in {"ABSENT", "PROPOSED", "DELAYED"}                  -> 0
             [] s \in {"ACCEPTED", "MODIFIED"}                           -> 1
             [] s = "SUBMITTED"                                          -> 2
             [] s = "PARTIALLY_FILLED"                                   -> 3
             [] s \in {"FILLED", "REJECTED", "CANCELLED", "EXPIRED"}     -> 4
             [] s = "DELIVERED"                                          -> 5
             [] s = "SETTLED"                                            -> 6
             [] OTHER                                                    -> 7

\* Every edge of the graph goes up in rank, the two edges between PROPOSED and DELAYED aside.
LEMMA EdgesClimb ==
  ASSUME NEW s \in Statuses, NEW t \in AllowedTransitions(s)
  PROVE  /\ t \in Statuses
         /\ Rank(s) <= Rank(t)
         /\ Rank(s) > 0 => Rank(s) < Rank(t)
BY DEF Statuses, AllowedTransitions, Rank

\* Where each status can be reached from.
LEMMA EdgeSources ==
  ASSUME NEW s \in Statuses, NEW t \in AllowedTransitions(s)
  PROVE  /\ t \in TraderTargets => s \in {"PROPOSED", "DELAYED", "ACCEPTED", "MODIFIED"}
         /\ t = "PROPOSED" => s = "DELAYED"
         /\ t = "SUBMITTED" => s \in {"ACCEPTED", "MODIFIED"}
         /\ t \in {"PARTIALLY_FILLED", "FILLED", "CANCELLED", "EXPIRED"} =>
              s \in {"SUBMITTED", "PARTIALLY_FILLED"}
         /\ t = "DELIVERED" =>
              s \in {"PARTIALLY_FILLED", "FILLED", "REJECTED", "CANCELLED", "EXPIRED"}
         /\ t = "SETTLED" => s = "DELIVERED"
         /\ t = "EVALUATED" => s = "SETTLED"
BY DEF Statuses, AllowedTransitions, TraderTargets

\* What a log says of the past: no stage passed is above the status, and a decision whose
\* submission is not its latest transition is past it.
Climbed(d) ==
  \A i \in 1..Len(d.log) :
    /\ Rank(d.log[i].to) <= Rank(d.status)
    /\ d.log[i].to = "SUBMITTED" /\ i < Len(d.log) => Rank(d.status) > 2

\* Advancing appends one record and moves the status to its target.
LEMMA AdvanceAppends ==
  ASSUME NEW d \in Decision, NEW u \in Decision, NEW t \in Statuses, StageUpdate(d, u, t),
         d.status # "ABSENT", LogIsPath(d)
  PROVE  LET e == Advance(u, t)
             n == Len(d.log) IN
         /\ n \in Nat /\ n >= 1 /\ d.log[n].to = d.status
         /\ e.status = t
         /\ Len(e.log) = n + 1
         /\ \A i \in 1..n : e.log[i] = d.log[i]
         /\ e.log[n + 1] = [seq |-> n + 1, from |-> d.status, to |-> t]
<1> DEFINE Rec == [seq : Nat, from : Statuses \cup {"NONE"}, to : Statuses]
           n   == Len(d.log)
           r   == [seq |-> CurrentSequence(u) + 1, from |-> u.status, to |-> t]
<1>1. d.log \in Seq(Rec) /\ u.log = d.log /\ u.status = d.status
  BY DEF Decision, StageUpdate
<1>2. d.log # <<>> /\ n \in Nat /\ n >= 1
  BY <1>1 DEF LogIsPath
<1>3. d.log[n].to = d.status /\ d.log[n].seq = n
  BY <1>2 DEF LogIsPath
<1>4. CurrentSequence(u) = n
  BY <1>1, <1>2, <1>3 DEF CurrentSequence
<1>5. Advance(u, t).status = t /\ Advance(u, t).log = Append(d.log, r)
  BY <1>1 DEF Advance, Decision
<1>6. r = [seq |-> n + 1, from |-> d.status, to |-> t]
  BY <1>1, <1>4
<1> HIDE DEF r, Rec
<1>7. /\ Len(Append(d.log, r)) = n + 1
      /\ \A i \in 1..n : Append(d.log, r)[i] = d.log[i]
      /\ Append(d.log, r)[n + 1] = r
  BY <1>1
<1>8. QED
  BY <1>2, <1>3, <1>5, <1>6, <1>7

----------------------------------------------------------------------------
\* The volumes of an order: never more executed than requested, nothing lost.
VolumesAgree(d) ==
  /\ d.exec.buy + d.exec.sell <= d.exec.requested
  /\ d.exec.status \in {"PARTIALLY_FILLED", "FILLED", "EXPIRED"} =>
       d.exec.buy + d.exec.sell + d.exec.unfilled = d.exec.requested

\* The inductive invariant of one decision.
Sound(d) == LogIsPath(d) /\ Climbed(d) /\ RecordsMatchLog(d) /\ TradedOnce(d) /\ VolumesAgree(d)

\* A decision that does not exist, or was just proposed, is sound.
LEMMA NoDecisionSound == Sound(NoDecision)
BY DEF Sound, NoDecision, LogIsPath, Climbed, RecordsMatchLog, TradedOnce, VolumesAgree, Passed,
       NoInstruction, NoExecution, NoSettlement, ExecutionStatuses

\* A decision that was just proposed is sound.
LEMMA ProposedSound ==
  ASSUME NEW gate, NEW rec, NEW b
  PROVE  Sound(Proposed(gate, rec, b))
<1> DEFINE e == Proposed(gate, rec, b)
<1>1. /\ e.status = "PROPOSED"
      /\ e.instr = NoInstruction /\ e.exec = NoExecution /\ e.settlement = NoSettlement
      /\ e.evaluated = FALSE
  BY DEF Proposed, NoDecision
<1>2. /\ Len(e.log) = 1
      /\ e.log # <<>>
      /\ e.log[1] = [seq |-> 1, from |-> "NONE", to |-> "PROPOSED"]
  BY DEF Proposed, NoDecision
<1> HIDE DEF e
<1>3. LogIsPath(e) /\ Climbed(e) /\ TradedOnce(e)
  BY <1>1, <1>2 DEF LogIsPath, Climbed, TradedOnce, NoExecution, Rank
<1>4. RecordsMatchLog(e)
  BY <1>1, <1>2 DEF RecordsMatchLog, Passed, NoInstruction, NoExecution, NoSettlement,
                    ExecutionStatuses
<1>5. VolumesAgree(e)
  BY <1>1 DEF VolumesAgree, NoExecution
<1>6. QED
  BY <1>3, <1>4, <1>5 DEF Sound, e

\* A transition the state machine allows keeps a decision sound.
LEMMA AdvanceSound ==
  ASSUME NEW d \in Decision, NEW u \in Decision, NEW t \in Statuses, d.status # "ABSENT",
         Sound(d), StageUpdate(d, u, t), Legal(d, u, t)
  PROVE  Sound(Advance(u, t))
<1> DEFINE e == Advance(u, t)
           n == Len(d.log)
<1>1. /\ n \in Nat /\ n >= 1 /\ d.log[n].to = d.status
      /\ e.status = t
      /\ Len(e.log) = n + 1
      /\ \A i \in 1..n : e.log[i] = d.log[i]
      /\ e.log[n + 1] = [seq |-> n + 1, from |-> d.status, to |-> t]
  BY AdvanceAppends DEF Sound
<1>2. /\ e.instr = u.instr /\ e.exec = u.exec /\ e.settlement = u.settlement
      /\ e.evaluated = u.evaluated
  BY DEF Advance, Decision
<1>3. t \in AllowedTransitions(d.status) /\ d.status \in Statuses
  BY DEF Legal, Decision
<1>4. Rank(d.status) <= Rank(t) /\ (Rank(d.status) > 0 => Rank(d.status) < Rank(t))
  BY <1>3, EdgesClimb
<1>5. e \in Decision
  BY <1>3, AdvanceType DEF StageUpdate
<1>6. StagePayloadOK(e, d)
  BY DEF Legal
<1> HIDE DEF e, n
<1>7. LogIsPath(e)
  <2>1. e.log # <<>>
    BY <1>1
  <2>2. e.status = e.log[Len(e.log)].to
    BY <1>1
  <2>3. ASSUME NEW i \in 1..n + 1
        PROVE  /\ e.log[i].seq = i
               /\ IF i = 1 THEN e.log[1].from = "NONE" /\ e.log[1].to = "PROPOSED"
                  ELSE /\ e.log[i].from = e.log[i-1].to
                       /\ e.log[i].to \in AllowedTransitions(e.log[i].from)
    <3>1. CASE i = n + 1
      BY <1>1, <1>3, <3>1
    <3>2. CASE i \in 1..n
      <4>1. /\ d.log[i].seq = i
            /\ IF i = 1 THEN d.log[1].from = "NONE" /\ d.log[1].to = "PROPOSED"
               ELSE /\ d.log[i].from = d.log[i-1].to
                    /\ d.log[i].to \in AllowedTransitions(d.log[i].from)
        BY <3>2 DEF Sound, LogIsPath, n
      <4>2. i # 1 => i - 1 \in 1..n
        BY <1>1, <3>2
      <4>3. QED
        BY <1>1, <3>2, <4>1, <4>2
    <3>3. QED
      BY <1>1, <3>1, <3>2
  <2>4. QED
    BY <1>1, <2>1, <2>2, <2>3 DEF LogIsPath
<1>8. Climbed(e)
  <2>1. \A s \in Statuses \cup {"ABSENT"} : Rank(s) \in 0..7
    BY DEF Rank
  <2>2. ASSUME NEW i \in 1..n + 1
        PROVE  /\ Rank(e.log[i].to) <= Rank(t)
               /\ e.log[i].to = "SUBMITTED" /\ i < n + 1 => Rank(t) > 2
    <3>1. CASE i = n + 1
      <4>1. e.log[i].to = t /\ ~(i < n + 1)
        BY <1>1, <3>1
      <4>2. Rank(t) <= Rank(t)
        BY <2>1
      <4>3. QED
        BY <4>1, <4>2
    <3>2. CASE i \in 1..n
      <4>1. d.log[i].to \in Statuses
        BY <3>2, LogRecordType DEF n
      <4>2. Rank(d.log[i].to) <= Rank(d.status)
        BY <3>2 DEF Sound, Climbed, n
      <4>3. d.log[i].to = "SUBMITTED" => Rank(d.log[i].to) = 2
        BY DEF Rank
      <4>4. QED
        BY <1>1, <1>3, <1>4, <2>1, <3>2, <4>1, <4>2, <4>3, SMTT(40)
    <3>3. QED
      BY <1>1, <3>1, <3>2
  <2>3. QED
    BY <1>1, <2>2 DEF Climbed
<1>9. \A s : Passed(e, s) <=> Passed(d, s) \/ s = t
  <2>1. ASSUME NEW s PROVE Passed(e, s) <=> Passed(d, s) \/ s = t
    BY <1>1 DEF Passed, n
  <2>2. QED
    BY <2>1
<1>10. /\ Passed(d, "SUBMITTED") => Rank(d.status) >= 2
       /\ Passed(d, "DELIVERED") => Rank(d.status) >= 5
       /\ Passed(d, "SETTLED") => Rank(d.status) >= 6
       /\ Passed(d, "EVALUATED") => Rank(d.status) >= 7
  BY DEF Sound, Climbed, Passed, Rank
<1>11. RecordsMatchLog(d) /\ TradedOnce(d) /\ VolumesAgree(d)
  BY DEF Sound
<1>12. /\ t \in TraderTargets => d.status \in {"PROPOSED", "DELAYED", "ACCEPTED", "MODIFIED"}
       /\ t = "PROPOSED" => d.status = "DELAYED"
       /\ t = "SUBMITTED" => d.status \in {"ACCEPTED", "MODIFIED"}
       /\ t \in {"PARTIALLY_FILLED", "FILLED", "CANCELLED", "EXPIRED"} =>
            d.status \in {"SUBMITTED", "PARTIALLY_FILLED"}
       /\ t = "DELIVERED" =>
            d.status \in {"PARTIALLY_FILLED", "FILLED", "REJECTED", "CANCELLED", "EXPIRED"}
       /\ t = "SETTLED" => d.status = "DELIVERED"
       /\ t = "EVALUATED" => d.status = "SETTLED"
  BY <1>3, EdgeSources
<1>13. d.status \in {"PROPOSED", "DELAYED", "ACCEPTED", "MODIFIED"} => d.exec.status = "NONE"
  BY <1>10, <1>11 DEF RecordsMatchLog, Rank
<1>14. RecordsMatchLog(e)
  <2>1. e.instr.action # "NONE" <=> e.status \notin {"ABSENT", "PROPOSED"}
    BY <1>1, <1>2, <1>3, <1>6, <1>11, <1>12
       DEF RecordsMatchLog, StageUpdate, StagePayloadOK, TraderTargets, ExpectedAction, Statuses
  <2>2. e.exec.status # "NONE" <=> Passed(e, "SUBMITTED")
    BY <1>1, <1>2, <1>6, <1>9, <1>11, <1>12
       DEF RecordsMatchLog, StageUpdate, StagePayloadOK, ExecutionStatuses
  <2>3. e.settlement.delivered <=> Passed(e, "DELIVERED")
    BY <1>1, <1>2, <1>6, <1>9, <1>11, <1>12 DEF RecordsMatchLog, StageUpdate, StagePayloadOK
  <2>4. e.settlement.settled <=> Passed(e, "SETTLED")
    BY <1>1, <1>2, <1>6, <1>9, <1>10, <1>11, <1>12
       DEF RecordsMatchLog, StageUpdate, StagePayloadOK, Rank
  <2>5. e.evaluated <=> Passed(e, "EVALUATED")
    BY <1>1, <1>2, <1>6, <1>9, <1>11 DEF RecordsMatchLog, StageUpdate, StagePayloadOK
  <2>6. e.status \in {"ACCEPTED", "MODIFIED", "REJECTED", "DELAYED"} =>
          e.instr.action = ExpectedAction(e.status)
    BY <1>6 DEF StagePayloadOK
  <2>7. e.status \in ExecutionStatuses => e.exec.status = e.status
    BY <1>6 DEF StagePayloadOK, ExecutionStatuses
  <2>8. e.settlement.delivered => e.exec.status # "SUBMITTED"
    <3>1. CASE t = "DELIVERED"
      <4>1. e.exec = d.exec
        BY <1>2, <3>1 DEF StageUpdate, ExecutionStatuses
      <4>2. CASE d.status = "REJECTED"
        <5>1. d.instr.action = "REJECT"
          BY <1>11, <4>2 DEF RecordsMatchLog, ExpectedAction
        <5>2. QED
          BY <1>11, <4>1, <5>1 DEF TradedOnce
      <4>3. CASE d.status \in {"PARTIALLY_FILLED", "FILLED", "CANCELLED", "EXPIRED"}
        BY <1>11, <4>1, <4>3 DEF RecordsMatchLog, ExecutionStatuses
      <4>4. QED
        BY <1>12, <3>1, <4>2, <4>3
    <3>2. CASE t # "DELIVERED"
      <4>1. ASSUME e.settlement.delivered PROVE d.settlement.delivered
        BY <1>2, <3>2, <4>1 DEF StageUpdate
      <4>2. ASSUME d.settlement.delivered PROVE t \notin ExecutionStatuses
        BY <1>10, <1>11, <1>12, <4>2 DEF RecordsMatchLog, Rank, ExecutionStatuses
      <4>3. QED
        BY <1>2, <1>11, <4>1, <4>2 DEF RecordsMatchLog, StageUpdate
    <3>3. QED
      BY <3>1, <3>2
  <2>9. QED
    BY <2>1, <2>2, <2>3, <2>4, <2>5, <2>6, <2>7, <2>8 DEF RecordsMatchLog
<1>15. TradedOnce(e)
  <2>1. e.exec.status # "NONE" => e.instr.action \in {"ACCEPT", "MODIFY"}
    <3>1. CASE t \in TraderTargets
      BY <1>2, <1>12, <1>13, <3>1 DEF StageUpdate, TraderTargets, ExecutionStatuses
    <3>2. CASE t = "SUBMITTED"
      BY <1>1, <1>6, <3>2 DEF StagePayloadOK
    <3>3. CASE t \in {"PARTIALLY_FILLED", "FILLED", "CANCELLED", "EXPIRED"}
      <4>1. e.instr = d.instr
        BY <1>2, <3>3 DEF StageUpdate, TraderTargets
      <4>2. d.exec.status # "NONE"
        BY <1>11, <1>12, <3>3 DEF RecordsMatchLog, ExecutionStatuses
      <4>3. QED
        BY <1>11, <4>1, <4>2 DEF TradedOnce
    <3>4. CASE t \notin TraderTargets /\ t \notin ExecutionStatuses
      BY <1>2, <1>11, <3>4 DEF TradedOnce, StageUpdate
    <3>5. QED
      BY <3>1, <3>2, <3>3, <3>4 DEF ExecutionStatuses
  <2>2. t = "SUBMITTED" => ~Passed(d, "SUBMITTED")
    BY <1>11, <1>12, <1>13 DEF RecordsMatchLog
  <2>3. ASSUME NEW i \in 1..n + 1, NEW j \in 1..n + 1,
               e.log[i].to = "SUBMITTED", e.log[j].to = "SUBMITTED"
        PROVE  i = j
    <3>1. CASE t = "SUBMITTED"
      BY <1>1, <2>2, <2>3, <3>1 DEF Passed, n
    <3>2. CASE t # "SUBMITTED"
      <4>1. i \in 1..n /\ j \in 1..n
        BY <1>1, <2>3, <3>2
      <4>2. QED
        BY <1>1, <1>11, <2>3, <4>1 DEF TradedOnce, n
    <3>3. QED
      BY <3>1, <3>2
  <2>4. QED
    BY <1>1, <2>1, <2>3 DEF TradedOnce
<1>16. VolumesAgree(e)
  <2>1. /\ d.exec.requested \in Nat /\ d.exec.buy \in Nat /\ d.exec.sell \in Nat
        /\ e.exec.requested \in Nat /\ e.exec.buy \in Nat /\ e.exec.sell \in Nat
        /\ e.exec.unfilled \in Nat
    BY <1>5 DEF Decision
  <2>2. CASE t \in ExecutionStatuses
    <3>1. VolumeChange(d.exec, e.exec, t) /\ e.exec.status = t
      BY <1>1, <1>2, <1>6, <2>2 DEF StageUpdate, StagePayloadOK, ExecutionStatuses
    <3>2. QED
      BY <1>11, <2>1, <2>2, <3>1 DEF VolumesAgree, VolumeChange, ExecutionStatuses, AtLeastZero
  <2>3. CASE t \notin ExecutionStatuses
    BY <1>2, <1>11, <2>3 DEF VolumesAgree, StageUpdate
  <2>4. QED
    BY <2>2, <2>3
<1>17. QED
  BY <1>7, <1>8, <1>14, <1>15, <1>16 DEF Sound, e

----------------------------------------------------------------------------
StoreInv == TypeOK /\ \A id \in Ids : Sound(decisions[id])

\* One step of a decision keeps it sound.
LEMMA DecisionStepSound ==
  ASSUME NEW d \in Decision, NEW e, Sound(d), DecisionStep(d, e)
  PROVE  Sound(e)
<1>1. ASSUME d.status # "ABSENT", NEW t \in Statuses, NEW u \in Decision, StageUpdate(d, u, t),
             Legal(d, u, t)
      PROVE  Sound(Advance(u, t))
  BY <1>1, AdvanceSound
<1>2. QED
  BY <1>1, ProposedSound DEF DecisionStep

\* The inductive invariant: every decision is well-typed and sound in every reachable state.
THEOREM StoreInvariant == Spec => []StoreInv
<1>1. Init => \A id \in Ids : Sound(decisions[id])
  BY NoDecisionSound DEF Init
<1>2. TypeOK /\ (\A id \in Ids : Sound(decisions[id])) /\ [Next]_vars
        => (\A id \in Ids : Sound(decisions[id]))'
  <2> SUFFICES ASSUME TypeOK, \A id \in Ids : Sound(decisions[id]), [Next]_vars
               PROVE  \A id \in Ids : Sound(decisions'[id])
    OBVIOUS
  <2>1. Cleared \/ \A i \in Ids : DecisionStep(decisions[i], decisions'[i])
    BY NextIsDecisionStep
  <2>2. CASE Cleared
    BY <2>2, NoDecisionSound DEF Cleared
  <2>3. CASE \A i \in Ids : DecisionStep(decisions[i], decisions'[i])
    BY <2>3, DecisionStepSound DEF TypeOK
  <2>4. QED
    BY <2>1, <2>2, <2>3
<1>3. QED
  BY <1>1, <1>2, TypeCorrect, PTL DEF Spec, StoreInv

\* The audit log of every decision is a numbered path of the state graph that ends in its
\* status (apply_transition, record_creation).
THEOREM AuditTrailHolds == Spec => []AuditTrail
<1>1. StoreInv => AuditTrail
  BY DEF StoreInv, Sound, AuditTrail
<1>2. QED
  BY <1>1, StoreInvariant, PTL

\* Stage records exist exactly for the stages the log shows (_validate_stage_payload).
THEOREM StageRecordsHold == Spec => []StageRecordsMatchLog
<1>1. StoreInv => StageRecordsMatchLog
  BY DEF StoreInv, Sound, StageRecordsMatchLog
<1>2. QED
  BY <1>1, StoreInvariant, PTL

\* An order exists only with the trader's approval and is submitted at most once.
THEOREM OneApprovedOrderHolds == Spec => []OneApprovedOrder
<1>1. StoreInv => OneApprovedOrder
  BY DEF StoreInv, Sound, OneApprovedOrder
<1>2. QED
  BY <1>1, StoreInvariant, PTL

\* Executed and unfilled volume add up to what was requested (apply_fill, expire).
THEOREM FillConservationHolds == Spec => []FillConservation
<1>1. StoreInv => FillConservation
  BY DEF StoreInv, Sound, VolumesAgree, FillConservation
<1>2. QED
  BY <1>1, StoreInvariant, PTL

----------------------------------------------------------------------------
\* The indexes.  That an id without a decision is in no batch is what keeps a later create() with
\* that id out of the old batch.
NamedIn(s, id) == \E i \in 1..Len(s) : s[i] = id

AbsentInNoBatch == \A id \in Ids : ~Exists(id) => decisions[id].batch = NoBatch

IndexInv == IndexesAgree /\ AbsentInNoBatch

\* Joining two sequences without a common or repeated element gives one that names both.
LEMMA JoinedNames ==
  ASSUME NEW S, NEW s \in Seq(S), NEW t \in Seq(S), IsInjective(s), IsInjective(t),
         \A i \in 1..Len(t) : ~NamedIn(s, t[i])
  PROVE  /\ IsInjective(s \o t)
         /\ \A id : NamedIn(s \o t, id) <=> NamedIn(s, id) \/ NamedIn(t, id)
<1> DEFINE all == s \o t
<1>1. /\ Len(s) \in Nat /\ Len(t) \in Nat /\ Len(all) = Len(s) + Len(t)
      /\ DOMAIN s = 1..Len(s) /\ DOMAIN t = 1..Len(t) /\ DOMAIN all = 1..Len(all)
      /\ \A i \in 1..Len(s) : all[i] = s[i]
      /\ \A i \in 1..Len(t) : all[Len(s) + i] = t[i]
      /\ \A i \in 1..Len(all) : i \in 1..Len(s) \/ (i - Len(s) \in 1..Len(t)
                                                    /\ all[i] = t[i - Len(s)])
  OBVIOUS
<1> HIDE DEF all
<1>2. IsInjective(all)
  <2> SUFFICES ASSUME NEW i \in 1..Len(all), NEW j \in 1..Len(all), all[i] = all[j]
               PROVE  i = j
    BY <1>1 DEF IsInjective
  <2>1. CASE i \in 1..Len(s) /\ j \in 1..Len(s)
    BY <1>1, <2>1 DEF IsInjective
  <2>2. CASE i \in 1..Len(s) /\ j \notin 1..Len(s)
    <3>1. j - Len(s) \in 1..Len(t) /\ all[j] = t[j - Len(s)] /\ all[i] = s[i]
      BY <1>1, <2>2
    <3>2. ~NamedIn(s, t[j - Len(s)]) /\ s[i] = t[j - Len(s)]
      BY <3>1
    <3>3. QED
      BY <3>2, <2>2 DEF NamedIn
  <2>3. CASE i \notin 1..Len(s) /\ j \in 1..Len(s)
    <3>1. i - Len(s) \in 1..Len(t) /\ all[i] = t[i - Len(s)] /\ all[j] = s[j]
      BY <1>1, <2>3
    <3>2. ~NamedIn(s, t[i - Len(s)]) /\ s[j] = t[i - Len(s)]
      BY <3>1
    <3>3. QED
      BY <3>2, <2>3 DEF NamedIn
  <2>4. CASE i \notin 1..Len(s) /\ j \notin 1..Len(s)
    <3>1. i - Len(s) = j - Len(s)
      BY <1>1, <2>4 DEF IsInjective
    <3>2. QED
      BY <1>1, <3>1
  <2>5. QED
    BY <2>1, <2>2, <2>3, <2>4
<1>3. ASSUME NEW id PROVE NamedIn(all, id) <=> NamedIn(s, id) \/ NamedIn(t, id)
  <2>1. NamedIn(all, id) => NamedIn(s, id) \/ NamedIn(t, id)
    BY <1>1 DEF NamedIn
  <2>2. NamedIn(s, id) => NamedIn(all, id)
    BY <1>1 DEF NamedIn
  <2>3. NamedIn(t, id) => NamedIn(all, id)
    <3>1. SUFFICES ASSUME NEW i \in 1..Len(t), t[i] = id PROVE NamedIn(all, id)
      BY DEF NamedIn
    <3>2. Len(s) + i \in 1..Len(all) /\ all[Len(s) + i] = id
      BY <1>1, <3>1
    <3>3. QED
      BY <3>2 DEF NamedIn
  <2>4. QED
    BY <2>1, <2>2, <2>3
<1>4. QED
  BY <1>2, <1>3 DEF all

\* Indexes that do not change agree with decisions that stay where they are.
LEMMA IndexesKept ==
  ASSUME TypeOK, IndexInv, UNCHANGED <<order, batches>>,
         \A id \in Ids : /\ Exists(id) <=> decisions'[id].status # "ABSENT"
                         /\ decisions'[id].batch = decisions[id].batch
  PROVE  IndexInv'
BY DEF IndexInv, IndexesAgree, AbsentInNoBatch, Exists

\* A created decision has status PROPOSED and the batch it was created in.
LEMMA ProposedFields ==
  ASSUME NEW gate, NEW rec, NEW b
  PROVE  Proposed(gate, rec, b).status = "PROPOSED" /\ Proposed(gate, rec, b).batch = b
BY DEF Proposed, NoDecision

\* A move of one decision touches no index.
LEMMA MoveKeepsIndexes ==
  ASSUME TypeOK, IndexInv, NEW id \in Ids, OneDecisionMoves(id), UNCHANGED <<order, batches>>
  PROVE  IndexInv'
<1>1. PICK t \in Statuses, u \in Decision :
        /\ StageUpdate(decisions[id], u, t)
        /\ decisions' = [decisions EXCEPT ![id] = Advance(u, t)]
  BY DEF OneDecisionMoves
<1>2. /\ Advance(u, t).status = t
      /\ Advance(u, t).batch = decisions[id].batch
      /\ t # "ABSENT"
  BY <1>1 DEF Advance, Decision, StageUpdate, Statuses
<1>3. ASSUME NEW i \in Ids
      PROVE  /\ Exists(i) <=> decisions'[i].status # "ABSENT"
             /\ decisions'[i].batch = decisions[i].batch
  <2>1. CASE i = id
    BY <1>1, <1>2, <2>1 DEF TypeOK, OneDecisionMoves, Exists
  <2>2. CASE i # id
    BY <1>1, <2>2 DEF TypeOK, Exists
  <2>3. QED
    BY <2>1, <2>2
<1>4. QED
  BY <1>3, IndexesKept

\* One decision outside any batch joins the order only.
LEMMA CreateKeepsIndexes ==
  ASSUME TypeOK, IndexInv, NEW id \in Ids, NEW gate, NEW rec, Create(id, gate, rec)
  PROVE  IndexInv'
<1>1. /\ order \in Seq(Ids) /\ <<id>> \in Seq(Ids) /\ IsInjective(<<id>>)
      /\ \A i : NamedIn(<<id>>, i) <=> i = id
  BY DEF TypeOK, IsInjective, NamedIn
<1>2. /\ order' = order \o <<id>>
      /\ batches' = batches
      /\ decisions'[id] = Proposed(gate, rec, NoBatch)
      /\ \A i \in Ids : i # id => decisions'[i] = decisions[i]
  BY DEF Create, TypeOK
<1>3. \A k \in 1..Len(<<id>>) : ~NamedIn(order, <<id>>[k])
  <2>1. ~NamedIn(order, id)
    BY DEF Create, IndexInv, IndexesAgree, NamedIn
  <2>2. QED
    BY <2>1
<1>4. /\ IsInjective(order')
      /\ \A i : NamedIn(order', i) <=> NamedIn(order, i) \/ i = id
  BY <1>1, <1>2, <1>3, JoinedNames DEF IndexInv, IndexesAgree
<1>5. \A i \in Ids : Exists(i)' <=> NamedIn(order', i)
  BY <1>2, <1>4, ProposedFields DEF Exists, IndexInv, IndexesAgree, NamedIn
<1>6. \A i \in Ids : decisions'[i].batch = decisions[i].batch
  BY <1>2, ProposedFields DEF Create, IndexInv, AbsentInNoBatch
<1>7. \A b \in BatchIds, i \in Ids : decisions'[i].batch = b <=> NamedIn(batches'[b], i)
  BY <1>2, <1>6 DEF IndexInv, IndexesAgree, NamedIn
<1>8. AbsentInNoBatch'
  BY <1>2, <1>6, ProposedFields DEF IndexInv, AbsentInNoBatch, Exists
<1>9. QED
  BY <1>4, <1>5, <1>7, <1>8 DEF IndexInv, IndexesAgree, NamedIn

\* The decisions of a batch join the order and the batch's index.
LEMMA BatchKeepsIndexes ==
  ASSUME TypeOK, IndexInv, NEW b \in BatchIds, NEW ids \in FreshSequences, NEW gates, NEW recs,
         CreateBatch(b, ids, gates, recs)
  PROVE  IndexInv'
<1> DEFINE New(i) == NamedIn(ids, i)
<1>1. order \in Seq(Ids) /\ ids \in Seq(Ids) /\ IsInjective(ids) /\ DOMAIN ids = 1..Len(ids)
  BY FreshSequenceType DEF TypeOK
<1>2. /\ order' = order \o ids
      /\ batches' = [batches EXCEPT ![b] = ids]
      /\ \A i \in Ids : New(i) => decisions'[i] = Proposed(gates[i], recs[i], b)
      /\ \A i \in Ids : ~New(i) => decisions'[i] = decisions[i]
      /\ \A i \in Ids : New(i) => ~Exists(i)
  BY <1>1 DEF CreateBatch, NamedIn
<1>3. \A k \in 1..Len(ids) : ids[k] \in Ids /\ New(ids[k]) /\ ~NamedIn(order, ids[k])
  <2> TAKE k \in 1..Len(ids)
  <2>1. ids[k] \in Ids /\ New(ids[k])
    BY <1>1 DEF NamedIn
  <2>2. QED
    BY <1>2, <2>1 DEF IndexInv, IndexesAgree, NamedIn
<1>4. /\ IsInjective(order')
      /\ \A i : NamedIn(order', i) <=> NamedIn(order, i) \/ New(i)
  BY <1>1, <1>2, <1>3, JoinedNames DEF IndexInv, IndexesAgree
<1>5. \A i \in Ids : /\ New(i) => Exists(i)' /\ decisions'[i].batch = b
                     /\ ~New(i) => /\ Exists(i)' <=> Exists(i)
                                   /\ decisions'[i].batch = decisions[i].batch
  BY <1>2, ProposedFields DEF Exists
<1>6. \A i \in Ids : Exists(i)' <=> NamedIn(order', i)
  BY <1>4, <1>5 DEF IndexInv, IndexesAgree, NamedIn
<1>7. ASSUME NEW c \in BatchIds, NEW i \in Ids
      PROVE  decisions'[i].batch = c <=> NamedIn(batches'[c], i)
  <2>1. batches[b] = <<>>
    BY DEF CreateBatch
  <2>2. CASE c = b
    <3>1. batches'[c] = ids
      BY <1>2, <2>2 DEF TypeOK
    <3>2. decisions[i].batch # b
      BY <2>1 DEF IndexInv, IndexesAgree
    <3>3. QED
      BY <1>5, <2>2, <3>1, <3>2
  <2>3. CASE c # b
    <3>1. batches'[c] = batches[c]
      BY <1>2, <2>3 DEF TypeOK
    <3>2. decisions[i].batch = c <=> NamedIn(batches[c], i)
      BY DEF IndexInv, IndexesAgree, NamedIn
    <3>3. New(i) => decisions[i].batch # c
      BY <1>2, StoreAssumption DEF IndexInv, AbsentInNoBatch
    <3>4. QED
      BY <1>5, <2>3, <3>1, <3>2, <3>3
  <2>4. QED
    BY <2>2, <2>3
<1>8. AbsentInNoBatch'
  BY <1>5 DEF IndexInv, AbsentInNoBatch
<1>9. QED
  BY <1>4, <1>6, <1>7, <1>8 DEF IndexInv, IndexesAgree, NamedIn

\* The creation order names every decision once, and a batch exactly its own (create,
\* create_batch, clear), for any number of ids and batches.
THEOREM IndexesAgreeHolds == Spec => []IndexesAgree
<1>1. Init => IndexInv
  BY StoreAssumption DEF Init, IndexInv, IndexesAgree, AbsentInNoBatch, Exists, NoDecision,
     IsInjective
<1>2. TypeOK /\ IndexInv /\ [Next]_vars => IndexInv'
  <2> SUFFICES ASSUME TypeOK, IndexInv, [Next]_vars PROVE IndexInv'
    OBVIOUS
  <2>1. CASE Construct
    BY <2>1, CreateKeepsIndexes, BatchKeepsIndexes DEF Construct
  <2>2. ASSUME NEW id \in Ids, TraderStep(id) \/ ExecutionStep(id) \/ OutcomeStep(id)
        PROVE  IndexInv'
    <3>1. OneDecisionMoves(id)
      BY <2>2, TraderStepMoves, ExecutionStepMoves, OutcomeStepMoves
    <3>2. UNCHANGED <<order, batches>>
      BY <2>2 DEF TraderStep, ExecutionStep, OutcomeStep, Fill, Accept, Modify, Reject, Delay,
                  Reopen, Submit, ApplyFill, Cancel, Expire, Deliver, Settle, Evaluate, Transition
    <3>3. QED
      BY <3>1, <3>2, MoveKeepsIndexes
  <2>3. CASE Clear
    BY <2>3, StoreAssumption DEF Clear, IndexInv, IndexesAgree, AbsentInNoBatch, Exists, NoDecision,
       IsInjective
  <2>4. CASE Tick \/ UNCHANGED vars
    BY <2>4 DEF Tick, vars, IndexInv, IndexesAgree, AbsentInNoBatch, Exists
  <2>5. QED
    BY <2>1, <2>2, <2>3, <2>4 DEF Next
<1>3. IndexInv => IndexesAgree
  BY DEF IndexInv
<1>4. QED
  BY <1>1, <1>2, <1>3, TypeCorrect, PTL DEF Spec

----------------------------------------------------------------------------
\* One step of a decision that exists extends its log by at most one record and leaves its
\* context, recommendation and batch alone.
LEMMA DecisionStepAppends ==
  ASSUME NEW d \in Decision, NEW e, d.status # "ABSENT", LogIsPath(d), DecisionStep(d, e)
  PROVE  /\ IsPrefix(d.log, e.log)
         /\ Len(e.log) <= Len(d.log) + 1
         /\ e.gate = d.gate /\ e.rec = d.rec /\ e.batch = d.batch
<1> DEFINE Rec == [seq : Nat, from : Statuses \cup {"NONE"}, to : Statuses]
<1>1. d.log \in Seq(Rec)
  BY DEF Decision
<1>2. CASE e = d
  <2>1. IsPrefix(d.log, d.log)
    BY <1>1 DEF IsPrefix
  <2>2. Len(d.log) \in Nat
    BY <1>1
  <2>3. QED
    BY <1>2, <2>1, <2>2
<1>3. ASSUME NEW t \in Statuses, NEW u \in Decision, StageUpdate(d, u, t), e = Advance(u, t)
      PROVE  /\ IsPrefix(d.log, e.log)
             /\ Len(e.log) <= Len(d.log) + 1
             /\ e.gate = d.gate /\ e.rec = d.rec /\ e.batch = d.batch
  <2> DEFINE r == [seq |-> CurrentSequence(u) + 1, from |-> u.status, to |-> t]
  <2>1. e.log = Append(d.log, r) /\ e.gate = d.gate /\ e.rec = d.rec /\ e.batch = d.batch
    BY <1>3 DEF Advance, Decision, StageUpdate
  <2> HIDE DEF r, Rec
  <2>2. /\ Len(Append(d.log, r)) = Len(d.log) + 1
        /\ \A i \in 1..Len(d.log) : Append(d.log, r)[i] = d.log[i]
        /\ Len(d.log) \in Nat
    BY <1>1
  <2>3. IsPrefix(d.log, Append(d.log, r))
    BY <1>1, <2>2 DEF IsPrefix
  <2>4. QED
    BY <2>1, <2>2, <2>3
<1>4. QED
  BY <1>2, <1>3 DEF DecisionStep

\* History is never rewritten: no operation of the store changes or drops a record of a log.
THEOREM AppendOnlyHolds == Spec => AppendOnly
<1> DEFINE Kept(id) ==
      \/ Cleared
      \/ /\ IsPrefix(decisions[id].log, decisions'[id].log)
         /\ Len(decisions'[id].log) <= Len(decisions[id].log) + 1
         /\ decisions'[id].gate  = decisions[id].gate
         /\ decisions'[id].rec   = decisions[id].rec
         /\ decisions'[id].batch = decisions[id].batch
<1>1. StoreInv /\ [Next]_vars => [\A id \in Ids : Exists(id) => Kept(id)]_vars
  <2> SUFFICES ASSUME StoreInv, [Next]_vars, NEW id \in Ids, Exists(id) PROVE Kept(id)
    OBVIOUS
  <2>1. Cleared \/ DecisionStep(decisions[id], decisions'[id])
    BY NextIsDecisionStep DEF StoreInv
  <2>2. decisions[id] \in Decision /\ LogIsPath(decisions[id])
    BY DEF StoreInv, TypeOK, Sound
  <2>3. QED
    BY <2>1, <2>2, DecisionStepAppends DEF Exists
<1>2. QED
  BY <1>1, StoreInvariant, PTL DEF Spec, AppendOnly

----------------------------------------------------------------------------
\* A decision that does not exist has no log and no stage records.
LEMMA AbsentIsUntouched ==
  ASSUME NEW d \in Decision, Sound(d), d.status = "ABSENT"
  PROVE  /\ d.log = <<>>
         /\ d.exec.status = "NONE"
         /\ ~d.settlement.delivered /\ ~d.settlement.settled
<1>1. d.log = <<>>
  <2> SUFFICES ASSUME d.log # <<>> PROVE FALSE
    OBVIOUS
  <2> DEFINE Rec == [seq : Nat, from : Statuses \cup {"NONE"}, to : Statuses]
  <2>1. d.log \in Seq(Rec)
    BY DEF Decision
  <2> HIDE DEF Rec
  <2>2. Len(d.log) \in 1..Len(d.log)
    BY <2>1, LastElement
  <2>3. d.log[Len(d.log)].to \in Statuses
    BY <2>2, LogRecordType
  <2>4. QED
    BY <2>3 DEF Sound, LogIsPath, Statuses
<1>2. QED
  BY <1>1 DEF Sound, RecordsMatchLog, Passed

\* What a step of a decision that is closed, delivered or settled can still change.
LEMMA DecisionStepFinal ==
  ASSUME NEW d \in Decision, NEW e, Sound(d), DecisionStep(d, e)
  PROVE  /\ d.status \notin {"ABSENT", "PROPOSED", "DELAYED", "ACCEPTED", "MODIFIED",
                             "SUBMITTED", "PARTIALLY_FILLED"} => e.exec = d.exec
         /\ d.settlement.delivered => /\ e.settlement.delivered
                                      /\ e.settlement.position = d.settlement.position
         /\ d.settlement.settled => e.settlement = d.settlement
<1>1. CASE d.status = "ABSENT"
  BY <1>1, AbsentIsUntouched
<1>2. CASE e = d
  BY <1>2
<1>3. ASSUME d.status # "ABSENT", NEW t \in Statuses, NEW u \in Decision, StageUpdate(d, u, t),
             Legal(d, u, t), e = Advance(u, t)
      PROVE  /\ d.status \notin {"PROPOSED", "DELAYED", "ACCEPTED", "MODIFIED",
                                 "SUBMITTED", "PARTIALLY_FILLED"} => e.exec = d.exec
             /\ d.settlement.delivered => /\ e.settlement.delivered
                                          /\ e.settlement.position = d.settlement.position
             /\ d.settlement.settled => e.settlement = d.settlement
  <2>1. d.status \in Statuses /\ t \in AllowedTransitions(d.status)
    BY <1>3 DEF Legal, Decision
  <2>2. e.exec = u.exec /\ e.settlement = u.settlement
    BY <1>3 DEF Advance, Decision
  <2>3. d.status \notin {"PROPOSED", "DELAYED", "ACCEPTED", "MODIFIED", "SUBMITTED",
                         "PARTIALLY_FILLED"} => t \notin ExecutionStatuses
    BY <2>1, EdgeSources DEF ExecutionStatuses
  <2>4. /\ Passed(d, "DELIVERED") => Rank(d.status) >= 5
        /\ Passed(d, "SETTLED") => Rank(d.status) >= 6
    BY DEF Sound, Climbed, Passed, Rank
  <2>5. /\ t = "DELIVERED" => Rank(d.status) <= 4
        /\ t = "SETTLED" => Rank(d.status) = 5
    BY <2>1, EdgeSources DEF Rank
  <2>6. /\ d.settlement.delivered => t # "DELIVERED"
        /\ d.settlement.settled => t \notin {"DELIVERED", "SETTLED"}
    <3>1. Rank(d.status) \in 0..7
      BY DEF Rank
    <3>2. QED
      BY <2>4, <2>5, <3>1 DEF Sound, RecordsMatchLog
  <2>7. d.settlement.delivered => /\ e.settlement.delivered
                                  /\ e.settlement.position = d.settlement.position
    BY <1>3, <2>2, <2>6 DEF StageUpdate
  <2>8. d.settlement.settled => e.settlement = d.settlement
    BY <1>3, <2>2, <2>6 DEF StageUpdate
  <2>9. QED
    BY <1>3, <2>2, <2>3, <2>7, <2>8 DEF StageUpdate
<1>4. QED
  BY <1>1, <1>2, <1>3 DEF DecisionStep

\* What was executed, delivered and settled is final.
THEOREM OutcomeFinalHolds == Spec => OutcomeFinal
<1>1. StoreInv /\ [Next]_vars =>
        [\A id \in Ids : LET d == decisions[id]
                             e == decisions'[id] IN
           \/ Cleared
           \/ /\ d.status \notin {"ABSENT", "PROPOSED", "DELAYED", "ACCEPTED", "MODIFIED",
                                  "SUBMITTED", "PARTIALLY_FILLED"} => e.exec = d.exec
              /\ d.settlement.delivered => /\ e.settlement.delivered
                                           /\ e.settlement.position = d.settlement.position
              /\ d.settlement.settled => e.settlement = d.settlement]_vars
  BY NextIsDecisionStep, DecisionStepFinal DEF StoreInv, TypeOK
<1>2. QED
  BY <1>1, StoreInvariant, PTL DEF Spec, OutcomeFinal

----------------------------------------------------------------------------
(***************************************************************************)
(* The refinement of TradeTicket.  A move of one decision is one action of *)
(* its ticket, or none between PROPOSED and DELAYED; nothing is booked     *)
(* before the order is placed.                                             *)
(***************************************************************************)
Booked(d) == d.exec.buy + d.exec.sell

Unbooked(d) == d.exec.status = "NONE" => d.exec.buy = 0 /\ d.exec.sell = 0

NothingBooked == \A id \in Ids : Unbooked(decisions[id])

TicketInv == StoreInv /\ NothingBooked

\* What a move of a decision does to its phase p and what is booked on it.
TicketMove(p, q, before, after) ==
  \/ /\ after = before
     /\ \/ q = p
        \/ p = "open" /\ q = "approved"
        \/ p \in {"open", "approved"} /\ q = "closed"
        \/ p = "approved" /\ q = "working" /\ before = 0
        \/ p \in {"closed", "working"} /\ q = "delivered"
        \/ p = "delivered" /\ q = "settled"
        \/ p = "settled" /\ q = "scored"
  \/ p = "working" /\ q \in {"working", "closed"} /\ after >= before

\* A legal transition is a move of the decision's ticket.
LEMMA AdvanceTicket ==
  ASSUME NEW d \in Decision, NEW u \in Decision, NEW t \in Statuses, d.status # "ABSENT",
         Sound(d), Unbooked(d), StageUpdate(d, u, t), Legal(d, u, t)
  PROVE  LET e == Advance(u, t) IN
         /\ TicketMove(PhaseOf(d.status), PhaseOf(e.status), Booked(d), Booked(e))
         /\ Unbooked(e)
<1> DEFINE e == Advance(u, t)
<1>1. /\ d.status \in Statuses /\ t \in AllowedTransitions(d.status)
      /\ e.status = t /\ e.exec = u.exec
      /\ StagePayloadOK(e, d)
  BY DEF Legal, Advance, Decision
<1>2. d.exec.buy \in Nat /\ d.exec.sell \in Nat /\ d.exec.requested \in Nat
  BY DEF Decision
<1>3. t \in ExecutionStatuses => e.exec.status = t
  BY <1>1 DEF StagePayloadOK, ExecutionStatuses
<1>4. Unbooked(e)
  BY <1>1, <1>3 DEF Unbooked, StageUpdate, ExecutionStatuses
<1> HIDE DEF e
<1>5. CASE t \notin ExecutionStatuses
  <2>1. Booked(e) = Booked(d)
    BY <1>1, <1>5 DEF Booked, StageUpdate
  <2>2. \/ PhaseOf(t) = PhaseOf(d.status)
        \/ PhaseOf(d.status) = "open" /\ PhaseOf(t) = "approved"
        \/ PhaseOf(d.status) \in {"open", "approved"} /\ PhaseOf(t) = "closed"
        \/ PhaseOf(d.status) \in {"closed", "working"} /\ PhaseOf(t) = "delivered"
        \/ PhaseOf(d.status) = "delivered" /\ PhaseOf(t) = "settled"
        \/ PhaseOf(d.status) = "settled" /\ PhaseOf(t) = "scored"
    BY <1>1, <1>5 DEF AllowedTransitions, Statuses, PhaseOf, ExecutionStatuses
  <2>3. QED
    BY <1>1, <1>4, <2>1, <2>2 DEF TicketMove, e
<1>6. CASE t = "SUBMITTED"
  <2>1. d.exec.status = "NONE"
    <3>1. Rank(d.status) = 1
      BY <1>1, <1>6, EdgeSources DEF Rank
    <3>2. ~Passed(d, "SUBMITTED")
      BY <3>1 DEF Sound, Climbed, Passed, Rank
    <3>3. QED
      BY <3>2 DEF Sound, RecordsMatchLog
  <2>2. Booked(d) = 0 /\ Booked(e) = 0
    BY <1>1, <1>2, <1>6, <2>1 DEF Unbooked, Booked, StageUpdate, VolumeChange, ExecutionStatuses
  <2>3. PhaseOf(d.status) = "approved" /\ PhaseOf(t) = "working"
    BY <1>1, <1>6, EdgeSources DEF PhaseOf
  <2>4. QED
    BY <1>1, <1>4, <2>2, <2>3 DEF TicketMove, e
<1>7. CASE t \in ExecutionStatuses \ {"SUBMITTED"}
  <2>1. Booked(e) >= Booked(d)
    BY <1>1, <1>2, <1>7 DEF Booked, StageUpdate, VolumeChange, ExecutionStatuses
  <2>2. PhaseOf(d.status) = "working" /\ PhaseOf(t) \in {"working", "closed"}
    BY <1>1, <1>7, EdgeSources DEF PhaseOf, ExecutionStatuses
  <2>3. QED
    BY <1>1, <1>4, <2>1, <2>2 DEF TicketMove, e
<1>8. QED
  BY <1>5, <1>6, <1>7

\* A move of one decision is a step of its ticket.
LEMMA MoveIsTicketStep ==
  ASSUME TicketInv, NEW x \in Ids, OneDecisionMoves(x)
  PROVE  /\ \/ Ticket!Next
            \/ UNCHANGED <<[id \in Ids |-> PhaseOf(decisions[id].status)],
                           [id \in Ids |-> decisions[id].exec.buy + decisions[id].exec.sell]>>
         /\ NothingBooked'
<1> DEFINE d == decisions[x]
<1>1. PICK t \in Statuses, u \in Decision :
        /\ StageUpdate(d, u, t)
        /\ Legal(d, u, t)
        /\ decisions' = [decisions EXCEPT ![x] = Advance(u, t)]
  BY DEF OneDecisionMoves
<1> DEFINE e == Advance(u, t)
           phase  == [id \in Ids |-> PhaseOf(decisions[id].status)]
           booked == [id \in Ids |-> decisions[id].exec.buy + decisions[id].exec.sell]
           p == PhaseOf(d.status)
           q == PhaseOf(e.status)
<1>2. d \in Decision /\ d.status # "ABSENT" /\ Sound(d) /\ Unbooked(d)
  BY DEF TicketInv, NothingBooked, StoreInv, TypeOK, OneDecisionMoves, Exists
<1>3. TicketMove(p, q, Booked(d), Booked(e)) /\ Unbooked(e)
  BY <1>1, <1>2, AdvanceTicket
<1>4. \A i \in Ids : decisions'[i] = IF i = x THEN e ELSE decisions[i]
  BY <1>1 DEF TicketInv, NothingBooked, StoreInv, TypeOK
<1>5. Booked(d) \in Nat
  <2>1. d.exec.buy \in Nat /\ d.exec.sell \in Nat
    BY <1>2 DEF Decision
  <2>2. QED
    BY <2>1 DEF Booked
<1> HIDE DEF d, e
<1>6. phase' = [phase EXCEPT ![x] = q] /\ booked' = [booked EXCEPT ![x] = Booked(e)]
  BY <1>4 DEF Booked
<1>7. phase[x] = p /\ booked[x] = Booked(d)
  BY DEF Booked, d
<1>8. NothingBooked'
  BY <1>3, <1>4 DEF TicketInv, NothingBooked
<1>9. phase = [phase EXCEPT ![x] = phase[x]] /\ booked = [booked EXCEPT ![x] = booked[x]]
  OBVIOUS
<1>10. booked'[x] = Booked(e)
  BY <1>6
<1> HIDE DEF phase, booked, p, q
<1>11. CASE Booked(e) = Booked(d)
  <2>1. booked' = booked
    BY <1>6, <1>7, <1>9, <1>11
  <2>2. CASE q = p
    <3>1. phase' = phase
      BY <1>6, <1>7, <1>9, <2>2
    <3>2. QED
      BY <1>8, <2>1, <3>1 DEF phase, booked
  <2>3. CASE p = "open" /\ q = "approved"
    <3>1. Ticket!Approve(x)
      BY <1>6, <1>7, <2>1, <2>3 DEF Ticket!Approve, Ticket!Move, phase, booked
    <3>2. QED
      BY <1>8, <3>1 DEF Ticket!Next
  <2>4. CASE p \in {"open", "approved"} /\ q = "closed"
    <3>1. Ticket!Decline(x)
      BY <1>6, <1>7, <2>1, <2>4 DEF Ticket!Decline, Ticket!Move, phase, booked
    <3>2. QED
      BY <1>8, <3>1 DEF Ticket!Next
  <2>5. CASE p = "approved" /\ q = "working" /\ Booked(d) = 0
    <3>1. Ticket!Place(x)
      BY <1>6, <1>7, <2>1, <2>5 DEF Ticket!Place, Ticket!Move, phase, booked
    <3>2. QED
      BY <1>8, <3>1 DEF Ticket!Next
  <2>6. CASE p \in {"closed", "working"} /\ q = "delivered"
    <3>1. Ticket!Deliver(x)
      BY <1>6, <1>7, <2>1, <2>6 DEF Ticket!Deliver, Ticket!Move, phase, booked
    <3>2. QED
      BY <1>8, <3>1 DEF Ticket!Next
  <2>7. CASE p = "delivered" /\ q = "settled"
    <3>1. Ticket!Settle(x)
      BY <1>6, <1>7, <2>1, <2>7 DEF Ticket!Settle, Ticket!Move, phase, booked
    <3>2. QED
      BY <1>8, <3>1 DEF Ticket!Next
  <2>8. CASE p = "settled" /\ q = "scored"
    <3>1. Ticket!Score(x)
      BY <1>6, <1>7, <2>1, <2>8 DEF Ticket!Score, Ticket!Move, phase, booked
    <3>2. QED
      BY <1>8, <3>1 DEF Ticket!Next
  <2>9. CASE p = "working" /\ q \in {"working", "closed"}
    <3>1. booked'[x] >= booked[x]
      BY <1>7, <1>10, <1>11, <1>5
    <3>2. booked' = [booked EXCEPT ![x] = booked'[x]]
      BY <1>6, <1>10
    <3>3. /\ phase[x] = "working"
          /\ \E to \in {"working", "closed"} : phase' = [phase EXCEPT ![x] = to]
      BY <1>6, <1>7, <2>9
    <3>4. Ticket!Book(x)
      BY <3>1, <3>2, <3>3, Zenon DEF Ticket!Book, phase, booked
    <3>5. QED
      BY <1>8, <3>4 DEF Ticket!Next
  <2>10. QED
    BY <1>3, <1>11, <2>2, <2>3, <2>4, <2>5, <2>6, <2>7, <2>8, <2>9 DEF TicketMove, p, q
<1>12. CASE Booked(e) # Booked(d)
  <2>1. p = "working" /\ q \in {"working", "closed"} /\ Booked(e) >= Booked(d)
    BY <1>3, <1>12 DEF TicketMove, p, q
  <2>2. /\ phase[x] = "working"
        /\ booked'[x] >= booked[x]
        /\ booked' = [booked EXCEPT ![x] = booked'[x]]
        /\ \E to \in {"working", "closed"} : phase' = [phase EXCEPT ![x] = to]
    BY <1>6, <1>7, <1>10, <2>1
  <2>3. Ticket!Book(x)
    BY <2>2, Zenon DEF Ticket!Book, phase, booked
  <2>4. QED
    BY <1>8, <2>3 DEF Ticket!Next
<1>13. QED
  BY <1>11, <1>12

\* A step of the store that proposes opens the tickets of the new decisions.
LEMMA ConstructIsTicketStep ==
  ASSUME TicketInv, NEW S \in SUBSET Ids,
         \A i \in Ids : IF i \in S
                        THEN /\ decisions[i].status = "ABSENT"
                             /\ \E gate, rec, b : decisions'[i] = Proposed(gate, rec, b)
                        ELSE decisions'[i] = decisions[i]
  PROVE  Ticket!Next /\ NothingBooked'
<1> DEFINE phase  == [id \in Ids |-> PhaseOf(decisions[id].status)]
           booked == [id \in Ids |-> decisions[id].exec.buy + decisions[id].exec.sell]
<1>1. ASSUME NEW i \in S
      PROVE  /\ decisions[i].exec.buy = 0 /\ decisions[i].exec.sell = 0
             /\ PhaseOf(decisions[i].status) = "none"
  <2>1. decisions[i].status = "ABSENT" /\ decisions[i] \in Decision /\ Unbooked(decisions[i])
        /\ Sound(decisions[i])
    BY DEF TicketInv, NothingBooked, StoreInv, TypeOK
  <2>2. decisions[i].exec.status = "NONE"
    BY <2>1, AbsentIsUntouched
  <2>3. QED
    BY <2>1, <2>2 DEF Unbooked, NothingBooked, PhaseOf
<1>2. ASSUME NEW i \in S
      PROVE  /\ PhaseOf(decisions'[i].status) = "open"
             /\ decisions'[i].exec = NoExecution
  <2>1. PICK gate, rec, b : decisions'[i] = Proposed(gate, rec, b)
    BY <1>2
  <2>2. Proposed(gate, rec, b).status = "PROPOSED" /\ Proposed(gate, rec, b).exec = NoExecution
    BY DEF Proposed, NoDecision
  <2>3. QED
    BY <2>1, <2>2 DEF PhaseOf
<1>3. NothingBooked'
  BY <1>2 DEF TicketInv, NothingBooked, Unbooked, NoExecution
<1>4. booked' = booked
  BY <1>1, <1>2 DEF NoExecution
<1>5. phase' = [i \in Ids |-> IF i \in S THEN "open" ELSE phase[i]]
  BY <1>2
<1>6. \A i \in S : phase[i] = "none"
  BY <1>1
<1> HIDE DEF phase, booked
<1>7. Ticket!Open(S)
  BY <1>4, <1>5, <1>6, Zenon DEF Ticket!Open, phase, booked
<1>8. QED
  BY <1>3, <1>7 DEF Ticket!Next

\* Every step of the store is a step of its tickets, or none.
LEMMA NextIsTicketStep ==
  ASSUME TicketInv, [Next]_vars
  PROVE  /\ \/ Ticket!Next
            \/ UNCHANGED <<[id \in Ids |-> PhaseOf(decisions[id].status)],
                           [id \in Ids |-> decisions[id].exec.buy + decisions[id].exec.sell]>>
         /\ NothingBooked'
<1>1. ASSUME NEW id \in Ids, NEW gate \in Gates, NEW rec \in Orders, Create(id, gate, rec)
      PROVE  Ticket!Next /\ NothingBooked'
  <2>1. \A i \in Ids : IF i \in {id}
                       THEN /\ decisions[i].status = "ABSENT"
                            /\ \E x, y, b : decisions'[i] = Proposed(x, y, b)
                       ELSE decisions'[i] = decisions[i]
    BY <1>1 DEF Create, Exists, TicketInv, StoreInv, TypeOK
  <2>2. QED
    BY <2>1, ConstructIsTicketStep
<1>2. ASSUME NEW b \in BatchIds, NEW ids \in FreshSequences, NEW gates, NEW recs,
             CreateBatch(b, ids, gates, recs)
      PROVE  Ticket!Next /\ NothingBooked'
  <2> DEFINE S == {i \in Ids : \E k \in DOMAIN ids : ids[k] = i}
  <2>1. \A i \in Ids : IF i \in S
                       THEN /\ decisions[i].status = "ABSENT"
                            /\ \E x, y, c : decisions'[i] = Proposed(x, y, c)
                       ELSE decisions'[i] = decisions[i]
    BY <1>2 DEF CreateBatch, Exists
  <2>2. QED
    BY <2>1, ConstructIsTicketStep
<1>3. ASSUME NEW id \in Ids, TraderStep(id) \/ ExecutionStep(id) \/ OutcomeStep(id)
      PROVE  OneDecisionMoves(id)
  BY <1>3, TraderStepMoves, ExecutionStepMoves, OutcomeStepMoves DEF TicketInv, StoreInv
<1>4. CASE Clear
  <2>1. \A i \in Ids : decisions'[i] = NoDecision
    BY <1>4 DEF Clear
  <2>2. /\ NoDecision.status = "ABSENT"
        /\ NoDecision.exec.status = "NONE"
        /\ NoDecision.exec.buy = 0 /\ NoDecision.exec.sell = 0
    BY DEF NoDecision, NoExecution
  <2>3. Ticket!Forget
    BY <2>1, <2>2 DEF Ticket!Forget, PhaseOf
  <2>4. QED
    BY <2>1, <2>2, <2>3 DEF Ticket!Next, Unbooked, NothingBooked
<1>5. CASE Tick \/ UNCHANGED vars
  BY <1>5 DEF Tick, vars, TicketInv, NothingBooked
<1>6. QED
  BY <1>1, <1>2, <1>3, <1>4, <1>5, MoveIsTicketStep DEF Next, Construct

\* The store implements TradeTicket: whatever a client sends, each decision goes once through
\* the market, what is booked only grows while it is there, and after it comes delivery,
\* settlement and the score, in that order.
THEOREM TicketRefined == Spec => TicketSpec
<1>1. Init => Ticket!Init /\ NothingBooked
  <2> SUFFICES ASSUME Init PROVE Ticket!Init /\ NothingBooked
    OBVIOUS
  <2>1. \A i \in Ids : decisions[i] = NoDecision
    BY DEF Init
  <2>2. /\ NoDecision.status = "ABSENT"
        /\ NoDecision.exec.status = "NONE"
        /\ NoDecision.exec.buy = 0 /\ NoDecision.exec.sell = 0
    BY DEF NoDecision, NoExecution
  <2>3. QED
    BY <2>1, <2>2 DEF Ticket!Init, Unbooked, NothingBooked, PhaseOf
<1>2. TicketInv /\ [Next]_vars =>
        /\ [Ticket!Next]_<<[id \in Ids |-> PhaseOf(decisions[id].status)],
                           [id \in Ids |-> decisions[id].exec.buy + decisions[id].exec.sell]>>
        /\ NothingBooked'
  BY NextIsTicketStep
<1>3. QED
  BY <1>1, <1>2, StoreInvariant, PTL DEF Spec, TicketSpec, Ticket!Spec, TicketInv
================================================================================
